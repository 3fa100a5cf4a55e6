------------------------------- MODULE Audit -------------------------------
(***************************************************************************)
(* The audit service (internal/services), the HTTP handlers in front of it *)
(* and one auditor, while segments go on being sealed, the persister       *)
(* rewrites the tables (HMFPersistence) and checkpoints are published.     *)
(*                                                                         *)
(* The auditor asks for the positions of logs, then for a proof of some of *)
(* them and, when a log is not what the proof says, for the place where it *)
(* differs.  A request pins the current checkpoint, reads rows one query   *)
(* after the other, verifies what it has read against the pinned root and  *)
(* confirms that the checkpoint is still the current one.                  *)
(*                                                                         *)
(* Checkpoints are seen as CheckpointLedger has them, ALL as the property  *)
(* QueriesAreExact of Locator has it.  Answers carry the HTTP status.      *)
(***************************************************************************)
EXTENDS HMFPersistence, Localization

CONSTANTS MaxCheckpoints,  \* bound: published checkpoints
          MaxRequested,    \* bound: addresses in one request
          NoSnapshot,
          NoProof

ASSUME AuditAssumption == {MaxCheckpoints, MaxRequested} \subseteq Nat \ {0}

VARIABLES snapshot,  \* what Finalize has read of the forest and not yet published
          ledger,    \* the published checkpoints
          auditor,   \* what the auditor holds, and the last answer
          request,   \* the request being served
          luck       \* ghost: what came in the way of the request, read after a 500:
                     \* "quiet" nothing, "progress" the tables do not hold the
                     \* checkpoint or were written, "fault" a query failed

auditVars == <<vars, snapshot, ledger, auditor, request, luck>>

\* What a request has read: rows, nodes; and what it has still to read.
NoRows == [count |-> <<>>, index |-> <<>>, sealed |-> {}]
Idle == [pc |-> "idle", op |-> "none", sequence |-> 0, addresses |-> {}, failed |-> NoProof,
         queries |-> {}, rows |-> NoRows, nodes |-> {}, proof |-> NoProof]
NewAuditor == [sequence |-> 0, addresses |-> {}, proof |-> NoProof,
               op |-> "none", status |-> 0, submitted |-> NoProof, localization |-> NoProof]

AuditInit ==
    /\ Init
    /\ snapshot = NoSnapshot
    /\ ledger = <<>>
    /\ auditor = NewAuditor
    /\ request = Idle
    /\ luck = "quiet"

-----------------------------------------------------------------------------
(* Writers *)

SealedAddresses == UNION {{<<sh[1], sh[2], i, 0>> : i \in 0..(forest.shard[sh].count - 1)} : sh \in Shards}

\* A step of HMFPersistence; a write to the tables may disturb a request.
WriterStep ==
    /\ Next
    /\ luck' = IF request # Idle /\ luck = "quiet" /\ tables' # tables THEN "progress" ELSE luck
    /\ UNCHANGED <<snapshot, ledger, auditor, request>>

\* Finalize reads the coordinated working roots of the forest and of ALL.
TakeSnapshot ==
    /\ snapshot = NoSnapshot /\ Len(ledger) < MaxCheckpoints
    /\ SealedAddresses # {}
    /\ snapshot' = [root |-> CommitGlobalRoot(forest.global), located |-> SealedAddresses]
    /\ UNCHANGED <<vars, ledger, auditor, request, luck>>

\* The checkpoint becomes the current one.
Publish ==
    /\ snapshot # NoSnapshot
    /\ ledger' = Append(ledger, snapshot)
    /\ snapshot' = NoSnapshot
    /\ UNCHANGED <<vars, auditor, request, luck>>

-----------------------------------------------------------------------------
(* The start and the end of a request *)

Pinned == ledger[request.sequence]

\* The answer, and what the auditor keeps of it.
Answer(status, kept) ==
    /\ auditor' = [kept EXCEPT !.status = status, !.op = request.op, !.submitted = request.failed]
    /\ request' = Idle
    /\ UNCHANGED <<vars, snapshot, ledger>>

\* An answer without a result; handleServiceError.
Refuse(status) == Answer(status, auditor) /\ UNCHANGED luck

\* The tables hold exactly the state of a checkpoint: no update is on its way, and
\* none has been overtaken and left older rows or nodes behind.
TablesHold(root) ==
    LET Agree(table, levels) == \A k \in DOMAIN table : table[k] = levels[k[1] + 1][k[2] + 1]
    IN /\ Drained
       /\ CommitGlobalRoot(forest.global) = root
       /\ \A sh \in Shards : tables.shardState[sh].leaves = forest.shard[sh].count
       /\ \A r \in Regions : Agree(tables.regionNodes[r], forest.region[r])
       /\ Agree(tables.globalNodes, forest.global)

\* The start of an operation, asked for the checkpoint sequence: checkpoints.Current
\* fails (500), there is no checkpoint (503), it is another one (409), or the
\* operation pins it and goes on as next.
Start(op, sequence, next) ==
    /\ request = Idle
    /\ \/ \E status \in {500} \cup {s \in {503} : ledger = <<>>}
                              \cup {s \in {409} : ledger # <<>> /\ sequence # Len(ledger)} :
             /\ auditor' = [auditor EXCEPT !.op = op, !.status = status, !.submitted = NoProof,
                                           !.localization = NoProof]
             /\ luck' = "fault"
             /\ UNCHANGED request
       \/ /\ ledger # <<>> /\ sequence = Len(ledger)
          /\ auditor' = [auditor EXCEPT !.op = op, !.status = 0, !.submitted = NoProof, !.localization = NoProof]
          /\ luck' = IF TablesHold(Last(ledger).root) THEN "quiet" ELSE "progress"
          /\ request' = [next EXCEPT !.op = op, !.sequence = sequence]
    /\ UNCHANGED <<vars, snapshot, ledger>>

\* The queries of LoadHierarchyMetadata: one per shard for its segments, and one for
\* the tree states.  The rows of the states are in several partitions; those of
\* regions and of the global tree say the same from their first write on.
MetadataQueries(addresses) ==
    LET trees == TreesAbove(addresses)
    IN {{t \in trees : t[1] = Segment /\ ParentTree(t) = s} : s \in {u \in trees : u[1] = Shard}}
         \cup {{t \in trees : t[1] # Segment}}

\* The queries of FetchProofNodes: one per partition.
NodeQueries(trees) ==
    LET requests == BuildRequests(trees)
    IN {{q \in requests : q.partition = p} : p \in {q.partition : q \in requests}}

\* The leaves that ReferenceFromProof reads.
LeafTrees(failed) == {[p EXCEPT !.required = {}] : p \in {q \in failed.plan.trees : q.tree[1] = Segment}}

\* ResolveLocator takes whatever checkpoint is current; an error of the range query is
\* a failed query.
ResolveLocator == Start("locator", Len(ledger), [Idle EXCEPT !.pc = "confirm"])

BuildHMFProof(sequence, addresses) ==
    Start("proof", sequence,
          [Idle EXCEPT !.pc = "metadata", !.addresses = addresses, !.queries = MetadataQueries(addresses)])

LocalizeTamper(sequence, failed) ==
    Start("localize", sequence,
          [Idle EXCEPT !.pc = "trace", !.addresses = failed.plan.addresses, !.failed = failed])

\* A handler refuses the request before it calls the service.
BadRequest(op) ==
    /\ request = Idle
    /\ auditor' = [auditor EXCEPT !.op = op, !.status = 400, !.submitted = NoProof, !.localization = NoProof]
    /\ UNCHANGED <<vars, snapshot, ledger, request, luck>>

\* POST locator-proof; the bounds of the query may be invalid.
LocatorProof == ResolveLocator \/ BadRequest("locator")

\* POST hmf-proof, for addresses that the auditor has authenticated.
HmfProof ==
    \E addresses \in UNION {kSubset(n, auditor.addresses) : n \in 0..MaxRequested} :
        IF auditor.sequence <= 0 \/ addresses = {} THEN BadRequest("proof")
        ELSE BuildHMFProof(auditor.sequence, addresses)

\* POST localize, for the proof that the auditor holds, in which a digest of its own or
\* a node differs; k may be left out.
LocalizeProof ==
    /\ auditor.proof # NoProof
    /\ \E changed \in {{}} \cup {{ref} : ref \in Refs(auditor.proof)}, k \in {0, 1, JumpLevels} :
          IF k \notin {0, JumpLevels} THEN BadRequest("localize")
          ELSE LocalizeTamper(auditor.sequence, WithHashes(auditor.proof, [ref \in changed |-> Foreign]))

\* Localize: ErrNoMismatch (422) when the proof did not fail.
TraceFailed ==
    /\ request.pc = "trace"
    /\ IF Verified(request.failed, request.addresses, Pinned.root) THEN Refuse(422)
       ELSE /\ request' = [request EXCEPT !.pc = "leaves",
                                          !.queries = NodeQueries(LeafTrees(request.failed))]
            /\ UNCHANGED <<vars, snapshot, ledger, auditor, luck>>

\* The result of Localize.
Localized ==
    LET Trace(p) == CHOOSE t \in TraceHMFProof(p, request.addresses) : TRUE
    IN [failed |-> request.failed, reference |-> request.proof,
        result |-> Analyze(request.addresses, request.failed, request.proof,
                           Trace(request.failed), Trace(request.proof))]

\* Mutant: the checkpoint is not read again.
EnsureNothing == TRUE

\* ensureStillCurrent
EnsureStillCurrent == request.sequence = Len(ledger)

\* The end of an operation.
Confirm ==
    /\ request.pc = "confirm"
    /\ IF ~EnsureStillCurrent THEN Refuse(409)
       ELSE /\ UNCHANGED luck
            /\ Answer(200, CASE request.op = "locator" ->
                               [NewAuditor EXCEPT !.sequence = request.sequence,
                                                  !.addresses = Pinned.located]
                  [] request.op = "proof" -> [auditor EXCEPT !.proof = request.proof]
                  [] request.op = "localize" -> [auditor EXCEPT !.localization = Localized])

-----------------------------------------------------------------------------
(* Reading *)

\* What the tables hold, as a store of HPP; segments have one leaf.
Store ==
    LET segments == UNION {{<<Segment, sh[1], sh[2], k[1]>> : k \in DOMAIN tables.segments[sh]} : sh \in Shards}
        shards == {<<Shard, sh[1], sh[2], 0>> : sh \in {x \in Shards : tables.shardState[x].leaves > 0}}
        regions == {<<Region, r, 0, 0>> : r \in {x \in Regions : tables.regionState[x] # ZeroHash}}
        global == IF tables.globalState = ZeroHash THEN {} ELSE {GlobalTreeRef}
        Key(t) == CHOOSE k \in DOMAIN tables.segments[<<t[2], t[3]>>] : k[1] = t[4]
    IN [sealed |-> segments,
        count |-> [t \in segments \cup shards \cup regions \cup global |->
            CASE t[1] = Segment -> 1
              [] t[1] = Shard -> tables.shardState[<<t[2], t[3]>>].leaves
              [] t[1] = Region -> NumShards
              [] t[1] = Global -> NumRegions],
        index |-> [t \in segments \cup shards \cup regions \cup global |->
            CASE t[1] = Segment -> Key(t)[2] [] t[1] = Shard -> t[3] [] t[1] = Region -> t[2] [] OTHER -> 0],
        nodes |-> [t \in {<<Segment, s[1][1], s[1][2], s[2]>> : s \in tables.segmentNodes}
                           \cup {<<Shard, sh[1], sh[2], 0>> : sh \in Shards}
                           \cup {<<Region, r, 0, 0>> : r \in Regions} \cup {GlobalTreeRef} |->
            CASE t[1] = Segment -> [k \in {<<0, 0>>} |-> Digests(<<t[2], t[3]>>, t[4], 1)[1]]
              [] t[1] = Shard -> tables.shardNodes[<<t[2], t[3]>>]
              [] t[1] = Region -> tables.regionNodes[t[2]]
              [] t[1] = Global -> tables.globalNodes]]

Only(f, S) == [x \in S \cap DOMAIN f |-> f[x]]

Read(next) == request' = next /\ UNCHANGED <<vars, snapshot, ledger, auditor, luck>>

\* readSegments, readTreeStates: the rows that are there.
ReadMetadata ==
    /\ request.pc = "metadata"
    /\ \E q \in request.queries :
          LET store == Store
          IN Read([request EXCEPT !.queries = @ \ {q},
                      !.rows = [count |-> Only(store.count, q) @@ @.count,
                                index |-> Only(store.index, q) @@ @.index,
                                sealed |-> (store.sealed \cap q) \cup @.sealed]])

\* The end of LoadHierarchyMetadata and Plan: an error when a row is missing or the
\* rows make no plan.  proof holds the plan until the nodes are read.
PlanProof ==
    /\ request.pc = "metadata" /\ request.queries = {}
    /\ LET plans == Plan(request.addresses, request.rows)
       IN IF plans = {} THEN Refuse(500)
          ELSE \E plan \in plans :
                  Read([request EXCEPT !.pc = "nodes", !.queries = NodeQueries(plan.trees),
                                       !.rows = NoRows, !.proof = plan])

\* authenticatedReference goes on with a complete build.
FallenBack == [request EXCEPT !.pc = "metadata", !.nodes = {},
                              !.queries = MetadataQueries(request.addresses)]
FallBack == Read(FallenBack)

\* fetchPartition: an error when a node is missing.
FetchPartition ==
    /\ request.pc \in {"leaves", "nodes"}
    /\ \E q \in request.queries :
          LET found == FetchProofNodes(Store, q)
          IN IF found # {}
             THEN Read([request EXCEPT !.queries = @ \ {q}, !.nodes = @ \cup UNION found])
             ELSE IF request.pc = "leaves" THEN FallBack ELSE Refuse(500)

\* Mutant: the reference is always built from the tables.
CheckReferenceRebuilds == request.pc = "leaves" /\ request.queries = {} /\ FallBack

\* The end of ReferenceFromProof.
CheckReference ==
    /\ request.pc = "leaves" /\ request.queries = {}
    /\ LET failed == request.failed
           reference == [SplitTargetLeaves(failed.plan, request.nodes) EXCEPT !.nodes = failed.nodes]
       IN IF Verified(reference, request.addresses, Pinned.root)
          THEN Read([request EXCEPT !.pc = "confirm", !.nodes = {}, !.proof = reference])
          ELSE FallBack

\* Mutant: the calculated root is not compared.
MatchTrustedRootAlways(proof) == TraceHMFProof(proof, request.addresses) # {}

\* VerifyHMFProof and matchTrustedRoot
MatchTrustedRoot(proof) == Verified(proof, request.addresses, Pinned.root)

\* The end of BuildAndVerify.
CheckProof ==
    /\ request.pc = "nodes" /\ request.queries = {}
    /\ LET proof == SplitTargetLeaves(request.proof, request.nodes)
       IN IF MatchTrustedRoot(proof)
          THEN Read([request EXCEPT !.pc = "confirm", !.nodes = {}, !.proof = proof])
          ELSE Refuse(500)

\* A query fails, or runs out of time (504, not told apart here).  A failed read of
\* stored leaves only makes the localization fall back.
QueryFails ==
    /\ request.pc \in {"metadata", "nodes", "confirm"}
    /\ Answer(500, auditor)
    /\ luck' = "fault"

LeafQueryFails ==
    /\ request.pc = "leaves"
    /\ request' = FallenBack
    /\ luck' = "fault"
    /\ UNCHANGED <<vars, snapshot, ledger, auditor>>

AuditNext ==
    \/ WriterStep
    \/ TakeSnapshot
    \/ Publish
    \/ LocatorProof
    \/ HmfProof
    \/ LocalizeProof
    \/ TraceFailed
    \/ ReadMetadata
    \/ PlanProof
    \/ FetchPartition
    \/ CheckReference
    \/ CheckProof
    \/ Confirm
    \/ QueryFails
    \/ LeafQueryFails

AuditSpec == AuditInit /\ [][AuditNext]_auditVars

-----------------------------------------------------------------------------
\* A proof the auditor holds leads from addresses of the checkpoint it was asked for to
\* the root of that checkpoint.
ProofsLeadToRoot ==
    auditor.proof # NoProof =>
        LET addresses == auditor.proof.plan.addresses
        IN /\ addresses \subseteq ledger[auditor.sequence].located
           /\ Verified(auditor.proof, addresses, ledger[auditor.sequence].root)

\* A localization the auditor is given passes VerifyProof: its reference leads to the root
\* of the checkpoint, and comparing it again with the failed proof gives the same result.
LocalizationsReplay ==
    auditor.localization # NoProof =>
        VerifyProof(auditor.localization, auditor.localization.failed.plan.addresses,
                    ledger[auditor.sequence].root)

\* The leaves are the digests of the logs at the addresses.
CarriesDigests(proof) ==
    proof.leaves = {<<a, <<<<a[1], a[2]>>, a[3], a[4] + 1>>>> : a \in proof.plan.addresses}

\* audit.go:141, "verifies R_G' before returning the self-contained HMF proof": a
\* proof the auditor holds leads to the root of the checkpoint it was asked for and
\* carries the digests of the logs located there, although its rows and nodes were
\* read one after the other while updates were rewriting them.
ProofsBelongToCheckpoint ==
    /\ ProofsLeadToRoot
    /\ auditor.proof # NoProof => CarriesDigests(auditor.proof)

\* audit.go:168: whatever the auditor is told was true of the checkpoint that is
\* current at the moment of the answer, and a proof and the addresses in it are of
\* the same checkpoint.
AnswersAreCurrent ==
    [][request # Idle /\ request' = Idle /\ auditor'.status = 200 =>
          auditor'.sequence = Len(ledger) /\ auditor'.addresses = Last(ledger).located]_auditVars

\* A request for located logs fails only because of a failed query or because the
\* tables do not hold the checkpoint (yet, or no longer): when all updates up to the
\* checkpoint are written and nothing is written meanwhile, there is a proof.
QuietAuditSucceeds == auditor.status = 500 => luck # "quiet"

\* service.go:27, "normally only the stored requested leaves are read again": the
\* localization of a proof the auditor holds blames exactly what was changed in it, and
\* a changed leaf is found although the tables have moved on from the checkpoint.
LocalizationSurvivesProgress ==
    /\ auditor.op = "localize" /\ auditor.status = 500 /\ luck # "fault" =>
          luck = "progress" /\ auditor.submitted.nodes # auditor.proof.nodes
    /\ auditor.localization # NoProof =>
          LET failed == auditor.localization.failed
              result == auditor.localization.result
          IN /\ result.leafSuspects = {TargetRef(l[1]) : l \in failed.leaves \ auditor.proof.leaves}
             /\ result.nodeSuspects = {<<n[1], n[2]>> : n \in failed.nodes \ auditor.proof.nodes}
             /\ result.topology = {}
    /\ LocalizationsReplay

(* The inductive invariant of AuditProofs, in parts *)

IsProof(p) == DOMAIN p = {"plan", "leaves", "nodes"}

\* What the auditor holds is all of one published checkpoint.
AuditorInv ==
    /\ DOMAIN auditor = DOMAIN NewAuditor
    /\ auditor.sequence \in 0..Len(ledger)
    /\ auditor.sequence = 0 => auditor.proof = NoProof /\ auditor.localization = NoProof
    /\ auditor.sequence > 0 => auditor.addresses = ledger[auditor.sequence].located
    /\ auditor.proof # NoProof => IsProof(auditor.proof)
    /\ ProofsLeadToRoot
    /\ LocalizationsReplay

\* A request is for a published checkpoint and, but for that of the locator, for the one
\* the auditor holds; when it comes to its end, what it returns is verified.
RequestInv ==
    /\ DOMAIN request = DOMAIN Idle
    /\ request.pc = "idle" => request = Idle
    /\ request # Idle =>
          /\ request.sequence \in 1..Len(ledger)
          /\ request.op \in {"locator", "proof", "localize"}
          /\ request.op = "locator" => request.pc = "confirm"
          /\ request.op # "locator" => request.sequence = auditor.sequence
          /\ request.op # "locator" /\ request.pc = "confirm" =>
                IsProof(request.proof) /\ Verified(request.proof, request.addresses, Pinned.root)
    /\ request.op = "proof" => request.addresses \subseteq auditor.addresses
    /\ request.op = "localize" =>
          /\ request.addresses = request.failed.plan.addresses
          /\ WellFormed(request.failed, request.addresses)
          /\ request.pc # "trace" => ~Verified(request.failed, request.addresses, Pinned.root)

\* A proof that is being built is planned from the trees of all its addresses; when it
\* comes to its end, it carries the digests of its addresses.
DigestsInv ==
    /\ auditor.proof # NoProof => CarriesDigests(auditor.proof)
    /\ request.op = "proof" =>
          /\ request.pc \in {"metadata", "nodes", "confirm"}
          /\ request.pc = "nodes" =>
                \A a \in request.addresses : SegmentTreeRef(a) \in {p.tree : p \in request.proof.trees}
          /\ request.pc = "confirm" => CarriesDigests(request.proof)

AuditInv == ledger \in Seq(Range(ledger)) /\ AuditorInv /\ RequestInv
=============================================================================
