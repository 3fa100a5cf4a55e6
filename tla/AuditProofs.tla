---------------------------- MODULE AuditProofs ----------------------------
(***************************************************************************)
(* Proofs about Audit, for any number of shards, segments, checkpoints and *)
(* addresses in a request, whatever the tables hold when a request reads   *)
(* them.  Of the verifier two things are used: a proof that Verified       *)
(* accepts is for the addresses it was given and leads to the root it was  *)
(* given, and (VerifiedLeaves of HPPProofs) it then carries the digests    *)
(* that are sealed under that root.                                        *)
(***************************************************************************)
EXTENDS Audit, HPPProofs, SequenceTheorems, TLAPS

\* A proof that is accepted is well-formed, for the addresses of its plan.
LEMMA VerifiedForm ==
    ASSUME NEW p, NEW addresses, NEW root, Verified(p, addresses, root)
    PROVE  WellFormed(p, addresses) /\ addresses = p.plan.addresses /\ GlobalRoot(HMFTrace(p)) = root
  <1>1. PICK t \in TraceHMFProof(p, addresses) : GlobalRoot(t) = root
    BY DEF Verified
  <1>2. WellFormed(p, addresses) /\ t = HMFTrace(p)
    BY DEF TraceHMFProof
  <1> QED
    BY <1>1, <1>2 DEF WellFormed, ValidProofLeaves

\* Other hashes do not change the form of a proof.
LEMMA WithHashesForm ==
    ASSUME NEW p, IsProof(p), NEW addresses, WellFormed(p, addresses), NEW h
    PROVE  /\ WellFormed(WithHashes(p, h), addresses)
           /\ WithHashes(p, h).plan = p.plan
  <1> DEFINE New(ref, old) == IF ref \in DOMAIN h THEN h[ref] ELSE old
             Leaf(l) == <<l[1], New(TargetRef(l[1]), l[2])>>
             NewNode(n) == <<n[1], n[2], New(<<n[1], n[2]>>, n[3])>>
             q == WithHashes(p, h)
  <1>1. /\ q.plan = p.plan
        /\ q.leaves = {Leaf(l) : l \in p.leaves}
        /\ q.nodes = {NewNode(n) : n \in p.nodes}
    BY DEF WithHashes, IsProof
  <1>2. /\ \A l : Leaf(l)[1] = l[1]
        /\ \A n : NewNode(n)[1] = n[1] /\ NewNode(n)[2] = n[2]
    OBVIOUS
  <1> HIDE DEF q, Leaf, NewNode
  <1>3. {l[1] : l \in q.leaves} = {l[1] : l \in p.leaves}
    BY <1>1, <1>2
  <1>4. ValidProofLeaves(q, addresses)
    <2>1. ASSUME NEW l \in q.leaves, NEW k \in q.leaves, l[1] = k[1] PROVE l = k
      <3>1. PICK a \in p.leaves : l = Leaf(a)
        BY <1>1
      <3>2. PICK b \in p.leaves : k = Leaf(b)
        BY <1>1
      <3>3. a[1] = b[1]
        BY <1>2, <2>1, <3>1, <3>2
      <3>4. a = b
        BY <3>3 DEF WellFormed, ValidProofLeaves
      <3> QED
        BY <3>1, <3>2, <3>4
    <2> QED
      BY <1>1, <1>3, <2>1 DEF WellFormed, ValidProofLeaves
  <1>5. ValidPlansAndNodes(q)
    <2>1. ASSUME NEW n \in q.nodes, NEW k \in q.nodes, <<n[1], n[2]>> = <<k[1], k[2]>> PROVE n = k
      <3>1. PICK a \in p.nodes : n = NewNode(a)
        BY <1>1
      <3>2. PICK b \in p.nodes : k = NewNode(b)
        BY <1>1
      <3>3. <<a[1], a[2]>> = <<b[1], b[2]>>
        BY <1>2, <2>1, <3>1, <3>2
      <3>4. a = b
        BY <3>3 DEF WellFormed, ValidPlansAndNodes
      <3> QED
        BY <3>1, <3>2, <3>4
    <2>2. {<<n[1], n[2]>> : n \in q.nodes} = {<<n[1], n[2]>> : n \in p.nodes}
      BY <1>1, <1>2
    <2> QED
      BY <1>1, <2>1, <2>2 DEF WellFormed, ValidPlansAndNodes
  <1>6. ValidLinks(q)
    BY <1>1 DEF WellFormed, ValidLinks
  <1>7. ValidTargets(q)
    <2> DEFINE At(leaves, t) == {l[1][4] : l \in {k \in leaves : SegmentTreeRef(k[1]) = t}}
    <2>1. ASSUME NEW t PROVE At(q.leaves, t) = At(p.leaves, t)
      BY <1>1, <1>2
    <2> QED
      BY <1>1, <2>1, Zenon DEF WellFormed, ValidTargets
  <1> QED
    BY <1>1, <1>4, <1>5, <1>6, <1>7 DEF WellFormed, q

-----------------------------------------------------------------------------
\* Nothing is held and nothing asked for before the first answer.
LEMMA AuditInitInd == AuditInit => AuditInv
  <1> SUFFICES ASSUME AuditInit PROVE AuditInv
    OBVIOUS
  <1>1. ledger \in Seq(Range(ledger)) /\ Len(ledger) = 0
    BY DEF AuditInit, Range
  <1>2. AuditorInv
    BY <1>1 DEF AuditInit, AuditorInv, NewAuditor, ProofsLeadToRoot, LocalizationsReplay
  <1>3. RequestInv
    BY DEF AuditInit, RequestInv, Idle
  <1> QED
    BY <1>1, <1>2, <1>3 DEF AuditInv

\* While the auditor keeps what it holds, and the ledger what it has, AuditorInv stays.
LEMMA AuditorKeeps ==
    ASSUME AuditInv, UNCHANGED ledger, DOMAIN auditor' = DOMAIN NewAuditor,
           auditor'.sequence = auditor.sequence, auditor'.addresses = auditor.addresses,
           auditor'.proof = auditor.proof, auditor'.localization \in {auditor.localization, NoProof}
    PROVE  AuditorInv'
  <1>1. ProofsLeadToRoot'
    BY DEF AuditInv, AuditorInv, ProofsLeadToRoot
  <1>2. LocalizationsReplay'
    BY DEF AuditInv, AuditorInv, LocalizationsReplay
  <1> QED
    BY <1>1, <1>2 DEF AuditInv, AuditorInv

\* A step of a request that goes on: it stays for its checkpoint and its addresses, and
\* comes to its end only with a verified proof.
LEMMA ReadKeeps ==
    ASSUME AuditInv, UNCHANGED <<ledger, auditor>>, request # Idle, request.pc # "confirm",
           DOMAIN request' = DOMAIN Idle, request'.pc \notin {"idle", "trace"},
           request'.op = request.op, request'.sequence = request.sequence,
           request'.addresses = request.addresses, request'.failed = request.failed,
           request.pc = "trace" => ~Verified(request.failed, request.addresses, Pinned.root),
           request'.pc = "confirm" => /\ IsProof(request'.proof)
                                      /\ Verified(request'.proof, request.addresses, Pinned.root)
    PROVE  AuditInv' /\ request' # Idle
  <1>1. AuditorInv'
    BY AuditorKeeps DEF AuditInv, AuditorInv
  <1>2. request' # Idle
    BY DEF Idle
  <1>3. Pinned' = Pinned
    BY DEF Pinned
  <1>4. RequestInv'
    BY <1>2, <1>3 DEF AuditInv, RequestInv
  <1> QED
    BY <1>1, <1>2, <1>4 DEF AuditInv

\* An answer after which the auditor holds one published checkpoint.
LEMMA AnswerKeeps ==
    ASSUME AuditInv, UNCHANGED ledger, AuditorInv', request' = Idle
    PROVE  AuditInv'
  <1>1. RequestInv'
    BY DEF RequestInv, Idle
  <1> QED
    BY <1>1 DEF AuditInv

\* A refused request leaves the auditor what it holds.
LEMMA RefuseKeeps ==
    ASSUME AuditInv, NEW status, Answer(status, auditor)
    PROVE  AuditInv' /\ auditor'.status = status
  <1>1. /\ UNCHANGED ledger /\ request' = Idle
        /\ auditor' = [auditor EXCEPT !.status = status, !.op = request.op, !.submitted = request.failed]
    BY DEF Answer
  <1>2. DOMAIN auditor = DOMAIN NewAuditor
    BY DEF AuditInv, AuditorInv
  <1>3. /\ DOMAIN auditor' = DOMAIN NewAuditor
        /\ auditor'.sequence = auditor.sequence /\ auditor'.addresses = auditor.addresses
        /\ auditor'.proof = auditor.proof /\ auditor'.localization = auditor.localization
        /\ auditor'.status = status
    BY <1>1, <1>2 DEF NewAuditor
  <1>4. AuditorInv'
    BY <1>1, <1>3, AuditorKeeps
  <1> QED
    BY <1>1, <1>3, <1>4, AnswerKeeps

\* The start of a request, for the checkpoint that is current and, but for that of the
\* locator, the one that the auditor holds.
LEMMA StartKeeps ==
    ASSUME AuditInv, NEW op \in {"locator", "proof", "localize"}, NEW sequence, NEW next,
           Start(op, sequence, next),
           DOMAIN next = DOMAIN Idle,
           op = "locator" => next.pc = "confirm",
           op # "locator" => sequence = auditor.sequence /\ next.pc \in {"metadata", "trace"},
           op = "proof" => next.addresses \subseteq auditor.addresses,
           op = "localize" => /\ next.addresses = next.failed.plan.addresses
                              /\ WellFormed(next.failed, next.addresses)
                              /\ next.pc = "trace"
    PROVE  AuditInv' /\ request = Idle
  <1>1. UNCHANGED ledger /\ request = Idle
    BY DEF Start
  <1>2. DOMAIN auditor = DOMAIN NewAuditor
    BY DEF AuditInv, AuditorInv
  <1>3. PICK status : auditor' = [auditor EXCEPT !.op = op, !.status = status, !.submitted = NoProof,
                                                 !.localization = NoProof]
    BY ZenonT(60) DEF Start
  <1>4. /\ DOMAIN auditor' = DOMAIN NewAuditor
        /\ auditor'.sequence = auditor.sequence /\ auditor'.addresses = auditor.addresses
        /\ auditor'.proof = auditor.proof /\ auditor'.localization = NoProof
    BY <1>2, <1>3 DEF NewAuditor
  <1>5. AuditorInv'
    BY <1>1, <1>4, AuditorKeeps
  <1>6. RequestInv'
    <2>1. CASE UNCHANGED request
      BY <1>1, <2>1 DEF RequestInv, Idle
    <2>2. CASE ~UNCHANGED request
      <3>1. ledger # <<>> /\ sequence = Len(ledger) /\ request' = [next EXCEPT !.op = op, !.sequence = sequence]
        BY <2>2, ZenonT(60) DEF Start
      <3>2. sequence \in 1..Len(ledger)
        BY <3>1, LenProperties, EmptySeq DEF AuditInv
      <3>3. /\ DOMAIN request' = DOMAIN Idle /\ request'.op = op /\ request'.sequence = sequence
            /\ request'.pc = next.pc /\ request'.addresses = next.addresses /\ request'.failed = next.failed
        BY <3>1 DEF Idle
      <3>4. request'.pc # "idle" /\ (op # "locator" => request'.pc # "confirm")
        BY <3>3
      <3> QED
        BY <1>1, <1>4, <3>2, <3>3, <3>4 DEF RequestInv
    <2> QED
      BY <2>1, <2>2
  <1> QED
    BY <1>1, <1>5, <1>6 DEF AuditInv

-----------------------------------------------------------------------------
\* The state of the audit: what AuditInv and the properties are about.
Frame == UNCHANGED <<ledger, auditor, request>>

\* A write to the tables, a snapshot: the audit does not see it.
LEMMA FrameKeeps == ASSUME AuditInv, Frame PROVE AuditInv'
  <1>1. AuditorInv'
    BY AuditorKeeps DEF Frame, AuditInv, AuditorInv
  <1>2. RequestInv'
    BY DEF Frame, AuditInv, RequestInv, Pinned
  <1> QED
    BY <1>1, <1>2 DEF Frame, AuditInv

\* A new checkpoint: the earlier ones stay what they are.
LEMMA PublishInd == ASSUME AuditInv, Publish PROVE AuditInv'
  <1>1. ledger' = Append(ledger, snapshot) /\ UNCHANGED <<auditor, request>>
    BY DEF Publish
  <1>2. /\ ledger' \in Seq(Range(ledger')) /\ Len(ledger) \in Nat /\ Len(ledger') = Len(ledger) + 1
        /\ \A i \in 1..Len(ledger) : ledger'[i] = ledger[i]
    <2>1. ledger \in Seq(Range(ledger) \cup {snapshot})
      BY SeqMonotonic DEF AuditInv
    <2>2. /\ ledger' \in Seq(Range(ledger) \cup {snapshot}) /\ Len(ledger') = Len(ledger) + 1
          /\ \A i \in 1..Len(ledger) : ledger'[i] = ledger[i]
      BY <1>1, <2>1, AppendProperties
    <2> QED
      BY <2>1, <2>2, LenProperties, SeqOfRange
  <1>3. \A n \in 0..Len(ledger) : n > 0 => ledger'[n] = ledger[n]
    BY <1>2
  <1>4. auditor.sequence \in 0..Len(ledger)
    BY DEF AuditInv, AuditorInv
  <1>5. auditor.sequence > 0 => ledger'[auditor.sequence] = ledger[auditor.sequence]
    BY <1>3, <1>4
  <1>6. auditor.sequence = 0 \/ auditor.sequence > 0
    BY <1>2, <1>4
  <1>7. AuditorInv'
    <2>1. ProofsLeadToRoot'
      BY <1>1, <1>5, <1>6 DEF AuditInv, AuditorInv, ProofsLeadToRoot
    <2>2. LocalizationsReplay'
      BY <1>1, <1>5, <1>6 DEF AuditInv, AuditorInv, LocalizationsReplay
    <2>3. auditor.sequence \in 0..Len(ledger')
      BY <1>2, <1>4
    <2> QED
      BY <1>1, <1>5, <2>1, <2>2, <2>3 DEF AuditInv, AuditorInv
  <1>8. RequestInv'
    <2>1. CASE request = Idle
      BY <1>1, <2>1 DEF RequestInv, Idle
    <2>2. CASE request # Idle
      <3>1. request.sequence \in 1..Len(ledger)
        BY <2>2 DEF AuditInv, RequestInv
      <3>2. Pinned' = Pinned /\ request.sequence \in 1..Len(ledger')
        BY <1>1, <1>2, <3>1 DEF Pinned
      <3> QED
        BY <1>1, <2>2, <3>2 DEF AuditInv, RequestInv
    <2> QED
      BY <2>1, <2>2
  <1> QED
    BY <1>2, <1>7, <1>8 DEF AuditInv

\* A request the handler refuses.
LEMMA BadRequestInd ==
    ASSUME AuditInv, NEW op, BadRequest(op) PROVE AuditInv' /\ request = Idle
  <1>1. /\ UNCHANGED <<ledger, request>> /\ request = Idle
        /\ auditor' = [auditor EXCEPT !.op = op, !.status = 400, !.submitted = NoProof, !.localization = NoProof]
    BY DEF BadRequest
  <1>2. DOMAIN auditor = DOMAIN NewAuditor
    BY DEF AuditInv, AuditorInv
  <1>3. /\ DOMAIN auditor' = DOMAIN NewAuditor
        /\ auditor'.sequence = auditor.sequence /\ auditor'.addresses = auditor.addresses
        /\ auditor'.proof = auditor.proof /\ auditor'.localization = NoProof
    BY <1>1, <1>2 DEF NewAuditor
  <1> QED
    BY <1>1, <1>3, AuditorKeeps, AnswerKeeps

\* The three requests: their addresses and the proof to localize are the auditor's own.
LEMMA RequestsInd ==
    ASSUME AuditInv, LocatorProof \/ HmfProof \/ LocalizeProof
    PROVE  AuditInv' /\ request = Idle
  <1>1. CASE LocatorProof
    <2>1. CASE ResolveLocator
      <3> DEFINE next == [Idle EXCEPT !.pc = "confirm"]
      <3>1. Start("locator", Len(ledger), next)
        BY <2>1 DEF ResolveLocator
      <3>2. DOMAIN next = DOMAIN Idle /\ next.pc = "confirm"
        BY DEF Idle
      <3> HIDE DEF next
      <3> QED
        BY <3>1, <3>2, StartKeeps
    <2> QED
      BY <1>1, <2>1, BadRequestInd DEF LocatorProof
  <1>2. CASE HmfProof
    <2>1. PICK addresses \in UNION {kSubset(n, auditor.addresses) : n \in 0..MaxRequested} :
              IF auditor.sequence <= 0 \/ addresses = {} THEN BadRequest("proof")
              ELSE BuildHMFProof(auditor.sequence, addresses)
      BY <1>2, Zenon DEF HmfProof
    <2>2. addresses \subseteq auditor.addresses
      BY DEF kSubset
    <2>3. CASE BuildHMFProof(auditor.sequence, addresses)
      <3> DEFINE queries == MetadataQueries(addresses)
                 next == [Idle EXCEPT !.pc = "metadata", !.addresses = addresses, !.queries = queries]
      <3>1. Start("proof", auditor.sequence, next)
        BY <2>3 DEF BuildHMFProof
      <3> HIDE DEF queries
      <3>2. DOMAIN next = DOMAIN Idle /\ next.pc = "metadata" /\ next.addresses = addresses
        BY DEF Idle
      <3> HIDE DEF next
      <3> QED
        BY <2>2, <3>1, <3>2, StartKeeps
    <2> QED
      BY <2>1, <2>3, BadRequestInd
  <1>3. CASE LocalizeProof
    <2>1. auditor.proof # NoProof
      BY <1>3 DEF LocalizeProof
    <2>2. PICK hashes : \/ BadRequest("localize")
                        \/ LocalizeTamper(auditor.sequence, WithHashes(auditor.proof, hashes))
      BY <1>3, Zenon DEF LocalizeProof
    <2>3. CASE LocalizeTamper(auditor.sequence, WithHashes(auditor.proof, hashes))
      <3> DEFINE failed == WithHashes(auditor.proof, hashes)
                 next == [Idle EXCEPT !.pc = "trace", !.addresses = failed.plan.addresses, !.failed = failed]
      <3>1. Start("localize", auditor.sequence, next)
        BY <2>3, Zenon DEF LocalizeTamper
      <3>2. IsProof(auditor.proof) /\ Verified(auditor.proof, auditor.proof.plan.addresses,
                                              ledger[auditor.sequence].root)
        BY <2>1 DEF AuditInv, AuditorInv, ProofsLeadToRoot
      <3>3. WellFormed(auditor.proof, auditor.proof.plan.addresses)
        BY <3>2, VerifiedForm
      <3>4. WellFormed(failed, failed.plan.addresses)
        BY <3>2, <3>3, WithHashesForm
      <3> HIDE DEF failed
      <3>5. /\ DOMAIN next = DOMAIN Idle /\ next.pc = "trace" /\ next.failed = failed
            /\ next.addresses = failed.plan.addresses
        BY DEF Idle
      <3> HIDE DEF next
      <3> QED
        BY <3>1, <3>4, <3>5, StartKeeps
    <2> QED
      BY <2>2, <2>3, BadRequestInd
  <1> QED
    BY <1>1, <1>2, <1>3

-----------------------------------------------------------------------------
\* What is known of a request that is being served.
LEMMA RequestFacts ==
    ASSUME AuditInv, request.pc # "idle"
    PROVE  /\ request # Idle /\ DOMAIN request = DOMAIN Idle
           /\ request.sequence \in 1..Len(ledger)
           /\ request.op \in {"locator", "proof", "localize"}
  BY DEF AuditInv, RequestInv, Idle

\* authenticatedReference falls back to a complete build.
LEMMA FallBackInd ==
    ASSUME AuditInv, request.pc = "leaves", request' = FallenBack, UNCHANGED <<ledger, auditor>>
    PROVE  AuditInv' /\ request' # Idle
  <1> DEFINE queries == MetadataQueries(request.addresses)
  <1>1. request # Idle /\ DOMAIN request = DOMAIN Idle
    BY RequestFacts
  <1>2. request' = [request EXCEPT !.pc = "metadata", !.nodes = {}, !.queries = queries]
    BY DEF FallenBack
  <1> HIDE DEF queries
  <1>3. /\ DOMAIN request' = DOMAIN Idle /\ request'.pc = "metadata"
        /\ request'.op = request.op /\ request'.sequence = request.sequence
        /\ request'.addresses = request.addresses /\ request'.failed = request.failed
    BY <1>1, <1>2 DEF Idle
  <1> QED
    BY <1>1, <1>3, ReadKeeps

\* Localize goes on only with a proof that does not lead to the root.
LEMMA TraceFailedInd ==
    ASSUME AuditInv, TraceFailed
    PROVE  AuditInv' /\ (request' # Idle \/ auditor'.status # 200)
  <1>1. request.pc = "trace" /\ request # Idle /\ DOMAIN request = DOMAIN Idle
    BY RequestFacts DEF TraceFailed
  <1>2. CASE Verified(request.failed, request.addresses, Pinned.root)
    <2>1. Answer(422, auditor)
      BY <1>2 DEF TraceFailed, Refuse
    <2> QED
      BY <2>1, RefuseKeeps
  <1>3. CASE ~Verified(request.failed, request.addresses, Pinned.root)
    <2> DEFINE queries == NodeQueries(LeafTrees(request.failed))
    <2>1. request' = [request EXCEPT !.pc = "leaves", !.queries = queries] /\ UNCHANGED <<ledger, auditor>>
      BY <1>3 DEF TraceFailed
    <2> HIDE DEF queries
    <2>2. /\ DOMAIN request' = DOMAIN Idle /\ request'.pc = "leaves"
          /\ request'.op = request.op /\ request'.sequence = request.sequence
          /\ request'.addresses = request.addresses /\ request'.failed = request.failed
      BY <1>1, <2>1 DEF Idle
    <2> QED
      BY <1>1, <1>3, <2>1, <2>2, ReadKeeps
  <1> QED
    BY <1>2, <1>3

\* Queries for metadata, and the plan: whatever rows they find.
LEMMA MetadataInd ==
    ASSUME AuditInv, ReadMetadata \/ PlanProof
    PROVE  AuditInv' /\ (request' # Idle \/ auditor'.status # 200)
  <1>1. request.pc = "metadata" /\ request # Idle /\ DOMAIN request = DOMAIN Idle
    BY RequestFacts DEF ReadMetadata, PlanProof
  <1>2. ASSUME UNCHANGED <<ledger, auditor>>, NEW queries, NEW rows, 
               \/ request' = [request EXCEPT !.queries = queries, !.rows = rows]
               \/ \E plan : request' = [request EXCEPT !.pc = "nodes", !.queries = queries, !.rows = rows,
                                                        !.proof = plan]
        PROVE  AuditInv' /\ request' # Idle
    <2>1. /\ DOMAIN request' = DOMAIN Idle /\ request'.pc \in {"metadata", "nodes"}
          /\ request'.op = request.op /\ request'.sequence = request.sequence
          /\ request'.addresses = request.addresses /\ request'.failed = request.failed
      BY <1>1, <1>2 DEF Idle
    <2> QED
      BY <1>1, <1>2, <2>1, ReadKeeps
  <1>3. CASE ReadMetadata
    <2>1. PICK q \in request.queries : LET store == Store
              IN Read([request EXCEPT !.queries = @ \ {q},
                          !.rows = [count |-> Only(store.count, q) @@ @.count,
                                    index |-> Only(store.index, q) @@ @.index,
                                    sealed |-> (store.sealed \cap q) \cup @.sealed]])
      BY <1>3, Zenon DEF ReadMetadata
    <2> DEFINE rows == [count |-> Only(Store.count, q) @@ request.rows.count,
                        index |-> Only(Store.index, q) @@ request.rows.index,
                        sealed |-> (Store.sealed \cap q) \cup request.rows.sealed]
    <2>2. /\ request' = [request EXCEPT !.queries = request.queries \ {q}, !.rows = rows]
          /\ UNCHANGED <<ledger, auditor>>
      BY <2>1, Zenon DEF Read
    <2> HIDE DEF rows
    <2> QED
      BY <1>2, <2>2
  <1>4. CASE PlanProof
    <2> DEFINE plans == Plan(request.addresses, request.rows)
    <2>1. IF plans = {} THEN Refuse(500)
          ELSE \E plan \in plans :
                  Read([request EXCEPT !.pc = "nodes", !.queries = NodeQueries(plan.trees),
                                       !.rows = NoRows, !.proof = plan])
      BY <1>4, Zenon DEF PlanProof
    <2> HIDE DEF plans
    <2>2. CASE plans = {}
      <3>1. Answer(500, auditor)
        BY <2>1, <2>2 DEF Refuse
      <3> QED
        BY <3>1, RefuseKeeps
    <2>3. CASE plans # {}
      <3>1. PICK plan \in plans : Read([request EXCEPT !.pc = "nodes", !.queries = NodeQueries(plan.trees),
                                                       !.rows = NoRows, !.proof = plan])
        BY <2>1, <2>3, Zenon
      <3> DEFINE queries == NodeQueries(plan.trees)
      <3>2. /\ request' = [request EXCEPT !.pc = "nodes", !.queries = queries, !.rows = NoRows, !.proof = plan]
            /\ UNCHANGED <<ledger, auditor>>
        BY <3>1, Zenon DEF Read
      <3> HIDE DEF queries
      <3> QED
        BY <1>2, <3>2, Zenon
    <2> QED
      BY <2>2, <2>3
  <1> QED
    BY <1>3, <1>4

\* Queries for nodes: whatever nodes they find.
LEMMA FetchInd ==
    ASSUME AuditInv, FetchPartition
    PROVE  AuditInv' /\ (request' # Idle \/ auditor'.status # 200)
  <1>1. request.pc \in {"leaves", "nodes"} /\ request # Idle /\ DOMAIN request = DOMAIN Idle
    BY RequestFacts DEF FetchPartition
  <1>2. PICK q \in request.queries :
            LET found == FetchProofNodes(Store, q)
            IN IF found # {}
               THEN Read([request EXCEPT !.queries = @ \ {q}, !.nodes = @ \cup UNION found])
               ELSE IF request.pc = "leaves" THEN FallBack ELSE Refuse(500)
    BY Zenon DEF FetchPartition
  <1> DEFINE found == FetchProofNodes(Store, q)
  <1>3. CASE found # {}
    <2> DEFINE nodes == request.nodes \cup UNION found
    <2>1. /\ request' = [request EXCEPT !.queries = request.queries \ {q}, !.nodes = nodes]
          /\ UNCHANGED <<ledger, auditor>>
      BY <1>2, <1>3, Zenon DEF Read
    <2> HIDE DEF nodes
    <2>2. /\ DOMAIN request' = DOMAIN Idle /\ request'.pc = request.pc
          /\ request'.op = request.op /\ request'.sequence = request.sequence
          /\ request'.addresses = request.addresses /\ request'.failed = request.failed
      BY <1>1, <2>1 DEF Idle
    <2> QED
      BY <1>1, <2>1, <2>2, ReadKeeps
  <1>4. CASE found = {} /\ request.pc = "leaves"
    <2>1. request' = FallenBack /\ UNCHANGED <<ledger, auditor>>
      BY <1>2, <1>4, Zenon DEF FallBack, Read
    <2> QED
      BY <1>4, <2>1, FallBackInd
  <1>5. CASE found = {} /\ request.pc # "leaves"
    <2>1. Answer(500, auditor)
      BY <1>2, <1>5, Zenon DEF Refuse
    <2> QED
      BY <2>1, RefuseKeeps
  <1> QED
    BY <1>3, <1>4, <1>5, Zenon

\* ReferenceFromProof and BuildAndVerify end with a proof that leads to the pinned root,
\* or fall back, or refuse.
LEMMA CheckInd ==
    ASSUME AuditInv, CheckReference \/ CheckProof
    PROVE  AuditInv' /\ (request' # Idle \/ auditor'.status # 200)
  <1>1. request.pc \in {"leaves", "nodes"} /\ request # Idle /\ DOMAIN request = DOMAIN Idle
    BY RequestFacts DEF CheckReference, CheckProof
  <1>2. ASSUME NEW proof, IsProof(proof), Verified(proof, request.addresses, Pinned.root),
               Read([request EXCEPT !.pc = "confirm", !.nodes = {}, !.proof = proof])
        PROVE  AuditInv' /\ request' # Idle
    <2>1. /\ request' = [request EXCEPT !.pc = "confirm", !.nodes = {}, !.proof = proof]
          /\ UNCHANGED <<ledger, auditor>>
      BY <1>2 DEF Read
    <2>2. /\ DOMAIN request' = DOMAIN Idle /\ request'.pc = "confirm" /\ request'.proof = proof
          /\ request'.op = request.op /\ request'.sequence = request.sequence
          /\ request'.addresses = request.addresses /\ request'.failed = request.failed
      BY <1>1, <2>1 DEF Idle
    <2> QED
      BY <1>1, <1>2, <2>1, <2>2, ReadKeeps
  <1>3. CASE CheckReference
    <2> DEFINE failed == request.failed
               reference == [SplitTargetLeaves(failed.plan, request.nodes) EXCEPT !.nodes = failed.nodes]
    <2>1. IF Verified(reference, request.addresses, Pinned.root)
          THEN Read([request EXCEPT !.pc = "confirm", !.nodes = {}, !.proof = reference])
          ELSE FallBack
      BY <1>3, Zenon DEF CheckReference
    <2>2. IsProof(reference)
      BY DEF IsProof, SplitTargetLeaves
    <2>3. request.pc = "leaves"
      BY <1>3 DEF CheckReference
    <2> HIDE DEF reference
    <2>4. CASE Verified(reference, request.addresses, Pinned.root)
      BY <1>2, <2>1, <2>2, <2>4
    <2>5. CASE ~Verified(reference, request.addresses, Pinned.root)
      <3>1. request' = FallenBack /\ UNCHANGED <<ledger, auditor>>
        BY <2>1, <2>5 DEF FallBack, Read
      <3> QED
        BY <2>3, <3>1, FallBackInd
    <2> QED
      BY <2>4, <2>5
  <1>4. CASE CheckProof
    <2> DEFINE proof == SplitTargetLeaves(request.proof, request.nodes)
    <2>1. IF Verified(proof, request.addresses, Pinned.root)
          THEN Read([request EXCEPT !.pc = "confirm", !.nodes = {}, !.proof = proof])
          ELSE Refuse(500)
      BY <1>4, Zenon DEF CheckProof, MatchTrustedRoot
    <2>2. IsProof(proof)
      BY DEF IsProof, SplitTargetLeaves
    <2> HIDE DEF proof
    <2>3. CASE Verified(proof, request.addresses, Pinned.root)
      BY <1>2, <2>1, <2>2, <2>3
    <2>4. CASE ~Verified(proof, request.addresses, Pinned.root)
      <3>1. Answer(500, auditor)
        BY <2>1, <2>4 DEF Refuse
      <3> QED
        BY <3>1, RefuseKeeps
    <2> QED
      BY <2>3, <2>4
  <1> QED
    BY <1>3, <1>4

\* A query that fails.
LEMMA QueryFailsInd ==
    ASSUME AuditInv, QueryFails \/ LeafQueryFails
    PROVE  AuditInv' /\ (request' # Idle \/ auditor'.status # 200)
  <1>1. CASE QueryFails
    <2>1. Answer(500, auditor)
      BY <1>1 DEF QueryFails
    <2> QED
      BY <2>1, RefuseKeeps
  <1>2. CASE LeafQueryFails
    <2>1. request.pc = "leaves" /\ request' = FallenBack /\ UNCHANGED <<ledger, auditor>>
      BY <1>2 DEF LeafQueryFails
    <2> QED
      BY <2>1, FallBackInd
  <1> QED
    BY <1>1, <1>2

\* The comparison that Localize returns can be replayed.
LEMMA LocalizedReplays ==
    ASSUME AuditInv, request.pc = "confirm", request.op = "localize"
    PROVE  VerifyProof(Localized, Localized.failed.plan.addresses, Pinned.root)
  <1> DEFINE failed == request.failed
             addresses == request.addresses
             left == HMFTrace(failed)
             right == HMFTrace(request.proof)
  <1>1. request # Idle
    BY RequestFacts
  <1>2. /\ addresses = failed.plan.addresses /\ WellFormed(failed, addresses)
        /\ ~Verified(failed, addresses, Pinned.root)
        /\ Verified(request.proof, addresses, Pinned.root)
    BY <1>1 DEF AuditInv, RequestInv
  <1>3. TraceHMFProof(failed, addresses) = {left}
    BY <1>2 DEF TraceHMFProof
  <1>4. TraceHMFProof(request.proof, addresses) = {right} /\ GlobalRoot(right) = Pinned.root
    BY <1>2, VerifiedForm DEF TraceHMFProof
  <1> HIDE DEF left, right
  <1>5. GlobalRoot(left) # Pinned.root
    BY <1>2, <1>3 DEF Verified
  <1>6. /\ (CHOOSE t \in TraceHMFProof(failed, addresses) : TRUE) = left
        /\ (CHOOSE t \in TraceHMFProof(request.proof, addresses) : TRUE) = right
    BY <1>3, <1>4
  <1>7. /\ Localized.failed = failed /\ Localized.reference = request.proof
        /\ Localized.result = Analyze(addresses, failed, request.proof, left, right)
    <2>1. Localized = [failed |-> failed, reference |-> request.proof,
                       result |-> Analyze(addresses, failed, request.proof, left, right)]
      BY <1>6, Zenon DEF Localized
    <2> QED
      BY <2>1
  <1> HIDE DEF failed, addresses
  <1> QED
    BY <1>2, <1>3, <1>4, <1>5, <1>7 DEF VerifyProof

\* ensureStillCurrent and the answer: all of it is of the checkpoint that is current.
LEMMA ConfirmInd ==
    ASSUME AuditInv, Confirm
    PROVE  /\ AuditInv'
           /\ auditor'.status = 200 => /\ auditor'.sequence = Len(ledger)
                                       /\ auditor'.addresses = ledger[Len(ledger)].located
  <1>1. request.pc = "confirm" /\ request # Idle /\ DOMAIN request = DOMAIN Idle
    BY RequestFacts DEF Confirm
  <1>2. /\ request.sequence \in 1..Len(ledger) /\ request.op \in {"locator", "proof", "localize"}
        /\ request.op # "locator" => request.sequence = auditor.sequence
        /\ auditor.sequence > 0 => auditor.addresses = ledger[auditor.sequence].located
        /\ DOMAIN auditor = DOMAIN NewAuditor /\ Len(ledger) \in Nat
    BY <1>1, LenProperties DEF AuditInv, RequestInv, AuditorInv
  <1>3. CASE ~EnsureStillCurrent
    <2>1. Answer(409, auditor)
      BY <1>3 DEF Confirm, Refuse
    <2> QED
      BY <2>1, RefuseKeeps
  <1>4. ASSUME EnsureStillCurrent, request.op = "locator"
        PROVE  /\ AuditorInv' /\ auditor'.sequence = Len(ledger)
               /\ auditor'.addresses = ledger[Len(ledger)].located
    <2>1. /\ auditor' = [[NewAuditor EXCEPT !.sequence = request.sequence, !.addresses = Pinned.located]
                            EXCEPT !.status = 200, !.op = request.op, !.submitted = request.failed]
          /\ UNCHANGED ledger
      BY <1>4 DEF Confirm, Answer
    <2>2. /\ DOMAIN auditor' = DOMAIN NewAuditor /\ auditor'.sequence = request.sequence
          /\ auditor'.addresses = Pinned.located /\ auditor'.proof = NoProof /\ auditor'.localization = NoProof
      BY <2>1 DEF NewAuditor
    <2>3. AuditorInv'
      BY <1>2, <2>1, <2>2 DEF AuditorInv, ProofsLeadToRoot, LocalizationsReplay, Pinned
    <2> QED
      BY <1>4, <2>2, <2>3 DEF EnsureStillCurrent, Pinned
  <1>5. ASSUME EnsureStillCurrent, request.op = "proof"
        PROVE  /\ AuditorInv' /\ auditor'.sequence = Len(ledger)
               /\ auditor'.addresses = ledger[Len(ledger)].located
    <2>1. /\ auditor' = [[auditor EXCEPT !.proof = request.proof]
                            EXCEPT !.status = 200, !.op = request.op, !.submitted = request.failed]
          /\ UNCHANGED ledger
      BY <1>5 DEF Confirm, Answer
    <2>2. /\ DOMAIN auditor' = DOMAIN NewAuditor /\ auditor'.sequence = request.sequence
          /\ auditor'.addresses = auditor.addresses /\ auditor'.proof = request.proof
          /\ auditor'.localization = auditor.localization
      BY <1>2, <1>5, <2>1 DEF NewAuditor
    <2>3. /\ IsProof(request.proof) /\ Verified(request.proof, request.addresses, Pinned.root)
          /\ request.addresses \subseteq auditor.addresses
      BY <1>1, <1>5 DEF AuditInv, RequestInv
    <2>4. request.addresses = request.proof.plan.addresses
      BY <2>3, VerifiedForm
    <2>5. auditor.sequence = request.sequence /\ auditor.sequence > 0
      BY <1>2, <1>5
    <2>6. ProofsLeadToRoot'
      BY <1>2, <2>1, <2>2, <2>3, <2>4, <2>5 DEF ProofsLeadToRoot, Pinned
    <2>7. LocalizationsReplay'
      BY <2>1, <2>2, <2>5 DEF AuditInv, AuditorInv, LocalizationsReplay
    <2>8. AuditorInv'
      BY <1>2, <2>1, <2>2, <2>3, <2>5, <2>6, <2>7 DEF AuditorInv
    <2> QED
      BY <1>2, <1>5, <2>2, <2>5, <2>8 DEF EnsureStillCurrent
  <1>6. ASSUME EnsureStillCurrent, request.op = "localize"
        PROVE  /\ AuditorInv' /\ auditor'.sequence = Len(ledger)
               /\ auditor'.addresses = ledger[Len(ledger)].located
    <2> DEFINE localized == Localized
    <2>1. /\ auditor' = [[auditor EXCEPT !.localization = localized]
                            EXCEPT !.status = 200, !.op = request.op, !.submitted = request.failed]
          /\ UNCHANGED ledger
      BY <1>6 DEF Confirm, Answer
    <2>2. VerifyProof(localized, localized.failed.plan.addresses, Pinned.root)
      BY <1>1, <1>6, LocalizedReplays
    <2> HIDE DEF localized
    <2>3. /\ DOMAIN auditor' = DOMAIN NewAuditor /\ auditor'.sequence = request.sequence
          /\ auditor'.addresses = auditor.addresses /\ auditor'.proof = auditor.proof
          /\ auditor'.localization = localized
      BY <1>2, <1>6, <2>1 DEF NewAuditor
    <2>4. auditor.sequence = request.sequence /\ auditor.sequence > 0
      BY <1>2, <1>6
    <2>5. ProofsLeadToRoot'
      BY <2>1, <2>3, <2>4 DEF AuditInv, AuditorInv, ProofsLeadToRoot
    <2>6. LocalizationsReplay'
      BY <2>1, <2>2, <2>3, <2>4 DEF LocalizationsReplay, Pinned
    <2>7. AuditorInv'
      BY <1>2, <2>1, <2>3, <2>4, <2>5, <2>6 DEF AuditInv, AuditorInv
    <2> QED
      BY <1>2, <1>6, <2>3, <2>4, <2>7 DEF EnsureStillCurrent
  <1>7. CASE EnsureStillCurrent
    <2>1. UNCHANGED ledger /\ request' = Idle
      BY <1>7 DEF Confirm, Answer
    <2>2. /\ AuditorInv' /\ auditor'.sequence = Len(ledger)
          /\ auditor'.addresses = ledger[Len(ledger)].located
      BY <1>2, <1>4, <1>5, <1>6, <1>7
    <2> QED
      BY <2>1, <2>2, AnswerKeeps
  <1> QED
    BY <1>3, <1>7

-----------------------------------------------------------------------------
\* Every step keeps the invariant, and a step that ends a request with an answer 200 is
\* Confirm's.
LEMMA AuditNextInd ==
    ASSUME AuditInv, [AuditNext]_auditVars
    PROVE  /\ AuditInv'
           /\ request # Idle /\ request' = Idle /\ auditor'.status = 200 =>
                 auditor'.sequence = Len(ledger) /\ auditor'.addresses = ledger[Len(ledger)].located
  <1>1. CASE WriterStep \/ TakeSnapshot \/ UNCHANGED auditVars
    <2>1. Frame
      BY <1>1 DEF WriterStep, TakeSnapshot, auditVars, Frame
    <2> QED
      BY <2>1, FrameKeeps DEF Frame
  <1>2. CASE Publish
    <2>1. UNCHANGED request
      BY <1>2 DEF Publish
    <2> QED
      BY <1>2, <2>1, PublishInd
  <1>3. CASE LocatorProof \/ HmfProof \/ LocalizeProof
    BY <1>3, RequestsInd
  <1>4. CASE TraceFailed
    BY <1>4, TraceFailedInd
  <1>5. CASE ReadMetadata \/ PlanProof
    BY <1>5, MetadataInd
  <1>6. CASE FetchPartition
    BY <1>6, FetchInd
  <1>7. CASE CheckReference \/ CheckProof
    BY <1>7, CheckInd
  <1>8. CASE QueryFails \/ LeafQueryFails
    BY <1>8, QueryFailsInd
  <1>9. CASE Confirm
    BY <1>9, ConfirmInd
  <1> QED
    BY <1>1, <1>2, <1>3, <1>4, <1>5, <1>6, <1>7, <1>8, <1>9 DEF AuditNext

\* The inductive invariant of the audit holds in every reachable state, while writers
\* rewrite the tables and checkpoints are published.
THEOREM AuditInductive == AuditSpec => []AuditInv
  <1>1. AuditInv /\ [AuditNext]_auditVars => AuditInv'
    BY AuditNextInd
  <1> QED
    BY <1>1, AuditInitInd, PTL DEF AuditSpec

\* ensureStillCurrent: an answer 200 is about the checkpoint that is current at that
\* moment, and what the auditor then holds is all of that checkpoint.
THEOREM CurrentAnswers == AuditSpec => AnswersAreCurrent
  <1>1. AuditInv /\ [AuditNext]_auditVars =>
           [request # Idle /\ request' = Idle /\ auditor'.status = 200 =>
              auditor'.sequence = Len(ledger) /\ auditor'.addresses = Last(ledger).located]_auditVars
    BY AuditNextInd DEF Last
  <1> QED
    BY <1>1, AuditInductive, PTL DEF AuditSpec, AnswersAreCurrent

\* BuildAndVerify: a proof the auditor holds leads from addresses of its checkpoint to the
\* root of that checkpoint, whatever the queries have read.
THEOREM HeldProofsVerify == AuditSpec => []ProofsLeadToRoot
  <1>1. AuditInv => ProofsLeadToRoot
    BY DEF AuditInv, AuditorInv
  <1> QED
    BY <1>1, AuditInductive, PTL

\* Localize and VerifyProof agree: every localization the auditor is given passes the
\* auditor's own check against the root of its checkpoint.
THEOREM LocalizationsVerify == AuditSpec => []LocalizationsReplay
  <1>1. AuditInv => LocalizationsReplay
    BY DEF AuditInv, AuditorInv
  <1> QED
    BY <1>1, AuditInductive, PTL

-----------------------------------------------------------------------------
(* The digests a proof carries.  A shard that has taken n segments is over the        *)
(* commitments to n lists of one digest; so is the forest a checkpoint was taken of,  *)
(* and VerifiedLeaves says what a proof carries that leads to its root.               *)

LogDigests(counts) == [sh \in Shards |-> [i \in 1..counts[sh] |-> Digests(sh, i - 1, 1)]]
LogLeaves(counts) ==
    [sh \in Shards |-> [i \in 1..counts[sh] |-> CommitSegmentRoot(sh, i - 1, 1, Digests(sh, i - 1, 1)[1])]]
Located(counts) == UNION {{<<sh[1], sh[2], i, 0>> : i \in 0..(counts[sh] - 1)} : sh \in Shards}

\* A checkpoint is of a forest that has taken so many segments in each shard.
CheckpointOf(c, f, counts) ==
    /\ counts \in [Shards -> Nat]
    /\ ForestOver(f, LogLeaves(counts))
    /\ c.root = CommitGlobalRoot(f.global)
    /\ c.located = Located(counts)
IsCheckpoint(c) == \E f, counts : CheckpointOf(c, f, counts)

\* The segments taken so far.
Counts == [sh \in Shards |-> forest.shard[sh].count]
CheckpointsInv ==
    /\ Counts \in [Shards -> Nat]
    /\ ForestOver(forest, LogLeaves(Counts))
    /\ snapshot # NoSnapshot => IsCheckpoint(snapshot)
    /\ \A i \in 1..Len(ledger) : IsCheckpoint(ledger[i])

\* A list of one digest is its own root, so the leaves commit to the lists of digests.
LEMMA LogLeavesCommit ==
    ASSUME NEW counts \in [Shards -> Nat]
    PROVE  CommitsTo(LogLeaves(counts), LogDigests(counts))
  <1> DEFINE d == LogDigests(counts)
             leaves == LogLeaves(counts)
  <1> SUFFICES ASSUME NEW sh \in Shards
               PROVE  /\ Len(leaves[sh]) = Len(d[sh])
                      /\ \A i \in 0..(Len(leaves[sh]) - 1) :
                            /\ IsList(d[sh][i + 1])
                            /\ leaves[sh][i + 1] = CommitSegmentRoot(sh, i, Len(d[sh][i + 1]), MerkleRoot(d[sh][i + 1]))
    BY DEF CommitsTo
  <1>1. counts[sh] \in Nat
    OBVIOUS
  <1>2. /\ leaves[sh] = [i \in 1..counts[sh] |-> CommitSegmentRoot(sh, i - 1, 1, Digests(sh, i - 1, 1)[1])]
        /\ d[sh] = [i \in 1..counts[sh] |-> Digests(sh, i - 1, 1)]
    BY DEF LogLeaves, LogDigests
  <1> HIDE DEF leaves, d
  <1>3. Len(leaves[sh]) = counts[sh] /\ Len(d[sh]) = counts[sh]
    BY <1>1, <1>2
  <1>4. ASSUME NEW i \in 0..(Len(leaves[sh]) - 1)
        PROVE  /\ IsList(d[sh][i + 1])
               /\ leaves[sh][i + 1] = CommitSegmentRoot(sh, i, Len(d[sh][i + 1]), MerkleRoot(d[sh][i + 1]))
    <2> DEFINE one == Digests(sh, i, 1)
    <2>1. i + 1 \in 1..counts[sh] /\ (i + 1) - 1 = i
      BY <1>1, <1>3
    <2>2. d[sh][i + 1] = one /\ leaves[sh][i + 1] = CommitSegmentRoot(sh, i, 1, one[1])
      BY <1>2, <2>1
    <2>3. one = [j \in 1..1 |-> one[j]]
      BY DEF Digests
    <2> HIDE DEF one
    <2>4. IsList(one) /\ Len(one) = 1
      BY <2>3, ListIs
    <2>5. MerkleRoot(one) = one[1]
      <3>1. Len(one) \in Nat /\ 0 \in 0..(Len(one) - 1) /\ 0 + 1 = 1
        BY <2>4
      <3>2. RootOver(one, 0, 1) = one[0 + 1]
        BY <3>1, RootOverOne
      <3> QED
        BY <2>4, <3>1, <3>2 DEF MerkleRoot
    <2> QED
      BY <2>2, <2>4, <2>5
  <1> QED
    BY <1>3, <1>4

\* What is located are addresses.
LEMMA LocatedAre ==
    ASSUME NEW counts, NEW a \in Located(counts)
    PROVE  IsAddress(a)
  <1>1. PICK sh \in Shards : a \in {<<sh[1], sh[2], i, 0>> : i \in 0..(counts[sh] - 1)}
    BY DEF Located
  <1>2. PICK i \in 0..(counts[sh] - 1) : a = <<sh[1], sh[2], i, 0>>
    BY <1>1
  <1> QED
    BY <1>2 DEF IsAddress

\* SealedAddresses are those that the forest has taken.
LEMMA SealedAre ==
    SealedAddresses = Located(Counts)
  <1> DEFINE Taken(sh, n) == {<<sh[1], sh[2], i, 0>> : i \in 0..(n - 1)}
  <1>1. /\ SealedAddresses = UNION {Taken(sh, forest.shard[sh].count) : sh \in Shards}
        /\ Located(Counts) = UNION {Taken(sh, Counts[sh]) : sh \in Shards}
    BY DEF SealedAddresses, Located
  <1>2. \A sh \in Shards : Counts[sh] = forest.shard[sh].count
    BY DEF Counts
  <1> HIDE DEF Taken
  <1>3. {Taken(sh, forest.shard[sh].count) : sh \in Shards} = {Taken(sh, Counts[sh]) : sh \in Shards}
    BY <1>2
  <1> QED
    BY <1>1, <1>3

\* A proof that leads to the root of a checkpoint, planned from the trees of all its
\* addresses, carries the digests of the logs at these addresses.
LEMMA VerifiedCarries ==
    ASSUME NEW c, IsCheckpoint(c), NEW proof, NEW addresses, \A a \in addresses : IsAddress(a),
           Verified(proof, addresses, c.root),
           \A a \in addresses : SegmentTreeRef(a) \in TreesOf(proof),
           \A l \in proof.leaves : l = <<l[1], l[2]>>
    PROVE  CarriesDigests(proof)
  <1>1. PICK f, counts : CheckpointOf(c, f, counts)
    BY DEF IsCheckpoint
  <1> DEFINE d == LogDigests(counts)
             Digest(a) == <<<<a[1], a[2]>>, a[3], a[4] + 1>>
  <1>2. /\ counts \in [Shards -> Nat] /\ ForestOver(f, LogLeaves(counts))
        /\ Verified(proof, addresses, CommitGlobalRoot(f.global))
    BY <1>1 DEF CheckpointOf
  <1>3. CommitsTo(LogLeaves(counts), d)
    BY <1>2, LogLeavesCommit
  <1>4. /\ addresses = proof.plan.addresses
        /\ {l[1] : l \in proof.leaves} = addresses
    BY VerifiedForm DEF WellFormed, ValidProofLeaves
  <1>5. ASSUME NEW l \in proof.leaves
        PROVE  l = <<l[1], Digest(l[1])>>
    <2> DEFINE a == l[1]
               sh == <<a[1], a[2]>>
    <2>1. a \in addresses
      BY <1>4
    <2>2. /\ sh \in Shards /\ a[3] \in 0..(Len(d[sh]) - 1) /\ a[4] \in 0..(Len(d[sh][a[3] + 1]) - 1)
          /\ l[2] = DigestAt(d, a)
      <3>1. a \in addresses /\ SegmentTreeRef(a) \in TreesOf(proof) /\ l[1] = a
        BY <2>1
      <3> HIDE DEF d, Digest, a
      <3>2. IsLeaf(d, a) /\ \A k \in proof.leaves : k[1] = a => k[2] = DigestAt(d, a)
        BY <1>2, <1>3, <3>1, VerifiedLeaves
      <3> QED
        BY <3>1, <3>2 DEF IsLeaf, sh
    <2>3. d[sh] = [i \in 1..counts[sh] |-> Digests(sh, i - 1, 1)] /\ counts[sh] \in Nat
      BY <1>2, <2>2 DEF LogDigests
    <2> HIDE DEF d, sh
    <2>4. a[3] \in Int /\ a[3] + 1 \in 1..counts[sh] /\ (a[3] + 1) - 1 = a[3]
      BY <2>2, <2>3
    <2>5. d[sh][a[3] + 1] = [j \in 1..1 |-> <<sh, a[3], j>>]
      BY <2>3, <2>4 DEF Digests
    <2>6. a[4] + 1 \in 1..1
      <3>1. Len(d[sh][a[3] + 1]) = 1
        BY <2>5
      <3> QED
        BY <2>2, <3>1
    <2>7. l[2] = <<sh, a[3], a[4] + 1>>
      BY <2>2, <2>5, <2>6 DEF DigestAt, sh
    <2> QED
      BY <2>7 DEF sh
  <1> HIDE DEF Digest
  <1>6. proof.leaves = {<<a, Digest(a)>> : a \in addresses}
    <2>1. ASSUME NEW l \in proof.leaves PROVE l \in {<<a, Digest(a)>> : a \in addresses}
      BY <1>4, <1>5
    <2>2. ASSUME NEW a \in addresses PROVE <<a, Digest(a)>> \in proof.leaves
      <3>1. PICK l \in proof.leaves : l[1] = a
        BY <1>4
      <3> QED
        BY <1>5, <3>1
    <2> QED
      BY <2>1, <2>2
  <1> QED
    BY <1>4, <1>6 DEF CarriesDigests, Digest

-----------------------------------------------------------------------------
\* No segment, no checkpoint yet.
LEMMA CheckpointsInit == AuditInit => CheckpointsInv
  <1> SUFFICES ASSUME AuditInit PROVE CheckpointsInv
    OBVIOUS
  <1>1. forest = NewHMF /\ Len(ledger) = 0 /\ snapshot = NoSnapshot
    BY DEF AuditInit, Init
  <1>2. \A sh \in Shards : Counts[sh] = 0
    <2>1. \A sh \in Shards : forest.shard[sh] = EmptyShard
      BY <1>1 DEF NewHMF
    <2> QED
      BY <2>1 DEF Counts, EmptyShard
  <1>3. Counts \in [Shards -> Nat]
    BY <1>2 DEF Counts
  <1>4. \A sh \in Shards : LogLeaves(Counts)[sh] = <<>>
    <2>1. ASSUME NEW sh \in Shards
          PROVE  LogLeaves(Counts)[sh] =
                    [i \in 1..0 |-> CommitSegmentRoot(sh, i - 1, 1, Digests(sh, i - 1, 1)[1])]
      BY <1>2 DEF LogLeaves
    <2> QED
      BY <2>1
  <1>5. ForestOver(forest, LogLeaves(Counts))
    BY <1>1, <1>4, NewHMFIs
  <1> QED
    BY <1>1, <1>3, <1>5 DEF CheckpointsInv

\* closeSegment: the forest has taken one segment more.
LEMMA CloseSegmentTakes ==
    ASSUME CheckpointsInv, NEW sh \in Shards, CloseSegment(sh)
    PROVE  Counts' \in [Shards -> Nat] /\ ForestOver(forest, LogLeaves(Counts))'
  <1> DEFINE n == Counts[sh]
             more == [Counts EXCEPT ![sh] = n + 1]
             raw == Digests(sh, n, 1)[1]
             hash == CommitSegmentRoot(sh, n, 1, raw)
  <1>1. Counts \in [Shards -> Nat] /\ ForestOver(forest, LogLeaves(Counts))
    BY DEF CheckpointsInv
  <1>2. n = forest.shard[sh].count /\ n \in Nat
    BY <1>1 DEF Counts
  <1>3. forest' = AppendSegment(forest, sh, n, 1, raw).forest
    BY <1>2 DEF CloseSegment
  <1>4. /\ more \in [Shards -> Nat] /\ more[sh] = n + 1
        /\ \A s \in Shards : s # sh => more[s] = Counts[s]
    BY <1>1, <1>2
  <1> HIDE DEF more
  <1>5. LogLeaves(more)[sh] = Append(LogLeaves(Counts)[sh], hash)
    <2> DEFINE C(i) == CommitSegmentRoot(sh, i - 1, 1, Digests(sh, i - 1, 1)[1])
               a == LogLeaves(more)[sh]
               b == LogLeaves(Counts)[sh]
    <2>1. a = [i \in 1..(n + 1) |-> C(i)] /\ b = [i \in 1..n |-> C(i)]
      BY <1>4 DEF LogLeaves
    <2>2. C(n + 1) = hash
      <3>1. (n + 1) - 1 = n
        BY <1>2
      <3> QED
        BY <3>1
    <2> HIDE DEF a, b, C, hash, n
    <2> USE <1>2
    <2>3. IsList(b) /\ Len(b) = n /\ IsList(a) /\ Len(a) = n + 1
      <3>1. a = [i \in 1..(n + 1) |-> a[i]] /\ b = [i \in 1..n |-> b[i]]
        BY <2>1
      <3> QED
        BY <3>1, ListIs
    <2>4. /\ IsList(Append(b, hash)) /\ Len(Append(b, hash)) = n + 1
          /\ (\A i \in 1..n : Append(b, hash)[i] = b[i]) /\ Append(b, hash)[n + 1] = hash
      BY <2>3, AppendIs
    <2>5. \A i \in 1..(n + 1) : a[i] = Append(b, hash)[i]
      <3>1. ASSUME NEW i \in 1..n PROVE a[i] = Append(b, hash)[i]
        BY <2>1, <2>4, <3>1
      <3>2. a[n + 1] = Append(b, hash)[n + 1]
        BY <2>1, <2>2, <2>4
      <3>3. \A i \in 1..(n + 1) : i \in 1..n \/ i = n + 1
        OBVIOUS
      <3> QED
        BY <3>1, <3>2, <3>3
    <2>6. a = Append(b, hash)
      BY <2>3, <2>4, <2>5, ListEqual
    <2> QED
      BY <2>6 DEF a, b
  <1>6. \A s \in Shards : s # sh => LogLeaves(more)[s] = LogLeaves(Counts)[s]
    BY <1>4 DEF LogLeaves
  <1> HIDE DEF raw, n
  <1>7. ForestOver(forest', LogLeaves(more))
    BY <1>1, <1>3, <1>5, <1>6, AppendSegmentIs
  <1>8. Counts' = more
    <2>1. ASSUME NEW s \in Shards PROVE forest'.shard[s].count = more[s]
      <3>1. LogLeaves(more)[s] =
               [i \in 1..more[s] |-> CommitSegmentRoot(s, i - 1, 1, Digests(s, i - 1, 1)[1])]
        BY DEF LogLeaves
      <3>2. Len(LogLeaves(more)[s]) = more[s]
        BY <1>4, <3>1
      <3> QED
        BY <1>7, <3>2 DEF ForestOver, ShardOver
    <2>2. more = [s \in Shards |-> more[s]]
      BY <1>4
    <2> QED
      BY <2>1, <2>2 DEF Counts
  <1> QED
    BY <1>4, <1>7, <1>8

\* Requests write nothing.
LEMMA RequestLeaves ==
    ASSUME LocatorProof \/ HmfProof \/ LocalizeProof
    PROVE  UNCHANGED <<vars, snapshot, ledger>>
  <1>1. ASSUME NEW op, BadRequest(op) \/ \E sequence, next : Start(op, sequence, next)
        PROVE  UNCHANGED <<vars, snapshot, ledger>>
    BY <1>1, Zenon DEF BadRequest, Start
  <1>2. CASE LocatorProof
    BY <1>1, <1>2, Zenon DEF LocatorProof, ResolveLocator
  <1>3. CASE HmfProof
    BY <1>1, <1>3, Zenon DEF HmfProof, BuildHMFProof
  <1>4. CASE LocalizeProof
    BY <1>1, <1>4, Zenon DEF LocalizeProof, LocalizeTamper
  <1> QED
    BY <1>2, <1>3, <1>4

LEMMA ReadLeaves ==
    ASSUME \/ TraceFailed \/ ReadMetadata \/ PlanProof \/ FetchPartition \/ CheckReference
           \/ CheckProof \/ Confirm \/ QueryFails \/ LeafQueryFails
    PROVE  UNCHANGED <<vars, snapshot, ledger>>
  <1>1. CASE TraceFailed
    BY <1>1, Zenon DEF TraceFailed, Refuse, Answer
  <1>2. CASE ReadMetadata
    BY <1>2, Zenon DEF ReadMetadata, Read
  <1>3. CASE PlanProof
    BY <1>3, Zenon DEF PlanProof, Refuse, Answer, Read
  <1>4. CASE FetchPartition
    BY <1>4, Zenon DEF FetchPartition, Refuse, Answer, FallBack, Read
  <1>5. CASE CheckReference
    BY <1>5, Zenon DEF CheckReference, FallBack, Read
  <1>6. CASE CheckProof
    BY <1>6, Zenon DEF CheckProof, Refuse, Answer, Read
  <1>7. CASE Confirm
    BY <1>7, Zenon DEF Confirm, Refuse, Answer
  <1>8. CASE QueryFails \/ LeafQueryFails
    BY <1>8, Zenon DEF QueryFails, LeafQueryFails, Answer
  <1> QED
    BY <1>1, <1>2, <1>3, <1>4, <1>5, <1>6, <1>7, <1>8

\* Every step: a snapshot is of the forest at that moment, the checkpoints of snapshots.
LEMMA CheckpointsInd ==
    ASSUME CheckpointsInv, ledger \in Seq(Range(ledger)), [AuditNext]_auditVars
    PROVE  CheckpointsInv'
  <1>1. ASSUME UNCHANGED forest
        PROVE  Counts' \in [Shards -> Nat] /\ ForestOver(forest, LogLeaves(Counts))'
    <2>1. Counts' = Counts
      BY <1>1 DEF Counts
    <2> QED
      BY <1>1, <2>1 DEF CheckpointsInv
  <1>2. CASE WriterStep
    <2>1. Next /\ UNCHANGED <<snapshot, ledger>>
      BY <1>2 DEF WriterStep
    <2>2. Counts' \in [Shards -> Nat] /\ ForestOver(forest, LogLeaves(Counts))'
      <3>1. CASE \E sh \in Shards : CloseSegment(sh)
        BY <3>1, CloseSegmentTakes
      <3>2. CASE UNCHANGED forest
        BY <1>1, <3>2
      <3> QED
        BY <2>1, <3>1, <3>2 DEF Next, SendUpdate, ReceiveUpdate, PersistStep, PersistError
    <2> QED
      BY <2>1, <2>2 DEF CheckpointsInv
  <1>3. CASE TakeSnapshot
    <2>1. /\ snapshot' = [root |-> CommitGlobalRoot(forest.global), located |-> SealedAddresses]
          /\ UNCHANGED <<forest, ledger>>
      BY <1>3 DEF TakeSnapshot, vars
    <2>2. CheckpointOf(snapshot', forest, Counts)
      BY <2>1, SealedAre DEF CheckpointsInv, CheckpointOf
    <2>3. IsCheckpoint(snapshot')
      BY <2>2 DEF IsCheckpoint
    <2> QED
      BY <1>1, <2>1, <2>3 DEF CheckpointsInv
  <1>4. CASE Publish
    <2>1. ledger' = Append(ledger, snapshot) /\ snapshot # NoSnapshot /\ snapshot' = NoSnapshot /\ UNCHANGED forest
      BY <1>4 DEF Publish, vars
    <2>2. /\ Len(ledger) \in Nat /\ Len(ledger') = Len(ledger) + 1 /\ ledger'[Len(ledger) + 1] = snapshot
          /\ \A i \in 1..Len(ledger) : ledger'[i] = ledger[i]
      <3>1. ledger \in Seq(Range(ledger) \cup {snapshot})
        BY SeqMonotonic
      <3> QED
        BY <2>1, <3>1, AppendProperties, LenProperties
    <2>3. \A i \in 1..Len(ledger') : i \in 1..Len(ledger) \/ i = Len(ledger) + 1
      BY <2>2
    <2>4. \A i \in 1..Len(ledger') : IsCheckpoint(ledger'[i])
      BY <2>1, <2>2, <2>3 DEF CheckpointsInv
    <2> QED
      BY <1>1, <2>1, <2>4 DEF CheckpointsInv
  <1>5. CASE UNCHANGED <<forest, snapshot, ledger>>
    BY <1>1, <1>5 DEF CheckpointsInv
  <1>6. CASE LocatorProof \/ HmfProof \/ LocalizeProof
    <2>1. UNCHANGED <<vars, snapshot, ledger>>
      BY <1>6, RequestLeaves
    <2> QED
      BY <1>5, <2>1 DEF vars
  <1>7. CASE \/ TraceFailed \/ ReadMetadata \/ PlanProof \/ FetchPartition \/ CheckReference
             \/ CheckProof \/ Confirm \/ QueryFails \/ LeafQueryFails
    <2>1. UNCHANGED <<vars, snapshot, ledger>>
      BY <1>7, ReadLeaves
    <2> QED
      BY <1>5, <2>1 DEF vars
  <1> QED
    BY <1>2, <1>3, <1>4, <1>5, <1>6, <1>7 DEF AuditNext, auditVars, vars

-----------------------------------------------------------------------------
\* A step that leaves the auditor its proof and is not in the building of one.
LEMMA DigestsKeep ==
    ASSUME DigestsInv, auditor'.proof = auditor.proof, request' = request \/ request'.op # "proof"
    PROVE  DigestsInv'
  <1>1. (auditor.proof # NoProof => CarriesDigests(auditor.proof))'
    BY DEF DigestsInv, CarriesDigests
  <1>2. CASE request' = request
    BY <1>1, <1>2 DEF DigestsInv, CarriesDigests
  <1>3. CASE request'.op # "proof"
    BY <1>1, <1>3 DEF DigestsInv
  <1> QED
    BY <1>2, <1>3

\* A refused or failed request.
LEMMA DigestsRefused ==
    ASSUME AuditInv, DigestsInv, NEW status, Answer(status, auditor)
    PROVE  DigestsInv'
  <1>1. request' = Idle /\ auditor' = [auditor EXCEPT !.status = status, !.op = request.op, !.submitted = request.failed]
    BY DEF Answer
  <1>2. DOMAIN auditor = DOMAIN NewAuditor
    BY DEF AuditInv, AuditorInv
  <1>3. auditor'.proof = auditor.proof /\ request'.op # "proof"
    BY <1>1, <1>2 DEF NewAuditor, Idle
  <1> QED
    BY <1>3, DigestsKeep

\* A request that starts, or is refused by its handler.
LEMMA DigestsStart ==
    ASSUME AuditInv, DigestsInv, NEW op,
           \/ BadRequest(op)
           \/ \E sequence, next : /\ Start(op, sequence, next) /\ DOMAIN next = DOMAIN Idle
                                  /\ op = "proof" => next.pc = "metadata"
    PROVE  DigestsInv'
  <1>1. DOMAIN auditor = DOMAIN NewAuditor
    BY DEF AuditInv, AuditorInv
  <1>2. CASE BadRequest(op)
    <2>1. /\ request' = request
          /\ auditor' = [auditor EXCEPT !.op = op, !.status = 400, !.submitted = NoProof, !.localization = NoProof]
      BY <1>2 DEF BadRequest
    <2>2. auditor'.proof = auditor.proof
      BY <1>1, <2>1 DEF NewAuditor
    <2> QED
      BY <2>1, <2>2, DigestsKeep
  <1>3. ASSUME NEW sequence, NEW next, Start(op, sequence, next), DOMAIN next = DOMAIN Idle,
               op = "proof" => next.pc = "metadata"
        PROVE  DigestsInv'
    <2>1. PICK status : auditor' = [auditor EXCEPT !.op = op, !.status = status, !.submitted = NoProof,
                                                   !.localization = NoProof]
      BY <1>3, ZenonT(60) DEF Start
    <2>2. auditor'.proof = auditor.proof
      BY <1>1, <2>1 DEF NewAuditor
    <2>3. request' = request \/ request' = [next EXCEPT !.op = op, !.sequence = sequence]
      BY <1>3, ZenonT(60) DEF Start
    <2>4. CASE request' = request \/ op # "proof"
      <3>1. request' = request \/ request'.op # "proof"
        BY <1>3, <2>3, <2>4 DEF Idle
      <3> QED
        BY <2>2, <3>1, DigestsKeep
    <2>5. CASE request' = [next EXCEPT !.op = op, !.sequence = sequence] /\ op = "proof"
      <3>1. request'.pc = "metadata"
        BY <1>3, <2>5 DEF Idle
      <3>2. (auditor.proof # NoProof => CarriesDigests(auditor.proof))'
        BY <2>2 DEF DigestsInv, CarriesDigests
      <3> QED
        BY <3>1, <3>2 DEF DigestsInv
    <2> QED
      BY <2>3, <2>4, <2>5
  <1> QED
    BY <1>2, <1>3

LEMMA DigestsRequests ==
    ASSUME AuditInv, DigestsInv, LocatorProof \/ HmfProof \/ LocalizeProof
    PROVE  DigestsInv'
  <1>1. CASE LocatorProof
    <2>1. CASE ResolveLocator
      <3> DEFINE next == [Idle EXCEPT !.pc = "confirm"]
      <3>1. Start("locator", Len(ledger), next)
        BY <2>1 DEF ResolveLocator
      <3>2. DOMAIN next = DOMAIN Idle
        BY DEF Idle
      <3> HIDE DEF next
      <3> QED
        <4>1. \E sequence, new : Start("locator", sequence, new) /\ DOMAIN new = DOMAIN Idle
          BY <3>1, <3>2
        <4> QED
          BY <4>1, DigestsStart
    <2> QED
      BY <1>1, <2>1, DigestsStart DEF LocatorProof
  <1>2. CASE HmfProof
    <2>1. PICK addresses : BadRequest("proof") \/ BuildHMFProof(auditor.sequence, addresses)
      BY <1>2, Zenon DEF HmfProof
    <2>2. CASE BuildHMFProof(auditor.sequence, addresses)
      <3> DEFINE queries == MetadataQueries(addresses)
                 next == [Idle EXCEPT !.pc = "metadata", !.addresses = addresses, !.queries = queries]
      <3>1. Start("proof", auditor.sequence, next)
        BY <2>2 DEF BuildHMFProof
      <3> HIDE DEF queries
      <3>2. DOMAIN next = DOMAIN Idle /\ next.pc = "metadata"
        BY DEF Idle
      <3> HIDE DEF next
      <3> QED
        <4>1. \E sequence, new : Start("proof", sequence, new) /\ DOMAIN new = DOMAIN Idle /\ new.pc = "metadata"
          BY <3>1, <3>2
        <4> QED
          BY <4>1, DigestsStart
    <2> QED
      BY <2>1, <2>2, DigestsStart
  <1>3. CASE LocalizeProof
    <2>1. PICK failed : BadRequest("localize") \/ LocalizeTamper(auditor.sequence, failed)
      BY <1>3, Zenon DEF LocalizeProof
    <2>2. CASE LocalizeTamper(auditor.sequence, failed)
      <3> DEFINE next == [Idle EXCEPT !.pc = "trace", !.addresses = failed.plan.addresses, !.failed = failed]
      <3>1. Start("localize", auditor.sequence, next)
        BY <2>2, Zenon DEF LocalizeTamper
      <3>2. DOMAIN next = DOMAIN Idle
        BY DEF Idle
      <3> HIDE DEF next
      <3> QED
        <4>1. \E sequence, new : Start("localize", sequence, new) /\ DOMAIN new = DOMAIN Idle
          BY <3>1, <3>2
        <4> QED
          BY <4>1, DigestsStart
    <2> QED
      BY <2>1, <2>2, DigestsStart
  <1> QED
    BY <1>1, <1>2, <1>3

\* Planner.Plan plans the segment of every address.
LEMMA PlanCovers ==
    ASSUME NEW addresses, NEW rows, NEW plan \in Plan(addresses, rows), NEW a \in addresses
    PROVE  SegmentTreeRef(a) \in {p.tree : p \in plan.trees}
  <1> DEFINE trees == TreesAbove(addresses)
             planned == UNION {PlanTree(t, rows.count[t], Targets(addresses, rows, t)) : t \in trees}
             links == {[child |-> t, parent |-> ParentTree(t), index |-> rows.index[t]] :
                          t \in trees \ {GlobalTreeRef}}
  <1>1. {p.tree : p \in planned} = trees /\ plan = [addresses |-> addresses, trees |-> planned, links |-> links]
    BY DEF Plan
  <1>2. SegmentTreeRef(a) \in trees
    BY DEF TreesAbove
  <1> HIDE DEF trees, planned, links
  <1> QED
    BY <1>1, <1>2

\* Rows and the plan.
LEMMA DigestsMetadata ==
    ASSUME AuditInv, DigestsInv, ReadMetadata \/ PlanProof
    PROVE  DigestsInv'
  <1>1. request.pc = "metadata" /\ request # Idle /\ DOMAIN request = DOMAIN Idle
    BY RequestFacts DEF ReadMetadata, PlanProof
  <1>2. ASSUME UNCHANGED auditor, request'.pc \in {"metadata", "nodes"},
               request'.pc = "nodes" =>
                  \A a \in request'.addresses : SegmentTreeRef(a) \in {p.tree : p \in request'.proof.trees}
        PROVE  DigestsInv'
    <2>1. (auditor.proof # NoProof => CarriesDigests(auditor.proof))'
      BY <1>2 DEF DigestsInv, CarriesDigests
    <2> QED
      BY <1>2, <2>1 DEF DigestsInv
  <1>3. CASE ReadMetadata
    <2>1. PICK q, rows : /\ request' = [request EXCEPT !.queries = request.queries \ {q}, !.rows = rows]
                         /\ UNCHANGED auditor
      <3>1. PICK q \in request.queries : LET store == Store
                IN Read([request EXCEPT !.queries = @ \ {q},
                            !.rows = [count |-> Only(store.count, q) @@ @.count,
                                      index |-> Only(store.index, q) @@ @.index,
                                      sealed |-> (store.sealed \cap q) \cup @.sealed]])
        BY <1>3, Zenon DEF ReadMetadata
      <3> QED
        BY <3>1, Zenon DEF Read
    <2>2. request'.pc = "metadata"
      BY <1>1, <2>1 DEF Idle
    <2> QED
      BY <1>2, <2>1, <2>2
  <1>4. CASE PlanProof
    <2> DEFINE plans == Plan(request.addresses, request.rows)
    <2>1. IF plans = {} THEN Refuse(500)
          ELSE \E plan \in plans :
                  Read([request EXCEPT !.pc = "nodes", !.queries = NodeQueries(plan.trees),
                                       !.rows = NoRows, !.proof = plan])
      BY <1>4, Zenon DEF PlanProof
    <2>2. CASE plans = {}
      <3>1. Answer(500, auditor)
        BY <2>1, <2>2 DEF Refuse
      <3> QED
        BY <3>1, DigestsRefused
    <2>3. CASE plans # {}
      <3>1. PICK plan \in plans : Read([request EXCEPT !.pc = "nodes", !.queries = NodeQueries(plan.trees),
                                                       !.rows = NoRows, !.proof = plan])
        BY <2>1, <2>3, Zenon
      <3>2. \A a \in request.addresses : SegmentTreeRef(a) \in {p.tree : p \in plan.trees}
        BY PlanCovers
      <3> HIDE DEF plans
      <3> DEFINE queries == NodeQueries(plan.trees)
      <3>3. /\ request' = [request EXCEPT !.pc = "nodes", !.queries = queries, !.rows = NoRows, !.proof = plan]
            /\ UNCHANGED auditor
        BY <3>1, Zenon DEF Read
      <3> HIDE DEF queries
      <3>4. request'.pc = "nodes" /\ request'.proof = plan /\ request'.addresses = request.addresses
        BY <1>1, <3>3 DEF Idle
      <3> QED
        BY <1>2, <3>2, <3>3, <3>4
    <2> QED
      BY <2>2, <2>3
  <1> QED
    BY <1>3, <1>4

LEMMA DigestsFetch ==
    ASSUME AuditInv, DigestsInv, FetchPartition
    PROVE  DigestsInv'
  <1>1. request.pc \in {"leaves", "nodes"} /\ request # Idle /\ DOMAIN request = DOMAIN Idle
    BY RequestFacts DEF FetchPartition
  <1>2. PICK q \in request.queries :
            LET found == FetchProofNodes(Store, q)
            IN IF found # {}
               THEN Read([request EXCEPT !.queries = @ \ {q}, !.nodes = @ \cup UNION found])
               ELSE IF request.pc = "leaves" THEN FallBack ELSE Refuse(500)
    BY Zenon DEF FetchPartition
  <1> DEFINE found == FetchProofNodes(Store, q)
             nodes == request.nodes \cup UNION found
             more == MetadataQueries(request.addresses)
  <1>3. CASE found # {}
    <2>1. request' = [request EXCEPT !.queries = request.queries \ {q}, !.nodes = nodes] /\ UNCHANGED auditor
      BY <1>2, <1>3, Zenon DEF Read
    <2> HIDE DEF nodes
    <2>2. /\ request'.pc = request.pc /\ request'.op = request.op /\ request'.proof = request.proof
          /\ request'.addresses = request.addresses
      BY <1>1, <2>1 DEF Idle
    <2>3. (auditor.proof # NoProof => CarriesDigests(auditor.proof))'
      BY <2>1 DEF DigestsInv, CarriesDigests
    <2> QED
      BY <1>1, <2>2, <2>3 DEF DigestsInv, CarriesDigests
  <1>4. CASE found = {} /\ request.pc = "leaves"
    <2>1. request' = [request EXCEPT !.pc = "metadata", !.nodes = {}, !.queries = more] /\ UNCHANGED auditor
      BY <1>2, <1>4, Zenon DEF FallBack, FallenBack, Read
    <2> HIDE DEF more
    <2>2. request.op # "proof"
      BY <1>4 DEF DigestsInv
    <2>3. request'.op # "proof"
      BY <1>1, <2>1, <2>2 DEF Idle
    <2> QED
      BY <2>1, <2>3, DigestsKeep
  <1>5. CASE found = {} /\ request.pc # "leaves"
    <2>1. Answer(500, auditor)
      BY <1>2, <1>5, Zenon DEF Refuse
    <2> QED
      BY <2>1, DigestsRefused
  <1> QED
    BY <1>3, <1>4, <1>5, Zenon

\* A request for a localization falls back.
LEMMA DigestsFallBack ==
    ASSUME AuditInv, DigestsInv, request.pc = "leaves", request' = FallenBack, UNCHANGED auditor
    PROVE  DigestsInv'
  <1> DEFINE queries == MetadataQueries(request.addresses)
  <1>1. request # Idle /\ DOMAIN request = DOMAIN Idle
    BY RequestFacts
  <1>2. request' = [request EXCEPT !.pc = "metadata", !.nodes = {}, !.queries = queries]
    BY DEF FallenBack
  <1> HIDE DEF queries
  <1>3. request'.op # "proof"
    BY <1>1, <1>2 DEF Idle, DigestsInv
  <1> QED
    BY <1>3, DigestsKeep

\* BuildAndVerify: a proof that leads to the pinned root carries the digests.
LEMMA DigestsCheck ==
    ASSUME AuditInv, CheckpointsInv, DigestsInv, CheckReference \/ CheckProof
    PROVE  DigestsInv'
  <1>1. /\ request.pc \in {"leaves", "nodes"} /\ request # Idle /\ DOMAIN request = DOMAIN Idle
        /\ request.sequence \in 1..Len(ledger)
    BY RequestFacts DEF CheckReference, CheckProof
  <1>2. CASE CheckReference
    <2> DEFINE failed == request.failed
               reference == [SplitTargetLeaves(failed.plan, request.nodes) EXCEPT !.nodes = failed.nodes]
    <2>1. request.pc = "leaves" /\ request.op # "proof"
      BY <1>2 DEF CheckReference, DigestsInv
    <2>2. IF Verified(reference, request.addresses, Pinned.root)
          THEN Read([request EXCEPT !.pc = "confirm", !.nodes = {}, !.proof = reference])
          ELSE FallBack
      BY <1>2, Zenon DEF CheckReference
    <2> HIDE DEF reference
    <2>3. CASE request' = [request EXCEPT !.pc = "confirm", !.nodes = {}, !.proof = reference] /\ UNCHANGED auditor
      <3>1. request'.op # "proof"
        BY <1>1, <2>1, <2>3 DEF Idle
      <3> QED
        BY <2>3, <3>1, DigestsKeep
    <2>4. CASE request' = FallenBack /\ UNCHANGED auditor
      BY <2>1, <2>4, DigestsFallBack
    <2> QED
      BY <2>2, <2>3, <2>4 DEF Read, FallBack
  <1>3. CASE CheckProof
    <2> DEFINE proof == SplitTargetLeaves(request.proof, request.nodes)
    <2>1. IF Verified(proof, request.addresses, Pinned.root)
          THEN Read([request EXCEPT !.pc = "confirm", !.nodes = {}, !.proof = proof])
          ELSE Refuse(500)
      BY <1>3, Zenon DEF CheckProof, MatchTrustedRoot
    <2>2. proof.plan = request.proof /\ \A l \in proof.leaves : l = <<l[1], l[2]>>
      <3> DEFINE At(a) == {n \in request.nodes : <<n[1], n[2]>> = TargetRef(a)}
      <3>1. /\ proof.plan = request.proof
            /\ proof.leaves = UNION {{<<a, n[3]>> : n \in At(a)} : a \in request.proof.addresses}
        BY DEF SplitTargetLeaves
      <3> HIDE DEF proof, At
      <3> QED
        BY <3>1
    <2>3. request.pc = "nodes"
      BY <1>3 DEF CheckProof
    <2> HIDE DEF proof
    <2>4. CASE ~Verified(proof, request.addresses, Pinned.root)
      <3>1. Answer(500, auditor)
        BY <2>1, <2>4 DEF Refuse
      <3> QED
        BY <3>1, DigestsRefused
    <2>5. CASE Verified(proof, request.addresses, Pinned.root)
      <3>1. /\ request' = [request EXCEPT !.pc = "confirm", !.nodes = {}, !.proof = proof]
            /\ UNCHANGED auditor
        BY <2>1, <2>5 DEF Read
      <3>2. request'.pc = "confirm" /\ request'.op = request.op /\ request'.proof = proof
        BY <1>1, <3>1 DEF Idle
      <3>3. CASE request.op # "proof"
        BY <3>1, <3>2, <3>3, DigestsKeep
      <3>4. CASE request.op = "proof"
        <4>1. \A a \in request.addresses : SegmentTreeRef(a) \in TreesOf(proof)
          BY <2>2, <2>3, <3>4 DEF DigestsInv, TreesOf
        <4>2. IsCheckpoint(Pinned)
          BY <1>1 DEF CheckpointsInv, Pinned
        <4>3. \A a \in request.addresses : IsAddress(a)
          <5>1. request.addresses \subseteq auditor.addresses /\ request.sequence = auditor.sequence
            BY <1>1, <3>4 DEF AuditInv, RequestInv
          <5>2. Len(ledger) \in Nat
            BY LenProperties DEF AuditInv
          <5>3. auditor.addresses = Pinned.located
            BY <1>1, <5>1, <5>2 DEF AuditInv, AuditorInv, Pinned
          <5>4. PICK f, counts : CheckpointOf(Pinned, f, counts)
            BY <4>2 DEF IsCheckpoint
          <5>5. \A a \in request.addresses : a \in Located(counts)
            BY <5>1, <5>3, <5>4 DEF CheckpointOf
          <5> QED
            BY <5>5, LocatedAre
        <4>4. CarriesDigests(proof)
          BY <2>2, <2>5, <4>1, <4>2, <4>3, VerifiedCarries
        <4>5. (auditor.proof # NoProof => CarriesDigests(auditor.proof))'
          BY <3>1 DEF DigestsInv, CarriesDigests
        <4> QED
          BY <3>2, <4>4, <4>5 DEF DigestsInv, CarriesDigests
      <3> QED
        BY <3>3, <3>4
    <2> QED
      BY <2>4, <2>5
  <1> QED
    BY <1>2, <1>3

\* What the auditor is given was in the request.
LEMMA DigestsConfirm ==
    ASSUME AuditInv, DigestsInv, Confirm
    PROVE  DigestsInv'
  <1>1. request.pc = "confirm" /\ request # Idle /\ request.op \in {"locator", "proof", "localize"}
    BY RequestFacts DEF Confirm
  <1>2. DOMAIN auditor = DOMAIN NewAuditor
    BY DEF AuditInv, AuditorInv
  <1>3. CASE ~EnsureStillCurrent
    <2>1. Answer(409, auditor)
      BY <1>3 DEF Confirm, Refuse
    <2> QED
      BY <2>1, DigestsRefused
  <1>4. ASSUME NEW kept, Answer(200, kept), DOMAIN kept = DOMAIN NewAuditor,
               kept.proof # NoProof => CarriesDigests(kept.proof)
        PROVE  DigestsInv'
    <2>1. /\ request' = Idle
          /\ auditor' = [kept EXCEPT !.status = 200, !.op = request.op, !.submitted = request.failed]
      BY <1>4 DEF Answer
    <2>2. auditor'.proof = kept.proof /\ request'.op # "proof"
      BY <1>4, <2>1 DEF NewAuditor, Idle
    <2> QED
      BY <1>4, <2>2 DEF DigestsInv, CarriesDigests
  <1>5. CASE EnsureStillCurrent /\ request.op = "locator"
    <2> DEFINE kept == [NewAuditor EXCEPT !.sequence = request.sequence, !.addresses = Pinned.located]
    <2>1. Answer(200, kept)
      BY <1>5 DEF Confirm
    <2>2. DOMAIN kept = DOMAIN NewAuditor /\ kept.proof = NoProof
      BY DEF NewAuditor
    <2> HIDE DEF kept
    <2> QED
      BY <1>4, <2>1, <2>2
  <1>6. CASE EnsureStillCurrent /\ request.op = "proof"
    <2> DEFINE kept == [auditor EXCEPT !.proof = request.proof]
    <2>1. Answer(200, kept)
      BY <1>6 DEF Confirm
    <2>2. DOMAIN kept = DOMAIN NewAuditor /\ kept.proof = request.proof
      BY <1>2 DEF NewAuditor
    <2>3. CarriesDigests(request.proof)
      BY <1>1, <1>6 DEF DigestsInv
    <2> HIDE DEF kept
    <2> QED
      BY <1>4, <2>1, <2>2, <2>3
  <1>7. CASE EnsureStillCurrent /\ request.op = "localize"
    <2> DEFINE localized == Localized
               kept == [auditor EXCEPT !.localization = localized]
    <2>1. Answer(200, kept)
      BY <1>7 DEF Confirm
    <2> HIDE DEF localized
    <2>2. DOMAIN kept = DOMAIN NewAuditor /\ kept.proof = auditor.proof
      BY <1>2 DEF NewAuditor
    <2> HIDE DEF kept
    <2> QED
      BY <1>4, <2>1, <2>2 DEF DigestsInv
  <1> QED
    BY <1>1, <1>3, <1>5, <1>6, <1>7

LEMMA DigestsInd ==
    ASSUME AuditInv, CheckpointsInv, DigestsInv, [AuditNext]_auditVars
    PROVE  DigestsInv'
  <1>1. CASE WriterStep \/ TakeSnapshot \/ Publish \/ UNCHANGED auditVars
    <2>1. UNCHANGED <<auditor, request>>
      BY <1>1 DEF WriterStep, TakeSnapshot, Publish, auditVars
    <2> QED
      BY <2>1, DigestsKeep
  <1>2. CASE LocatorProof \/ HmfProof \/ LocalizeProof
    BY <1>2, DigestsRequests
  <1>3. CASE TraceFailed
    <2>1. request.pc = "trace" /\ request # Idle /\ DOMAIN request = DOMAIN Idle
      BY <1>3, RequestFacts DEF TraceFailed
    <2>2. CASE Answer(422, auditor)
      BY <2>2, DigestsRefused
    <2>3. CASE ~Answer(422, auditor)
      <3> DEFINE queries == NodeQueries(LeafTrees(request.failed))
      <3>1. request' = [request EXCEPT !.pc = "leaves", !.queries = queries] /\ UNCHANGED auditor
        BY <1>3, <2>3, Zenon DEF TraceFailed, Refuse
      <3> HIDE DEF queries
      <3>2. request'.op # "proof"
        BY <2>1, <3>1 DEF Idle, DigestsInv
      <3> QED
        BY <3>1, <3>2, DigestsKeep
    <2> QED
      BY <2>2, <2>3
  <1>4. CASE ReadMetadata \/ PlanProof
    BY <1>4, DigestsMetadata
  <1>5. CASE FetchPartition
    BY <1>5, DigestsFetch
  <1>6. CASE CheckReference \/ CheckProof
    BY <1>6, DigestsCheck
  <1>7. CASE Confirm
    BY <1>7, DigestsConfirm
  <1>8. CASE QueryFails
    <2>1. Answer(500, auditor)
      BY <1>8 DEF QueryFails
    <2> QED
      BY <2>1, DigestsRefused
  <1>9. CASE LeafQueryFails
    <2>1. request.pc = "leaves" /\ request' = FallenBack /\ UNCHANGED auditor
      BY <1>9 DEF LeafQueryFails
    <2> QED
      BY <2>1, DigestsFallBack
  <1> QED
    BY <1>1, <1>2, <1>3, <1>4, <1>5, <1>6, <1>7, <1>8, <1>9 DEF AuditNext

\* BuildAndVerify and VerifyHMFProofAgainstRoot: a proof the auditor holds carries, for
\* each of its addresses, the digest of the log that was sealed there when its checkpoint
\* was taken, although its rows and nodes were read one after the other while updates
\* were rewriting them.
THEOREM HeldProofsBelong == AuditSpec => []ProofsBelongToCheckpoint
  <1>1. AuditInit => CheckpointsInv /\ DigestsInv
    <2>1. AuditInit => DigestsInv
      BY DEF AuditInit, DigestsInv, NewAuditor, Idle
    <2> QED
      BY <2>1, CheckpointsInit
  <1>2. AuditInv /\ CheckpointsInv /\ DigestsInv /\ [AuditNext]_auditVars => (CheckpointsInv /\ DigestsInv)'
    <2>1. AuditInv => ledger \in Seq(Range(ledger))
      BY DEF AuditInv
    <2> QED
      BY <2>1, CheckpointsInd, DigestsInd
  <1>3. AuditInv /\ DigestsInv => ProofsBelongToCheckpoint
    BY DEF AuditInv, AuditorInv, DigestsInv, ProofsBelongToCheckpoint
  <1> QED
    BY <1>1, <1>2, <1>3, AuditInductive, PTL DEF AuditSpec
=============================================================================
