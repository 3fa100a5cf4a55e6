----------------------------- MODULE Checkpoint -----------------------------
(***************************************************************************)
(* The checkpoint service (internal/checkpoint), the Cassandra checkpoint  *)
(* store it writes to (internal/storage/cassandra) and the readers of the  *)
(* current finalized checkpoint.                                           *)
(*                                                                         *)
(* One Finalize call at a time holds the service lock; everything it does  *)
(* is a step of the lock holder: read the latest history row, read the     *)
(* finality pointer and the row it names, snapshot, save the pending row,  *)
(* anchor, upsert the finalized row, upsert the finality pointer.  Every   *)
(* step can fail; a write that fails may have been applied, may be lost,   *)
(* or may still be on its way and land after later writes.  Cassandra      *)
(* resolves that by the client timestamp of the write: the row with the    *)
(* larger timestamp wins, and every upsert writes all columns of its row.  *)
(*                                                                         *)
(* A state commitment is H(sequence, R_L, R_G); hashes do not collide, so  *)
(* it is the pair <<sequence, snapshot>>.                                  *)
(***************************************************************************)
EXTENDS Integers, FiniteSets

CONSTANTS Callers,       \* goroutines that call Service.Finalize
          Readers,       \* goroutines that call Reader.Current
          Snapshots,     \* root pairs the StateSource may return
          None,          \* no caller, no snapshot
          MaxSequence,   \* stands for math.MaxInt64, the last sequence number
          MaxClock,      \* bound: timestamps issued
          MaxInflight    \* bound: writes on their way after the call gave up

ASSUME ConstantsAssumption ==
    /\ MaxSequence \in Nat \ {0}
    /\ MaxClock \in Nat
    /\ MaxInflight \in Nat
    /\ None \notin Callers \cup Snapshots
    /\ IsFiniteSet(Snapshots)

VARIABLES lock,      \* caller that holds Service.lock, or None
          waiting,   \* callers blocked in acquire
          pc,        \* next step of the lock holder
          work,      \* the checkpoint the lock holder works on
          seen,      \* finality pointer the lock holder has read
          rows,      \* table checkpoint_roots: sequence -> cell
          finality,  \* table finality_state: one cell
          lateRows,  \* row upserts that may still land
          latePtrs,  \* pointer upserts that may still land
          clock,     \* last timestamp issued
          receipts,  \* anchor: commitment -> block height, 0 if not anchored
          block,     \* anchor: last block used
          returned,  \* checkpoints Finalize returned without error
          reader     \* per reader: step, pointer read, last result

service == <<lock, waiting, pc, work, seen, returned>>
store   == <<rows, finality, lateRows, latePtrs>>
chain   == <<receipts, block>>
vars    == <<lock, waiting, pc, work, seen, rows, finality, lateRows, latePtrs,
             clock, receipts, block, returned, reader>>

SeqNums == 1..MaxSequence

Checkpoints == [seq : 0..MaxSequence, id : Nat, snap : Snapshots \cup {None},
                receipt : Nat, finalizedAt : Nat]
Cells == [ts : Nat, val : Checkpoints]

NoCheckpoint == [seq |-> 0, id |-> 0, snap |-> None, receipt |-> 0, finalizedAt |-> 0]
NoCell == [ts |-> 0, val |-> NoCheckpoint]

Commitment(c) == <<c.seq, c.snap>>

\* checkpointFromRow: a row without finality metadata is PENDING.
Finalized(c) == c.finalizedAt > 0

\* Last write wins, by timestamp.
Merge(cell, write) == IF write.ts > cell.ts THEN write ELSE cell

\* The store applies an upsert of a history row, of the finality pointer.
PutRow(w) == rows' = [rows EXCEPT ![w.val.seq] = Merge(@, w)]
PutPointer(w) == finality' = Merge(finality, w)

\* GetLatestCheckpoint: first row of the partition, in descending sequence order.
IsLatest(n) == /\ n \in 0..MaxSequence
               /\ n > 0 => rows[n].ts > 0
               /\ \A m \in SeqNums : rows[m].ts > 0 => m <= n

\* The comparison in CheckpointStore.CurrentFinalized: the row the pointer names
\* carries finality metadata and equals the pointer's copy.
PointerMatches(ptr, row) == row.ts > 0 /\ Finalized(row.val) /\ row.val = ptr.val

Init ==
    /\ lock = None
    /\ waiting = {}
    /\ pc = "latest"
    /\ work = NoCheckpoint
    /\ seen = NoCell
    /\ rows = [n \in SeqNums |-> NoCell]
    /\ finality = NoCell
    /\ lateRows = {}
    /\ latePtrs = {}
    /\ clock = 0
    /\ receipts = [c \in SeqNums \X Snapshots |-> 0]
    /\ block = 0
    /\ returned = {}
    /\ reader = [r \in Readers |-> [pc |-> "state", ptr |-> NoCell,
                                    result |-> "none", last |-> NoCheckpoint]]

-----------------------------------------------------------------------------
\* Finalize returns, or its process dies: the lock is free, the locals are gone.
Release ==
    /\ lock' = None
    /\ pc' = "latest"
    /\ work' = NoCheckpoint
    /\ seen' = NoCell

\* Finalize is called and waits for the lock.
Call(c) ==
    /\ c \notin waiting /\ lock # c
    /\ waiting' = waiting \cup {c}
    /\ UNCHANGED <<lock, pc, work, seen, returned, store, chain, clock, reader>>

\* acquire: ctx is done first.
AcquireCanceled(c) ==
    /\ c \in waiting
    /\ waiting' = waiting \ {c}
    /\ UNCHANGED <<lock, pc, work, seen, returned, store, chain, clock, reader>>

\* acquire: the lock is free.
Acquire(c) ==
    /\ c \in waiting /\ lock = None
    /\ lock' = c
    /\ waiting' = waiting \ {c}
    /\ UNCHANGED <<pc, work, seen, returned, store, chain, clock, reader>>

\* Mutants: resume a finalized row as if it were pending; take a new snapshot
\* for the sequence number of a pending row.
ReadLatestReanchors(n) ==
    /\ lock # None /\ pc = "latest"
    /\ IsLatest(n)
    /\ work' = IF n = 0 THEN NoCheckpoint ELSE rows[n].val
    /\ pc' = IF n = 0 THEN "snapshot" ELSE "anchor"
    /\ UNCHANGED <<lock, waiting, seen, returned, store, chain, clock, reader>>

ReadLatestIgnoresPending(n) ==
    /\ lock # None /\ pc = "latest"
    /\ IsLatest(n)
    /\ IF n > 0 /\ Finalized(rows[n].val)
       THEN work' = rows[n].val /\ pc' = "pointer"
       ELSE work' = [NoCheckpoint EXCEPT !.seq = IF n = 0 THEN 0 ELSE n - 1] /\ pc' = "snapshot"
    /\ UNCHANGED <<lock, waiting, seen, returned, store, chain, clock, reader>>

\* LatestCheckpoint: none found, pending work to resume, or a finalized row.
ReadLatest(n) ==
    /\ lock # None /\ pc = "latest"
    /\ IsLatest(n)
    /\ work' = IF n = 0 THEN NoCheckpoint ELSE rows[n].val
    /\ \/ n = 0 /\ pc' = "snapshot"
       \/ n > 0 /\ Finalized(rows[n].val) /\ pc' = "pointer"
       \/ n > 0 /\ ~Finalized(rows[n].val) /\ pc' = "anchor"
    /\ UNCHANGED <<lock, waiting, seen, returned, store, chain, clock, reader>>

\* Mutants: recovery publishes the pointer without writing the row again; no
\* pointer is taken for nothing to recover.
ReadPointerRecoversPointerOnly ==
    /\ lock # None /\ pc = "pointer"
    /\ seen' = finality
    /\ pc' = IF finality.ts = 0 THEN "finality" ELSE "current"
    /\ UNCHANGED <<lock, waiting, work, returned, store, chain, clock, reader>>

ReadPointerSkipsRecovery ==
    /\ lock # None /\ pc = "pointer"
    /\ seen' = finality
    /\ pc' = IF finality.ts = 0 THEN "snapshot" ELSE "current"
    /\ UNCHANGED <<lock, waiting, work, returned, store, chain, clock, reader>>

\* CurrentFinalized, first read: the finality pointer.  Not found: the
\* publication of the latest row was interrupted, publish it again.
ReadPointer ==
    /\ lock # None /\ pc = "pointer"
    /\ seen' = finality
    /\ pc' = IF finality.ts = 0 THEN "row" ELSE "current"
    /\ UNCHANGED <<lock, waiting, work, returned, store, chain, clock, reader>>

\* Mutants: no bound on the sequence number; a pointer behind the history is an
\* error.
ReadCurrentUnbounded ==
    /\ lock # None /\ pc = "current"
    /\ PointerMatches(seen, rows[seen.val.seq])
    /\ pc' = IF seen.val.seq < work.seq THEN "row" ELSE "snapshot"
    /\ UNCHANGED <<lock, waiting, work, seen, returned, store, chain, clock, reader>>

ReadCurrentRejectsBehind ==
    /\ lock # None /\ pc = "current"
    /\ PointerMatches(seen, rows[seen.val.seq])
    /\ seen.val.seq = work.seq /\ work.seq < MaxSequence
    /\ pc' = "snapshot"
    /\ UNCHANGED <<lock, waiting, work, seen, returned, store, chain, clock, reader>>

\* CurrentFinalized, second read, and the comparison of current with latest:
\* behind, or the row is not found (also ErrNotFound), publish the latest row
\* again; equal, start a new checkpoint.  Any conflict, and the last sequence
\* number, leave only the error return.
ReadCurrent ==
    /\ lock # None /\ pc = "current"
    /\ rows[seen.val.seq].ts = 0 \/ PointerMatches(seen, rows[seen.val.seq])
    /\ \/ /\ rows[seen.val.seq].ts = 0 \/ seen.val.seq < work.seq
          /\ pc' = "row"
       \/ /\ rows[seen.val.seq].ts > 0
          /\ seen.val.seq = work.seq
          /\ Commitment(seen.val) = Commitment(work)
          /\ work.seq < MaxSequence
          /\ pc' = "snapshot"
    /\ UNCHANGED <<lock, waiting, work, seen, returned, store, chain, clock, reader>>

\* Mutant: the sequence number is not advanced.
SnapshotSameSequence(s) ==
    /\ lock # None /\ pc = "snapshot"
    /\ work' = [seq |-> IF work.seq = 0 THEN 1 ELSE work.seq, id |-> clock + 1, snap |-> s,
                receipt |-> 0, finalizedAt |-> 0]
    /\ pc' = "save"
    /\ UNCHANGED <<lock, waiting, seen, returned, store, chain, clock, reader>>

\* StateSource.Snapshot and the new pending checkpoint, whose ID and CreatedAt
\* come from the clock.
Snapshot(s) ==
    /\ lock # None /\ pc = "snapshot"
    /\ work' = [seq |-> work.seq + 1, id |-> clock + 1, snap |-> s,
                receipt |-> 0, finalizedAt |-> 0]
    /\ pc' = "save"
    /\ UNCHANGED <<lock, waiting, seen, returned, store, chain, clock, reader>>

\* The cell the lock holder is about to write.
Write == [ts |-> clock + 1, val |-> work]

\* SavePending: upsert the pending history row.
SavePending ==
    /\ lock # None /\ pc = "save" /\ clock < MaxClock
    /\ PutRow(Write)
    /\ clock' = clock + 1
    /\ pc' = "anchor"
    /\ UNCHANGED <<lock, waiting, work, seen, returned, finality, lateRows,
                   latePtrs, chain, reader>>

\* Anchor.Commit is idempotent per commitment.
CommitAnchor ==
    IF receipts[Commitment(work)] > 0
    THEN UNCHANGED chain
    ELSE /\ receipts' = [receipts EXCEPT ![Commitment(work)] = block + 1]
         /\ block' = block + 1

\* The finalized checkpoint made from a pending one.
Finalize(c, receipt, at) ==
    [seq |-> c.seq, id |-> c.id, snap |-> c.snap, receipt |-> receipt, finalizedAt |-> at]

\* Mutants: publish without waiting for the anchor; publish the pointer first.
AnchorCommitAfterPublish ==
    /\ lock # None /\ pc = "anchor"
    /\ work' = Finalize(work, block + 1, clock + 1)
    /\ pc' = "row"
    /\ UNCHANGED <<lock, waiting, seen, returned, store, chain, clock, reader>>

AnchorCommitPointerFirst ==
    /\ lock # None /\ pc = "anchor"
    /\ CommitAnchor
    /\ work' = Finalize(work, receipts'[Commitment(work)], clock + 1)
    /\ pc' = "finality"
    /\ UNCHANGED <<lock, waiting, seen, returned, store, clock, reader>>

\* anchorAndPublish up to the publication.
AnchorCommit ==
    /\ lock # None /\ pc = "anchor"
    /\ CommitAnchor
    /\ work' = Finalize(work, receipts'[Commitment(work)], clock + 1)
    /\ pc' = "row"
    /\ UNCHANGED <<lock, waiting, seen, returned, store, clock, reader>>

\* PublishFinalized, first write: the finalized history row.
UpsertCheckpoint ==
    /\ lock # None /\ pc = "row" /\ clock < MaxClock
    /\ PutRow(Write)
    /\ clock' = clock + 1
    /\ pc' = "finality"
    /\ UNCHANGED <<lock, waiting, work, seen, returned, finality, lateRows,
                   latePtrs, chain, reader>>

\* PublishFinalized, second write: the finality pointer.  Finalize returns.
UpsertFinalityState ==
    /\ lock # None /\ pc = "finality" /\ clock < MaxClock
    /\ PutPointer(Write)
    /\ clock' = clock + 1
    /\ returned' = returned \cup {work}
    /\ Release
    /\ UNCHANGED <<waiting, rows, lateRows, latePtrs, chain, reader>>

-----------------------------------------------------------------------------
\* Finalize returns an error and releases the lock: a read, the snapshot, the
\* anchor or a write failed with no effect, ctx is done, or a check rejected.
FinalizeError ==
    /\ lock # None
    /\ Release
    /\ UNCHANGED <<waiting, returned, store, chain, clock, reader>>

\* The anchor took the commitment but its answer was an error.
AnchorAnswerLost ==
    /\ lock # None /\ pc = "anchor"
    /\ CommitAnchor
    /\ Release
    /\ UNCHANGED <<waiting, returned, store, clock, reader>>

\* A write was applied but its answer was an error.
WriteAnswerLost ==
    /\ lock # None /\ pc \in {"save", "row", "finality"} /\ clock < MaxClock
    /\ IF pc = "finality"
       THEN /\ PutPointer(Write)
            /\ UNCHANGED rows
       ELSE /\ PutRow(Write)
            /\ UNCHANGED finality
    /\ clock' = clock + 1
    /\ Release
    /\ UNCHANGED <<waiting, returned, lateRows, latePtrs, chain, reader>>

\* A write timed out and may still land.
WriteDelayed ==
    /\ lock # None /\ pc \in {"save", "row", "finality"} /\ clock < MaxClock
    /\ Cardinality(lateRows) + Cardinality(latePtrs) < MaxInflight
    /\ IF pc = "finality"
       THEN /\ latePtrs' = latePtrs \cup {Write}
            /\ UNCHANGED lateRows
       ELSE /\ lateRows' = lateRows \cup {Write}
            /\ UNCHANGED latePtrs
    /\ clock' = clock + 1
    /\ Release
    /\ UNCHANGED <<waiting, returned, rows, finality, chain, reader>>

\* The process that runs the service dies and is restarted.
Crash ==
    /\ lock # None \/ waiting # {}
    /\ Release
    /\ waiting' = {}
    /\ UNCHANGED <<returned, store, chain, clock, reader>>

\* A delayed row upsert lands.
LandRow(w) ==
    /\ lateRows' = lateRows \ {w}
    /\ PutRow(w)
    /\ UNCHANGED <<service, finality, latePtrs, chain, clock, reader>>

\* A delayed pointer upsert lands.
LandPointer(w) ==
    /\ latePtrs' = latePtrs \ {w}
    /\ PutPointer(w)
    /\ UNCHANGED <<service, rows, lateRows, chain, clock, reader>>

\* A delayed write is lost.
LoseWrite(w) ==
    /\ lateRows' = lateRows \ {w}
    /\ latePtrs' = latePtrs \ {w}
    /\ UNCHANGED <<service, rows, finality, chain, clock, reader>>

-----------------------------------------------------------------------------
\* Reader.Current: read the pointer ...
ReaderPointer(r) ==
    /\ reader[r].pc = "state"
    /\ finality.ts > 0
    /\ reader' = [reader EXCEPT ![r] = 
                     [pc |-> "row", ptr |-> finality, result |-> @.result, last |-> @.last]]
    /\ UNCHANGED <<service, store, chain, clock>>

ReaderReturns(r, result, last) ==
    reader' = [reader EXCEPT ![r] = [pc |-> "state", ptr |-> NoCell,
                                     result |-> result, last |-> last]]

\* ... then the row it names, and compare the two.
ReaderRow(r) ==
    /\ reader[r].pc = "row"
    /\ LET row == rows[reader[r].ptr.val.seq]
       IN IF PointerMatches(reader[r].ptr, row)
          THEN ReaderReturns(r, "ok", row.val)
          ELSE ReaderReturns(r, "conflict", reader[r].last)
    /\ UNCHANGED <<service, store, chain, clock>>

-----------------------------------------------------------------------------
HolderStep ==
    \/ \E n \in 0..MaxSequence : ReadLatest(n)
    \/ ReadPointer
    \/ ReadCurrent
    \/ \E s \in Snapshots : Snapshot(s)
    \/ SavePending
    \/ AnchorCommit
    \/ UpsertCheckpoint
    \/ UpsertFinalityState

Failure ==
    \/ FinalizeError
    \/ AnchorAnswerLost
    \/ WriteAnswerLost
    \/ WriteDelayed
    \/ Crash

Network ==
    \/ \E w \in lateRows : LandRow(w)
    \/ \E w \in latePtrs : LandPointer(w)
    \/ \E w \in lateRows \cup latePtrs : LoseWrite(w)

Next ==
    \/ \E c \in Callers : Call(c) \/ AcquireCanceled(c) \/ Acquire(c)
    \/ HolderStep
    \/ Failure
    \/ Network
    \/ \E r \in Readers : ReaderPointer(r) \/ ReaderRow(r)

Spec == Init /\ [][Next]_vars
-----------------------------------------------------------------------------
\* Type invariant.
TypeOK ==
    /\ lock \in Callers \cup {None}
    /\ waiting \subseteq Callers
    /\ pc \in {"latest", "pointer", "current", "snapshot", "save", "anchor", "row", "finality"}
    /\ work \in Checkpoints
    /\ seen \in Cells
    /\ rows \in [SeqNums -> Cells]
    /\ finality \in Cells
    /\ lateRows \subseteq Cells
    /\ latePtrs \subseteq Cells
    /\ clock \in Nat
    /\ receipts \in [SeqNums \X Snapshots -> Nat]
    /\ block \in Nat
    /\ returned \subseteq Checkpoints
    /\ reader \in [Readers -> [pc : {"state", "row"}, ptr : Cells,
                               result : {"none", "ok", "conflict"}, last : Checkpoints]]

\* init.cql:346, "Duplicated checkpoint fields must match the referenced
\* checkpoint_roots row": in every state, whatever failed and whatever write is
\* still on its way, the pointer names a finalized row and carries the same
\* fields, so the conflict branch of CurrentFinalized is never taken.
PointerMatchesHistory ==
    finality.ts > 0 => PointerMatches(finality, rows[finality.val.seq])

\* A checkpoint that Finalize returned stays in the history exactly as returned
\* and the pointer never falls behind it: a late write of an earlier attempt
\* does not undo an acknowledged finalization.
ReturnedIsDurable ==
    \A c \in returned : /\ rows[c.seq].val = c
                        /\ finality.val.seq >= c.seq

\* init.cql:347, "Publish only after ... the anchor is finalized": a finalized
\* row, applied or on its way, and the pointer carry the receipt that the anchor
\* holds for their commitment.
AnchoredBeforeFinalized ==
    \A c \in {rows[n].val : n \in SeqNums} \cup {w.val : w \in lateRows} :
        Finalized(c) => /\ c.receipt > 0
                        /\ receipts[Commitment(c)] = c.receipt

\* A reader that reads the pointer and the row in two queries never finds them
\* in conflict, even when the service finalizes a checkpoint in between.
ReaderNeverConflicts == \A r \in Readers : reader[r].result # "conflict"

\* The current checkpoint a reader is given never goes back to an older sequence
\* number, and never changes at the same sequence number.
ReaderMonotone ==
    [][\A r \in Readers :
         /\ reader'[r].last.seq >= reader[r].last.seq
         /\ reader'[r].last.seq = reader[r].last.seq => reader'[r].last = reader[r].last]_vars

\* Resuming pending work never anchors a second commitment for a sequence number
\* (service.go:59, checkpoint_test.go:126).  Holds when a write that failed has
\* either been applied or is lost (MaxInflight = 0).
OneCommitmentPerSequence ==
    \A n \in SeqNums : \A s, t \in Snapshots :
        receipts[<<n, s>>] > 0 /\ receipts[<<n, t>>] > 0 => s = t

\* The service implements the append-only ledger: the pointer's sequence is the
\* ledger's length, the history rows up to it are its entries.
Ledger == INSTANCE CheckpointLedger WITH
            NoSnapshot <- None,
            current <- finality.val.seq,
            ledger <- [n \in SeqNums |-> IF n <= finality.val.seq
                                         THEN rows[n].val.snap ELSE None]

\* Every published checkpoint is immutable, and publication adds one sequence
\* number at a time, whatever crashes, retries and late writes do.
LedgerSpec == Ledger!Spec

-----------------------------------------------------------------------------
\* The inductive invariant behind the properties.

\* Pointer upserts, applied or on their way.
Ptrs == latePtrs \cup {finality}

\* The content of row n is decided: it is finalized, and a late upsert of that
\* row loses to it or says the same.
Fixed(n) ==
    /\ rows[n].ts > 0
    /\ Finalized(rows[n].val)
    /\ \A w \in lateRows : w.val.seq = n => w.ts <= rows[n].ts \/ w.val = rows[n].val

\* A checkpoint that was read from, or is on its way to, the history.
Stored(c) == c.seq \in SeqNums /\ c.snap \in Snapshots /\ c.seq <= finality.val.seq + 1

RowsInv ==
    /\ \A n \in SeqNums : /\ rows[n].ts <= clock
                          /\ rows[n].ts > 0 => rows[n].val.seq = n /\ Stored(rows[n].val)
                          /\ rows[n].ts = 0 => rows[n] = NoCell
    /\ \A w \in lateRows : w.ts > 0 /\ w.ts <= clock /\ Stored(w.val)

\* A pointer names a decided row with the same content; pointers were issued in
\* the order of their sequence numbers; everything up to the applied pointer is
\* decided.
PtrsInv ==
    /\ \A p \in latePtrs : /\ p.ts > 0 /\ p.ts <= clock
                           /\ Stored(p.val)
                           /\ Fixed(p.val.seq)
                           /\ rows[p.val.seq].val = p.val
    /\ finality.ts <= clock
    /\ finality.ts = 0 => finality = NoCell
    /\ finality.ts > 0 => finality.val.seq > 0 /\ rows[finality.val.seq].val = finality.val
    /\ \A n \in SeqNums : n <= finality.val.seq => Fixed(n)
    /\ \A p, q \in Ptrs : p.ts < q.ts => p.val.seq <= q.val.seq

\* The lock holder's checkpoint may be published: no pointer is ahead of it, one
\* at its sequence number says the same.
Publishable ==
    /\ Stored(work)
    /\ Finalized(work)
    /\ \A p \in Ptrs : p.val.seq <= work.seq /\ (p.val.seq = work.seq => p.val = work)

\* The lock holder's checkpoint is new: every pointer is behind it.
Fresh ==
    /\ Stored(work)
    /\ \A p \in Ptrs : p.val.seq < work.seq

HolderInv ==
    /\ lock = None => pc = "latest"
    /\ pc \in {"pointer", "current", "row", "finality"} => Publishable
    /\ pc = "current" => /\ seen.ts > 0
                         /\ seen.val.seq > 0 /\ seen.val.seq <= finality.val.seq
                         /\ rows[seen.val.seq].val = seen.val
    /\ pc = "snapshot" => /\ work.seq = finality.val.seq
                          /\ work.seq < MaxSequence
                          /\ \A p \in Ptrs : p.val.seq <= work.seq
    /\ pc \in {"save", "anchor"} => Fresh
    /\ pc = "save" => ~Finalized(work)
    /\ pc = "finality" => Fixed(work.seq) /\ rows[work.seq].val = work

\* What was returned to a caller or to a reader is published.
Published(c) == c.seq > 0 /\ c.seq <= finality.val.seq /\ rows[c.seq].val = c

ResultsInv ==
    /\ \A c \in returned : Published(c)
    /\ \A r \in Readers :
         /\ reader[r].result # "conflict"
         /\ reader[r].last.seq > 0 => Published(reader[r].last)
         /\ reader[r].last.seq = 0 => reader[r].last = NoCheckpoint
         /\ reader[r].pc = "row" => /\ reader[r].ptr.ts > 0
                                    /\ Published(reader[r].ptr.val)
                                    /\ reader[r].last.seq <= reader[r].ptr.val.seq

\* c carries the receipt the anchor holds for it, if it is finalized.
Anchored(c) == Finalized(c) => c.receipt > 0 /\ receipts[Commitment(c)] = c.receipt

AnchorInv ==
    /\ \A n \in SeqNums : Anchored(rows[n].val)
    /\ \A w \in lateRows : Anchored(w.val)
    /\ pc \in {"pointer", "current", "row", "finality"} => Anchored(work)

\* The inductive invariant: rows, pointers, the lock holder, results and anchor
\* fit together in every state.
IndInv == TypeOK /\ RowsInv /\ PtrsInv /\ HolderInv /\ ResultsInv /\ AnchorInv

\* For OneCommitmentPerSequence, where no write lands late: a commitment is anchored only
\* once its row is in the history, and a sequence number is given a snapshot only while
\* it has no row.
CommitInv ==
    /\ lateRows = {} /\ latePtrs = {}
    /\ \A n \in SeqNums, s \in Snapshots :
          receipts[<<n, s>>] > 0 => rows[n].ts > 0 /\ rows[n].val.snap = s
    /\ pc \in {"pointer", "current", "anchor", "row", "finality"} =>
          rows[work.seq].ts > 0 /\ rows[work.seq].val.snap = work.snap
    /\ pc \in {"pointer", "current", "snapshot"} => \A m \in SeqNums : m > work.seq => rows[m].ts = 0
    /\ pc = "save" => \A m \in SeqNums : m >= work.seq => rows[m].ts = 0

-----------------------------------------------------------------------------
\* Callers keep calling, the lock is handed over, and an operation that is tried
\* again and again succeeds at some point.
Fairness ==
    /\ \A c \in Callers : WF_vars(Call(c)) /\ SF_vars(Acquire(c))
    /\ SF_vars(\E n \in 0..MaxSequence : ReadLatest(n))
    /\ SF_vars(ReadPointer)
    /\ SF_vars(ReadCurrent)
    /\ SF_vars(\E s \in Snapshots : Snapshot(s))
    /\ SF_vars(SavePending)
    /\ SF_vars(AnchorCommit)
    /\ SF_vars(UpsertCheckpoint)
    /\ SF_vars(UpsertFinalityState)

FairSpec == Spec /\ Fairness

\* Work that was started is finished: a history row, pending or finalized, does
\* not stay unpublished while Finalize is retried (unless the bound on the clock
\* is reached).  The recovery paths of Finalize never get stuck.
StartedIsPublished ==
    \A n \in SeqNums : rows[n].ts > 0 ~> (finality.val.seq >= n \/ clock = MaxClock)
=============================================================================
