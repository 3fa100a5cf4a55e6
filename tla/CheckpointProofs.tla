-------------------------- MODULE CheckpointProofs --------------------------
(***************************************************************************)
(* Proofs about Checkpoint, for every number of callers, readers, root     *)
(* pairs, sequence numbers, timestamps and late writes.                    *)
(***************************************************************************)
EXTENDS Checkpoint, FiniteSetTheorems, TLAPS

\* The inductive invariant holds initially.
LEMMA InitInd == Init => IndInv
  <1> SUFFICES ASSUME Init PROVE IndInv
    OBVIOUS
  <1> USE ConstantsAssumption DEF Init, NoCell, NoCheckpoint, SeqNums
  <1>1. TypeOK
    BY DEF TypeOK, Cells, Checkpoints
  <1>2. RowsInv
    BY DEF RowsInv
  <1>3. PtrsInv
    BY DEF PtrsInv, Ptrs, Fixed
  <1>4. HolderInv
    BY DEF HolderInv
  <1>5. ResultsInv
    BY DEF ResultsInv, Published
  <1>6. AnchorInv
    BY DEF AnchorInv, Anchored, Finalized
  <1> QED
    BY <1>1, <1>2, <1>3, <1>4, <1>5, <1>6 DEF IndInv

\* The components of a checkpoint and of a cell.
LEMMA CheckpointType ==
    /\ NoCheckpoint \in Checkpoints
    /\ \A c \in Checkpoints : /\ c.seq \in 0..MaxSequence /\ c.seq \in Int
                              /\ c.snap \in Snapshots \cup {None}
                              /\ c.id \in Nat /\ c.receipt \in Nat /\ c.finalizedAt \in Nat
    /\ \A q \in 0..MaxSequence, i, t, f \in Nat, s \in Snapshots \cup {None} :
         [seq |-> q, id |-> i, snap |-> s, receipt |-> t, finalizedAt |-> f] \in Checkpoints
  BY ConstantsAssumption DEF NoCheckpoint, Checkpoints

\* The checkpoint that anchorAndPublish makes is well-typed.
LEMMA FinalizeType ==
    ASSUME NEW c \in Checkpoints, NEW t \in Nat, NEW f \in Nat
    PROVE  Finalize(c, t, f) \in Checkpoints
  BY DEF Finalize, Checkpoints

\* A write is well-typed when its timestamp and its checkpoint are.
LEMMA CellType ==
    /\ NoCell \in Cells
    /\ \A c \in Cells : c.ts \in Nat /\ c.val \in Checkpoints
    /\ \A t \in Nat, v \in Checkpoints : /\ [ts |-> t, val |-> v] \in Cells
    /\ \A c, w \in Cells : Merge(c, w) \in Cells
  BY CheckpointType DEF NoCell, Cells, Merge

\* The write the lock holder is about to issue is well-typed.
LEMMA WriteType == ASSUME TypeOK PROVE Write \in Cells
  BY CellType DEF TypeOK, Write

\* What the store and the anchor do keeps their types.
LEMMA PutType ==
    ASSUME TypeOK, NEW w \in Cells
    PROVE  /\ PutRow(w) => rows' \in [SeqNums -> Cells]
           /\ PutPointer(w) => finality' \in Cells
  <1>1. \A n \in SeqNums : Merge(rows[n], w) \in Cells
    BY CellType DEF TypeOK
  <1>2. Merge(finality, w) \in Cells
    BY CellType DEF TypeOK
  <1> QED
    BY <1>1, <1>2 DEF TypeOK, PutRow, PutPointer

\* Anchor.Commit keeps the anchor's state well-typed, leaves a receipt for the
\* commitment and does not change an earlier one.
LEMMA CommitAnchorType ==
    ASSUME IndInv, pc = "anchor", CommitAnchor
    PROVE  /\ Commitment(work) \in SeqNums \X Snapshots
           /\ receipts' \in [SeqNums \X Snapshots -> Nat]
           /\ block' \in Nat
           /\ receipts'[Commitment(work)] \in Nat
           /\ receipts'[Commitment(work)] > 0
           /\ \A c \in SeqNums \X Snapshots : receipts[c] > 0 => receipts'[c] = receipts[c]
  <1>1. Commitment(work) \in SeqNums \X Snapshots
    BY DEF IndInv, HolderInv, Fresh, Stored, Commitment
  <1>2. receipts \in [SeqNums \X Snapshots -> Nat] /\ block \in Nat
    BY DEF IndInv, TypeOK
  <1> QED
    BY <1>1, <1>2 DEF CommitAnchor, chain

\* Every action keeps the types.
LEMMA TypeStep == ASSUME IndInv, [Next]_vars PROVE TypeOK'
  <1> USE CheckpointType, CellType, WriteType, PutType
      DEF IndInv, TypeOK, service, store, chain, Release
  <1>1. ASSUME NEW c \in Callers, Call(c) \/ AcquireCanceled(c) \/ Acquire(c) PROVE TypeOK'
    BY <1>1 DEF Call, AcquireCanceled, Acquire
  <1>2. ASSUME NEW n \in 0..MaxSequence, ReadLatest(n) PROVE TypeOK'
    BY <1>2, ConstantsAssumption DEF ReadLatest, SeqNums
  <1>3. CASE ReadPointer
    BY <1>3 DEF ReadPointer
  <1>4. CASE ReadCurrent
    BY <1>4 DEF ReadCurrent
  <1>5. ASSUME NEW s \in Snapshots, Snapshot(s) PROVE TypeOK'
    <2>1. work.seq + 1 \in 0..MaxSequence
      BY <1>5, ConstantsAssumption DEF Snapshot, HolderInv
    <2>2. work' \in Checkpoints
      BY <1>5, <2>1 DEF Snapshot
    <2> QED
      BY <1>5, <2>2 DEF Snapshot
  <1>6. CASE SavePending
    BY <1>6 DEF SavePending
  <1>8. CASE AnchorCommit
    <2>1. receipts'[Commitment(work)] \in Nat /\ clock + 1 \in Nat
      BY <1>8, CommitAnchorType DEF AnchorCommit
    <2>2. work' = Finalize(work, receipts'[Commitment(work)], clock + 1)
      BY <1>8 DEF AnchorCommit
    <2>3. work' \in Checkpoints
      BY <2>1, <2>2, FinalizeType
    <2> QED
      BY <1>8, <2>3, CommitAnchorType DEF AnchorCommit
  <1>9. CASE UpsertCheckpoint
    BY <1>9 DEF UpsertCheckpoint
  <1>10. CASE UpsertFinalityState
    BY <1>10 DEF UpsertFinalityState
  <1>11. CASE FinalizeError
    BY <1>11 DEF FinalizeError
  <1>12. CASE AnchorAnswerLost
    BY <1>12, CommitAnchorType DEF AnchorAnswerLost
  <1>13. CASE WriteAnswerLost
    BY <1>13 DEF WriteAnswerLost
  <1>14. CASE WriteDelayed
    BY <1>14 DEF WriteDelayed
  <1>15. CASE Crash
    BY <1>15 DEF Crash
  <1>16. ASSUME NEW w \in lateRows, LandRow(w) PROVE TypeOK'
    BY <1>16 DEF LandRow
  <1>17. ASSUME NEW w \in latePtrs, LandPointer(w) PROVE TypeOK'
    BY <1>17 DEF LandPointer
  <1>18. ASSUME NEW w \in lateRows \cup latePtrs, LoseWrite(w) PROVE TypeOK'
    BY <1>18 DEF LoseWrite
  <1>19. ASSUME NEW r \in Readers, ReaderPointer(r) PROVE TypeOK'
    BY <1>19 DEF ReaderPointer
  <1>20. ASSUME NEW r \in Readers, ReaderRow(r) PROVE TypeOK'
    <2>1. reader[r].ptr.val.seq \in SeqNums
      BY <1>20, ConstantsAssumption DEF ReaderRow, ResultsInv, Published, SeqNums
    <2>2. rows[reader[r].ptr.val.seq].val \in Checkpoints
      BY <2>1
    <2>3. \E x \in {"ok", "conflict"}, l \in Checkpoints : ReaderReturns(r, x, l)
      BY <1>20, <2>2 DEF ReaderRow
    <2>4. reader' \in [Readers -> [pc : {"state", "row"}, ptr : Cells,
                               result : {"none", "ok", "conflict"}, last : Checkpoints]]
      BY <2>3 DEF ReaderReturns
    <2> QED
      BY <1>20, <2>4 DEF ReaderRow
  <1>21. CASE UNCHANGED vars
    BY <1>21 DEF vars
  <1> QED
    BY <1>1, <1>2, <1>3, <1>4, <1>5, <1>6, <1>8, <1>9, <1>10, <1>11, <1>12,
       <1>13, <1>14, <1>15, <1>16, <1>17, <1>18, <1>19, <1>20, <1>21
    DEF Next, HolderStep, Failure, Network

-----------------------------------------------------------------------------
\* A pointer, applied or on its way, depends on the content of row n.
Pinned(n) == n <= finality.val.seq \/ \E p \in latePtrs : p.val.seq = n

\* w may be written to the history: it does not change a row a pointer names.
Compatible(w) ==
    Pinned(w.val.seq) => w.ts <= rows[w.val.seq].ts \/ w.val = rows[w.val.seq].val

\* A row that a pointer names is decided.
LEMMA PinnedFixed ==
    ASSUME IndInv, NEW n \in SeqNums, Pinned(n) PROVE Fixed(n)
  BY DEF IndInv, PtrsInv, Pinned

\* Types of the store's cells, in the form the arithmetic below needs.
LEMMA StoreType ==
    ASSUME IndInv
    PROVE  /\ MaxSequence \in Nat /\ SeqNums = 1..MaxSequence
           /\ clock \in Nat /\ finality.ts \in Nat /\ finality.val.seq \in 0..MaxSequence
           /\ \A n \in SeqNums : rows[n] \in Cells /\ rows[n].ts \in Nat
           /\ \A w \in lateRows \cup latePtrs : /\ w \in Cells /\ w.ts \in Nat
                                                /\ w.val.seq \in 0..MaxSequence
           /\ work.seq \in 0..MaxSequence
  BY ConstantsAssumption, CellType, CheckpointType DEF IndInv, TypeOK, SeqNums

\* Applying a compatible row upsert keeps rows and pointers consistent and leaves
\* the rows that a pointer names as they are.
LEMMA PutRowKeeps ==
    ASSUME IndInv, TypeOK', NEW w \in Cells, w.ts > 0, Stored(w.val), Compatible(w),
           PutRow(w), lateRows' \subseteq lateRows, UNCHANGED <<finality, latePtrs>>,
           clock <= clock', w.ts <= clock'
    PROVE  /\ RowsInv'
           /\ PtrsInv'
           /\ \A n \in SeqNums : Pinned(n) => rows'[n].val = rows[n].val
           /\ w.ts > rows[w.val.seq].ts => rows'[w.val.seq] = w
           /\ \A n \in SeqNums : rows'[n] = rows[n] \/ rows'[n] = w
  <1>1. w.val.seq \in SeqNums /\ w.ts \in Nat /\ clock' \in Nat
    BY CellType DEF Stored, TypeOK
  <1>2. \A n \in SeqNums : rows'[n] = IF n = w.val.seq /\ w.ts > rows[n].ts THEN w ELSE rows[n]
    BY <1>1 DEF PutRow, Merge, IndInv, TypeOK
  <1>3. \A c : Stored(c)' <=> Stored(c)
    BY DEF Stored
  <1>4. RowsInv'
    <2>1. ASSUME NEW n \in SeqNums
          PROVE  /\ rows'[n].ts <= clock'
                 /\ rows'[n].ts > 0 => rows'[n].val.seq = n /\ Stored(rows'[n].val)
                 /\ rows'[n].ts = 0 => rows'[n] = NoCell
      <3>1. CASE rows'[n] = rows[n]
        BY <3>1, <1>1, StoreType DEF IndInv, RowsInv
      <3>2. CASE rows'[n] # rows[n]
        BY <3>2, <1>1, <1>2, StoreType
      <3> QED
        BY <3>1, <3>2
    <2>2. \A v \in lateRows' : v.ts > 0 /\ v.ts <= clock' /\ Stored(v.val)
      BY <1>1, StoreType DEF IndInv, RowsInv
    <2> QED
      BY <1>3, <2>1, <2>2, Zenon DEF RowsInv
  <1>5. \A n \in SeqNums : Pinned(n) => Fixed(n)' /\ rows'[n].val = rows[n].val
    <2> SUFFICES ASSUME NEW n \in SeqNums, Pinned(n)
                 PROVE  Fixed(n)' /\ rows'[n].val = rows[n].val
      OBVIOUS
    <2>1. Fixed(n)
      BY PinnedFixed
    <2>2. rows'[n].val = rows[n].val /\ rows'[n].ts >= rows[n].ts
      <3>1. CASE n = w.val.seq /\ w.ts > rows[n].ts
        BY <1>1, <1>2, <3>1, StoreType DEF Compatible
      <3>2. CASE ~(n = w.val.seq /\ w.ts > rows[n].ts)
        BY <1>2, <3>2, StoreType
      <3> QED
        BY <3>1, <3>2
    <2>3. rows'[n].ts \in Nat
      BY <1>1, <1>2, StoreType
    <2> QED
      BY <2>1, <2>2, <2>3, StoreType DEF Fixed, Finalized
  <1>6. PtrsInv'
    <2>1. \A q \in latePtrs : q.val.seq \in SeqNums /\ Pinned(q.val.seq)
      BY DEF IndInv, PtrsInv, Stored, Pinned
    <2>2. \A n \in SeqNums : n <= finality.val.seq => Pinned(n)
      BY DEF Pinned
    <2>3. finality.val.seq > 0 => finality.val.seq \in SeqNums /\ Pinned(finality.val.seq)
      BY StoreType DEF Pinned
    <2>4. Ptrs' = Ptrs
      BY DEF Ptrs
    <2>5. \A q \in latePtrs' : /\ q.ts > 0 /\ q.ts <= clock'
                               /\ Stored(q.val)'
                               /\ Fixed(q.val.seq)'
                               /\ rows'[q.val.seq].val = q.val
      BY <1>1, <1>3, <1>5, <2>1, StoreType DEF IndInv, PtrsInv
    <2>6. finality'.ts <= clock'
      BY <1>1, StoreType DEF IndInv, PtrsInv
    <2> QED
      BY <1>5, <2>2, <2>3, <2>4, <2>5, <2>6, StoreType DEF IndInv, PtrsInv
  <1> QED
    BY <1>1, <1>2, <1>4, <1>5, <1>6

\* A compatible row upsert that is delayed keeps rows and pointers consistent.
LEMMA LateRowKeeps ==
    ASSUME IndInv, TypeOK', NEW w \in Cells, w.ts > 0, Stored(w.val), Compatible(w),
           lateRows' = lateRows \cup {w}, UNCHANGED <<rows, finality, latePtrs>>,
           clock <= clock', w.ts <= clock'
    PROVE  RowsInv' /\ PtrsInv'
  <1>1. w.val.seq \in SeqNums /\ w.ts \in Nat /\ clock' \in Nat
    BY CellType DEF Stored, TypeOK
  <1>2. \A c : Stored(c)' <=> Stored(c)
    BY DEF Stored
  <1>3. RowsInv'
    BY <1>1, <1>2, StoreType DEF IndInv, RowsInv
  <1>4. \A n \in SeqNums : Pinned(n) => Fixed(n)'
    BY <1>1, PinnedFixed DEF Fixed, Compatible
  <1>5. PtrsInv'
    <2>1. \A q \in latePtrs : q.val.seq \in SeqNums /\ Pinned(q.val.seq)
      BY DEF IndInv, PtrsInv, Stored, Pinned
    <2>2. \A n \in SeqNums : n <= finality.val.seq => Pinned(n)
      BY DEF Pinned
    <2>3. Ptrs' = Ptrs
      BY DEF Ptrs
    <2>4. \A q \in latePtrs' : q.ts > 0 /\ q.ts <= clock' /\ Stored(q.val)'
                               /\ Fixed(q.val.seq)' /\ rows'[q.val.seq].val = q.val
      BY <1>1, <1>2, <1>4, <2>1, StoreType DEF IndInv, PtrsInv
    <2>5. finality'.ts <= clock'
      BY <1>1, StoreType DEF IndInv, PtrsInv
    <2> QED
      BY <1>4, <2>2, <2>3, <2>4, <2>5, StoreType DEF IndInv, PtrsInv
  <1> QED
    BY <1>3, <1>5

\* w may be written to the pointer: it copies a decided row, and it was issued in
\* the order of the sequence numbers.
GoodPointer(w) ==
    /\ w.ts > 0
    /\ Stored(w.val)
    /\ Fixed(w.val.seq)
    /\ rows[w.val.seq].val = w.val
    /\ \A p \in Ptrs : /\ p.ts < w.ts => p.val.seq <= w.val.seq
                       /\ w.ts < p.ts => w.val.seq <= p.val.seq

\* Applying a good pointer upsert keeps rows and pointers consistent and never
\* moves the pointer back.
LEMMA PutPointerKeeps ==
    ASSUME IndInv, TypeOK', NEW w \in Cells, GoodPointer(w),
           PutPointer(w), latePtrs' \subseteq latePtrs, UNCHANGED <<rows, lateRows>>,
           clock <= clock', w.ts <= clock'
    PROVE  /\ RowsInv'
           /\ PtrsInv'
           /\ finality'.val.seq >= finality.val.seq
           /\ finality' = finality \/ finality' = w
           /\ w.ts > finality.ts => finality' = w
  <1>1. w.val.seq \in SeqNums /\ w.ts \in Nat /\ clock' \in Nat
    BY CellType DEF GoodPointer, Stored, TypeOK
  <1>2. finality' = IF w.ts > finality.ts THEN w ELSE finality
    BY DEF PutPointer, Merge
  <1>3. finality'.val.seq >= finality.val.seq /\ finality'.val.seq \in Nat
    BY <1>1, <1>2, StoreType DEF GoodPointer, Ptrs
  <1>4. \A c : Stored(c) => Stored(c)'
    BY <1>1, <1>3, StoreType DEF Stored
  <1>5. \A n : Fixed(n)' <=> Fixed(n)
    BY DEF Fixed
  <1>6. RowsInv'
    BY <1>1, <1>4, StoreType DEF IndInv, RowsInv
  <1>7. PtrsInv'
    <2>1. \A q \in latePtrs' : /\ q.ts > 0 /\ q.ts <= clock'
                               /\ Stored(q.val)'
                               /\ Fixed(q.val.seq)'
                               /\ rows'[q.val.seq].val = q.val
      BY <1>1, <1>4, <1>5, StoreType DEF IndInv, PtrsInv
    <2>2. finality'.ts <= clock'
      BY <1>1, <1>2, StoreType DEF IndInv, PtrsInv
    <2>3. finality'.ts = 0 => finality' = NoCell
      BY <1>1, <1>2, StoreType DEF IndInv, PtrsInv, GoodPointer
    <2>4. finality'.ts > 0 => finality'.val.seq > 0 /\ rows'[finality'.val.seq].val = finality'.val
      BY <1>1, <1>2, StoreType DEF IndInv, PtrsInv, GoodPointer
    <2>5. \A n \in SeqNums : n <= finality'.val.seq => Fixed(n)'
      <3> SUFFICES ASSUME NEW n \in SeqNums, n <= finality'.val.seq PROVE Fixed(n)
        BY <1>5
      <3>1. CASE n <= finality.val.seq
        BY <3>1 DEF IndInv, PtrsInv
      <3>2. CASE n > finality.val.seq
        <4>1. finality' = w
          BY <1>2, <3>2, StoreType
        <4>2. n = w.val.seq
          BY <1>1, <3>2, <4>1, StoreType DEF GoodPointer, Stored
        <4> QED
          BY <4>2 DEF GoodPointer
      <3> QED
        BY <3>1, <3>2, StoreType
    <2>6. \A p, q \in Ptrs' : p.ts < q.ts => p.val.seq <= q.val.seq
      <3>1. Ptrs' \subseteq Ptrs \cup {w}
        BY <1>2 DEF Ptrs
      <3>2. \A p, q \in Ptrs \cup {w} : p.ts < q.ts => p.val.seq <= q.val.seq
        BY <1>1 DEF IndInv, PtrsInv, GoodPointer
      <3> QED
        BY <3>1, <3>2
    <2> QED
      BY <2>1, <2>2, <2>3, <2>4, <2>5, <2>6 DEF PtrsInv
  <1> QED
    BY <1>2, <1>3, <1>6, <1>7

\* A good pointer upsert that is delayed keeps rows and pointers consistent.
LEMMA LatePointerKeeps ==
    ASSUME IndInv, TypeOK', NEW w \in Cells, GoodPointer(w),
           latePtrs' = latePtrs \cup {w}, UNCHANGED <<rows, finality, lateRows>>,
           clock <= clock', w.ts <= clock'
    PROVE  RowsInv' /\ PtrsInv'
  <1>1. w.val.seq \in SeqNums /\ w.ts \in Nat /\ clock' \in Nat
    BY CellType DEF GoodPointer, Stored, TypeOK
  <1>2. \A c : Stored(c)' <=> Stored(c)
    BY DEF Stored
  <1>3. \A n : Fixed(n)' <=> Fixed(n)
    BY DEF Fixed
  <1>4. RowsInv'
    BY <1>1, <1>2, StoreType DEF IndInv, RowsInv
  <1>5. \A q \in latePtrs' : q.ts > 0 /\ q.ts <= clock' /\ Stored(q.val)'
                             /\ Fixed(q.val.seq)' /\ rows'[q.val.seq].val = q.val
    BY <1>1, <1>2, <1>3, StoreType DEF IndInv, PtrsInv, GoodPointer
  <1>6. \A p, q \in Ptrs' : p.ts < q.ts => p.val.seq <= q.val.seq
    <2>1. \A p, q \in Ptrs \cup {w} : p.ts < q.ts => p.val.seq <= q.val.seq
      BY <1>1 DEF IndInv, PtrsInv, GoodPointer
    <2> QED
      BY <2>1 DEF Ptrs
  <1>7. finality'.ts <= clock'
    BY <1>1, StoreType DEF IndInv, PtrsInv
  <1>8. PtrsInv'
    BY <1>3, <1>5, <1>6, <1>7 DEF IndInv, PtrsInv
  <1> QED
    BY <1>4, <1>8

\* What a result claims stays true when the pointer does not go back and the rows
\* that a pointer names do not change.
LEMMA PublishedKeeps ==
    ASSUME IndInv, finality'.val.seq >= finality.val.seq, TypeOK',
           \A n \in SeqNums : Pinned(n) => rows'[n].val = rows[n].val
    PROVE  \A c \in Checkpoints : Published(c) => Published(c)'
  <1> SUFFICES ASSUME NEW c \in Checkpoints, Published(c) PROVE Published(c)'
    OBVIOUS
  <1>1. c.seq \in SeqNums /\ Pinned(c.seq)
    BY CheckpointType, ConstantsAssumption DEF Published, Pinned, SeqNums
  <1>2. finality'.val.seq \in Nat
    BY CellType, CheckpointType, ConstantsAssumption DEF TypeOK
  <1>3. c.seq \in Nat /\ finality.val.seq \in Nat /\ c.seq <= finality.val.seq
    BY StoreType, CheckpointType DEF Published
  <1>4. c.seq <= finality'.val.seq
    BY <1>2, <1>3
  <1>5. rows'[c.seq].val = rows[c.seq].val
    BY <1>1
  <1> QED
    BY <1>4, <1>5, Zenon DEF Published

\* What callers and readers were given stays published when published
\* checkpoints stay as they are.
LEMMA ResultsKeep ==
    ASSUME IndInv, finality'.val.seq >= finality.val.seq, TypeOK',
           \A n \in SeqNums : Pinned(n) => rows'[n].val = rows[n].val,
           UNCHANGED <<returned, reader>>
    PROVE  ResultsInv'
  <1>1. \A c \in Checkpoints : Published(c) => Published(c)'
    BY PublishedKeeps
  <1>2. /\ returned \subseteq Checkpoints
        /\ \A r \in Readers : reader[r].last \in Checkpoints /\ reader[r].ptr.val \in Checkpoints
    BY CellType DEF IndInv, TypeOK
  <1> QED
    BY <1>1, <1>2 DEF IndInv, ResultsInv

-----------------------------------------------------------------------------
\* A pointer is empty or names a decided row with the same content.
LEMMA PtrFacts ==
    ASSUME IndInv, NEW q \in Ptrs
    PROVE  /\ q.val.seq \in 0..MaxSequence /\ q.ts \in Nat /\ q.ts <= clock
           /\ q.val.seq > 0 => /\ q.val.seq \in SeqNums
                               /\ Fixed(q.val.seq) /\ rows[q.val.seq].val = q.val
                               /\ Pinned(q.val.seq)
           /\ q.val.seq <= finality.val.seq + 1
  <1>1. CASE q \in latePtrs
    BY <1>1, StoreType DEF IndInv, PtrsInv, Stored, Pinned
  <1>2. CASE q = finality
    <2>1. finality.ts = 0 => finality.val.seq = 0
      BY DEF IndInv, PtrsInv, NoCell, NoCheckpoint
    <2> QED
      BY <1>2, <2>1, StoreType DEF IndInv, PtrsInv, Pinned
  <1> QED
    BY <1>1, <1>2 DEF Ptrs

\* Once Finalize returned, nothing is claimed about its locals.
LEMMA ReleaseKeeps ==
    ASSUME Release PROVE HolderInv' /\ pc' = "latest"
  BY DEF Release, HolderInv

\* Steps that touch neither the store nor the results.
LEMMA QuietKeeps ==
    ASSUME IndInv, TypeOK', UNCHANGED <<store, clock, returned, reader>>
    PROVE  RowsInv' /\ PtrsInv' /\ ResultsInv'
  <1> USE DEF store
  <1>1. RowsInv'
    BY DEF IndInv, RowsInv, Stored
  <1>2. PtrsInv'
    BY DEF IndInv, PtrsInv, Ptrs, Fixed, Stored
  <1>3. ResultsInv'
    BY ResultsKeep, StoreType
  <1> QED
    BY <1>1, <1>2, <1>3

\* The rows keep their receipts: rows and late upserts are old ones or w, and the
\* anchor forgets nothing.
LEMMA AnchorKeeps ==
    ASSUME IndInv, NEW w,
           \A n \in SeqNums : rows'[n] = rows[n] \/ rows'[n] = w,
           lateRows' \subseteq lateRows \cup {w},
           w \in lateRows \/ w = NoCell \/ (Stored(w.val) /\ Anchored(w.val)),
           \A c \in SeqNums \X Snapshots : receipts[c] > 0 => receipts'[c] = receipts[c]
    PROVE  /\ \A n \in SeqNums : Anchored(rows[n].val)'
           /\ \A x \in lateRows' : Anchored(x.val)'
  <1>1. \A c : Stored(c) /\ Anchored(c) => (Finalized(c) => c.receipt > 0 /\ receipts'[Commitment(c)] = c.receipt)
    BY DEF Stored, Anchored, Commitment
  <1>2. ~Finalized(NoCell.val)
    BY DEF NoCell, NoCheckpoint, Finalized
  <1>3. \A n \in SeqNums : Finalized(rows[n].val) => Stored(rows[n].val) /\ Anchored(rows[n].val)
    BY <1>2, StoreType DEF IndInv, RowsInv, AnchorInv
  <1>4. \A x \in lateRows : Stored(x.val) /\ Anchored(x.val)
    BY DEF IndInv, RowsInv, AnchorInv
  <1>5. Finalized(w.val) => Stored(w.val) /\ Anchored(w.val)
    BY <1>2, <1>4
  <1>6. \A n \in SeqNums : Finalized(rows'[n].val)
          => rows'[n].val.receipt > 0 /\ receipts'[Commitment(rows'[n].val)] = rows'[n].val.receipt
    BY <1>1, <1>3, <1>5
  <1>7. \A x \in lateRows' : Finalized(x.val)
          => x.val.receipt > 0 /\ receipts'[Commitment(x.val)] = x.val.receipt
    BY <1>1, <1>4, <1>5
  <1> QED
    BY <1>6, <1>7 DEF Anchored, Finalized, Commitment

-----------------------------------------------------------------------------
\* LatestCheckpoint leaves the lock holder with a consistent checkpoint.
LEMMA ReadLatestInd ==
    ASSUME IndInv, TypeOK', NEW n \in 0..MaxSequence, ReadLatest(n)
    PROVE  IndInv'
  <1> USE DEF ReadLatest
  <1>1. RowsInv' /\ PtrsInv' /\ ResultsInv'
    BY QuietKeeps
  <1>2. \A q \in Ptrs : q.val.seq <= n
    BY PtrFacts, StoreType DEF IsLatest, Fixed
  <1>3. Ptrs' = Ptrs /\ finality' = finality /\ lock' # None
    BY DEF Ptrs, store
  <1>4. n > 0 => n \in SeqNums /\ rows[n].ts > 0 /\ work' = rows[n].val /\ rows[n].val.seq = n
                 /\ Stored(work)'
    BY StoreType DEF IsLatest, IndInv, RowsInv, store, Stored
  <1>5. CASE n = 0
    <2>1. pc' = "snapshot" /\ work'.seq = 0
      BY <1>5 DEF NoCheckpoint
    <2>2. finality.val.seq = 0 /\ \A q \in Ptrs : q.val.seq <= 0
      BY <1>2, <1>5, StoreType DEF Ptrs
    <2>3. HolderInv'
      BY <1>3, <2>1, <2>2, ConstantsAssumption DEF HolderInv
    <2>4. AnchorInv'
      BY <2>1 DEF AnchorInv, IndInv, store, chain, Anchored
    <2> QED
      BY <1>1, <2>3, <2>4 DEF IndInv
  <1>6. CASE n > 0 /\ Finalized(rows[n].val)
    <2>1. pc' = "pointer"
      BY <1>6
    <2>2. Publishable'
      BY <1>2, <1>3, <1>4, <1>6, PtrFacts DEF Publishable, Finalized
    <2>3. HolderInv'
      BY <1>3, <2>1, <2>2 DEF HolderInv
    <2>4. AnchorInv'
      BY <1>4, <1>6 DEF AnchorInv, IndInv, store, chain, Anchored
    <2> QED
      BY <1>1, <2>3, <2>4 DEF IndInv
  <1>7. CASE n > 0 /\ ~Finalized(rows[n].val)
    <2>1. pc' = "anchor"
      BY <1>7
    <2>2. Fresh'
      <3>1. \A q \in Ptrs : q.val.seq # n
        BY <1>7, PtrFacts DEF Fixed
      <3>2. \A q \in Ptrs : q.val.seq < n
        BY <1>2, <3>1, PtrFacts, StoreType
      <3> QED
        BY <1>3, <1>4, <1>7, <3>2 DEF Fresh
    <2>3. HolderInv'
      BY <1>3, <2>1, <2>2 DEF HolderInv
    <2>4. AnchorInv'
      BY <2>1 DEF AnchorInv, IndInv, store, chain, Anchored
    <2> QED
      BY <1>1, <2>3, <2>4 DEF IndInv
  <1> QED
    BY <1>5, <1>6, <1>7, StoreType

\* Steps of the lock holder that only read or compute.
LEMMA ReadStepInd ==
    ASSUME IndInv, TypeOK',
           ReadPointer \/ ReadCurrent \/ \E s \in Snapshots : Snapshot(s)
    PROVE  IndInv'
  <1>1. UNCHANGED <<store, clock, returned, reader, chain, lock>> /\ lock # None
    BY DEF ReadPointer, ReadCurrent, Snapshot
  <1>2. RowsInv' /\ PtrsInv' /\ ResultsInv'
    BY <1>1, QuietKeeps
  <1>3. Ptrs' = Ptrs /\ finality' = finality /\ rows' = rows /\ lateRows' = lateRows
    BY <1>1 DEF Ptrs, store
  <1>4. CASE ReadPointer
    <2>1. Publishable' /\ work' = work
      BY <1>3, <1>4 DEF ReadPointer, IndInv, HolderInv, Publishable, Stored
    <2>2. HolderInv'
      <3>1. CASE finality.ts = 0
        BY <1>1, <1>4, <2>1, <3>1 DEF ReadPointer, HolderInv
      <3>2. CASE finality.ts # 0
        <4>1. pc' = "current" /\ seen' = finality
          BY <1>4, <3>2 DEF ReadPointer
        <4>2. /\ finality.ts > 0 /\ finality.val.seq > 0
              /\ finality.val.seq <= finality.val.seq
              /\ rows[finality.val.seq].val = finality.val
          BY <3>2, StoreType DEF IndInv, PtrsInv
        <4> QED
          BY <1>1, <1>3, <2>1, <4>1, <4>2 DEF HolderInv
      <3> QED
        BY <3>1, <3>2
    <2>3. AnchorInv'
      BY <1>1, <1>4, <2>1 DEF ReadPointer, AnchorInv, IndInv, store, chain, Anchored
    <2> QED
      BY <1>2, <2>2, <2>3 DEF IndInv
  <1>5. CASE ReadCurrent
    <2>1. Publishable' /\ Publishable /\ work' = work
      BY <1>3, <1>5 DEF ReadCurrent, IndInv, HolderInv, Publishable, Stored
    <2>2. CASE pc' = "row"
      <3>1. HolderInv'
        BY <1>1, <2>1, <2>2 DEF HolderInv
      <3>2. AnchorInv'
        BY <1>1, <1>5, <2>1, <2>2 DEF ReadCurrent, AnchorInv, IndInv, store, chain, Anchored
      <3> QED
        BY <1>2, <3>1, <3>2 DEF IndInv
    <2>3. CASE pc' = "snapshot" /\ seen.val.seq = work.seq /\ work.seq < MaxSequence
      <3>1. finality.val.seq = work.seq /\ \A q \in Ptrs : q.val.seq <= work.seq
        BY <1>5, <2>1, <2>3, StoreType DEF ReadCurrent, IndInv, HolderInv, Publishable, Ptrs
      <3>2. HolderInv'
        BY <1>1, <1>3, <2>1, <2>3, <3>1 DEF HolderInv
      <3>3. AnchorInv'
        BY <1>1, <2>3 DEF AnchorInv, IndInv, store, chain, Anchored
      <3> QED
        BY <1>2, <3>2, <3>3 DEF IndInv
    <2> QED
      BY <1>5, <2>2, <2>3 DEF ReadCurrent
  <1>6. ASSUME NEW s \in Snapshots, Snapshot(s) PROVE IndInv'
    <2>1. pc' = "save" /\ work'.seq = work.seq + 1 /\ work'.snap = s /\ ~Finalized(work)'
      BY <1>6 DEF Snapshot, Finalized
    <2>2. Fresh'
      BY <1>3, <1>6, <2>1, StoreType, PtrFacts DEF Snapshot, IndInv, HolderInv, Fresh, Stored
    <2>3. HolderInv'
      BY <1>1, <2>1, <2>2 DEF HolderInv
    <2>4. AnchorInv'
      BY <1>1, <2>1 DEF AnchorInv, IndInv, store, chain, Anchored
    <2> QED
      BY <1>2, <2>3, <2>4 DEF IndInv
  <1> QED
    BY <1>4, <1>5, <1>6

\* Steps outside the lock, and error returns.
LEMMA ServiceStepInd ==
    ASSUME IndInv, TypeOK',
           \/ \E c \in Callers : Call(c) \/ AcquireCanceled(c) \/ Acquire(c)
           \/ FinalizeError \/ Crash \/ UNCHANGED vars
    PROVE  IndInv'
  <1>1. UNCHANGED <<store, clock, returned, reader, chain>>
    BY DEF Call, AcquireCanceled, Acquire, FinalizeError, Crash, vars, store, chain
  <1>2. RowsInv' /\ PtrsInv' /\ ResultsInv'
    BY <1>1, QuietKeeps
  <1>3. \/ Release
        \/ UNCHANGED <<pc, work, seen>> /\ (lock' = lock \/ lock' # None)
    BY ConstantsAssumption DEF Call, AcquireCanceled, Acquire, FinalizeError, Crash, vars
  <1>4. HolderInv'
    <2>1. CASE Release
      BY <2>1, ReleaseKeeps
    <2>2. CASE UNCHANGED <<pc, work, seen>> /\ (lock' = lock \/ lock' # None)
      BY <1>1, <2>2 DEF IndInv, HolderInv, Publishable, Fresh, Fixed, Stored, Ptrs, Finalized, store
    <2> QED
      BY <1>3, <2>1, <2>2
  <1>5. AnchorInv'
    <2>1. CASE Release
      BY <1>1, <2>1, ReleaseKeeps DEF AnchorInv, IndInv, Anchored, store, chain
    <2>2. CASE UNCHANGED <<pc, work, seen>>
      BY <1>1, <2>2 DEF AnchorInv, IndInv, Anchored, store, chain
    <2> QED
      BY <1>3, <2>1, <2>2
  <1> QED
    BY <1>2, <1>4, <1>5 DEF IndInv

\* Anchoring changes neither the store nor the results.
LEMMA AnchorStepInd ==
    ASSUME IndInv, TypeOK', AnchorCommit \/ AnchorAnswerLost PROVE IndInv'
  <1>1. /\ UNCHANGED <<store, clock, returned, reader>>
        /\ pc = "anchor" /\ lock # None /\ CommitAnchor
    BY DEF AnchorCommit, AnchorAnswerLost
  <1>2. RowsInv' /\ PtrsInv' /\ ResultsInv'
    BY <1>1, QuietKeeps
  <1>3. /\ \A n \in SeqNums : Anchored(rows[n].val)'
        /\ \A x \in lateRows' : Anchored(x.val)'
    <2>1. \A c \in SeqNums \X Snapshots : receipts[c] > 0 => receipts'[c] = receipts[c]
      BY <1>1, CommitAnchorType
    <2> QED
      BY <1>1, <2>1, AnchorKeeps DEF store
  <1>4. CASE AnchorAnswerLost
    BY <1>2, <1>3, <1>4, ReleaseKeeps DEF AnchorAnswerLost, AnchorInv, IndInv
  <1>5. CASE AnchorCommit
    <2>1. /\ pc' = "row" /\ lock' # None
          /\ work'.seq = work.seq /\ work'.snap = work.snap
          /\ work'.receipt = receipts'[Commitment(work)] /\ work'.finalizedAt = clock + 1
      BY <1>1, <1>5 DEF AnchorCommit, Finalize
    <2>2. Fresh /\ Ptrs' = Ptrs /\ finality' = finality
      BY <1>1 DEF IndInv, HolderInv, Ptrs, store
    <2>3. Publishable'
      <3>1. Stored(work)' /\ Finalized(work)'
        BY <2>1, <2>2, StoreType DEF Fresh, Stored, Finalized
      <3>2. \A q \in Ptrs : q.val.seq <= work.seq /\ q.val.seq # work.seq
        BY <2>2, PtrFacts, StoreType DEF Fresh
      <3> QED
        BY <2>1, <2>2, <3>1, <3>2 DEF Publishable
    <2>4. HolderInv'
      BY <2>1, <2>3 DEF HolderInv
    <2>5. Anchored(work)'
      BY <1>1, <2>1, CommitAnchorType DEF Anchored, Commitment
    <2> QED
      BY <1>2, <1>3, <2>4, <2>5 DEF AnchorInv, IndInv
  <1> QED
    BY <1>4, <1>5

\* What the lock holder is about to write may be written.
LEMMA WriteFacts ==
    ASSUME IndInv
    PROVE  /\ Write \in Cells /\ Write.ts = clock + 1 /\ Write.val = work
           /\ \A n \in SeqNums : rows[n].ts < Write.ts
           /\ \A q \in Ptrs : q.ts < Write.ts
           /\ \A w \in lateRows : w.ts < Write.ts
           /\ pc \in {"save", "anchor", "row", "finality"} => Stored(Write.val)
           /\ pc \in {"save", "row"} => Compatible(Write)
           /\ pc = "finality" => GoodPointer(Write)
           /\ pc \in {"save", "row"} => Anchored(Write.val)
  <1>1. Write \in Cells /\ Write.ts = clock + 1 /\ Write.val = work
    BY WriteType DEF IndInv, Write
  <1>2. \A n \in SeqNums : rows[n].ts < Write.ts
    BY <1>1, StoreType DEF IndInv, RowsInv
  <1>3. \A q \in Ptrs : q.ts < Write.ts
    BY <1>1, PtrFacts, StoreType
  <1>4. \A w \in lateRows : w.ts < Write.ts
    BY <1>1, StoreType DEF IndInv, RowsInv
  <1>5. pc \in {"save", "anchor", "row", "finality"} => Stored(Write.val)
    BY <1>1 DEF IndInv, HolderInv, Fresh, Publishable
  <1>6. pc = "save" => Compatible(Write)
    BY <1>1, StoreType DEF IndInv, HolderInv, Fresh, Compatible, Pinned, Ptrs
  <1>7. pc = "row" => Compatible(Write)
    <2> SUFFICES ASSUME pc = "row", Pinned(work.seq) PROVE work = rows[work.seq].val
      BY <1>1 DEF Compatible
    <2>1. Publishable
      BY DEF IndInv, HolderInv
    <2>2. work.seq \in SeqNums /\ finality \in Ptrs /\ latePtrs \subseteq Ptrs
      BY <2>1 DEF Publishable, Stored, Ptrs
    <2>3. PICK q \in Ptrs : q.val.seq = work.seq
      BY <2>1, <2>2, StoreType DEF Pinned, Publishable
    <2> QED
      BY <2>1, <2>2, <2>3, PtrFacts, StoreType DEF Publishable
  <1>8. pc = "finality" => GoodPointer(Write)
    BY <1>1, <1>3, <1>5, StoreType, PtrFacts DEF IndInv, HolderInv, GoodPointer, Publishable
  <1>9. pc \in {"save", "row"} => Anchored(Write.val)
    BY <1>1 DEF IndInv, HolderInv, AnchorInv, Anchored
  <1> QED
    BY <1>1, <1>2, <1>3, <1>4, <1>5, <1>6, <1>7, <1>8, <1>9

\* A row upsert of the lock holder is applied.
LEMMA RowWriteInd ==
    ASSUME IndInv, TypeOK', pc \in {"save", "row"}, PutRow(Write), clock' = clock + 1,
           UNCHANGED <<finality, lateRows, latePtrs, chain, returned, reader>>
    PROVE  /\ RowsInv' /\ PtrsInv' /\ ResultsInv'
           /\ \A n \in SeqNums : Anchored(rows[n].val)'
           /\ \A x \in lateRows' : Anchored(x.val)'
           /\ rows'[work.seq] = Write
  <1>1. /\ Write \in Cells /\ Write.ts > 0 /\ Stored(Write.val) /\ Compatible(Write)
        /\ clock <= clock' /\ Write.ts <= clock' /\ Write.val = work
        /\ Write.ts > rows[work.seq].ts /\ Anchored(Write.val)
    BY WriteFacts, StoreType DEF Stored
  <1>2. /\ RowsInv'
        /\ PtrsInv'
        /\ \A n \in SeqNums : Pinned(n) => rows'[n].val = rows[n].val
        /\ rows'[work.seq] = Write
        /\ \A n \in SeqNums : rows'[n] = rows[n] \/ rows'[n] = Write
    BY <1>1, PutRowKeeps
  <1>3. ResultsInv'
    BY <1>2, ResultsKeep, StoreType
  <1>4. /\ \A n \in SeqNums : Anchored(rows[n].val)'
        /\ \A x \in lateRows' : Anchored(x.val)'
    BY <1>1, <1>2, AnchorKeeps DEF chain
  <1> QED
    BY <1>2, <1>3, <1>4

\* SavePending and UpsertCheckpoint preserve the invariant.
LEMMA UpsertInd ==
    ASSUME IndInv, TypeOK', SavePending \/ UpsertCheckpoint PROVE IndInv'
  <1>1. /\ pc \in {"save", "row"} /\ PutRow(Write) /\ clock' = clock + 1
        /\ UNCHANGED <<finality, lateRows, latePtrs, chain, returned, reader>>
        /\ UNCHANGED <<lock, work, seen>> /\ lock # None
    BY DEF SavePending, UpsertCheckpoint
  <1>2. /\ RowsInv' /\ PtrsInv' /\ ResultsInv'
        /\ \A n \in SeqNums : Anchored(rows[n].val)'
        /\ \A x \in lateRows' : Anchored(x.val)'
        /\ rows'[work.seq] = Write
    BY <1>1, RowWriteInd
  <1>3. CASE SavePending
    <2>1. pc = "save" /\ pc' = "anchor"
      BY <1>3 DEF SavePending
    <2>2. Fresh'
      BY <1>1, <2>1 DEF IndInv, HolderInv, Fresh, Stored, Ptrs
    <2>3. HolderInv' /\ AnchorInv'
      BY <1>1, <1>2, <2>1, <2>2 DEF HolderInv, AnchorInv
    <2> QED
      BY <1>2, <2>3 DEF IndInv
  <1>4. CASE UpsertCheckpoint
    <2>1. pc = "row" /\ pc' = "finality"
      BY <1>4 DEF UpsertCheckpoint
    <2>2. Publishable' /\ Finalized(work)
      BY <1>1, <2>1 DEF IndInv, HolderInv, Publishable, Stored, Ptrs, Finalized
    <2>3. Anchored(work)'
      BY <1>1, <2>1 DEF IndInv, AnchorInv, Anchored, chain
    <2>4. Fixed(work.seq)' /\ rows'[work'.seq].val = work'
      <3>1. \A w \in lateRows : w.ts <= Write.ts
        BY WriteFacts, StoreType
      <3>2. Write.val = work /\ Write.ts > 0
        BY WriteFacts, StoreType
      <3> QED
        BY <1>1, <1>2, <2>2, <3>1, <3>2 DEF Fixed, Finalized
    <2>5. HolderInv'
      BY <1>1, <2>1, <2>2, <2>4 DEF HolderInv
    <2>6. AnchorInv'
      BY <1>2, <2>3 DEF AnchorInv
    <2> QED
      BY <1>2, <2>5, <2>6 DEF IndInv
  <1> QED
    BY <1>3, <1>4

\* The pointer is written and Finalize returns, with or without the answer.
LEMMA PointerWriteInd ==
    ASSUME IndInv, TypeOK', pc = "finality", PutPointer(Write), clock' = clock + 1,
           UNCHANGED <<rows, lateRows, latePtrs, chain, reader>>, Release,
           returned' = returned \/ returned' = returned \cup {work}
    PROVE  IndInv'
  <1>1. /\ Write \in Cells /\ GoodPointer(Write) /\ Write.val = work
        /\ clock <= clock' /\ Write.ts <= clock' /\ Write.ts > finality.ts
    BY WriteFacts, StoreType DEF Ptrs
  <1>2. RowsInv' /\ PtrsInv' /\ finality'.val.seq >= finality.val.seq /\ finality' = Write
    BY <1>1, PutPointerKeeps
  <1>3. work.seq > 0 /\ work.seq <= finality'.val.seq /\ rows'[work.seq].val = work
    BY <1>1, <1>2, StoreType DEF GoodPointer, Stored, Published
  <1>4. \A c \in Checkpoints : Published(c) => Published(c)'
    BY <1>2, PublishedKeeps
  <1>5. ResultsInv'
    <2>1. /\ returned \subseteq Checkpoints
          /\ \A r \in Readers : reader[r].last \in Checkpoints /\ reader[r].ptr.val \in Checkpoints
      BY CellType DEF IndInv, TypeOK
    <2>2. \A c \in returned' : Published(c)'
      BY <1>3, <1>4, <2>1 DEF IndInv, ResultsInv, Published
    <2> QED
      BY <1>4, <2>1, <2>2 DEF IndInv, ResultsInv
  <1>6. HolderInv' /\ pc' = "latest"
    BY ReleaseKeeps
  <1>7. AnchorInv'
    BY <1>6 DEF IndInv, AnchorInv, Anchored, chain
  <1> QED
    BY <1>2, <1>5, <1>6, <1>7 DEF IndInv

\* The pointer's publication, and a write whose call gave up, preserve the
\* invariant.
LEMMA WriteStepInd ==
    ASSUME IndInv, TypeOK', UpsertFinalityState \/ WriteAnswerLost \/ WriteDelayed
    PROVE  IndInv'
  <1>1. CASE UpsertFinalityState
    BY <1>1, PointerWriteInd DEF UpsertFinalityState
  <1>2. CASE WriteAnswerLost
    <2>1. CASE pc = "finality"
      BY <1>2, <2>1, PointerWriteInd DEF WriteAnswerLost
    <2>2. CASE pc # "finality"
      <3>1. /\ RowsInv' /\ PtrsInv' /\ ResultsInv'
            /\ \A n \in SeqNums : Anchored(rows[n].val)'
            /\ \A x \in lateRows' : Anchored(x.val)'
        BY <1>2, <2>2, RowWriteInd DEF WriteAnswerLost
      <3>2. HolderInv' /\ pc' = "latest"
        BY <1>2, ReleaseKeeps DEF WriteAnswerLost
      <3> QED
        BY <3>1, <3>2 DEF AnchorInv, IndInv
    <2> QED
      BY <2>1, <2>2
  <1>3. CASE WriteDelayed
    <2>1. /\ UNCHANGED <<rows, finality, chain, returned, reader>> /\ clock' = clock + 1
          /\ pc \in {"save", "row", "finality"}
      BY <1>3 DEF WriteDelayed
    <2>2. HolderInv' /\ pc' = "latest"
      BY <1>3, ReleaseKeeps DEF WriteDelayed
    <2>3. ResultsInv'
      BY <2>1, ResultsKeep, StoreType
    <2>4. clock <= clock' /\ Write.ts <= clock' /\ Write.ts > 0 /\ Write \in Cells
      BY <2>1, WriteFacts, StoreType
    <2>5. CASE pc = "finality"
      <3>1. RowsInv' /\ PtrsInv'
        BY <1>3, <2>1, <2>4, <2>5, WriteFacts, LatePointerKeeps DEF WriteDelayed
      <3>2. AnchorInv'
        BY <1>3, <2>1, <2>2, <2>5 DEF WriteDelayed, IndInv, AnchorInv, Anchored, chain
      <3> QED
        BY <2>2, <2>3, <3>1, <3>2 DEF IndInv
    <2>6. CASE pc # "finality"
      <3>1. lateRows' = lateRows \cup {Write} /\ latePtrs' = latePtrs
        BY <1>3, <2>6 DEF WriteDelayed
      <3>2. RowsInv' /\ PtrsInv'
        BY <2>1, <2>4, <2>6, <3>1, WriteFacts, LateRowKeeps
      <3>3. /\ \A n \in SeqNums : Anchored(rows[n].val)'
            /\ \A x \in lateRows' : Anchored(x.val)'
        BY <2>1, <2>6, <3>1, WriteFacts, AnchorKeeps DEF chain
      <3> QED
        BY <2>2, <2>3, <3>2, <3>3 DEF AnchorInv, IndInv
    <2> QED
      BY <2>5, <2>6
  <1> QED
    BY <1>1, <1>2, <1>3

-----------------------------------------------------------------------------
\* A late row upsert lands.
LEMMA LandRowInd ==
    ASSUME IndInv, TypeOK', NEW w \in lateRows, LandRow(w) PROVE IndInv'
  <1>1. /\ lateRows' \subseteq lateRows /\ PutRow(w)
        /\ UNCHANGED <<lock, pc, work, seen, returned, finality, latePtrs, chain, clock, reader>>
    BY DEF LandRow, service
  <1>2. w \in Cells /\ w.ts > 0 /\ w.ts <= clock /\ Stored(w.val) /\ w.val.seq \in SeqNums
    BY StoreType DEF IndInv, RowsInv, Stored
  <1>3. Compatible(w)
    BY <1>2, PinnedFixed DEF Compatible, Fixed
  <1>4. /\ RowsInv'
        /\ PtrsInv'
        /\ \A n \in SeqNums : Pinned(n) => rows'[n].val = rows[n].val
        /\ \A n \in SeqNums : rows'[n] = rows[n] \/ rows'[n] = w
    BY <1>1, <1>2, <1>3, PutRowKeeps, StoreType
  <1>5. ResultsInv'
    BY <1>1, <1>4, ResultsKeep, StoreType
  <1>6. ASSUME NEW n \in SeqNums, Fixed(n) PROVE Fixed(n)' /\ rows'[n].val = rows[n].val
    <2>1. rows'[n] = IF n = w.val.seq /\ w.ts > rows[n].ts THEN w ELSE rows[n]
      BY <1>1, <1>2 DEF PutRow, Merge, IndInv, TypeOK
    <2>2. rows'[n].val = rows[n].val /\ rows'[n].ts >= rows[n].ts /\ rows'[n].ts \in Nat
      BY <1>6, <2>1, StoreType DEF Fixed
    <2> QED
      BY <1>1, <1>6, <2>2, StoreType DEF Fixed, Finalized
  <1>7. HolderInv'
    <2>1. Publishable => Publishable'
      BY <1>1 DEF Publishable, Stored, Ptrs, Finalized
    <2>2. Fresh => Fresh'
      BY <1>1 DEF Fresh, Stored, Ptrs
    <2>3. pc = "current" => rows'[seen.val.seq].val = seen.val
      <3> SUFFICES ASSUME pc = "current" PROVE rows'[seen.val.seq].val = seen.val
        OBVIOUS
      <3>1. seen.val.seq > 0 /\ seen.val.seq <= finality.val.seq /\ rows[seen.val.seq].val = seen.val
        BY DEF IndInv, HolderInv
      <3>2. seen.val.seq \in SeqNums /\ Pinned(seen.val.seq)
        BY <3>1, CellType, CheckpointType, StoreType DEF IndInv, TypeOK, Pinned
      <3> QED
        BY <1>4, <3>1, <3>2
    <2>4. pc = "finality" => Fixed(work.seq)' /\ rows'[work.seq].val = work
      <3> SUFFICES ASSUME pc = "finality" PROVE Fixed(work.seq)' /\ rows'[work.seq].val = work
        OBVIOUS
      <3>1. work.seq \in SeqNums /\ Fixed(work.seq) /\ rows[work.seq].val = work
        BY DEF IndInv, HolderInv, Publishable, Stored
      <3> QED
        BY <1>1, <1>6, <3>1
    <2> QED
      BY <1>1, <2>1, <2>2, <2>3, <2>4 DEF IndInv, HolderInv, Ptrs, Finalized
  <1>8. AnchorInv'
    <2>1. /\ \A n \in SeqNums : Anchored(rows[n].val)'
          /\ \A x \in lateRows' : Anchored(x.val)'
      BY <1>1, <1>4, AnchorKeeps DEF chain
    <2> QED
      BY <1>1, <2>1 DEF IndInv, AnchorInv, Anchored, chain
  <1> QED
    BY <1>4, <1>5, <1>7, <1>8 DEF IndInv

\* A late pointer upsert lands.
LEMMA LandPointerInd ==
    ASSUME IndInv, TypeOK', NEW w \in latePtrs, LandPointer(w) PROVE IndInv'
  <1>1. /\ latePtrs' \subseteq latePtrs /\ PutPointer(w)
        /\ UNCHANGED <<lock, pc, work, seen, returned, rows, lateRows, chain, clock, reader>>
    BY DEF LandPointer, service
  <1>2. w \in Ptrs /\ w \in Cells /\ GoodPointer(w) /\ w.ts <= clock
    BY StoreType DEF Ptrs, IndInv, PtrsInv, GoodPointer
  <1>3. /\ RowsInv'
        /\ PtrsInv'
        /\ finality'.val.seq >= finality.val.seq
        /\ finality' = finality \/ finality' = w
    BY <1>1, <1>2, PutPointerKeeps, StoreType
  <1>4. ResultsInv'
    BY <1>1, <1>3, ResultsKeep
  <1>5. Ptrs' \subseteq Ptrs /\ finality'.val.seq \in Nat
    BY <1>1, <1>2, <1>3, StoreType, PtrFacts DEF Ptrs
  <1>6. \A c : Stored(c) => Stored(c)'
    BY <1>3, <1>5, StoreType DEF Stored
  <1>7. \A n : Fixed(n)' <=> Fixed(n)
    BY <1>1 DEF Fixed
  <1>8. HolderInv'
    <2>1. Publishable => Publishable'
      BY <1>1, <1>5, <1>6 DEF Publishable, Finalized
    <2>2. Fresh => Fresh'
      BY <1>1, <1>5, <1>6 DEF Fresh
    <2>3. pc = "current" => seen.val.seq <= finality'.val.seq
      BY <1>3, <1>5, StoreType, CellType, CheckpointType DEF IndInv, HolderInv, TypeOK
    <2>4. pc = "snapshot" => work.seq = finality'.val.seq
      BY <1>2, <1>3, StoreType, PtrFacts DEF IndInv, HolderInv
    <2> QED
      BY <1>1, <1>5, <1>7, <2>1, <2>2, <2>3, <2>4 DEF IndInv, HolderInv, Finalized
  <1>9. AnchorInv'
    BY <1>1 DEF IndInv, AnchorInv, Anchored, chain
  <1> QED
    BY <1>3, <1>4, <1>8, <1>9 DEF IndInv

\* A late write is lost.
LEMMA LoseWriteInd ==
    ASSUME IndInv, TypeOK', NEW w, LoseWrite(w) PROVE IndInv'
  <1>1. /\ latePtrs' \subseteq latePtrs /\ lateRows' \subseteq lateRows
        /\ UNCHANGED <<lock, pc, work, seen, returned, rows, finality, chain, clock, reader>>
    BY DEF LoseWrite, service
  <1>2. Ptrs' \subseteq Ptrs
    BY <1>1 DEF Ptrs
  <1>3. \A c : Stored(c)' <=> Stored(c)
    BY <1>1 DEF Stored
  <1>4. \A n : Fixed(n) => Fixed(n)'
    BY <1>1 DEF Fixed
  <1>5. RowsInv'
    BY <1>1, <1>3 DEF IndInv, RowsInv
  <1>6. PtrsInv'
    BY <1>1, <1>2, <1>3, <1>4 DEF IndInv, PtrsInv
  <1>7. HolderInv'
    BY <1>1, <1>2, <1>3, <1>4 DEF IndInv, HolderInv, Publishable, Fresh, Finalized
  <1>8. ResultsInv'
    BY <1>1, ResultsKeep, StoreType
  <1>9. AnchorInv'
    BY <1>1 DEF IndInv, AnchorInv, Anchored, chain
  <1> QED
    BY <1>5, <1>6, <1>7, <1>8, <1>9 DEF IndInv

\* A reader reads the pointer, then the row.
LEMMA ReaderInd ==
    ASSUME IndInv, TypeOK', NEW r \in Readers, ReaderPointer(r) \/ ReaderRow(r)
    PROVE  IndInv' /\ reader'[r].last.seq >= reader[r].last.seq
           /\ (reader'[r].last.seq = reader[r].last.seq => reader'[r].last = reader[r].last)
           /\ \A x \in Readers : x # r => reader'[x] = reader[x]
  <1>1. UNCHANGED <<service, store, chain, clock>>
    BY DEF ReaderPointer, ReaderRow
  <1>2. RowsInv' /\ PtrsInv'
    BY <1>1 DEF IndInv, RowsInv, PtrsInv, Ptrs, Fixed, Stored, store
  <1>3. HolderInv'
    BY <1>1 DEF IndInv, HolderInv, Publishable, Fresh, Fixed, Stored, Ptrs, Finalized, service, store
  <1>4. AnchorInv'
    BY <1>1 DEF IndInv, AnchorInv, Anchored, service, store, chain
  <1>5. \A c : Published(c)' <=> Published(c)
    BY <1>1 DEF Published, store
  <1>6. /\ reader[r].last \in Checkpoints /\ reader[r].last.seq \in 0..MaxSequence
        /\ reader[r].ptr \in Cells /\ reader[r].ptr.val \in Checkpoints
        /\ reader[r].ptr.val.seq \in 0..MaxSequence
    BY CellType, CheckpointType DEF IndInv, TypeOK
  <1>7. \A x \in Readers : x # r => reader'[x] = reader[x]
    BY DEF ReaderPointer, ReaderRow, ReaderReturns, IndInv, TypeOK
  <1>8. CASE ReaderPointer(r)
    <2>1. /\ reader'[r].pc = "row" /\ reader'[r].ptr = finality /\ finality.ts > 0
          /\ reader'[r].result = reader[r].result /\ reader'[r].last = reader[r].last
      BY <1>8 DEF ReaderPointer, IndInv, TypeOK
    <2>2. Published(finality.val)
      BY <2>1, StoreType DEF IndInv, PtrsInv, Published
    <2>3. reader[r].last.seq <= finality.val.seq
      BY <1>6, StoreType DEF IndInv, ResultsInv, Published
    <2>4. ResultsInv'
      BY <1>1, <1>5, <1>7, <2>1, <2>2, <2>3 DEF IndInv, ResultsInv, service
    <2> QED
      BY <1>2, <1>3, <1>4, <1>6, <1>7, <2>1, <2>4, StoreType DEF IndInv
  <1>9. CASE ReaderRow(r)
    <2>1. /\ reader[r].pc = "row" /\ reader[r].ptr.ts > 0 /\ Published(reader[r].ptr.val)
          /\ reader[r].last.seq <= reader[r].ptr.val.seq
      BY <1>9 DEF ReaderRow, IndInv, ResultsInv
    <2>2. reader[r].ptr.val.seq \in SeqNums /\ Fixed(reader[r].ptr.val.seq)
      BY <1>6, <2>1, StoreType DEF IndInv, PtrsInv, Published
    <2>3. PointerMatches(reader[r].ptr, rows[reader[r].ptr.val.seq])
      BY <2>1, <2>2 DEF PointerMatches, Fixed, Published
    <2>4. ReaderReturns(r, "ok", reader[r].ptr.val)
      BY <1>9, <2>1, <2>3 DEF ReaderRow, Published
    <2>5. reader'[r].pc = "state" /\ reader'[r].result = "ok" /\ reader'[r].last = reader[r].ptr.val
      BY <2>4 DEF ReaderReturns, IndInv, TypeOK
    <2>6. reader[r].last.seq = reader[r].ptr.val.seq => reader[r].last = reader[r].ptr.val
      BY <1>6, <2>1, StoreType DEF IndInv, ResultsInv, Published
    <2>7. reader[r].ptr.val.seq > 0
      BY <2>1 DEF Published
    <2>8. ResultsInv'
      BY <1>1, <1>5, <1>6, <1>7, <2>1, <2>5, <2>7, StoreType DEF IndInv, ResultsInv, service
    <2> QED
      BY <1>2, <1>3, <1>4, <1>6, <1>7, <2>1, <2>5, <2>6, <2>8, StoreType DEF IndInv
  <1> QED
    BY <1>8, <1>9

-----------------------------------------------------------------------------
\* Every step keeps the inductive invariant.
LEMMA NextInd == ASSUME IndInv, [Next]_vars PROVE IndInv'
  <1>1. TypeOK'
    BY TypeStep
  <1>2. CASE \/ \E c \in Callers : Call(c) \/ AcquireCanceled(c) \/ Acquire(c)
             \/ FinalizeError \/ Crash \/ UNCHANGED vars
    BY <1>1, <1>2, ServiceStepInd
  <1>3. CASE HolderStep
    BY <1>1, <1>3, ReadLatestInd, ReadStepInd, UpsertInd, AnchorStepInd, WriteStepInd DEF HolderStep
  <1>4. CASE AnchorAnswerLost \/ WriteAnswerLost \/ WriteDelayed
    BY <1>1, <1>4, AnchorStepInd, WriteStepInd
  <1>5. CASE Network
    BY <1>1, <1>5, LandRowInd, LandPointerInd, LoseWriteInd DEF Network
  <1>6. CASE \E r \in Readers : ReaderPointer(r) \/ ReaderRow(r)
    BY <1>1, <1>6, ReaderInd
  <1> QED
    BY <1>2, <1>3, <1>4, <1>5, <1>6 DEF Next, Failure

\* The inductive invariant is an invariant of the service, the store and the
\* readers.
THEOREM Inductive == Spec => []IndInv
  BY InitInd, NextInd, PTL DEF Spec

\* Type correctness.
THEOREM TypeCorrect == Spec => []TypeOK
  <1>1. IndInv => TypeOK
    BY DEF IndInv
  <1> QED
    BY <1>1, Inductive, PTL

\* The finality pointer always equals the finalized history row it names
\* (CheckpointStore.CurrentFinalized never meets a conflict).
THEOREM PointerConsistent == Spec => []PointerMatchesHistory
  <1>1. IndInv => PointerMatchesHistory
    <2> SUFFICES ASSUME IndInv, finality.ts > 0
                 PROVE  PointerMatches(finality, rows[finality.val.seq])
      BY DEF PointerMatchesHistory
    <2>1. finality.val.seq \in SeqNums /\ Fixed(finality.val.seq)
          /\ rows[finality.val.seq].val = finality.val
      BY StoreType DEF IndInv, PtrsInv
    <2> QED
      BY <2>1 DEF PointerMatches, Fixed
  <1> QED
    BY <1>1, Inductive, PTL

\* A checkpoint Finalize returned is never undone by a late write or a crash.
THEOREM ReturnedDurable == Spec => []ReturnedIsDurable
  <1>1. IndInv => ReturnedIsDurable
    <2> SUFFICES ASSUME IndInv, NEW c \in returned
                 PROVE  rows[c.seq].val = c /\ finality.val.seq >= c.seq
      BY DEF ReturnedIsDurable
    <2>1. c.seq \in 0..MaxSequence
      BY CheckpointType DEF IndInv, TypeOK
    <2> QED
      BY <2>1, StoreType DEF IndInv, ResultsInv, Published
  <1> QED
    BY <1>1, Inductive, PTL

\* Nothing is finalized in the history before the anchor holds its receipt.
THEOREM AnchoredFirst == Spec => []AnchoredBeforeFinalized
  <1>1. IndInv => AnchoredBeforeFinalized
    BY DEF IndInv, AnchorInv, Anchored, AnchoredBeforeFinalized
  <1> QED
    BY <1>1, Inductive, PTL

\* A reader never finds the pointer in conflict with the history.
THEOREM ReaderSafe == Spec => []ReaderNeverConflicts
  <1>1. IndInv => ReaderNeverConflicts
    BY DEF IndInv, ResultsInv, ReaderNeverConflicts
  <1> QED
    BY <1>1, Inductive, PTL

\* The current checkpoint a reader is given never goes back and never changes at
\* the same sequence number.
THEOREM ReaderNeverGoesBack == Spec => ReaderMonotone
  <1> DEFINE Mono == \A r \in Readers :
                /\ reader'[r].last.seq >= reader[r].last.seq
                /\ reader'[r].last.seq = reader[r].last.seq => reader'[r].last = reader[r].last
  <1>1. ASSUME IndInv, [Next]_vars PROVE Mono
    <2>1. TypeOK'
      BY <1>1, TypeStep
    <2>2. \A r \in Readers : reader[r].last.seq \in Int
      BY <1>1, CheckpointType DEF IndInv, TypeOK
    <2>3. CASE \E r \in Readers : ReaderPointer(r) \/ ReaderRow(r)
      BY <1>1, <2>1, <2>2, <2>3, ReaderInd
    <2>4. CASE reader' = reader
      BY <2>2, <2>4
    <2> QED
      BY <1>1, <2>3, <2>4 DEF Next, HolderStep, Failure, Network, vars, Call, AcquireCanceled,
         Acquire, ReadLatest, ReadPointer, ReadCurrent, Snapshot, SavePending, AnchorCommit,
         UpsertCheckpoint, UpsertFinalityState, FinalizeError, AnchorAnswerLost,
         WriteAnswerLost, WriteDelayed, Crash, LandRow, LandPointer, LoseWrite
  <1>2. IndInv /\ [Next]_vars => [Mono]_vars
    BY <1>1
  <1>3. Spec => [][Mono]_vars
    BY <1>2, Inductive, PTL DEF Spec
  <1> QED
    BY <1>3 DEF ReaderMonotone

-----------------------------------------------------------------------------
\* A step leaves the published rows as they are and moves the pointer by at most
\* one sequence number.
LEMMA PublishStep ==
    ASSUME IndInv, [Next]_vars
    PROVE  /\ finality'.val.seq \in {finality.val.seq, finality.val.seq + 1}
           /\ \A n \in SeqNums : n <= finality.val.seq => rows'[n].val = rows[n].val
  <1>1. TypeOK' /\ finality.val.seq \in Nat
    BY TypeStep, StoreType
  <1>2. CASE UNCHANGED <<rows, finality>>
    BY <1>2
  <1>3. ASSUME NEW w \in Cells, w.ts > 0, Stored(w.val), Compatible(w),
               PutRow(w), lateRows' \subseteq lateRows, UNCHANGED <<finality, latePtrs>>,
               clock <= clock', w.ts <= clock'
        PROVE  /\ finality'.val.seq \in {finality.val.seq, finality.val.seq + 1}
               /\ \A n \in SeqNums : n <= finality.val.seq => rows'[n].val = rows[n].val
    BY <1>1, <1>3, PutRowKeeps DEF Pinned
  <1>4. ASSUME NEW w \in Cells, GoodPointer(w),
               PutPointer(w), latePtrs' \subseteq latePtrs, UNCHANGED <<rows, lateRows>>,
               clock <= clock', w.ts <= clock'
        PROVE  /\ finality'.val.seq \in {finality.val.seq, finality.val.seq + 1}
               /\ \A n \in SeqNums : n <= finality.val.seq => rows'[n].val = rows[n].val
    <2>1. finality'.val.seq >= finality.val.seq /\ (finality' = finality \/ finality' = w)
      BY <1>1, <1>4, PutPointerKeeps
    <2>2. w.val.seq \in Nat /\ w.val.seq <= finality.val.seq + 1
      BY <1>4, StoreType DEF GoodPointer, Stored
    <2> QED
      BY <1>1, <1>4, <2>1, <2>2
  <1>5. CASE \E w \in lateRows : LandRow(w)
    <2>1. PICK w \in lateRows : LandRow(w)
      BY <1>5
    <2>2. w \in Cells /\ w.ts > 0 /\ w.ts <= clock /\ Stored(w.val) /\ w.val.seq \in SeqNums
      BY StoreType DEF IndInv, RowsInv, Stored
    <2>3. Compatible(w)
      BY <2>2, PinnedFixed DEF Compatible, Fixed
    <2> QED
      BY <1>3, <2>1, <2>2, <2>3, StoreType DEF LandRow
  <1>6. CASE \E w \in latePtrs : LandPointer(w)
    <2>1. PICK w \in latePtrs : LandPointer(w)
      BY <1>6
    <2>2. w \in Cells /\ GoodPointer(w) /\ w.ts <= clock
      BY StoreType DEF Ptrs, IndInv, PtrsInv, GoodPointer
    <2> QED
      BY <1>4, <2>1, <2>2, StoreType DEF LandPointer
  <1>7. /\ Write \in Cells /\ Write.ts > 0 /\ Write.ts = clock + 1 /\ clock \in Nat
        /\ pc \in {"save", "row"} => Stored(Write.val) /\ Compatible(Write)
        /\ pc = "finality" => GoodPointer(Write)
    BY WriteFacts, StoreType
  <1>8. CASE SavePending \/ UpsertCheckpoint
    BY <1>3, <1>7, <1>8 DEF SavePending, UpsertCheckpoint
  <1>9. CASE UpsertFinalityState
    BY <1>4, <1>7, <1>9 DEF UpsertFinalityState
  <1>10. CASE WriteAnswerLost
    <2>1. CASE pc = "finality"
      BY <1>4, <1>7, <1>10, <2>1 DEF WriteAnswerLost
    <2>2. CASE pc # "finality"
      BY <1>3, <1>7, <1>10, <2>2 DEF WriteAnswerLost
    <2> QED
      BY <2>1, <2>2
  <1> QED
    BY <1>2, <1>5, <1>6, <1>8, <1>9, <1>10
    DEF Next, HolderStep, Failure, Network, vars, store, service, Call, AcquireCanceled, Acquire,
        ReadLatest, ReadPointer, ReadCurrent, Snapshot, AnchorCommit, FinalizeError,
        AnchorAnswerLost, WriteDelayed, Crash, LoseWrite, ReaderPointer, ReaderRow

\* The checkpoint service, its store and its retries implement the append-only
\* ledger: published checkpoints are immutable and numbered without gaps.
THEOREM Refinement == Spec => LedgerSpec
  <1> DEFINE Cur == finality.val.seq
             Led == [n \in SeqNums |-> IF n <= finality.val.seq THEN rows[n].val.snap ELSE None]
  <1>1. Init => Ledger!Init
    BY ConstantsAssumption DEF Init, Ledger!Init, NoCell, NoCheckpoint, SeqNums
  <1>2. ASSUME IndInv, [Next]_vars PROVE [Ledger!Next]_<<Cur, Led>>
    <2>1. /\ Cur' \in {Cur, Cur + 1}
          /\ \A n \in SeqNums : n <= Cur => rows'[n].val = rows[n].val
      BY <1>2, PublishStep
    <2>2. IndInv' /\ Cur \in 0..MaxSequence /\ Cur' \in 0..MaxSequence /\ MaxSequence \in Nat
      BY <1>2, NextInd, StoreType, CellType, CheckpointType DEF IndInv, TypeOK
    <2>3. CASE Cur' = Cur
      BY <2>1, <2>3
    <2>4. CASE Cur' = Cur + 1
      <3>1. PICK k \in SeqNums : k = Cur + 1 /\ k = Cur' /\ Cur < MaxSequence
        BY <2>2, <2>4 DEF SeqNums
      <3>2. PICK s : s = rows'[k].val.snap
        OBVIOUS
      <3>3. s \in Snapshots
        <4>1. Fixed(k)'
          BY <2>2, <3>1 DEF IndInv, PtrsInv
        <4> QED
          BY <2>2, <3>2, <4>1 DEF Fixed, IndInv, RowsInv, Stored
      <3>4. ASSUME NEW n \in SeqNums
            PROVE  (IF n <= Cur' THEN rows'[n].val.snap ELSE None)
                   = IF n = k THEN s ELSE IF n <= Cur THEN rows[n].val.snap ELSE None
        BY <2>1, <2>2, <3>1, <3>2 DEF SeqNums
      <3>5. Led' = [Led EXCEPT ![Cur + 1] = s]
        BY <3>1, <3>4
      <3>6. Ledger!Publish(s)
        BY <2>4, <3>1, <3>5 DEF Ledger!Publish
      <3> QED
        BY <3>3, <3>6 DEF Ledger!Next
    <2> QED
      BY <2>1, <2>3, <2>4
  <1> QED
    BY <1>1, <1>2, Inductive, PTL DEF Spec, LedgerSpec, Ledger!Spec

-----------------------------------------------------------------------------
\* A row upsert of the lock holder: the row has the holder's checkpoint, and so it had
\* before unless it is new.
LEMMA CommitPutRow ==
    ASSUME IndInv, CommitInv, pc \in {"save", "row"}, PutRow(Write),
           UNCHANGED <<lateRows, latePtrs, receipts>>,
           pc' = "latest" \/ (pc' \in {"anchor", "finality"} /\ work' = work)
    PROVE  CommitInv'
  <1>1. Write.val = work /\ work.seq \in SeqNums /\ Write.ts = clock + 1
    BY WriteFacts DEF Stored
  <1>2. /\ rows' = [rows EXCEPT ![work.seq] = Write] /\ Write.ts > 0
        /\ \A n \in SeqNums : rows[n].ts \in Nat /\ rows \in [SeqNums -> Cells]
    <2>1. rows' = [rows EXCEPT ![work.seq] = Merge(rows[work.seq], Write)]
      BY <1>1 DEF PutRow
    <2>2. Merge(rows[work.seq], Write) = Write
      <3>1. rows[work.seq].ts < Write.ts /\ rows[work.seq].ts \in Nat /\ Write.ts \in Nat
        BY <1>1, WriteFacts, StoreType
      <3> QED
        BY <3>1 DEF Merge
    <2> QED
      BY <1>1, <2>1, <2>2, StoreType DEF IndInv, TypeOK
  <1>3. rows'[work.seq].ts > 0 /\ rows'[work.seq].val = work
    BY <1>1, <1>2
  <1>4. \A n \in SeqNums : n # work.seq => rows'[n] = rows[n]
    BY <1>1, <1>2
  <1>5. \A n \in SeqNums, s \in Snapshots :
           receipts[<<n, s>>] > 0 => rows'[n].ts > 0 /\ rows'[n].val.snap = s
    <2> SUFFICES ASSUME NEW n \in SeqNums, NEW s \in Snapshots, receipts[<<n, s>>] > 0
                 PROVE  rows'[n].ts > 0 /\ rows'[n].val.snap = s
      OBVIOUS
    <2>1. rows[n].ts > 0 /\ rows[n].val.snap = s
      BY DEF CommitInv
    <2>2. CASE n # work.seq
      BY <1>4, <2>1, <2>2
    <2>3. CASE n = work.seq /\ pc = "row"
      BY <1>3, <2>1, <2>3 DEF CommitInv
    <2>4. CASE n = work.seq /\ pc = "save"
      <3>1. rows[n].ts = 0
        BY <1>1, <2>4 DEF CommitInv, SeqNums
      <3> QED
        BY <2>1, <3>1
    <2> QED
      BY <2>2, <2>3, <2>4
  <1> QED
    BY <1>3, <1>5 DEF CommitInv

\* Where no write lands late, every step keeps CommitInv.
LEMMA CommitNext ==
    ASSUME MaxInflight = 0, IndInv, CommitInv, [Next]_vars
    PROVE  CommitInv'
  <1>1. ASSUME UNCHANGED <<rows, receipts, lateRows, latePtrs>>,
               pc' = "latest" \/ UNCHANGED <<pc, work>>
        PROVE  CommitInv'
    BY <1>1 DEF CommitInv
  <1>2. CASE \/ \E c \in Callers : Call(c) \/ AcquireCanceled(c) \/ Acquire(c)
             \/ FinalizeError \/ Crash \/ UpsertFinalityState \/ UNCHANGED vars
             \/ \E r \in Readers : ReaderPointer(r) \/ ReaderRow(r)
    <2>1. UNCHANGED <<rows, receipts, lateRows, latePtrs>> /\ (pc' = "latest" \/ UNCHANGED <<pc, work>>)
      BY <1>2 DEF Call, AcquireCanceled, Acquire, FinalizeError, Crash, UpsertFinalityState, vars,
                  ReaderPointer, ReaderRow, Release, store, chain, service
    <2> QED
      BY <1>1, <2>1
  <1>3. ASSUME NEW n \in 0..MaxSequence, ReadLatest(n) PROVE CommitInv'
    <2>1. /\ UNCHANGED <<rows, receipts, lateRows, latePtrs>> /\ IsLatest(n)
          /\ work' = IF n = 0 THEN NoCheckpoint ELSE rows[n].val
          /\ n = 0 => pc' = "snapshot"
          /\ n > 0 => pc' \in {"pointer", "anchor"}
      BY <1>3 DEF ReadLatest, store, chain
    <2>2. n = 0 \/ n \in SeqNums
      BY StoreType
    <2>3. n > 0 => rows[n].ts > 0 /\ work'.seq = n /\ work' = rows[n].val
      BY <2>1, <2>2 DEF IsLatest, IndInv, RowsInv, SeqNums
    <2>4. \A m \in SeqNums : m > n => rows[m].ts = 0
      BY <2>1, StoreType DEF IsLatest
    <2>5. n = 0 => work'.seq = 0
      BY <2>1 DEF NoCheckpoint
    <2>6. CASE n = 0
      BY <2>1, <2>4, <2>5, <2>6 DEF CommitInv
    <2>7. CASE n > 0
      BY <2>1, <2>3, <2>4, <2>7 DEF CommitInv
    <2> QED
      BY <2>6, <2>7
  <1>4. CASE ReadPointer \/ ReadCurrent
    <2>1. /\ UNCHANGED <<rows, receipts, lateRows, latePtrs, work>> /\ pc \in {"pointer", "current"}
          /\ pc' \in {"row", "current", "snapshot"}
      BY <1>4 DEF ReadPointer, ReadCurrent, store, chain
    <2> QED
      BY <2>1 DEF CommitInv
  <1>5. ASSUME NEW s \in Snapshots, Snapshot(s) PROVE CommitInv'
    <2>1. /\ UNCHANGED <<rows, receipts, lateRows, latePtrs>> /\ pc = "snapshot" /\ pc' = "save"
          /\ work'.seq = work.seq + 1 /\ work.seq \in Int
      BY <1>5, StoreType DEF Snapshot, store, chain
    <2>2. \A m \in SeqNums : m >= work'.seq => rows[m].ts = 0
      BY <2>1, StoreType DEF CommitInv
    <2> QED
      BY <2>1, <2>2 DEF CommitInv
  <1>6. CASE SavePending \/ UpsertCheckpoint
    BY <1>6, CommitPutRow DEF SavePending, UpsertCheckpoint, chain
  <1>7. CASE WriteAnswerLost
    <2>1. CASE pc = "finality"
      BY <1>1, <1>7, <2>1 DEF WriteAnswerLost, Release, chain
    <2>2. CASE pc # "finality"
      BY <1>7, <2>2, CommitPutRow DEF WriteAnswerLost, Release, chain
    <2> QED
      BY <2>1, <2>2
  <1>8. CASE AnchorCommit \/ AnchorAnswerLost
    <2>1. /\ pc = "anchor" /\ CommitAnchor /\ UNCHANGED <<rows, lateRows, latePtrs>>
          /\ pc' = "latest" \/ (pc' = "row" /\ work'.seq = work.seq /\ work'.snap = work.snap)
      BY <1>8 DEF AnchorCommit, AnchorAnswerLost, Finalize, Release, store
    <2>2. rows[work.seq].ts > 0 /\ rows[work.seq].val.snap = work.snap
      BY <2>1 DEF CommitInv
    <2>3. \A n \in SeqNums, s \in Snapshots :
             receipts'[<<n, s>>] > 0 => receipts[<<n, s>>] > 0 \/ <<n, s>> = Commitment(work)
      BY <2>1, CommitAnchorType DEF CommitAnchor, chain, IndInv, TypeOK
    <2>4. \A n \in SeqNums, s \in Snapshots :
             receipts'[<<n, s>>] > 0 => rows[n].ts > 0 /\ rows[n].val.snap = s
      BY <2>2, <2>3 DEF CommitInv, Commitment
    <2> QED
      BY <2>1, <2>2, <2>4 DEF CommitInv
  <1>9. ~WriteDelayed
    <2>1. Cardinality(lateRows) = 0 /\ Cardinality(latePtrs) = 0
      BY FS_EmptySet DEF CommitInv
    <2> QED
      BY <2>1 DEF WriteDelayed
  <1>10. ~Network
    BY DEF Network, CommitInv
  <1> QED
    BY <1>2, <1>3, <1>4, <1>5, <1>6, <1>7, <1>8, <1>9, <1>10 DEF Next, HolderStep, Failure

\* Resuming pending work (service.go:59): when a write that failed was applied or is lost,
\* a sequence number is never anchored with two commitments, whatever crashes and retries.
THEOREM OneCommitment ==
    ASSUME MaxInflight = 0
    PROVE  Spec => []OneCommitmentPerSequence
  <1>1. Init => CommitInv
    BY DEF Init, CommitInv
  <1>2. IndInv /\ CommitInv /\ [Next]_vars => CommitInv'
    BY CommitNext
  <1>3. CommitInv => OneCommitmentPerSequence
    BY DEF CommitInv, OneCommitmentPerSequence
  <1> QED
    BY <1>1, <1>2, <1>3, Inductive, PTL DEF Spec
=============================================================================
