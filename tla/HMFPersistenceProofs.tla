------------------------ MODULE HMFPersistenceProofs ------------------------
(***************************************************************************)
(* Proofs about HMFPersistence, for any number of regions, shards, workers *)
(* and segments, any capacity of the updates channel, with and without     *)
(* failing writes.  What the trees hash to does not matter here: of an     *)
(* append it is used that it adds one leaf and returns the new tree.       *)
(***************************************************************************)
EXTENDS HMFPersistence, SequenceTheorems, TLAPS

\* ReplaceFrontiers: the batch's deletion is older than none of its insertions, and
\* leaves no row.
LEMMA ReplacedFrontiers == \A rows, frontiers : ReplaceFrontiers(rows, frontiers) = {}
  <1> SUFFICES ASSUME NEW rows, NEW frontiers PROVE ReplaceFrontiers(rows, frontiers) = {}
    OBVIOUS
  <1> DEFINE cells == [row : rows, timestamp : {0}] \cup [row : Range(frontiers), timestamp : {1}]
  <1>1. \A d \in cells : d.timestamp = 0 \/ d.timestamp = 1
    OBVIOUS
  <1>2. ReplaceFrontiers(rows, frontiers) = NotShadowed(cells, 1)
    BY DEF ReplaceFrontiers
  <1> HIDE DEF cells
  <1>3. {d \in cells : d.timestamp > 1} = {}
    BY <1>1
  <1> QED
    BY <1>2, <1>3 DEF NotShadowed

\* Of the ten writes the first adds the segment's nodes, the second its metadata, the
\* sixth deletes the rows of the frontier, those it inserts included, the eighth upserts
\* the state of the shard.
LEMMA WrittenFields ==
    ASSUME TablesType, current.sh \in Shards, step \in 1..Len(Steps),
           tables' = Written(tables, current, Steps[step])
    PROVE  /\ DOMAIN tables' = DOMAIN tables
           /\ tables'.segmentNodes = IF step = 1 THEN tables.segmentNodes \cup {<<current.sh, current.segment>>}
                               ELSE tables.segmentNodes
           /\ tables'.segments = IF step = 2 THEN [tables.segments EXCEPT ![current.sh] =
                                Upsert(tables.segments[current.sh], {<<current.segment, current.index, current.segmentRoot>>})]
                           ELSE tables.segments
           /\ tables'.frontiers = IF step = 6 THEN [tables.frontiers EXCEPT ![current.sh] = {}]
                            ELSE tables.frontiers
           /\ tables'.shardState = IF step = 8 THEN [tables.shardState EXCEPT ![current.sh] =
                                 [root |-> current.shardRoot, leaves |-> current.tree.count, nextSegment |-> current.segment + 1]]
                             ELSE tables.shardState
  <1>0. step = 1 \/ step = 2 \/ step = 3 \/ step = 4 \/ step = 5 \/ step = 6 \/ step = 7 \/ step = 8 \/ step = 9 \/ step = 10
    <2>1. step \in 1..10
      BY DEF Steps
    <2> QED
      BY <2>1
  <1> USE DEF Steps, TablesType
  <1>1. CASE step = 1
    BY <1>1 DEF Written
  <1>2. CASE step = 2
    BY <1>2 DEF Written
  <1>3. CASE step = 3
    BY <1>3 DEF Written
  <1>4. CASE step = 4
    BY <1>4 DEF Written
  <1>5. CASE step = 5
    BY <1>5 DEF Written
  <1>6. CASE step = 6
    <2>1. ReplaceFrontiers(tables.frontiers[current.sh], current.tree.frontiers) = {}
      BY ReplacedFrontiers
    <2>2. tables' = [tables EXCEPT !.frontiers[current.sh] =
                        ReplaceFrontiers(tables.frontiers[current.sh], current.tree.frontiers)]
      BY <1>6 DEF Written
    <2> QED
      BY <1>6, <2>1, <2>2
  <1>7. CASE step = 7
    BY <1>7 DEF Written, UpsertTreeState
  <1>8. CASE step = 8
    BY <1>8 DEF Written, UpsertTreeState
  <1>9. CASE step = 9
    BY <1>9 DEF Written, UpsertTreeState
  <1>10. CASE step = 10
    BY <1>10 DEF Written, UpsertTreeState
  <1> HIDE DEF Steps, TablesType
  <1> QED
    BY <1>0, <1>1, <1>2, <1>3, <1>4, <1>5, <1>6, <1>7, <1>8, <1>9, <1>10, Zenon

-----------------------------------------------------------------------------
\* The inductive invariant holds initially.
LEMMA InitInd == Init => IndInv
  <1> SUFFICES ASSUME Init PROVE IndInv
    OBVIOUS
  <1>1. ForestInv
    BY DEF Init, ForestInv, NewHMF, EmptyShard
  <1>2. TablesType
    BY DEF Init, TablesType
  <1>3. UpdatesInv
    BY DEF Init, UpdatesInv, Range
  <1>4. StepInv
    BY DEF Init, StepInv, Steps
  <1>5. RowsInv
    BY DEF Init, RowsInv, NewHMF, EmptyShard
  <1> QED
    BY <1>1, <1>2, <1>3, <1>4, <1>5 DEF IndInv

\* closeSegment: the new leaf is on its way, and no other update or row is of the new tree.
LEMMA CloseSegmentInd ==
    ASSUME IndInv, NEW sh \in Shards, CloseSegment(sh)
    PROVE  IndInv'
  <1> DEFINE n == forest.shard[sh].count
             raw == Digests(sh, n, 1)[1]
             result == AppendSegment(forest, sh, n, 1, raw)
             u == result.update
  <1> USE DEF IndInv
  <1>1. /\ u.sh = sh /\ u.segment = n /\ u.index = n /\ u.tree.count = n + 1
        /\ u.shardRoot = CommitShardRoot(sh, u.tree)
        /\ forest'.shard = [forest.shard EXCEPT ![sh] = u.tree]
        /\ hand' = [hand EXCEPT ![sh] = hand[sh] \cup {u}]
        /\ UNCHANGED <<updates, current, step, tables, running>>
    <2>1. forest' = result.forest
      BY Zenon DEF CloseSegment
    <2>2. hand' = [hand EXCEPT ![sh] = hand[sh] \cup {u}]
      BY Zenon DEF CloseSegment
    <2>3. UNCHANGED <<updates, current, step, tables, running>>
      BY DEF CloseSegment
    \* AppendSealedSegment replaces one shard tree by one with a leaf more; the update
    \* carries that tree, its commitment and the index of the new leaf.
    <2>4. /\ u.sh = sh /\ u.segment = n /\ u.index = n /\ u.tree.count = n + 1
          /\ u.shardRoot = CommitShardRoot(sh, u.tree)
          /\ result.forest.shard = [forest.shard EXCEPT ![sh] = u.tree]
      BY DEF AppendSegment, ShardAppend
    <2> HIDE DEF result
    <2> QED
      BY <2>1, <2>2, <2>3, <2>4
  <1> HIDE DEF u, raw, result
  <1>2. n \in Nat
    BY DEF ForestInv
  <1>3. ForestInv'
    BY <1>1, <1>2 DEF ForestInv
  <1>4. TablesType'
    BY <1>1 DEF TablesType
  <1>5. \A v : UpdateInv(v) => UpdateInv(v)'
    BY <1>1, <1>2, <1>3 DEF UpdateInv, ForestInv
  <1>6. \A v : v = u => UpdateInv(v)'
    BY <1>1, <1>2, <1>3 DEF UpdateInv, ForestInv
  <1>7. UpdatesInv'
    BY <1>1, <1>5, <1>6 DEF UpdatesInv
  <1>8. StepInv'
    BY <1>1 DEF StepInv, Stored
  <1>9. RowsInv'
    <2> SUFFICES ASSUME NEW s \in Shards
                 PROVE  LET tree == forest'.shard[s]
                            row == tables.shardState[s]
                        IN /\ \A k \in DOMAIN tables.segments[s] : k[2] \in 0..(tree.count - 1)
                           /\ \A i \in 0..(tree.count - 1) : Stored(s, i) \/ \E v \in Pending(s)' : v.index = i
                           /\ row.leaves \in 0..tree.count
                           /\ row.leaves > 0 => Stored(s, row.leaves - 1)
                           /\ row.leaves = tree.count /\ tree.count > 0 => row.root = CommitShardRoot(s, tree)
                           /\ tables.frontiers[s] = {}
      BY <1>1, ZenonT(60) DEF RowsInv, Stored
    <2>1. Pending(s) \subseteq Pending(s)'
      BY <1>1 DEF Pending, UpdatesInv
    <2>2. s = sh => u \in Pending(s)'
      BY <1>1 DEF Pending, UpdatesInv
    <2>3. CASE s = sh
      <3>1. forest'.shard[s] = u.tree
        BY <1>1, <2>3 DEF ForestInv
      <3>2. \A i \in 0..n : i = n \/ i \in 0..(n - 1)
        BY <1>2
      <3> QED
        BY <1>1, <1>2, <2>1, <2>2, <2>3, <3>1, <3>2 DEF RowsInv
    <2>4. CASE s # sh
      <3>1. forest'.shard[s] = forest.shard[s]
        BY <1>1, <2>4 DEF ForestInv
      <3> QED
        BY <2>1, <3>1 DEF RowsInv
    <2> QED
      BY <2>3, <2>4
  <1> QED
    BY <1>3, <1>4, <1>7, <1>8, <1>9

\* A step that leaves the forest and the tables alone, and that loses no update, keeps
\* the rows as good as they were.
LEMMA SameRows ==
    ASSUME RowsInv, UNCHANGED <<forest, tables>>,
           \A s \in Shards : Pending(s) \subseteq Pending(s)'
    PROVE  RowsInv'
  <1>1. \A s, i : Stored(s, i) <=> Stored(s, i)'
    BY DEF Stored
  <1> SUFFICES ASSUME NEW s \in Shards
               PROVE  LET tree == forest.shard[s]
                          row == tables.shardState[s]
                      IN /\ \A k \in DOMAIN tables.segments[s] : k[2] \in 0..(tree.count - 1)
                         /\ \A i \in 0..(tree.count - 1) : Stored(s, i)' \/ \E v \in Pending(s)' : v.index = i
                         /\ row.leaves \in 0..tree.count
                         /\ row.leaves > 0 => Stored(s, row.leaves - 1)
                         /\ row.leaves = tree.count /\ tree.count > 0 => row.root = CommitShardRoot(s, tree)
                         /\ tables.frontiers[s] = {}
    BY <1>1, Zenon DEF RowsInv
  <1>2. \A i \in 0..(forest.shard[s].count - 1) : Stored(s, i)' \/ \E v \in Pending(s)' : v.index = i
    <2> SUFFICES ASSUME NEW i \in 0..(forest.shard[s].count - 1), ~Stored(s, i)'
                 PROVE  \E v \in Pending(s)' : v.index = i
      OBVIOUS
    <2>1. ~Stored(s, i)
      BY <1>1
    <2>2. PICK v \in Pending(s) : v.index = i
      BY <2>1, Zenon DEF RowsInv
    <2> QED
      BY <2>2
  <1> QED
    BY <1>1, <1>2, Zenon DEF RowsInv

\* updates <- update: the update stays on its way.
LEMMA SendUpdateInd ==
    ASSUME IndInv, NEW sh \in Shards, SendUpdate(sh)
    PROVE  IndInv'
  <1> USE DEF IndInv
  <1>1. PICK u \in hand[sh] : updates' = Append(updates, u) /\ hand' = [hand EXCEPT ![sh] = hand[sh] \ {u}]
    BY DEF SendUpdate
  <1>2. UNCHANGED <<forest, current, step, tables, running>>
    BY DEF SendUpdate
  <1>3. Range(updates') = Range(updates) \cup {u} /\ updates' \in Seq(Range(updates'))
    <2>1. updates \in Seq(Range(updates) \cup {u})
      BY SeqMonotonic DEF UpdatesInv
    <2>2. /\ updates' \in Seq(Range(updates) \cup {u}) /\ Len(updates') = Len(updates) + 1
          /\ \A i \in 1..Len(updates) : updates'[i] = updates[i]
          /\ updates'[Len(updates) + 1] = u
      BY <1>1, <2>1, AppendProperties
    <2>3. DOMAIN updates = 1..Len(updates) /\ DOMAIN updates' = 1..Len(updates) + 1 /\ Len(updates) \in Nat
      BY <2>1, <2>2, LenProperties
    <2>4. Range(updates') = Range(updates) \cup {u}
      BY <2>2, <2>3 DEF Range
    <2> QED
      BY <2>2, <2>4
  <1>4. ForestInv' /\ TablesType' /\ StepInv'
    BY <1>2 DEF ForestInv, TablesType, StepInv, Stored
  <1>5. \A v : UpdateInv(v) <=> UpdateInv(v)'
    BY <1>2 DEF UpdateInv
  <1>6. UpdatesInv'
    BY <1>1, <1>2, <1>3, <1>5 DEF UpdatesInv
  <1>7. \A s \in Shards : Pending(s) \subseteq Pending(s)'
    <2>1. u.sh = sh /\ u # NoUpdate
      BY DEF UpdatesInv, UpdateInv, NoUpdate
    <2> QED
      BY <1>1, <1>2, <1>3, <2>1 DEF Pending, UpdatesInv
  <1>8. RowsInv'
    BY <1>2, <1>7, SameRows
  <1> QED
    BY <1>4, <1>6, <1>8

\* PersistUpdates takes an update: it stays on its way.
LEMMA ReceiveUpdateInd ==
    ASSUME IndInv, ReceiveUpdate
    PROVE  IndInv'
  <1> USE DEF IndInv
  <1>1. /\ UNCHANGED <<forest, hand, tables, running>> /\ step' = 1
        /\ current = NoUpdate /\ current' = Head(updates) /\ updates' = Tail(updates) /\ updates # <<>>
    BY DEF ReceiveUpdate
  <1>2. /\ Range(updates) = {current'} \cup Range(updates') /\ updates' \in Seq(Range(updates'))
    <2>1. updates \in Seq(Range(updates)) /\ Len(updates) \in Nat \ {0} /\ DOMAIN updates = 1..Len(updates)
      BY <1>1, LenProperties, EmptySeq DEF UpdatesInv
    <2>2. /\ current' = updates[1] /\ updates' \in Seq(Range(updates)) /\ Len(updates') = Len(updates) - 1
          /\ \A i \in 1..Len(updates') : updates'[i] = updates[i + 1]
      BY <1>1, <2>1, HeadTailProperties
    <2>3. DOMAIN updates' = 1..Len(updates')
      BY <2>2, LenProperties
    <2>4. Range(updates) = {current'} \cup Range(updates')
      <3>1. \A i \in 1..Len(updates) : i = 1 \/ (i - 1 \in 1..Len(updates') /\ updates[i] = updates'[i - 1])
        BY <2>1, <2>2
      <3>2. Range(updates) \subseteq {current'} \cup Range(updates')
        <4> SUFFICES ASSUME NEW i \in 1..Len(updates) PROVE updates[i] \in {current'} \cup Range(updates')
          BY <2>1 DEF Range
        <4>1. CASE i = 1
          BY <4>1, <2>2
        <4>2. CASE i # 1
          <5>1. i - 1 \in DOMAIN updates' /\ updates[i] = updates'[i - 1]
            BY <4>2, <2>3, <3>1
          <5> QED
            BY <5>1 DEF Range
        <4> QED
          BY <4>1, <4>2
      <3>3. {current'} \cup Range(updates') \subseteq Range(updates)
        BY <2>1, <2>2, <2>3 DEF Range
      <3> QED
        BY <3>2, <3>3
    <2>5. updates' \in Seq(Range(updates'))
      BY <2>2, SeqOfRange
    <2> QED
      BY <2>4, <2>5
  <1>3. ForestInv' /\ TablesType'
    BY <1>1 DEF ForestInv, TablesType
  <1>4. StepInv'
    BY <1>1 DEF StepInv, Steps
  <1>5. \A v : UpdateInv(v) <=> UpdateInv(v)'
    BY <1>1 DEF UpdateInv
  <1>6. UpdatesInv'
    BY <1>1, <1>2, <1>5 DEF UpdatesInv
  <1>7. \A s \in Shards : Pending(s) \subseteq Pending(s)'
    BY <1>1, <1>2 DEF Pending
  <1>8. RowsInv'
    BY <1>1, <1>7, SameRows
  <1> QED
    BY <1>3, <1>4, <1>6, <1>8

-----------------------------------------------------------------------------
\* One write of PersistSealedUpdate, whether it is reported as done or as failed: rows
\* of leaves are only added, and the state row is that of the update.
LEMMA WriteKeeps ==
    ASSUME IndInv, current # NoUpdate, UNCHANGED forest,
           tables' = Written(tables, current, Steps[step])
    PROVE  /\ TablesType'
           /\ \A s \in Shards : \A i : Stored(s, i) => Stored(s, i)'
           /\ \A s, g, i : s = current.sh /\ g = current.segment /\ i = current.index =>
                 /\ step = 1 => <<s, g>> \in tables'.segmentNodes
                 /\ step > 1 => <<s, g>> \in tables'.segmentNodes
                 /\ step > 1 => Stored(s, i)'
           /\ \A s \in Shards : \A k \in DOMAIN tables'.segments[s] :
                 k[2] \in 0..(forest.shard[s].count - 1)
           /\ \A s \in Shards :
                 tables'.shardState[s] = IF step = 8 /\ s = current.sh
                                         THEN [root |-> current.shardRoot, leaves |-> current.tree.count,
                                               nextSegment |-> current.segment + 1]
                                         ELSE tables.shardState[s]
           /\ \A s \in Shards : tables'.frontiers[s] = {}
  <1> DEFINE u == current
  <1> USE DEF IndInv
  <1>1. u.sh \in Shards /\ u.segment = u.index /\ u.index \in 0..(forest.shard[u.sh].count - 1)
    BY DEF UpdatesInv, UpdateInv
  <1>2. step \in 1..Len(Steps)
    BY DEF StepInv
  <1>3. /\ DOMAIN tables' = DOMAIN tables
        /\ tables'.segmentNodes = IF step = 1 THEN tables.segmentNodes \cup {<<u.sh, u.segment>>}
                                  ELSE tables.segmentNodes
        /\ tables'.segments = IF step = 2 THEN [tables.segments EXCEPT ![u.sh] =
                                    Upsert(tables.segments[u.sh], {<<u.segment, u.index, u.segmentRoot>>})]
                              ELSE tables.segments
        /\ tables'.frontiers = IF step = 6 THEN [tables.frontiers EXCEPT ![u.sh] = {}]
                               ELSE tables.frontiers
        /\ tables'.shardState = IF step = 8 THEN [tables.shardState EXCEPT ![u.sh] =
                                    [root |-> u.shardRoot, leaves |-> u.tree.count, nextSegment |-> u.segment + 1]]
                                ELSE tables.shardState
    BY <1>1, <1>2, WrittenFields
  <1> HIDE DEF u
  <1>4. TablesType'
    BY <1>1, <1>3 DEF TablesType
  <1>5. \A s \in Shards : tables'.shardState[s] = IF step = 8 /\ s = u.sh
                                         THEN [root |-> u.shardRoot, leaves |-> u.tree.count,
                                               nextSegment |-> u.segment + 1]
                                         ELSE tables.shardState[s]
    BY <1>3 DEF TablesType
  <1>6. \A s \in Shards : tables'.frontiers[s] = {}
    BY <1>3 DEF TablesType, RowsInv
  <1>7. \A s \in Shards : DOMAIN tables'.segments[s] = IF step = 2 /\ s = u.sh
                          THEN DOMAIN tables.segments[s] \cup {<<u.segment, u.index>>}
                          ELSE DOMAIN tables.segments[s]
    <2>1. step = 2 => tables'.segments[u.sh] = Upsert(tables.segments[u.sh], {<<u.segment, u.index, u.segmentRoot>>})
      BY <1>1, <1>3 DEF TablesType
    <2>2. \A s \in Shards : ~(step = 2 /\ s = u.sh) => tables'.segments[s] = tables.segments[s]
      BY <1>3 DEF TablesType
    <2> QED
      <3> SUFFICES ASSUME NEW s \in Shards
                   PROVE  DOMAIN tables'.segments[s] = IF step = 2 /\ s = u.sh
                             THEN DOMAIN tables.segments[s] \cup {<<u.segment, u.index>>}
                             ELSE DOMAIN tables.segments[s]
        OBVIOUS
      <3>1. CASE step = 2 /\ s = u.sh
        <4>1. DOMAIN Upsert(tables.segments[u.sh], {<<u.segment, u.index, u.segmentRoot>>})
                 = DOMAIN tables.segments[u.sh] \cup {<<u.segment, u.index>>}
          BY DEF Upsert
        <4> QED
          BY <2>1, <3>1, <4>1
      <3>2. CASE ~(step = 2 /\ s = u.sh)
        BY <2>2, <3>2
      <3> QED
        BY <3>1, <3>2
  <1>8. \A s \in Shards : \A i : Stored(s, i) => Stored(s, i)'
    <2>1. tables.segmentNodes \subseteq tables'.segmentNodes
      BY <1>3
    <2>2. \A s \in Shards : DOMAIN tables.segments[s] \subseteq DOMAIN tables'.segments[s]
      BY <1>7
    <2> QED
      BY <2>1, <2>2 DEF Stored
  <1>9. \A s \in Shards : \A k \in DOMAIN tables'.segments[s] : k[2] \in 0..(forest.shard[s].count - 1)
    <2> SUFFICES ASSUME NEW s \in Shards, NEW k \in DOMAIN tables'.segments[s]
                 PROVE  k[2] \in 0..(forest.shard[s].count - 1)
      OBVIOUS
    <2>1. CASE k \in DOMAIN tables.segments[s]
      BY <2>1 DEF RowsInv
    <2>2. CASE s = u.sh /\ k = <<u.segment, u.index>>
      BY <2>2, <1>1
    <2> QED
      BY <2>1, <2>2, <1>7
  <1>10. <<u.sh, u.segment>> \in tables'.segmentNodes
    BY <1>2, <1>3 DEF StepInv, u
  <1>11. step > 1 => \A s, i : s = u.sh /\ i = u.index => Stored(s, i)'
    <2>1. CASE step = 2
      <3>1. <<u.segment, u.index>> \in DOMAIN tables'.segments[u.sh]
        BY <1>1, <1>7, <2>1
      <3> QED
        <4> DEFINE k == <<u.segment, u.index>>
        <4>1. k[2] = u.index /\ k[1] = u.segment
          OBVIOUS
        <4> HIDE DEF k
        <4>2. k \in DOMAIN tables'.segments[u.sh] /\ <<u.sh, k[1]>> \in tables'.segmentNodes
          BY <1>10, <3>1, <4>1 DEF k
        <4> QED
          BY <4>1, <4>2 DEF Stored
    <2>2. CASE step > 2
      BY <1>1, <1>8, <2>2 DEF StepInv, u
    <2> QED
      <3>1. step > 1 => step = 2 \/ step > 2
        <4>1. step \in 1..10
          BY <1>2 DEF Steps
        <4> QED
          BY <4>1
      <3> QED
        BY <2>1, <2>2, <3>1
  <1> QED
    BY <1>4, <1>5, <1>6, <1>8, <1>9, <1>10, <1>11 DEF u

\* The state row of a shard after a write: backed, and of one tree.
LEMMA WrittenRow ==
    ASSUME IndInv, current # NoUpdate, UNCHANGED forest,
           tables' = Written(tables, current, Steps[step]), NEW s \in Shards
    PROVE  LET tree == forest.shard[s]
               row == tables'.shardState[s]
           IN /\ row.leaves \in 0..tree.count
              /\ row.leaves > 0 => \A i : i = row.leaves - 1 => Stored(s, i)'
              /\ row.leaves = tree.count /\ tree.count > 0 => row.root = CommitShardRoot(s, tree)
  <1>a. tables'.shardState[s] = IF step = 8 /\ s = current.sh
                                THEN [root |-> current.shardRoot, leaves |-> current.tree.count,
                                      nextSegment |-> current.segment + 1]
                                ELSE tables.shardState[s]
    BY WriteKeeps
  <1>b. /\ \A i : Stored(s, i) => Stored(s, i)'
        /\ \A i : s = current.sh /\ i = current.index /\ step > 1 => Stored(s, i)'
    BY WriteKeeps
  <1> USE DEF IndInv
  <1>1. forest.shard[s].count \in Nat
    BY DEF ForestInv
  <1>2. CASE step = 8 /\ s = current.sh
    <2>1. /\ tables'.shardState[s].leaves = current.tree.count
          /\ tables'.shardState[s].root = current.shardRoot
      BY <1>2, <1>a
    <2>2. UpdateInv(current)
      BY DEF UpdatesInv
    <2>3. \A i : i = current.index => Stored(s, i)'
      BY <1>2, <1>b
    <2>4. current.tree.count = current.index + 1 /\ current.index \in 0..(forest.shard[s].count - 1)
      BY <1>2, <2>2 DEF UpdateInv
    <2>5. current.tree.count = forest.shard[s].count =>
             current.tree = forest.shard[s] /\ current.shardRoot = CommitShardRoot(s, forest.shard[s])
      BY <1>2, <2>2 DEF UpdateInv
    <2> QED
      BY <1>1, <2>1, <2>3, <2>4, <2>5
  <1>3. CASE ~(step = 8 /\ s = current.sh)
    <2>1. tables'.shardState[s] = tables.shardState[s]
      BY <1>3, <1>a
    <2>2. \A i : Stored(s, i) => Stored(s, i)'
      BY <1>b
    <2> QED
      BY <2>1, <2>2 DEF RowsInv
  <1> QED
    BY <1>2, <1>3

\* PersistSealedUpdate: a write that is done.
LEMMA PersistStepInd ==
    ASSUME IndInv, PersistStep
    PROVE  IndInv'
  <1>1. /\ running /\ current # NoUpdate /\ tables' = Written(tables, current, Steps[step])
        /\ UNCHANGED <<forest, hand, updates, running>>
        /\ step = 10 => current' = NoUpdate /\ step' = 1
        /\ step # 10 => current' = current /\ step' = step + 1
    BY DEF PersistStep, Steps
  <1>2. step \in 1..10
    BY DEF IndInv, StepInv, Steps
  <1>3. /\ TablesType'
        /\ \A s \in Shards : \A i : Stored(s, i) => Stored(s, i)'
        /\ \A s \in Shards : \A k \in DOMAIN tables'.segments[s] :
              k[2] \in 0..(forest.shard[s].count - 1)
    BY <1>1, WriteKeeps
  <1>4. /\ <<current.sh, current.segment>> \in tables'.segmentNodes
        /\ step > 1 => \A s, i : s = current.sh /\ i = current.index => Stored(s, i)'
    <2>1. step = 1 \/ step > 1
      BY <1>2
    <2> QED
      BY <1>1, <2>1, WriteKeeps
  <1>5. \A s \in Shards : tables'.frontiers[s] = {}
    BY <1>1, WriteKeeps
  <1>6. ForestInv'
    BY <1>1 DEF IndInv, ForestInv
  <1>7. \A v : UpdateInv(v) <=> UpdateInv(v)'
    BY <1>1 DEF UpdateInv
  <1>8. UpdatesInv'
    BY <1>1, <1>7 DEF IndInv, UpdatesInv
  <1>9. current.sh \in Shards
    BY <1>1 DEF IndInv, UpdatesInv, UpdateInv
  <1>10. StepInv'
    <2>1. CASE step = 10
      <3>1. Len(Steps) = 10
        BY DEF Steps
      <3> QED
        BY <1>1, <2>1, <3>1 DEF StepInv
    <2>2. CASE step # 10
      <3>1. step' = step + 1 /\ current' = current /\ step' \in 1..10
        BY <1>1, <1>2, <2>2
      <3>2. <<current'.sh, current'.segment>> \in tables'.segmentNodes
        BY <1>4, <3>1
      <3>3. step' > 2 => \A s, i : s = current'.sh /\ i = current'.index => Stored(s, i)'
        BY <1>2, <1>4, <3>1
      <3>4. Len(Steps) = 10
        BY DEF Steps
      <3> QED
        BY <1>9, <3>1, <3>2, <3>3, <3>4 DEF StepInv
    <2> QED
      BY <2>1, <2>2
  <1>11. RowsInv'
    <2> SUFFICES ASSUME NEW s \in Shards
                 PROVE  LET tree == forest.shard[s]
                            row == tables'.shardState[s]
                        IN /\ \A i \in 0..(tree.count - 1) : Stored(s, i)' \/ \E v \in Pending(s)' : v.index = i
                           /\ row.leaves \in 0..tree.count
                           /\ row.leaves > 0 => \A i : i = row.leaves - 1 => Stored(s, i)'
                           /\ row.leaves = tree.count /\ tree.count > 0 => row.root = CommitShardRoot(s, tree)
      BY <1>1, <1>3, <1>5, Zenon DEF RowsInv
    <2>1. LET tree == forest.shard[s]
              row == tables'.shardState[s]
          IN /\ row.leaves \in 0..tree.count
             /\ row.leaves > 0 => \A i : i = row.leaves - 1 => Stored(s, i)'
             /\ row.leaves = tree.count /\ tree.count > 0 => row.root = CommitShardRoot(s, tree)
      BY <1>1, WrittenRow
    <2>2. ASSUME NEW i \in 0..(forest.shard[s].count - 1)
          PROVE  Stored(s, i)' \/ \E v \in Pending(s)' : v.index = i
      <3>1. CASE Stored(s, i)
        BY <1>3, <3>1
      <3>2. CASE ~Stored(s, i)
        <4>1. PICK v \in Pending(s) : v.index = i
          BY <3>2, Zenon DEF IndInv, RowsInv
        <4>2. CASE v \in Pending(s)'
          BY <4>1, <4>2
        <4>3. CASE v \notin Pending(s)'
          <5>1. v = current /\ v.sh = s /\ step = 10
            BY <1>1, <1>2, <4>3 DEF Pending
          <5> QED
            BY <1>2, <1>4, <4>1, <5>1
        <4> QED
          BY <4>2, <4>3
      <3> QED
        BY <3>1, <3>2
    <2> QED
      BY <2>1, <2>2
  <1> QED
    BY <1>3, <1>6, <1>8, <1>10, <1>11 DEF IndInv

\* A write that fails, applied or not: the persister ends and what it has left is still there.
LEMMA PersistErrorInd ==
    ASSUME IndInv, PersistError
    PROVE  IndInv'
  <1>1. /\ current # NoUpdate /\ running' = FALSE /\ UNCHANGED <<forest, hand, updates, current, step>>
        /\ tables' = tables \/ tables' = Written(tables, current, Steps[step])
    BY DEF PersistError
  <1>2. ForestInv'
    BY <1>1 DEF IndInv, ForestInv
  <1>3. \A v : UpdateInv(v) <=> UpdateInv(v)'
    BY <1>1 DEF UpdateInv
  <1>4. UpdatesInv'
    BY <1>1, <1>3 DEF IndInv, UpdatesInv
  <1>5. current.sh \in Shards
    BY <1>1 DEF IndInv, UpdatesInv, UpdateInv
  <1>6. \A s \in Shards : Pending(s)' = Pending(s)
    BY <1>1 DEF Pending
  <1>7. CASE tables' = tables
    <2>1. TablesType' /\ StepInv'
      BY <1>1, <1>7 DEF IndInv, TablesType, StepInv, Stored
    <2>2. RowsInv'
      BY <1>1, <1>6, <1>7, SameRows DEF IndInv
    <2> QED
      BY <1>2, <1>4, <2>1, <2>2 DEF IndInv
  <1>8. CASE tables' = Written(tables, current, Steps[step])
    <2>1. /\ TablesType'
          /\ \A s \in Shards : \A i : Stored(s, i) => Stored(s, i)'
          /\ \A s \in Shards : \A k \in DOMAIN tables'.segments[s] :
                k[2] \in 0..(forest.shard[s].count - 1)
          /\ \A s, g, i : s = current.sh /\ g = current.segment /\ i = current.index =>
                (step > 1 => <<s, g>> \in tables'.segmentNodes)
          /\ \A s \in Shards : tables'.frontiers[s] = {}
      BY <1>1, <1>8, WriteKeeps
    <2>2. StepInv'
      <3>1. step > 1 => <<current.sh, current.segment>> \in tables'.segmentNodes
        BY <2>1
      <3>2. step > 2 => \A s, i : s = current.sh /\ i = current.index => Stored(s, i)'
        BY <1>1, <1>5, <2>1 DEF IndInv, StepInv
      <3> QED
        BY <1>1, <3>1, <3>2 DEF IndInv, StepInv
    <2>3. RowsInv'
      <3> SUFFICES ASSUME NEW s \in Shards
                   PROVE  LET tree == forest.shard[s]
                              row == tables'.shardState[s]
                          IN /\ \A i \in 0..(tree.count - 1) : Stored(s, i)' \/ \E v \in Pending(s)' : v.index = i
                             /\ row.leaves \in 0..tree.count
                             /\ row.leaves > 0 => \A i : i = row.leaves - 1 => Stored(s, i)'
                             /\ row.leaves = tree.count /\ tree.count > 0 => row.root = CommitShardRoot(s, tree)
        BY <1>1, <2>1, Zenon DEF RowsInv
      <3>1. LET tree == forest.shard[s]
                row == tables'.shardState[s]
            IN /\ row.leaves \in 0..tree.count
               /\ row.leaves > 0 => \A i : i = row.leaves - 1 => Stored(s, i)'
               /\ row.leaves = tree.count /\ tree.count > 0 => row.root = CommitShardRoot(s, tree)
        BY <1>1, <1>8, WrittenRow
      <3>2. ASSUME NEW i \in 0..(forest.shard[s].count - 1)
            PROVE  Stored(s, i)' \/ \E v \in Pending(s)' : v.index = i
        <4>1. Stored(s, i) \/ \E v \in Pending(s) : v.index = i
          BY Zenon DEF IndInv, RowsInv
        <4> QED
          BY <1>6, <2>1, <4>1
      <3> QED
        BY <3>1, <3>2
    <2> QED
      BY <1>2, <1>4, <2>1, <2>2, <2>3 DEF IndInv
  <1> QED
    BY <1>1, <1>7, <1>8

-----------------------------------------------------------------------------
\* Every step keeps the inductive invariant.
LEMMA NextInd == IndInv /\ [Next]_vars => IndInv'
  <1> SUFFICES ASSUME IndInv, [Next]_vars PROVE IndInv'
    OBVIOUS
  <1>1. ASSUME NEW sh \in Shards, CloseSegment(sh) PROVE IndInv'
    BY <1>1, CloseSegmentInd
  <1>2. ASSUME NEW sh \in Shards, SendUpdate(sh) PROVE IndInv'
    BY <1>2, SendUpdateInd
  <1>3. CASE ReceiveUpdate
    BY <1>3, ReceiveUpdateInd
  <1>4. CASE PersistStep
    BY <1>4, PersistStepInd
  <1>5. CASE PersistError
    BY <1>5, PersistErrorInd
  <1>6. CASE UNCHANGED vars
    <2> USE <1>6 DEF vars
    <2>1. ForestInv' /\ TablesType' /\ StepInv'
      BY DEF IndInv, ForestInv, TablesType, StepInv, Stored
    <2>2. UpdatesInv'
      BY DEF IndInv, UpdatesInv, UpdateInv
    <2>3. \A s \in Shards : Pending(s) \subseteq Pending(s)'
      BY DEF Pending
    <2>4. RowsInv'
      BY <2>3, SameRows DEF IndInv
    <2> QED
      BY <2>1, <2>2, <2>4 DEF IndInv
  <1> QED
    BY <1>1, <1>2, <1>3, <1>4, <1>5, <1>6 DEF Next

\* The inductive invariant holds in every reachable state of the workers and the
\* persister.
THEOREM Inductive == Spec => []IndInv
  BY InitInd, NextInd, PTL DEF Spec

\* PersistSealedUpdate "writes immutable segment data before publishing the mutable ...
\* updates": a state row never claims a leaf without rows, but for one whose update was
\* overtaken and is still to be written.
THEOREM ShardStateBacked == Spec => []ShardStateIsBacked
  <1>1. IndInv => ShardStateIsBacked
    <2> SUFFICES ASSUME IndInv, NEW sh \in Shards,
                        NEW i \in 0..(tables.shardState[sh].leaves - 1), ~Stored(sh, i)
                 PROVE  /\ i < tables.shardState[sh].leaves - 1
                        /\ \E u \in Pending(sh) : u.index = i
      BY Zenon DEF ShardStateIsBacked
    <2>1. /\ forest.shard[sh].count \in Nat
          /\ tables.shardState[sh].leaves \in 0..forest.shard[sh].count
      BY DEF IndInv, ForestInv, RowsInv
    <2>2. i \in 0..(forest.shard[sh].count - 1)
      BY <2>1
    <2>3. \E u \in Pending(sh) : u.index = i
      BY <2>2, Zenon DEF IndInv, RowsInv
    <2>4. tables.shardState[sh].leaves > 0 => Stored(sh, tables.shardState[sh].leaves - 1)
      BY DEF IndInv, RowsInv
    <2> QED
      BY <2>1, <2>3, <2>4
  <1> QED
    BY <1>1, Inductive, PTL

\* When PersistUpdates has written every update, every segment has its rows, a state row
\* that claims all leaves has the root of the shard tree in memory, and the frontier
\* table is empty: ReplaceFrontiers leaves nothing to restore a shard tree from.
THEOREM DrainedRows == Spec => [](Drained => \A sh \in Shards : ShardRowsMatch(sh))
  <1>1. IndInv => (Drained => \A sh \in Shards : ShardRowsMatch(sh))
    <2> SUFFICES ASSUME IndInv, Drained, NEW sh \in Shards
                 PROVE  ShardRowsMatch(sh)
      OBVIOUS
    <2>1. Pending(sh) = {}
      BY DEF Drained, Pending, Range
    <2>2. \A i \in 0..(forest.shard[sh].count - 1) : Stored(sh, i)
      BY <2>1 DEF IndInv, RowsInv
    <2>3. {k[2] : k \in DOMAIN tables.segments[sh]} = 0..(forest.shard[sh].count - 1)
      <3>1. \A k \in DOMAIN tables.segments[sh] : k[2] \in 0..(forest.shard[sh].count - 1)
        BY DEF IndInv, RowsInv
      <3>2. \A i \in 0..(forest.shard[sh].count - 1) : \E k \in DOMAIN tables.segments[sh] : k[2] = i
        BY <2>2 DEF Stored
      <3> QED
        BY <3>1, <3>2
    <2>4. /\ tables.frontiers[sh] = {}
          /\ tables.shardState[sh].leaves = forest.shard[sh].count /\ forest.shard[sh].count > 0 =>
                tables.shardState[sh].root = CommitShardRoot(sh, forest.shard[sh])
      BY DEF IndInv, RowsInv
    <2> QED
      BY <2>3, <2>4 DEF ShardRowsMatch
  <1> QED
    BY <1>1, Inductive, PTL
=============================================================================
