--------------------------- MODULE HMFPersistence ---------------------------
(***************************************************************************)
(* From the forest in memory to the tables: the shards' workers append     *)
(* sealed segments under hmfMu and send the updates after they have        *)
(* released it; one goroutine (PersistUpdates) takes the updates from the  *)
(* channel and writes each in ten steps (PersistSealedUpdate).  A write    *)
(* that fails, applied or not, ends the goroutine.                         *)
(*                                                                         *)
(* A shard has one worker, and beside it stopped ones that have appended a *)
(* segment and not yet sent its update: StopWorker unregisters the worker  *)
(* before it has ended.  What workers do besides closing segments is in    *)
(* SegmentWorker; segment IDs are in the order of the appends here.        *)
(***************************************************************************)
EXTENDS HMFTrees

CONSTANTS MaxSegments,     \* bound: sealed segments
          MaxWorkers,      \* bound: workers of a shard at a time, stopped ones included
          UpdatesCap,      \* capacity of the updates channel
          WritesMayFail

ASSUME PersistenceAssumption == {MaxSegments, MaxWorkers, UpdatesCap} \subseteq Nat \ {0} /\ WritesMayFail \in BOOLEAN

\* No update has this index.
NoUpdate == [index |-> -1]

VARIABLES forest,    \* the trees in memory, guarded by hmfMu
          hand,      \* per shard: updates its workers have and have not sent
          updates,   \* the updates channel
          current,   \* update the persister works on, or NoUpdate
          step,      \* its next write
          tables,    \* the Cassandra tables
          running    \* PersistUpdates has not returned

vars == <<forest, hand, updates, current, step, tables, running>>

\* Mutant: the tree states are written first.
StepsStatesFirst ==
    <<"segment state", "shard state", "region state", "global state", "segment nodes",
      "segment metadata", "shard nodes", "region nodes", "global nodes", "frontiers">>

\* The writes of PersistSealedUpdate, in order; the last four are persistTreeStates.
Steps == <<"segment nodes", "segment metadata", "shard nodes", "region nodes",
           "global nodes", "frontiers", "segment state", "shard state",
           "region state", "global state">>

\* Cassandra's rule for the cells of a partition: a deletion shadows every row that is
\* not newer than itself, and between equal timestamps it wins.
NotShadowed(cells, deletedAt) == {c.row : c \in {d \in cells : d.timestamp > deletedAt}}

\* ReplaceFrontiers: the DELETE of the shard's partition and the INSERTs are one batch
\* without USING TIMESTAMP, so all of them have the batch's timestamp, whatever their
\* order in it; the rows that are there are older.
ReplaceFrontiers(rows, frontiers) ==
    LET earlier == 0
        now == 1
        cells == [row : rows, timestamp : {earlier}] \cup [row : Range(frontiers), timestamp : {now}]
    IN NotShadowed(cells, now)

\* persistTreeStates: one upsert into tree_state_by_id.
UpsertTreeState(t, u, write) ==
    CASE write = "segment state" -> [t EXCEPT !.segmentStates = @ \cup {<<u.sh, u.segment>>}]
      [] write = "shard state" ->
           [t EXCEPT !.shardState[u.sh] = [root |-> u.shardRoot, leaves |-> u.tree.count,
                                           nextSegment |-> u.segment + 1]]
      [] write = "region state" -> [t EXCEPT !.regionState[u.sh[1]] = u.regionRoot]
      [] write = "global state" -> [t EXCEPT !.globalState = u.globalRoot]

\* One write of PersistSealedUpdate, in the tables t.
Written(t, u, write) ==
    CASE write = "segment nodes" -> [t EXCEPT !.segmentNodes = @ \cup {<<u.sh, u.segment>>}]
      [] write = "segment metadata" ->
           [t EXCEPT !.segments[u.sh] = Upsert(@, {<<u.segment, u.index, u.segmentRoot>>})]
      [] write = "shard nodes" -> [t EXCEPT !.shardNodes[u.sh] = Upsert(@, u.shardNodes)]
      [] write = "region nodes" -> [t EXCEPT !.regionNodes[u.sh[1]] = Upsert(@, u.regionNodes)]
      [] write = "global nodes" -> [t EXCEPT !.globalNodes = Upsert(@, u.globalNodes)]
      [] write = "frontiers" ->
           [t EXCEPT !.frontiers[u.sh] = ReplaceFrontiers(@, u.tree.frontiers)]
      [] OTHER -> UpsertTreeState(t, u, write)

Init ==
    /\ forest = NewHMF
    /\ hand = [sh \in Shards |-> {}]
    /\ updates = <<>>
    /\ current = NoUpdate
    /\ step = 1
    /\ tables = [segmentNodes |-> {}, segmentStates |-> {},
                 segments |-> [sh \in Shards |-> <<>>],
                 shardNodes |-> [sh \in Shards |-> <<>>],
                 regionNodes |-> [r \in Regions |-> <<>>],
                 globalNodes |-> <<>>,
                 frontiers |-> [sh \in Shards |-> {}],
                 shardState |-> [sh \in Shards |->
                     [root |-> ZeroHash, leaves |-> 0, nextSegment |-> 0]],
                 regionState |-> [r \in Regions |-> ZeroHash],
                 globalState |-> ZeroHash]
    /\ running = TRUE

\* Manager.closeSegment: AppendSealedSegment under hmfMu.  Segments of one leaf.
CloseSegment(sh) ==
    LET segment == forest.shard[sh].count
        result == AppendSegment(forest, sh, segment, 1, Digests(sh, segment, 1)[1])
    IN /\ Cardinality(hand[sh]) < MaxWorkers
       /\ MapThenSumSet(LAMBDA s : forest.shard[s].count, Shards) < MaxSegments
       /\ forest' = result.forest
       /\ hand' = [hand EXCEPT ![sh] = @ \cup {result.update}]
       /\ UNCHANGED <<updates, current, step, tables, running>>

\* Mutant: an update that finds the channel full is dropped.
SendUpdateDrops(sh) ==
    /\ \E u \in hand[sh] :
          /\ updates' = IF Len(updates) < UpdatesCap THEN Append(updates, u) ELSE updates
          /\ hand' = [hand EXCEPT ![sh] = @ \ {u}]
    /\ UNCHANGED <<forest, current, step, tables, running>>

\* updates <- update, blocks while the channel is full.
SendUpdate(sh) ==
    /\ Len(updates) < UpdatesCap
    /\ \E u \in hand[sh] :
          /\ updates' = Append(updates, u)
          /\ hand' = [hand EXCEPT ![sh] = @ \ {u}]
    /\ UNCHANGED <<forest, current, step, tables, running>>

\* PersistUpdates: the next update.
ReceiveUpdate ==
    /\ running /\ current = NoUpdate /\ updates # <<>>
    /\ current' = Head(updates)
    /\ updates' = Tail(updates)
    /\ step' = 1
    /\ UNCHANGED <<forest, hand, tables, running>>

\* PersistSealedUpdate: one write.
PersistStep ==
    /\ running /\ current # NoUpdate
    /\ tables' = Written(tables, current, Steps[step])
    /\ IF step = Len(Steps)
       THEN current' = NoUpdate /\ step' = 1
       ELSE step' = step + 1 /\ UNCHANGED current
    /\ UNCHANGED <<forest, hand, updates, running>>

\* Mutant: after an error PersistUpdates goes on with the next update.
PersistErrorContinues ==
    /\ WritesMayFail
    /\ running /\ current # NoUpdate
    /\ tables' \in {tables, Written(tables, current, Steps[step])}
    /\ current' = NoUpdate /\ step' = 1
    /\ UNCHANGED <<forest, hand, updates, running>>

\* A write fails; it may have been applied.  PersistUpdates returns.
PersistError ==
    /\ WritesMayFail
    /\ running /\ current # NoUpdate
    /\ tables' \in {tables, Written(tables, current, Steps[step])}
    /\ running' = FALSE
    /\ UNCHANGED <<forest, hand, updates, current, step>>

Next ==
    \/ \E sh \in Shards : CloseSegment(sh) \/ SendUpdate(sh)
    \/ ReceiveUpdate
    \/ PersistStep
    \/ PersistError

Spec == Init /\ [][Next]_vars
-----------------------------------------------------------------------------
\* Every update has been written.
Drained ==
    /\ running
    /\ \A sh \in Shards : hand[sh] = {}
    /\ updates = <<>>
    /\ current = NoUpdate

\* Updates of a shard that are still to be written, or being written.
Pending(sh) ==
    hand[sh] \cup {u \in Range(updates) \cup {current} : u # NoUpdate /\ u.sh = sh}

\* Leaf i of the shard tree has its segment's rows.
Stored(sh, i) ==
    \E k \in DOMAIN tables.segments[sh] : k[2] = i /\ <<sh, k[1]>> \in tables.segmentNodes

\* hmf_update_writer.go:27, "writes immutable segment data before publishing the
\* mutable ... updates": whatever leaf count a shard's state row claims, the last of
\* those leaves has its segment's nodes and metadata, also when a write failed half
\* way, and so has every other one unless its update was overtaken by a later update
\* of the shard and is still to be written.
ShardStateIsBacked ==
    \A sh \in Shards :
        LET count == tables.shardState[sh].leaves
            Overtaken(i) == i < count - 1 /\ \E u \in Pending(sh) : u.index = i
        IN \A i \in 0..(count - 1) : Overtaken(i) \/ Stored(sh, i)

\* Every segment has its rows, a state row that claims all leaves has the root of the
\* tree in memory, and the append frontier has no row.
ShardRowsMatch(sh) ==
    LET tree == forest.shard[sh]
        row == tables.shardState[sh]
    IN /\ {k[2] : k \in DOMAIN tables.segments[sh]} = 0..(tree.count - 1)
       /\ row.leaves = tree.count /\ tree.count > 0 => row.root = CommitShardRoot(sh, tree)
       /\ tables.frontiers[sh] = {}

\* What the tables hold of a shard when every update has been written: every segment has
\* its rows, and the state row is of the tree in memory, whose root node is stored,
\* unless the row shows by its leaf count that the last update was overtaken by an
\* earlier one.  The frontier table has no row, although init.cql:183 says "Load these
\* rows at system start to restore the in-memory ShardTree.Frontiers cache": each
\* ReplaceFrontiers deletes the rows it inserts.
DrainedShards ==
    Drained => \A sh \in Shards :
        LET tree == forest.shard[sh]
        IN /\ ShardRowsMatch(sh)
           /\ tables.shardState[sh].leaves = tree.count /\ tree.count > 0 =>
                 tables.shardNodes[sh][<<tree.height, 0>>] = tree.root

(* The inductive invariant of HMFPersistenceProofs, in parts *)

ForestInv ==
    /\ DOMAIN forest.shard = Shards
    /\ \A sh \in Shards : forest.shard[sh].count \in Nat

TablesType ==
    /\ DOMAIN tables = {"segmentNodes", "segmentStates", "segments", "shardNodes", "regionNodes",
                        "globalNodes", "frontiers", "shardState", "regionState", "globalState"}
    /\ DOMAIN tables.segments = Shards
    /\ DOMAIN tables.frontiers = Shards
    /\ DOMAIN tables.shardState = Shards

\* An update is of one append to its shard tree: the last one, or one the shard tree
\* has moved on from.
UpdateInv(u) ==
    /\ u.sh \in Shards
    /\ u.segment = u.index
    /\ u.index \in 0..(forest.shard[u.sh].count - 1)
    /\ u.tree.count = u.index + 1
    /\ u.shardRoot = CommitShardRoot(u.sh, u.tree)
    /\ u.tree.count = forest.shard[u.sh].count => u.tree = forest.shard[u.sh]

UpdatesInv ==
    /\ DOMAIN hand = Shards
    /\ updates \in Seq(Range(updates))
    /\ \A sh \in Shards : \A u \in hand[sh] : u.sh = sh /\ UpdateInv(u)
    /\ \A u \in Range(updates) : UpdateInv(u)
    /\ current # NoUpdate => UpdateInv(current)

\* What the persister has written of the update that it works on.
StepInv ==
    /\ step \in 1..Len(Steps)
    /\ current # NoUpdate =>
          /\ step > 1 => <<current.sh, current.segment>> \in tables.segmentNodes
          /\ step > 2 => Stored(current.sh, current.index)

\* Leaves are stored or on their way; state rows are backed and of one tree; no frontier
\* row outlives the batch that inserts it.
RowsInv ==
    \A sh \in Shards :
        LET tree == forest.shard[sh]
            row == tables.shardState[sh]
        IN /\ \A k \in DOMAIN tables.segments[sh] : k[2] \in 0..(tree.count - 1)
           /\ \A i \in 0..(tree.count - 1) : Stored(sh, i) \/ \E u \in Pending(sh) : u.index = i
           /\ row.leaves \in 0..tree.count
           /\ row.leaves > 0 => Stored(sh, row.leaves - 1)
           /\ row.leaves = tree.count /\ tree.count > 0 => row.root = CommitShardRoot(sh, tree)
           /\ tables.frontiers[sh] = {}

IndInv == ForestInv /\ TablesType /\ UpdatesInv /\ StepInv /\ RowsInv

\* hmf_update_writer.go:81, "Run it in one goroutine so updates stay ordered":
\* when every update has been written, the stored region and global roots are the
\* roots of the forest in memory.
DrainedMatchesForest ==
    Drained /\ (\E sh \in Shards : forest.shard[sh].count > 0) =>
        /\ tables.globalState = CommitGlobalRoot(forest.global)
        /\ \A sh \in Shards : forest.shard[sh].count > 0 =>
               tables.regionState[sh[1]] = CommitRegionRoot(sh[1], forest.region[sh[1]])

-----------------------------------------------------------------------------
\* Workers and the persister are scheduled; workers need not seal anything.
Fairness ==
    /\ \A sh \in Shards : WF_vars(SendUpdate(sh))
    /\ WF_vars(ReceiveUpdate)
    /\ WF_vars(PersistStep)

FairSpec == Spec /\ Fairness

\* Every segment that entered the forest reaches the tables, although its worker
\* may find the channel full or may have been stopped and other workers may take the
\* free slot, unless a failed write ends the persister.
SealedIsPersisted ==
    \A sh \in Shards : \A n \in 1..MaxSegments :
        forest.shard[sh].count >= n ~> <<sh, n - 1>> \in tables.segmentStates \/ ~running
=============================================================================
