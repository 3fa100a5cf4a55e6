# HMF-Audit in TLA+

A verification development for the audit log store in this repository:
TLA+ modules of its stateful parts, TLC runs on small instances, and TLAPS proofs
about the checkpoint service, the segment workers, the forest and its persistence, the
proof verifier and the audit service for every instance. `PROJECT.json` lists the runs, the
source lines behind every definition, the mutants that show each property can
fail, the hazards and the theorems.

## 1. The system

Logs are canonicalized (encrypted, hashed) outside of the core and submitted to
the **manager** (`internal/hm`). One **segment worker** goroutine per shard
appends them to the shard's active segment and hands each log's position to the
**authenticated log locator** (ALL, `internal/all`). A segment that is full, too
old, or whose worker is stopped is sealed into the **hierarchical Merkle forest**
(`internal/hmf`): segment -> shard -> region -> global root. Updates of the
forest and of ALL go through channels to two persister goroutines that write them
to **Cassandra** (`internal/storage/cassandra`). The **checkpoint service**
(`internal/checkpoint`) binds a pair of roots (R_L, R_G) to a sequence number,
anchors the commitment and publishes it. The **audit service**
(`internal/services`) pins the current checkpoint, reads pages and nodes, and
builds and verifies proofs (`internal/hpp`) or **localizes** tampered nodes
(`internal/localization`).

| component | state | operations | hard behaviour | what makes it correct |
|---|---|---|---|---|
| checkpoint service and store | service lock, history rows, finality pointer, anchor receipts | Finalize (8 steps, 3 recovery paths), Current | crash or failed step anywhere, writes that land after their timeout, readers between two writes | pointer always names an equal finalized row; published checkpoints immutable, one per sequence; anchored before published; interrupted work is finished |
| manager and segment workers | workers map, segment registry, ID counter, per-worker loop state | SubmitLog, StopWorker, open/append/seal, timer | stop and restart overlap, full channels, cancelled callers, timer on an empty segment | an acknowledged log is one leaf at the position given to ALL; no leaf outside the forest; workers end, callers are answered |
| forest | four kinds of tree | AppendSealedSegment | odd counts, powers of two, nodes never persisted | equals the trees defined over all leaves; persisted nodes suffice for proofs |
| HMF persistence | channel, ten tables | PersistUpdates | two workers, one channel, a write that fails | state rows are backed by nodes; tables equal memory when drained |
| ALL | Merkle B+ tree, request and update channels | Submit, Run, Stop, range queries with proofs | splits, pages that alias the live tree, blocking send | range results complete and authentic |
| ALL persistence | page table, tree state | PersistUpdates | pages written one by one while the tree changes | stored pages hash to the stored root |
| proof planner and verifier | none | Plan, BuildProof, verify | odd trees, bucket borders | a proof is accepted iff it is genuine in every tree it has a plan for; a planned proof has all of them |
| localization | none | Localize | pruning | every suspect is tampered, every tampered leaf is under a suspect |
| proof node reader | none | LoadHierarchyMetadata, FetchProofNodes | one query after the other over tables that change | never a proof of a tree that was not committed |
| audit service, HTTP handlers | the pinned checkpoint of a request | LocalizeTamper, ResolveLocator, BuildHMFProof | reads race with finalization and persistence | an answer belongs to the checkpoint it names; with quiet tables there is an answer |

Interaction: SubmitLog -> worker requests channel -> segment tree, ALL.Submit;
closeSegment -> forest under `hmfMu`; worker -> updates channel -> persister;
StateSource.Snapshot -> checkpoint; readers and auditors -> store. Shared state
is guarded by `stateMu`, `workerMu`, `hmfMu` and the service lock; what is *not*
under one lock (ID and registration, append to the forest and send of the update,
the reads of an audit) is where the hazards are.

## 2. Modules

| module | models |
|---|---|
| `CheckpointLedger` | what the checkpoint service promises: an append-only ledger |
| `Checkpoint` | service, store, anchor, readers, failures, crashes, late writes |
| `CheckpointProofs` | the theorems about `Checkpoint` |
| `ShardLog` | what ingestion promises for a shard: an append-only list of segments |
| `SegmentWorker` | SubmitLog, StopWorker, workers of one shard, updates channel |
| `SegmentWorkerProofs` | the theorems about `SegmentWorker` |
| `HMFTrees` | the tree algorithms, as operators on terms |
| `Merkle` | the reference definition of the trees, over all leaves at once |
| `MerkleProofs` | lemmas: the four kinds of tree, path updates, the append frontier, against `Merkle` |
| `HMF` | a forest that takes sealed segments |
| `HMFProofs` | the theorems about `HMF`, and about proofs over the forests it builds (`ForestAudit`) |
| `HMFPersistence` | workers of several shards, the updates channel, the persister, the tables |
| `HMFPersistenceProofs` | the theorems about `HMFPersistence` |
| `HPP` | planner, proof, partitions, verifier and trace, as operators over `HMFTrees` |
| `HPPProofs` | which proofs the verifier accepts, and which `BuildProof` builds |
| `Localization` | the search for tampered nodes, the reference proof and the replay, as operators over `HPP` |
| `LocalizationProofs` | what the search finds in a tree, and what `analyze` blames in a proof |
| `ForestAudit` | proofs and localization for every forest `HMF` builds (`HMF` + `Localization`) |
| `Audit` | requests of an auditor beside writers and checkpoints (`HMFPersistence` + `Localization`) |
| `AuditProofs` | the theorems about `Audit` |
| `LocatorTree` | ALL's Merkle B+ tree and the stored form of its pages, as operators |
| `LocatorRange` | range queries over stored pages, their proofs and the verifier, as operators |
| `LocatorLookup` | inserts that are persisted one by one, and queries |
| `Locator` | the ALL worker, its persister, a query and restarts, interleaved |
| `MC...` | instances for TLC |

### Checkpoint

State: the service lock and the callers blocked in `acquire`; `pc`, `work` and
`seen`, the locals of the one Finalize call that holds the lock; `rows`
(`checkpoint_roots`) and `finality` (`finality_state`), cells of a timestamp and
a checkpoint; `lateRows`, `latePtrs`, upserts that timed out and may still land;
the anchor (`receipts`, `block`); what Finalize has returned; the readers.

One action per step of `Service.Finalize`: `ReadLatest`, `ReadPointer`,
`ReadCurrent` (the two queries of `CurrentFinalized` and the comparison with the
latest row), `Snapshot`, `SavePending`, `AnchorCommit`, `UpsertCheckpoint` and
`UpsertFinalityState` (the two writes of `PublishFinalized`). Each may fail with
no effect (`FinalizeError`, which also stands for every rejected check), a write
or the anchor may be applied and the answer lost, a write may be on its way
(`WriteDelayed`, then `LandRow`, `LandPointer` or `LoseWrite`), and the process
may die (`Crash`). A reader's two queries are two actions.

Taken as given: hashes do not collide, so a commitment is the pair
<<sequence, snapshot>>; one process finalizes (the lock is a Go channel); client
timestamps increase and every upsert writes its whole row, so Cassandra keeps the
write with the larger timestamp; reads see applied writes (quorum); the anchor is
a durable service that is idempotent per commitment, as the `Anchor` interface
says and `MockAnchor` does in memory.

### SegmentWorker

One shard. The registry entry, the worker entry and the ID counter are shared by
a stopped worker and its successor, which `getOrStartWorker` may start as soon as
`StopWorker` has unregistered the first. Every critical section and every channel
operation is an action; `pc[w]` is the place in `runSegmentWorker`, and `cause[w]`
which case of its select (request, timer, stop) the close belongs to. `Return`,
`Canceled` and `WorkerStopped` are the exits of SubmitLog's two selects; a select
with several ready cases is a free choice. ALL is seen through `Submit`: it takes
the position or, once it has stopped, may refuse it. Left out: event times and
wall-clock metadata, submissions rejected before they reach a worker, and an ALL
queue that is full (ALL.Submit would block the worker).

### HMFTrees, HMF, HMFPersistence

Hashes are terms (`HashPair(l, r)` is the pair), so equal roots mean equal trees.
`AppendSegment` is AppendSealedSegment: the shard frontier is merged, the root
path materialised, the region and global paths recomputed, and the changed nodes
and their siblings returned as the update. `HMF` compares all of it with `MerkleRoot`
and `RefNodes` of `Merkle`, which know nothing of frontiers and paths: the root over n
leaves splits them at the largest power of two below n. Loops over the levels of a tree
are recursive functions on the level, here and in `HPP`, so that their values can be
reasoned about by induction over the naturals; those of `Localization` are folds.

`HMFPersistence` puts the workers, the channel and the persister around the forest.
A shard has one registered worker, but StopWorker unregisters a worker before it has
ended, so `hand[sh]` may hold the updates of stopped workers as well, and they leave in
any order (`MaxWorkers` bounds them). `Steps` are the ten writes of PersistSealedUpdate in their order, each
an action; a write that fails may have been applied, and ends PersistUpdates.
`ReplaceFrontiers` deletes a partition and inserts rows in one batch: its statements have
no order but one timestamp, and Cassandra lets a deletion shadow what is written at its own
timestamp (`NotShadowed`), so no row is left, whatever the frontier. A
batch of nodes is one write: it is one partition until a tree has more than 2^15
nodes in a level. Segments have one leaf here, their nodes are written once.

### HPP, Localization, ForestAudit

An address is <<region, shard, segment, leaf>>, a tree reference
<<layer, region, shard, segment>>. What the code keeps deduplicated and in canonical
order (addresses, tree plans, targets, requests) is a set; a proof's leaves and nodes
are sets of pairs, so that one reference may come with two hashes and the verifier's
duplicate checks have something to refuse. A *store* is a record of what queries see:
leaf counts, leaf indexes, sealed segments, nodes. An operation that can fail gives a
set of results, empty for an error. A map is a set of pairs while it is built (`Value`,
`AsFunction`), because that is what the provers can follow through a loop.

`Plan` is Planner.Plan with planTree's level-by-level siblings; `BuildRequests` adds
the partition of every node by `ShardBucketID`, and `Found` looks for a node in the
partition `HmfBucketID` of the writer gives. `TraceHMFProof` is evaluateHMFProof: its
checks, then the layers from segments to the global root. `Analyze` is the comparison
of two traces from the roots down in rounds of `JumpLevels`; with the default of 63 a
round goes straight to the leaves, and the run uses that value.

`ForestAudit` checks them over the rows and nodes that the updates of a forest have
written. Altered proofs: one or two hashes replaced or exchanged, another leaf count,
a tree moved or two exchanged, a part left out or doubled, and a whole branch left out,
with its plan, links and nodes, and any digests for its addresses (`LeftOut`).
`OnlyPlansAreVerified` says which of them the verifier accepts: exactly those that are the
genuine proof of the addresses whose segment has a plan (`GenuineWherePlanned`).

### Audit

HMFPersistence goes on underneath (`WriterStep`): workers seal, the persister writes
its ten steps, writes fail. Checkpoints are as `CheckpointLedger` promises
(`TakeSnapshot` binds the working root of the forest, `Publish` makes it current), so
the composition rests on the proved refinement and not on the steps of Finalize. ALL is
seen through `QueriesAreExact`: a range query that answers gives the positions of the
logs. The `StateSource` of the snapshot is an interface without an implementation in
the repository.

One auditor asks for positions (`LocatorProof`), for a proof of some of them
(`HmfProof`) and, with a hash changed, for the place of the difference
(`LocalizeProof`); requests only read, so two auditors would not affect each other. A
request pins the checkpoint and then does one query per step: the segments of one
shard, the tree states, the nodes of one partition. The tree states are one query
because the rows of region and global trees say the same about the shape from their
first write on, and the requested shard states are what can change. Errors end in the
status the handler gives: 400 (refused by the handler), 503 (no checkpoint), 409
(another checkpoint), 422 (nothing to localize), 500 (a failed query, a missing row or
node, a root that does not match; a query that runs out of time, 504 in the code, is
not told apart). `luck` is a ghost: whether anything came in the way of the request.

### LocatorTree, LocatorRange, LocatorLookup, Locator

A tree is its pages by page ID; `Insert` is InsertWithUpdate with the splits, the
parent links and the path hashes in the order of the code, and `changed` are the
pages of the update. Keys are numbers (the code compares six fields in turn), a
value goes with its key everywhere and is left out, hashes are terms. A stored
page (`MarshalPage`) has its children's IDs and hashes; `Readable` is the check of
UnmarshalStoredPage. `ResolveRange` is ResolveRangeWithReader: two searches from
the root, the scan along the leaf chain, the neighbours, the proof and its
verification; an error is the empty set.

`LocatorLookup` inserts and persists in one step, so that TLC reaches trees with
several internal pages. It also inserts a key again, as happens when a caller that
was told of an error submits its log again.

`Locator` has the concurrency. The worker takes a request, inserts, and sends the
update (it watches nothing else while it waits for a slot). The persister marshals
the pages one after the other, writes them in one batch per bucket, in any order,
and then the tree state; a write that fails may have been applied and ends
PersistUpdates, as cancellation does. The pages of an update are shallow copies:
hash, parent and next are values of the insert, but the slices and the children
are those of the live tree. `MarshalCopy` reads the children's hashes at that
moment, and when the live page has changed since, the entries may be torn: an
insert into spare capacity shifts the array that the copy shares. A torn page is a
page whose contents do not give its hash; which contents is left open. A query
pins the stored state and reads page by page into its cache, following children
and next links. A restart gives ALL an empty tree over the old tables, since
NewALL is the only constructor and nothing loads pages back.

## 3. Runs

| run | instance | shows |
|---|---|---|
| `checkpoint_delay` | 1 caller, 1 reader, 2 snapshots, 2 sequence numbers, 7 writes, 2 late | `PointerMatchesHistory`, `ReturnedIsDurable`, `AnchoredBeforeFinalized`, `ReaderNeverConflicts`, `ReaderMonotone`, the ledger refinement, and the inductive invariant |
| `checkpoint_liveness` | 2 callers, 2 snapshots, 8 writes, none late | `OneCommitmentPerSequence`; `StartedIsPublished` |
| `segment_restart` | 2 logs, 2 workers, segments of 1, channels of 1, ALL and persister may stop | `AckedIsLocated`, `OwnSegment`, `NothingStranded`, the refinement of `ShardLog` |
| `segment_liveness` | 2 logs, 2 workers, segments of 2, channels of 1 | `StopCompletes`, `SubmitReturns`; the inductive invariant of the proofs, with segments of several leaves |
| `segment_age` | 2 logs, 1 worker | **violated**: a segment with leaves may never be sealed by age |
| `hmf` | 3 regions of 2 shards, 5 segments of 1 or 3 leaves in every distribution; proofs for 1 or 2 addresses in forests of up to 3 segments and 6 leaves, buckets of 2 leaves | `MatchesReference`, `FrontierIsBinary`, `ProofNodesStored`; `ProofsVerify`, `OnlyPlansAreVerified`; `LocalizesExactly`, `LocalizesShapes`, `AlteredStoreNeverMisleads` |
| `persistence` | 2 shards, 4 segments, 2 workers per shard, channel of 1, writes fail | `ShardStateIsBacked`, `DrainedShards`, `SealedIsPersisted` |
| `persistence_order` | 2 shards of 1 segment | **violated**: with everything written, the stored region and global roots are not those of the forest |
| `audit` | 1 region of 2 shards, 2 segments, 2 workers per shard, 2 checkpoints, requests of up to 2 addresses, writes and queries fail | `ProofsBelongToCheckpoint`, `AnswersAreCurrent`, `QuietAuditSucceeds`, `LocalizationSurvivesProgress` |
| `locator_lookup` | order 3, up to 7 inserts of 7 keys, each key at most twice, all ranges | `StoredIsTree`, `EveryRangeResolves`, `RangesAreExact`, `VerifierIsSound` |
| `locator` | order 3, 4 keys in every order, channels of 1, 2 pages per bucket, 1 restart | `QueriesAreExact`, `DrainedIsReadable`, `StopCompletes` |
| `locator_published` | order 3, 3 keys | **violated**: a published root whose pages cannot be read |

Why the bounds are enough. *Checkpoint*: a checkpoint takes three writes (two
timestamps after recovery), so 7 to 8 timestamps allow a first checkpoint, an
interrupted attempt with two late upserts and a second checkpoint; two snapshots
tell two attempts at one number apart; the second sequence number is the maximum,
so the overflow guard is reached. The proofs remove these bounds. *SegmentWorker*:
two workers are a stopped one and its successor, channels of capacity one are full
after one send, a segment of one leaf is full for the second log, four IDs let
every log, the timer and an open that fails have one. *HMF*: up to five segments in
one shard pass counts 1 to 5 (every merge up to level two and promotion over two
levels), three regions are an odd level, two shards an even one, three leaves an odd
segment. *ForestAudit*: `BucketLevel` is 1 instead of 15, so that three segments of a
shard lie in two buckets below the border and the third level is above it; two
addresses lie in one segment, in two segments of a shard, in two shards of a region or
in two regions (`TwoRegions`); three segments in a shard are an odd
tree, and six leaves (`MaxLeaves`) leave room for two segments of three. *Audit*: two
sealed segments are one before and one after the first checkpoint, in the same shard
(whose count, nodes and buckets change under the reader) or in its sibling (whose root
is a proof node); two checkpoints let one be published during a request. The states
reached include a localization answered after the tables have moved on, a proof refused
because its rows and nodes were read from both sides of an update, and a proof of the
second checkpoint. *HMFPersistence*: two workers are the smallest number that
can overtake each other, within a shard and between shards; four segments let one
update be overtaken by two later ones of its shard while the other shard competes for
the slot. *Locator*: with order 3, the smallest that NewALL takes,
a leaf splits at the third key, the root page at the fifth and an internal page
below the root at the seventh (order 4 was checked as well); four keys give a query
that starts on a tree of two leaves and meets pages of a later split, and an update
that is marshalled after the next two inserts.

Deadlock is checked for `Checkpoint`. The other instances stop when every log is
submitted or every segment sealed, hence `CHECK_DEADLOCK FALSE`.

### Fairness

* `Checkpoint`: callers go on calling; each step of Finalize has strong fairness.
  The repository retries Finalize from outside, and an operation that is tried
  again and again (a query, an upsert, the anchor) succeeds at some point; without
  that no retry could ever finish anything. `StartedIsPublished` also stops at
  `clock = MaxClock`, the bound on timestamps.
* `SegmentWorker`: weak fairness of goroutines that are ready, of a timer that is
  armed, and of the persister (`Faults = {}` in that run). Nobody has to submit,
  stop or cancel. Weak fairness of a worker's whole loop is what Go gives: a select
  with several ready cases picks one at random, and with finitely many logs no
  other case is ready for ever.
* `HMFPersistence`: weak fairness of the sends and of the persister.
* `Locator`: weak fairness of the send, of the persister and of noticing the stop.
  The worker need not take any request: a select may prefer the stop channel, and
  with finitely many entries it does so in the end.

### Findings

* `segment_age` (code): a timer close always opens an empty segment with a new
  timer. If that fires before a log arrives, sealing the empty tree fails and the
  loop goes on with a timer that has fired and is not armed again. Logs that come
  later stay in the active segment until it is full or the worker stops, although
  `init.cql` describes a maximum active interval.
* `persistence_order`: `hmfMu` is released before the update is sent. Two shards'
  updates can be sent, and written, in the other order; the last one written has
  the older region and global roots, and nothing corrects them until the next
  update.
* `locator_published` (code): ALL inserts the next entry while the previous update
  is still in the channel; the persister marshals pages whose slices have been
  shifted, or a parent with its child's later hash, beside the hash of the earlier
  insert. UnmarshalStoredPage refuses such a page, so the published root cannot be
  queried until a later update has rewritten the page. `QueriesAreExact` shows that
  queries fail and never return a wrong answer, `DrainedIsReadable` that the last
  update repairs the tables.
* The frontier table is always empty (code; run `persistence`). `shard_repo.go:63` says
  that ReplaceFrontiers replaces the rows of a shard by a snapshot, and `init.cql:183` that
  they are loaded at system start; but the deletion and the insertions are one batch of one
  timestamp, and the deletion wins. `DrainedShards` states that no row is there once
  everything is written, beside what the other tables hold. Nothing loads the rows yet.
* The verifier does not ask for a plan of every requested segment (code; run `hmf`).
  `verifier.go:71` groups the requested hashes by segment, but lines 125 to 132 only look at
  those of trees that have a plan. A proof for two logs in two segments that has the plan,
  links and nodes of one of them is accepted with any digest for the other log.
  `OnlyPlansAreVerified` states exactly what is accepted, and `AcceptedProofs` proves it of
  every proof. Proofs that the planner made have every segment, so what the audit service
  returns carries the sealed digests (`ProofsBelongToCheckpoint`).

The last two name runs that pass: the property says what the code does, which is not what
the lines quoted in `PROJECT.json` say.

Seen while modelling, without a run of their own: a worker that has its segment ID
and is stopped before it registers the segment is overtaken by its successor, so the
segments of a shard may be sealed in another order than that of their IDs
(`init.cql:147` speaks of a monotonic ID; the leaf index that proofs use comes from the
forest and is not affected); the same overtaking between a stopped worker and its
successor for updates of one shard, after which the shard's state row is
that of an earlier tree until its next update (`DrainedShards` shows that the leaf count
tells, `ShardStateIsBacked` that in the meantime only
leaves of overtaken updates are missing); `StartedAt`/`EndedAt`
are the times of the first and last leaf, not the extremes `init.cql:150`
describes; a worker stopped with an empty active segment leaves the registry entry
behind, and the shard takes no more logs (`NothingStranded` shows that none is
lost); `OneCommitmentPerSequence` fails when two timed-out upserts of the pending
row are in flight, while what is *published* stays unique (`LedgerSpec`); a log
whose key is inserted into ALL twice makes every range around it unresolvable (the
verifier wants strictly ascending keys); after a restart of ALL the entries of the
old tree are no longer found, because NewALL numbers the pages of an empty tree from 0
again and no code restores a tree from the stored `next_page_id`, which according to
`init.cql:79` keeps page IDs stable across restarts.

About audits: nodes have no versions, so once segments sealed after a checkpoint are
written, proofs for it end in a 500 until the next checkpoint; they are refused, never
wrong (`ProofsBelongToCheckpoint`), and a proof obtained earlier can still be localized
when only digests of logs differ (`LocalizationSurvivesProgress`). Updates that
overtake each other (`persistence_order`) may leave older sibling nodes behind; audits
of shards beside them fail until those shards are updated again, which is why
`TablesHold` compares the nodes and not only the drained channel. A localize request,
which contains the failed proof, is limited to 1 MiB by `maxRequestBytes`; the answer
that the proof came in is not limited. R_L may locate logs of segments that are not
sealed yet and that R_G therefore does not cover; the model's snapshots only have
sealed ones.

## 4. Proofs

`CheckpointProofs` proves, for any sets of callers, readers and snapshots and any
bounds (`ConstantsAssumption`: the bounds are naturals, `MaxSequence` is positive,
`None` is neither a caller nor a snapshot, the snapshots are finite), that `Spec` keeps `TypeOK`,
`PointerMatchesHistory`, `ReturnedIsDurable`, `AnchoredBeforeFinalized` and
`ReaderNeverConflicts`, satisfies `ReaderMonotone`, and implements
`CheckpointLedger`.

None of these is inductive. The argument is `IndInv`, six named parts:

* `RowsInv`: timestamps are in the past, and no row, applied or late, is more than
  one sequence number beyond the pointer;
* `PtrsInv`: every pointer, applied or late, names a row that is `Fixed`
  (finalized, and any late upsert of it is older or says the same) with the same
  content; pointers were issued in the order of their sequence numbers;
* `HolderInv`: what the lock holder has read still justifies what it will write:
  before a publication no pointer is ahead of its checkpoint and one at the same
  number is equal; before a snapshot the pointer has caught up with the history;
* `ResultsInv`: whatever a caller or reader was given is published;
* `AnchorInv`: finalized rows and the checkpoint about to be published carry the
  anchor's receipt;
* `TypeOK`.

`Fixed` is the heart: a late upsert is harmless because the row was rewritten with
a later timestamp before the pointer was. This is why recovery must write the row
again and not only the pointer (the mutant `ReadPointerRecoversPointerOnly`).
`InitInd` and one lemma per action give `Inductive`; the other theorems follow
from it. `Refinement` shows that `UpsertFinalityState` and the landing of a late
pointer are `Publish` steps or stutters, and every other step is a stutter.

`OneCommitment` has the hypothesis `MaxInflight = 0` (a failed write was applied or is
lost), without which it is false. It adds `CommitInv`: an anchored commitment has its
row in the history, and a sequence number gets a snapshot only while it has no row and
no later one has. What makes it inductive is that the latest row the lock holder has
read stays the latest while it holds the lock.

### SegmentWorkerProofs

For any sets of logs and workers, any segment size, channel capacities, number of
segment IDs, and any of the faults (`ConstantsAssumption`): `TypeOK`, `OwnSegment`,
`NothingStranded`, `AckedIsLocated`, and `Spec => ShardLogSpec`. The inductive invariant
has two halves.

* `SegmentsInv`, about workers and segments: a worker's variables fit its place in the
  loop (`WorkerInv`); the registry entry belongs to the one worker that put it there,
  until that worker takes it out (`RegistryInv`); an ID that is not opened yet has no
  segment (`FreshIDs`); sealed trees are not empty, take no more leaves and are in the
  shard tree once (`SealedInv`); whether a worker's segment is sealed and appended
  follows from its place (`ActiveInv`); `NothingStranded`.
* `RequestsInv`, about logs: a log that was not sent is no leaf (`SubmissionsInv`), a
  request is once in one queue or in the hands of one worker (`QueuesInv`,
  `ServedInv`), the log about to be propagated is the last leaf (`PropagateInv`), a log
  is a leaf once (`UniqueLeaves`), an answer "ok" means that ALL has the position
  (`AnswersInv`).

`RegistryInv` carries the argument: closeSegment and getActiveSegment go through the
shared registry entry, and it is right only because a successor cannot register a
segment while its predecessor holds the entry ("already active"), and because the
predecessor touches the entry no more once it has unregistered. `AckedIsLocated` needs
the other half: nothing is appended between the leafID and the append, and later
appends do not move a leaf. For the refinement, `AppendSealedSegment` under `hmfMu` is the
append of one segment, and every other step leaves the segments of the shard tree alone,
because appends go to trees that are not sealed.

### HMFPersistenceProofs

For any number of regions, shards, workers and segments, any channel capacity, with and
without failing writes (`SizesAssumption`, `PersistenceAssumption`): `ShardStateIsBacked`,
and, once everything is written, `ShardRowsMatch` for every shard, the part of
`DrainedShards` that is not about stored nodes (`DrainedRows`). Of the forest it is used that
an append replaces one shard tree by one with a leaf more, and that the update carries
that tree and its commitment. `IndInv`: an update is of one append, and of the tree in
memory if it is the last (`UpdatesInv`); what the persister has written of its update
follows from `step` (`StepInv`); every leaf is stored or on its way, the last leaf of a
state row is stored, a state row that claims all leaves has the root of the tree in
memory, and the frontier table is empty (`RowsInv`; by `ReplacedFrontiers` the sixth write
keeps it so). The order of `Steps` enters in one place: segment nodes and metadata come
before the state row.

### MerkleProofs, HMFProofs

For any numbers of regions and shards, any segment sizes and any number of segments
(`SizesAssumption`, `BoundsAssumption`): `MatchesReference` (`ForestMatchesReference`),
`FrontierIsBinary` (`FrontiersAreBinary`) and `ProofNodesStored`
(`UpdatesCarryProofNodes`). These are facts about loops over unbounded data, so they need
induction. The induction principle used is `NatInduct` of `MerkleProofs`, which speaks of
sets of naturals instead of predicates and is derived from the well-ordering of subsets of
Nat; each use defines the set of numbers for which its claim holds.

`IndInv` has three parts, and `ForestLeaves` gives each shard's leaves from its sealed segments:

* `SegmentsSealed`: a sealed segment's nodes are those of the reference tree over its
  digests, so its leaf count can be read off them;
* `ForestOver(forest, ForestLeaves)`: each shard's frontier is one complete subtree per bit of
  the leaf count, largest first, with the reference roots, and root and height are the
  reference ones; the region and global levels are those of a tree built from scratch over
  the commitments below;
* `TablesHold`: the tables hold the whole tree of a shard and the current path and siblings
  of every shard that has a segment.

The first two say what the code computes from: an append reads nothing but frontiers and
levels, so `MatchesReference` alone would not be inductive (it does not mention frontiers,
and says nothing of the levels' leaves that are replaced). `ShardAppendIs` shows that merging
the frontier and materialising the root path of it give the frontier and the root over
one leaf more; `ShardTableIs`, that the merged and materialised nodes are exactly those in
which the two reference trees differ; `UpdateShardRootIs`, that the recomputed path makes the
levels those of a rebuilt tree and reports each changed node and its sibling. For the last
part, a node that a later update of another shard changes is on that shard's path, and is
reported by that update; this is where the siblings are needed.

From the same invariant follow `ProofsVerify` (`StoredProofsVerify`) and
`OnlyPlansAreVerified` (`AlteredProofs`) of `ForestAudit`, for any `MaxAddresses`; the bound
`Audited` on the forests in which TLC evaluates them is not used. `StoreIs` says that the rows are those of
the trees that have a segment, with their sizes and places; `StoreServes`, by `TablesHold`,
that every node that a plan asks for is stored with its current hash. `GenuineProof` then has
`BuildProof` return one proof, which verifies.

`AlteredProofs` is a case of `AcceptedProofs`, which is about every proof there can be
(`OnlyGenuinePlansPass`: any plan, any links, leaves and nodes, any set of requested
addresses): it is accepted if and only if it is genuine wherever it has a plan. The argument
is in two steps. An address whose segment has no plan plays no part in the verification but
that it must have one digest, so the proof verifies exactly when its `PlannedPart` does, for
the planned addresses (`PlannedPartVerifies`). In that part every address has its segment,
and the links lead from there to the global tree, so the checks leave it no other trees than
the planner's (`WellFormedTrees`) and no other plan than one that `Planner.Plan` makes from some
metadata (`WellFormedIsPlanned`); if it is accepted, its counts, places and hashes are those
of the forest (`VerifierIsExact`), and it is the proof that `BuildProof` gives
(`AcceptedWherePlanned`). Nothing in it says that an address has a plan, and the code does
not check it.

`LocalizesExactly` (`ChangedHashesAreLocalized`) and `AlteredStoreNeverMisleads`
(`AlteredStoresNeverMislead`) follow in the same way. Whatever store a reference comes from, it
verifies and has a plan that `planTree` made, so it is the genuine proof (`AcceptedIsGenuine`
again); what is left is a statement about two proofs of one plan, which is the subject of
`LocalizationProofs`. Neither theorem uses how many hashes were changed.

`LocalizesShapes` (`ChangedShapesAreLocalized`) is about a failed proof whose plan was made
from other leaf counts or places, so the two proofs have different plans and their traces
different nodes. Changed metadata that agree with the store in every row that a plan shows
are no change (`ChangedMetadataIs`), so such a proof differs from the genuine one in its plan
(`ShapeIsOther`) and is not accepted; the reference is the genuine proof as before. That a blamed
node is not the stored one needs one more fact: the genuine trace has at each of its nodes
what the store has there, if anything (`TraceIsStored`). A segment's nodes are all
stored; of an upper tree the current path and its siblings are, by `TablesHold`.

### HPPProofs

For any leaf counts and any proof, well formed or not (nothing is assumed about who built
it): `planTree`'s siblings and the nodes on the way are closed under children and disjoint
(`RequiredCovers`, `WayNotRequired`); the loop of `reconstructTreeTrace` gives every node on
the way the hash of its children (`ReconstructIs`); and a trace whose root is that of a tree of
the same leaf count agrees with that tree at every node it has (`TraceIsTree`), going
from the root down, because equal pairs have equal parts. A commitment contains leaf count
and raw root, so the argument goes on from tree to tree, from the global tree (`GlobalGood`)
to the ones below it (`BelowGood`) and the leaves (`LeafGood`): `AllGood`.
`VerifiedLeaves` puts them together: if a proof is accepted
against the global root of a forest over given leaves, then every requested leaf whose
segment tree is one of the proof's trees exists there, with the digest in the proof. Hashes
are terms, so this is the statement that two different forests never have one root, up to
collisions of the hash function. The hypothesis about the segment tree is not checked by
the verifier. It is met by every proof that `Planner.Plan` has planned, and the lemma is used
for those only (`DigestsInv` of `AuditProofs`) or for the planned part of a proof.

`VerifierIsExact` adds the converse: a well-formed proof is accepted if and only if it is of
the forest (`OfForest`): each of its trees is there with that leaf count and in that place, and
the hashes it brings for those trees are the forest's, digests without a segment tree excepted. So
the verifier rejects nothing genuine. Both are lemmas; what they come to for a proof as a
whole is `AcceptedProofs` of `HMFProofs`. The last part
is about `BuildProof`: where the store has the rows and nodes (`Serves`), the planner's checks
pass (`ServedPlan`), `BuildProof` returns exactly one proof (`BuildIs`), it is well formed and
of the forest (`BuiltIsWellFormed`, `BuiltIsOfForest`), and any other proof with a plan made by
`planTree` that is of the forest is equal to it (`OfForestIsBuilt`).

### LocalizationProofs

For trees of any height, any `JumpLevels` and any set of changed hashes. In one tree
(`SearchFinds`): if two traces are `Comparable` - each node that both have is below another
such node, and equal just when those below are - then the rounds of `PruningRounds` name exactly the
shared nodes that differ and have nothing below them. The invariant of the rounds is `Searching`: every
such node has been found or lies below one that the next round starts from, for which the
way up from a node that differs differs everywhere (`PathDiffers`) and a round meets every way down
(`CollectIs`). That the traces of `reconstructTreeTrace` are comparable is
`TracesCompare`. From tree to tree: the committed root of a tree is the leaf of the tree above
(`LinksCompare`), so a node at which the search ends has a changed hash or is the root of a tree that
differs, and never both (`EndsAre`). `AnalyzeBlames` puts the trees together: the suspects are
the changed hashes and the bad shards those they belong to, each also when several trees differ.

For two proofs of the same trees and any plans, `ShapesBlame` says what is left without the
premise that the plans are equal: the trees whose leaf count differs are exactly those that
are reported as topology (their committed roots always differ, `CountsDiffer`, since the count is hashed
into the commitment); only ends of the search of a tree are blamed; and if the global roots differ and
no count does, something is blamed, because below a tree that differs there is an end or
another tree that differs, and the layers are finitely many.

### AuditProofs

For any number of shards, segments, checkpoints and addresses (the assumptions of the
modules it composes and `AuditAssumption`), and whatever the tables hold when a request
reads them: `AnswersAreCurrent`; `ProofsBelongToCheckpoint` (`HeldProofsBelong`);
`LocalizationsReplay`, the part of `LocalizationSurvivesProgress` that says that the
auditor's own check accepts the answer. Three invariants:

* `AuditInv`: what the auditor holds (addresses, proof, localization) is of one published
  checkpoint, and a request is for that checkpoint, for addresses the auditor has, and
  comes to `confirm` only with a proof that leads to the pinned root;
* `CheckpointsInv`: the forest in memory, the snapshot and every checkpoint are of a forest
  in the sense of `ForestOver`, over the segments that had been sealed by then;
* `DigestsInv`: the plan of a held proof has the segment tree of every address, and a proof
  that verified against a checkpoint carries the digests of that checkpoint's logs.

`DigestsInv` follows from `CheckpointsInv` by `VerifiedLeaves`. No fact about the tables is
needed: that is the point of verifying before answering. The lemma `WithHashesForm` (other
hashes leave the form of a proof as it is) is what makes the failed proof traceable, so that
the replay has something to compare.

### Only model-checked

* Liveness: `StartedIsPublished`, `StopCompletes`, `SubmitReturns`, `SealedIsPersisted`.
  TLAPS does not prove fairness arguments here.
* `QuietAuditSucceeds`; which suspects a localization names
  (`LocalizationSurvivesProgress`); of `DrainedShards`, that the root node is stored.
* `LocatorLookup` and `Locator`, whose tree and range operators are recursive.

## 5. Not modelled, and the plan

Not modelled: the health, readiness and checkpoint views of the HTTP server, JSON and
wiring (no state of their own); canonicalization (I/O and cryptography); the PostgreSQL
log repository (single statements); the getters of the Cassandra repositories that
nothing calls; the latency benchmarks. The sizes of encoded proofs and the times in
segment metadata are left out. Segment IDs that are sealed out of order are possible in
`SegmentWorker` only; `HMFPersistence` numbers them in the order of the appends.

Planned, in this order:

1. The operators of `LocatorTree` and `LocatorRange` without recursion, and proofs about
   `Locator`: the tree state that is stored once everything is written is that of the
   live tree, and a published state is of an update whose pages were all written.
2. The composition: an audit beside the writers keeps what `HMFPersistenceProofs` shows
   of the tables.
3. `Checkpoint` with two service instances on one system ID.
