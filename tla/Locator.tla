------------------------------ MODULE Locator ------------------------------
(***************************************************************************)
(* The ALL worker, which inserts one submitted entry after the other into  *)
(* the locator tree, and the goroutine that persists its updates.          *)
(*                                                                         *)
(* An update's pages are shallow copies: their hashes are values, but      *)
(* their slices and children still belong to the live tree, which the      *)
(* worker goes on changing while the update waits in the channel.          *)
(***************************************************************************)
EXTENDS LocatorRange

CONSTANTS Keys,            \* entries that are submitted, in key order
          RequestsCap,     \* capacity of ALL's requests channel
          UpdatesCap,      \* capacity of ALL's updates channel
          PagesPerBucket,
          MaxRestarts,     \* restarts of the process
          NoUpdate

ASSUME LocatorAssumption ==
    /\ Keys \subseteq Nat \ {0}
    /\ {RequestsCap, UpdatesCap, PagesPerBucket} \subseteq Nat \ {0}
    /\ MaxRestarts \in Nat

VARIABLES submitted,  \* keys that Submit has taken
          requests,   \* ALL's requests channel
          worker,     \* "new", "running" or "done"
          stopped,    \* ALL's stop channel is closed
          tree,       \* the live tree
          hand,       \* update the worker has not sent yet, or NoUpdate
          updates,    \* ALL's updates channel
          current,    \* update the persister works on, or NoUpdate
          todo,       \* its pages that are not marshalled yet
          rows,       \* its marshalled pages that are not written yet
          failed,     \* one of its writes failed
          table,      \* table all_pages
          state,      \* table all_tree_state, or NoUpdate
          persisting, \* PersistUpdates has not returned
          query,      \* the tree state a range query started from, or NoUpdate
          cache,      \* pages the query has read
          restarts

allVars     == <<submitted, requests, worker, stopped, tree, hand>>
persistVars == <<current, todo, rows, failed, table, state, persisting>>
queryVars   == <<query, cache>>
vars == <<allVars, updates, persistVars, queryVars, restarts>>

Init ==
    /\ submitted = {}
    /\ requests = <<>>
    /\ worker = "new"
    /\ stopped = FALSE
    /\ tree = NewLocatorTree
    /\ hand = NoUpdate
    /\ updates = <<>>
    /\ current = NoUpdate
    /\ todo = {}
    /\ rows = <<>>
    /\ failed = FALSE
    /\ table = <<>>
    /\ state = NoUpdate
    /\ persisting = TRUE
    /\ query = NoUpdate
    /\ cache = <<>>
    /\ restarts = 0

-----------------------------------------------------------------------------
(* ALL *)

\* Submit takes the entry if the channel has room, even when ALL has stopped.
\* (Otherwise it blocks, or fails because ALL has stopped: nothing changes.)
Submit(k) ==
    /\ k \notin submitted /\ Len(requests) < RequestsCap
    /\ submitted' = submitted \cup {k}
    /\ requests' = Append(requests, k)
    /\ UNCHANGED <<worker, stopped, tree, hand, updates, persistVars, queryVars, restarts>>

\* Run is called; it returns at once when ALL has stopped or runs already.
Run ==
    /\ worker = "new" /\ ~stopped
    /\ worker' = "running"
    /\ UNCHANGED <<submitted, requests, stopped, tree, hand, updates, persistVars, queryVars, restarts>>

Stop ==
    /\ ~stopped
    /\ stopped' = TRUE
    /\ UNCHANGED <<submitted, requests, worker, tree, hand, updates, persistVars, queryVars, restarts>>

RunReturns ==
    /\ worker = "running" /\ hand = NoUpdate
    /\ worker' = "done"
    /\ stopped' = TRUE
    /\ UNCHANGED <<submitted, requests, tree, hand, updates, persistVars, queryVars, restarts>>

\* Mutant: the stop is noticed with the next request.
SeeStopWithRequest == stopped /\ requests # <<>> /\ RunReturns

\* case <-all.stop; case <-ctx.Done()
SeeStop == stopped /\ RunReturns
RunCanceled == RunReturns

\* The update that InsertWithUpdate returns.
Update(t) ==
    [pages |-> [id \in t.changed |-> t.pages[id]], root |-> t.root, hash |-> RootHash(t),
     nextID |-> t.nextID, height |-> t.height, count |-> t.count]

\* case request := <-all.requests
TakeRequest ==
    /\ worker = "running" /\ hand = NoUpdate /\ requests # <<>>
    /\ LET inserted == Insert(tree, Head(requests))
       IN tree' = inserted /\ hand' = Update(inserted)
    /\ requests' = Tail(requests)
    /\ UNCHANGED <<submitted, worker, stopped, updates, persistVars, queryVars, restarts>>

\* all.updates <- update; the worker watches nothing else meanwhile.
SendUpdate ==
    /\ hand # NoUpdate /\ Len(updates) < UpdatesCap
    /\ updates' = Append(updates, hand)
    /\ hand' = NoUpdate
    /\ UNCHANGED <<submitted, requests, worker, stopped, tree, persistVars, queryVars, restarts>>

-----------------------------------------------------------------------------
(* ALLUpdateWriter *)

\* PersistUpdates takes an update.
ReceiveUpdate ==
    /\ persisting /\ current = NoUpdate /\ updates # <<>>
    /\ current' = Head(updates)
    /\ todo' = DOMAIN Head(updates).pages
    /\ updates' = Tail(updates)
    /\ UNCHANGED <<allVars, rows, failed, table, state, persisting, queryVars, restarts>>

\* What MarshalPage makes of a copy: its slices and its children's hashes are read
\* now.  When the live page has other contents by now, inserts may have shifted the
\* entries of the array that the copy still shares with it (torn).
MarshalCopy(page, torn) ==
    [leaf |-> page.leaf, parent |-> page.parent, next |-> page.next, hash |-> page.hash,
     keys |-> IF torn THEN <<>> ELSE page.keys,
     children |-> IF torn THEN <<>> ELSE page.children,
     childHashes |-> IF torn THEN <<>> ELSE ChildHashes(tree.pages, page.children)]

\* PersistUpdate marshals one page after the other.
MarshalNext ==
    /\ persisting /\ todo # {}
    /\ LET id == Min(todo)
           page == current.pages[id]
           shared == tree.pages[id].keys # page.keys \/ tree.pages[id].children # page.children
       IN /\ \E torn \in {FALSE, shared} : rows' = (id :> MarshalCopy(page, torn)) @@ rows
          /\ todo' = todo \ {id}
    /\ UNCHANGED <<allVars, updates, current, failed, table, state, persisting, queryVars, restarts>>

\* PageBucketID
Bucket(id) == id \div PagesPerBucket
Without(b) == {id \in DOMAIN rows : Bucket(id) # b}

\* UpsertPages: one batch per bucket, in any order, each fails or not by itself; a
\* batch that failed may have been applied.
UpsertBucket(b) ==
    LET batch == [id \in DOMAIN rows \ Without(b) |-> rows[id]]
    IN /\ persisting /\ todo = {} /\ DOMAIN batch # {}
       /\ rows' = [id \in Without(b) |-> rows[id]]
       /\ \/ table' = batch @@ table /\ UNCHANGED failed
          \/ failed' = TRUE /\ table' \in {table, batch @@ table}
       /\ UNCHANGED <<allVars, updates, current, todo, state, persisting, queryVars, restarts>>

TreeState(u) ==
    [root |-> u.root, hash |-> u.hash, nextID |-> u.nextID, height |-> u.height, count |-> u.count]

Written == persisting /\ current # NoUpdate /\ todo = {} /\ DOMAIN rows = {}

\* Mutant: a failed batch is not noticed.
UpsertTreeStateAnyway ==
    /\ Written
    /\ state' = TreeState(current)
    /\ current' = NoUpdate
    /\ UNCHANGED <<allVars, updates, todo, rows, failed, table, persisting, queryVars, restarts>>

\* UpsertTreeState, after all the pages.
UpsertTreeState ==
    /\ Written /\ ~failed
    /\ state' = TreeState(current)
    /\ current' = NoUpdate
    /\ UNCHANGED <<allVars, updates, todo, rows, failed, table, persisting, queryVars, restarts>>

PersistReturns ==
    /\ persisting' = FALSE
    /\ UNCHANGED <<allVars, updates, current, todo, rows, failed, table, queryVars, restarts>>

\* A batch failed: PersistUpdates returns without publishing the state.
BatchFailed == Written /\ failed /\ PersistReturns /\ UNCHANGED state

\* The upsert of the state fails, applied or not.
StateFailed == Written /\ ~failed /\ PersistReturns /\ state' \in {state, TreeState(current)}

\* case <-ctx.Done()
PersistCanceled == persisting /\ current = NoUpdate /\ PersistReturns /\ UNCHANGED state

-----------------------------------------------------------------------------
(* A range query: ResolveLocatorQuery *)

StartQuery ==
    /\ query = NoUpdate /\ state # NoUpdate
    /\ query' = state
    /\ UNCHANGED <<allVars, updates, persistVars, cache, restarts>>

\* Pages the traversal may ask for: the root, a child or the next leaf of one it has.
Wanted ==
    {query.root} \cup UNION {ToSet(cache[id].children) \cup {cache[id].next} : id \in DOMAIN cache}

\* ReadPage, through the cache of the query.  (A page that cannot be read ends it.)
ReadPage ==
    /\ query # NoUpdate
    /\ \E id \in Wanted \ DOMAIN cache :
           /\ Readable(table, id)
           /\ cache' = (id :> table[id]) @@ cache
    /\ UNCHANGED <<allVars, updates, persistVars, query, restarts>>

-----------------------------------------------------------------------------
\* The process starts again: NewALL has an empty tree, the tables stay.
Restart ==
    /\ restarts < MaxRestarts
    /\ restarts' = restarts + 1
    /\ requests' = <<>> /\ worker' = "new" /\ stopped' = FALSE
    /\ tree' = NewLocatorTree /\ hand' = NoUpdate /\ updates' = <<>>
    /\ current' = NoUpdate /\ todo' = {} /\ rows' = <<>> /\ failed' = FALSE /\ persisting' = TRUE
    /\ query' = NoUpdate /\ cache' = <<>>
    /\ UNCHANGED <<submitted, table, state>>

WorkerStep == SeeStop \/ TakeRequest \/ SendUpdate
PersisterStep ==
    \/ ReceiveUpdate \/ MarshalNext
    \/ \E b \in {Bucket(id) : id \in DOMAIN rows} : UpsertBucket(b)
    \/ UpsertTreeState
    \/ BatchFailed

Next ==
    \/ \E k \in Keys : Submit(k)
    \/ Run \/ Stop \/ RunCanceled
    \/ WorkerStep
    \/ PersisterStep
    \/ StateFailed \/ PersistCanceled
    \/ StartQuery \/ ReadPage
    \/ Restart

Spec == Init /\ [][Next]_vars
-----------------------------------------------------------------------------
\* The keys a hash commits to.
RECURSIVE Committed(_)
Committed(hash) ==
    IF hash[1] = "LEAF" THEN ToSet(hash[4])
    ELSE UNION {Committed(hash[3][i]) : i \in DOMAIN hash[3]}

Ranges ==
    LET bounds == 0..(Max(Keys) + 1) IN {r \in bounds \X bounds : r[1] < r[2]}

\* A query reads page after page while updates are written, late, torn or in part.
\* It never gets a wrong answer: it fails, or returns the entries in its range that
\* its trusted root commits to.
QueriesAreExact ==
    query # NoUpdate =>
        \A r \in Ranges :
            \A result \in ResolveRange(cache, query.root, query.hash, r[1], r[2]) :
                {e.key : e \in ToSet(result.entries)}
                    = {k \in Committed(query.hash) : r[1] <= k /\ k < r[2]}

Drained ==
    persisting /\ hand = NoUpdate /\ updates = <<>> /\ current = NoUpdate

\* When every update has been written, the tables hold the live tree and every range
\* can be resolved: a page that was written stale or torn is written again by the
\* update that overtook it.
DrainedIsReadable ==
    Drained /\ tree.count > 0 =>
        /\ state = TreeState(Update(tree))
        /\ \A id \in DOMAIN tree.pages :
               id \in DOMAIN table /\ table[id] = MarshalPage(tree.pages, id)
        /\ \A r \in Ranges : ResolveRange(table, state.root, state.hash, r[1], r[2]) # {}

\* all_repo.go:163, "persists changed pages before publishing their resulting root
\* state": once an update's state is published, the pages under its root can be
\* read.
PublishedIsReadable ==
    state # NoUpdate /\ persisting /\ current = NoUpdate /\ restarts = 0 =>
        ResolveRange(table, state.root, state.hash, 0, Max(Keys) + 1) # {}

Fairness == WF_vars(SeeStop) /\ WF_vars(SendUpdate) /\ WF_vars(PersisterStep)
FairSpec == Spec /\ Fairness

\* Stop comes to its end although the worker does not watch the stop channel while
\* it waits for a free slot in the updates channel, unless the persister has ended.
StopCompletes == stopped /\ worker = "running" ~> worker # "running" \/ ~persisting
=============================================================================
