--------------------------- MODULE SegmentWorker ---------------------------
(***************************************************************************)
(* Ingestion into one shard (internal/hm): callers of SubmitLog, the       *)
(* segment workers, the registry of the shard's active segment, the shard  *)
(* tree, the channel of updates and the goroutine that persists them.      *)
(*                                                                         *)
(* StopWorker takes the worker out of hm.workers before the worker has     *)
(* seen its stop channel, so the next SubmitLog starts a second worker     *)
(* that runs beside the first; the two share the shard's registry entry    *)
(* and its segment counter.  Every critical section (stateMu, workerMu,    *)
(* hmfMu) and every channel operation is a step.                           *)
(*                                                                         *)
(* Logs differ only in their identity; their event times, and what they    *)
(* leave in the segment metadata, are left out.  So is a submission that   *)
(* is rejected before it reaches a worker (no region, no event time, no    *)
(* such shard): it changes nothing.                                        *)
(***************************************************************************)
EXTENDS Integers, Sequences, FiniteSets, Functions

CONSTANTS Logs,              \* logs that are submitted
          Workers,           \* worker goroutines that may be started
          None,              \* no worker, no log
          MaxSegmentLeaves,
          QueueCap,          \* capacity of a worker's requests channel
          UpdatesCap,        \* capacity of the updates channel
          MaxSegmentID,      \* bound: segment IDs handed out
          Faults             \* which of "ALL", "persister" may stop

ASSUME ConstantsAssumption ==
    /\ None \notin Logs \cup Workers
    /\ MaxSegmentLeaves \in Nat \ {0}
    /\ QueueCap \in Nat \ {0}
    /\ UpdatesCap \in Nat \ {0}
    /\ MaxSegmentID \in Nat
    /\ Faults \subseteq {"ALL", "persister"}

SegmentIDs == 0..MaxSegmentID
NoSegment == -1

VARIABLES workers,    \* hm.workers entry of the shard, or None
          registry,   \* hm.ActiveSegments entry of the shard, or NoSegment
          nextID,     \* hm.nextSegmentIDs entry of the shard
          leaves,     \* segment ID -> leaves of its tree
          treeSealed, \* segments whose tree is sealed
          shard,      \* segments appended to the shard tree, in order
          updates,    \* the updates channel
          persisted,  \* updates taken by the persister, in order
          mapped,     \* log -> positions submitted to ALL for it
          down,       \* which of "ALL", "persister" have stopped
          pc, requests, stop, active, timer, cur, cause, id,  \* per worker
          spc, on, reply                                      \* per submission

manager    == <<workers, registry, nextID>>
segments   == <<leaves, treeSealed, shard>>
output     == <<updates, persisted, mapped, down>>
workerVars == <<pc, requests, stop, active, timer, cur, cause, id>>
submitVars == <<spc, on, reply>>
vars == <<manager, segments, output, workerVars, submitVars>>

\* The worker has closed its done channel.
Done(w) == pc[w] \in {"delete", "gone"}

Init ==
    /\ workers = None
    /\ registry = NoSegment
    /\ nextID = 0
    /\ leaves = [s \in SegmentIDs |-> <<>>]
    /\ treeSealed = {}
    /\ shard = <<>>
    /\ updates = <<>>
    /\ persisted = <<>>
    /\ mapped = [l \in Logs |-> {}]
    /\ down = {}
    /\ pc = [w \in Workers |-> "idle"]
    /\ requests = [w \in Workers |-> <<>>]
    /\ stop = [w \in Workers |-> FALSE]
    /\ active = [w \in Workers |-> NoSegment]
    /\ timer = [w \in Workers |-> "off"]
    /\ cur = [w \in Workers |-> None]
    /\ cause = [w \in Workers |-> "request"]
    /\ id = [w \in Workers |-> NoSegment]
    /\ spc = [l \in Logs |-> "idle"]
    /\ on = [l \in Logs |-> None]
    /\ reply = [l \in Logs |-> "none"]

-----------------------------------------------------------------------------
(* SubmitLog *)

\* getOrStartWorker: the registered worker, or a new one.
GetOrStartWorker(l, w) ==
    /\ spc[l] = "idle"
    /\ \/ /\ workers = w
          /\ UNCHANGED <<workers, pc>>
       \/ /\ workers = None /\ pc[w] = "idle"
          /\ workers' = w
          /\ pc' = [pc EXCEPT ![w] = "select"]
    /\ on' = [on EXCEPT ![l] = w]
    /\ spc' = [spc EXCEPT ![l] = "send"]
    /\ UNCHANGED <<registry, nextID, segments, output, requests, stop, active,
                   timer, cur, cause, id, reply>>

\* worker.requests <- request
SendRequest(l) ==
    /\ spc[l] = "send"
    /\ Len(requests[on[l]]) < QueueCap
    /\ requests' = [requests EXCEPT ![on[l]] = Append(@, l)]
    /\ spc' = [spc EXCEPT ![l] = "wait"]
    /\ UNCHANGED <<manager, segments, output, pc, stop, active, timer, cur, cause,
                   id, on, reply>>

\* SubmitLog returns.
Return(l, result) ==
    /\ spc' = [spc EXCEPT ![l] = result]
    /\ on' = [on EXCEPT ![l] = None]
    /\ UNCHANGED <<manager, segments, output, workerVars, reply>>

\* <-result
ReceiveResult(l) == spc[l] = "wait" /\ reply[l] # "none" /\ Return(l, reply[l])

\* Mutant: the second select does not watch done.
WorkerStoppedOnlySending(l) == spc[l] = "send" /\ Done(on[l]) /\ Return(l, "error")

\* <-worker.done, in either select, even when the result is there too.
WorkerStopped(l) == spc[l] \in {"send", "wait"} /\ Done(on[l]) /\ Return(l, "error")

\* <-ctx.Done(), in either select.
Canceled(l) == spc[l] \in {"send", "wait"} /\ Return(l, "error")

\* StopWorker: unregister the worker and close its stop channel.  The caller
\* then waits for done, which changes nothing.
StopWorker ==
    /\ workers # None
    /\ stop' = [stop EXCEPT ![workers] = TRUE]
    /\ workers' = None
    /\ UNCHANGED <<registry, nextID, segments, output, pc, requests, active,
                   timer, cur, cause, id, submitVars>>

-----------------------------------------------------------------------------
(* runSegmentWorker *)

\* request.Result <- r, when the step serves a request.
Answer(w, r) ==
    /\ reply' = IF cur[w] = None THEN reply ELSE [reply EXCEPT ![cur[w]] = r]
    /\ cur' = [cur EXCEPT ![w] = None]

\* case request := <-requests: with an active segment that has room, append;
\* with a full one, close it first; with none, open one.
TakeRequest(w) ==
    /\ pc[w] = "select" /\ requests[w] # <<>>
    /\ cur' = [cur EXCEPT ![w] = Head(requests[w])]
    /\ requests' = [requests EXCEPT ![w] = Tail(@)]
    /\ cause' = [cause EXCEPT ![w] = "request"]
    /\ pc' = [pc EXCEPT ![w] = IF active[w] = NoSegment THEN "id"
                               ELSE IF Len(leaves[active[w]]) >= MaxSegmentLeaves THEN "seal"
                               ELSE "append"]
    /\ UNCHANGED <<manager, segments, output, stop, active, timer, id, submitVars>>

\* case sealedAt := <-timerC: the timer has fired and will not fire again.
TimerFires(w) ==
    /\ pc[w] = "select" /\ timer[w] = "armed"
    /\ timer' = [timer EXCEPT ![w] = "spent"]
    /\ cause' = [cause EXCEPT ![w] = "timer"]
    /\ pc' = [pc EXCEPT ![w] = "seal"]
    /\ UNCHANGED <<manager, segments, output, requests, stop, active, cur, id, submitVars>>

\* Mutants: the active segment is dropped; the stop is not seen without one.
SeeStopDropsSegment(w) ==
    /\ pc[w] = "select" /\ stop[w]
    /\ cause' = [cause EXCEPT ![w] = "stop"]
    /\ pc' = [pc EXCEPT ![w] = "exit"]
    /\ UNCHANGED <<manager, segments, output, requests, stop, active, timer, cur, id, submitVars>>

SeeStopOnlyWithSegment(w) ==
    /\ pc[w] = "select" /\ stop[w] /\ active[w] # NoSegment
    /\ cause' = [cause EXCEPT ![w] = "stop"]
    /\ pc' = [pc EXCEPT ![w] = IF leaves[active[w]] # <<>> THEN "seal" ELSE "exit"]
    /\ UNCHANGED <<manager, segments, output, requests, stop, active, timer, cur, id, submitVars>>

\* case <-stop: close the active segment if it has leaves, then return.
SeeStop(w) ==
    /\ pc[w] = "select" /\ stop[w]
    /\ cause' = [cause EXCEPT ![w] = "stop"]
    /\ pc' = [pc EXCEPT ![w] = IF active[w] # NoSegment /\ leaves[active[w]] # <<>>
                               THEN "seal" ELSE "exit"]
    /\ UNCHANGED <<manager, segments, output, requests, stop, active, timer, cur, id, submitVars>>

\* nextSegmentID, a critical section of its own.
NextSegmentID(w) ==
    /\ pc[w] = "id" /\ nextID <= MaxSegmentID
    /\ id' = [id EXCEPT ![w] = nextID]
    /\ nextID' = nextID + 1
    /\ pc' = [pc EXCEPT ![w] = "open"]
    /\ UNCHANGED <<workers, registry, segments, output, requests, stop, active,
                   timer, cur, cause, submitVars>>

\* Mutant: an active segment is replaced.
OpenSegmentReplaces(w) ==
    /\ pc[w] = "open"
    /\ registry' = id[w]
    /\ pc' = [pc EXCEPT ![w] = "get"]
    /\ UNCHANGED <<workers, nextID, segments, output, requests, stop, active,
                   timer, cur, cause, id, submitVars>>

\* Manager.openSegment: register a new tree unless the shard has an active one.
OpenSegment(w) ==
    /\ pc[w] = "open"
    /\ IF registry = NoSegment
       THEN /\ registry' = id[w]
            /\ pc' = [pc EXCEPT ![w] = "get"]
            /\ UNCHANGED <<cur, reply, id>>
       ELSE /\ Answer(w, "error")
            /\ pc' = [pc EXCEPT ![w] = "select"]
            /\ id' = [id EXCEPT ![w] = NoSegment]
            /\ UNCHANGED registry
    /\ UNCHANGED <<workers, nextID, segments, output, requests, stop, active,
                   timer, cause, spc, on>>

\* getActiveSegment after the open, and the new timer.
GetActiveSegment(w) ==
    /\ pc[w] = "get"
    /\ active' = [active EXCEPT ![w] = registry]
    /\ id' = [id EXCEPT ![w] = NoSegment]
    /\ IF registry = NoSegment
       THEN /\ Answer(w, "error")
            /\ pc' = [pc EXCEPT ![w] = "select"]
            /\ UNCHANGED timer
       ELSE /\ timer' = [timer EXCEPT ![w] = "armed"]
            /\ pc' = [pc EXCEPT ![w] = IF cause[w] = "request" THEN "append" ELSE "select"]
            /\ UNCHANGED <<cur, reply>>
    /\ UNCHANGED <<manager, segments, output, requests, stop, cause, spc, on>>

\* SegmentTree.Append: rejected when the tree is sealed or full.
AppendLeaf(w) ==
    /\ pc[w] = "append"
    /\ IF active[w] \in treeSealed \/ Len(leaves[active[w]]) >= MaxSegmentLeaves
       THEN /\ Answer(w, "error")
            /\ pc' = [pc EXCEPT ![w] = "select"]
            /\ UNCHANGED leaves
       ELSE /\ leaves' = [leaves EXCEPT ![active[w]] = Append(@, cur[w])]
            /\ pc' = [pc EXCEPT ![w] = "propagate"]
            /\ UNCHANGED <<cur, reply>>
    /\ UNCHANGED <<manager, treeSealed, shard, output, requests, stop, active,
                   timer, cause, id, spc, on>>

\* Mutants: leafID is read after the append; leafID is one too low.
PositionAfterAppend(w) == <<active[w], Len(leaves[active[w]])>>
PositionTooLow(w) == <<active[w], Len(leaves[active[w]]) - 2>>

\* The locator value of the leaf just appended: leafID was read before the append.
Position(w) == <<active[w], Len(leaves[active[w]]) - 1>>

\* propagateToALL: the position goes to ALL's queue, or, if ALL has stopped,
\* Submit may fail; the leaf stays either way.
PropagateToALL(w) ==
    /\ pc[w] = "propagate"
    /\ \/ /\ mapped' = [mapped EXCEPT ![cur[w]] = @ \cup {Position(w)}]
          /\ Answer(w, "ok")
       \/ /\ "ALL" \in down
          /\ Answer(w, "error")
          /\ UNCHANGED mapped
    /\ pc' = [pc EXCEPT ![w] = "select"]
    /\ UNCHANGED <<manager, segments, updates, persisted, down, requests, stop,
                   active, timer, cause, id, spc, on>>

\* Mutant: an empty tree is sealed.
SealTreeEmpty(w) ==
    /\ pc[w] = "seal"
    /\ treeSealed' = treeSealed \cup {registry}
    /\ id' = [id EXCEPT ![w] = registry]
    /\ pc' = [pc EXCEPT ![w] = "hmf"]
    /\ UNCHANGED <<manager, leaves, shard, output, requests, stop, active, timer,
                   cur, cause, submitVars>>

\* Manager.closeSegment up to Seal, on whatever segment is registered (kept in
\* id[w] for the rest of the call).  An empty tree cannot be sealed: the close fails and the segment stays active.
SealTree(w) ==
    /\ pc[w] = "seal"
    /\ IF registry = NoSegment \/ registry \in treeSealed \/ leaves[registry] = <<>>
       THEN /\ Answer(w, "error")
            /\ pc' = [pc EXCEPT ![w] = IF cause[w] = "stop" THEN "exit" ELSE "select"]
            /\ UNCHANGED <<treeSealed, id>>
       ELSE /\ treeSealed' = treeSealed \cup {registry}
            /\ id' = [id EXCEPT ![w] = registry]
            /\ pc' = [pc EXCEPT ![w] = "hmf"]
            /\ UNCHANGED <<cur, reply>>
    /\ UNCHANGED <<manager, leaves, shard, output, requests, stop, active, timer,
                   cause, spc, on>>

\* AppendSealedSegment under hmfMu.
AppendSealedSegment(w) ==
    /\ pc[w] = "hmf"
    /\ shard' = Append(shard, id[w])
    /\ pc' = [pc EXCEPT ![w] = "unregister"]
    /\ UNCHANGED <<manager, leaves, treeSealed, output, requests, stop, active,
                   timer, cur, cause, id, submitVars>>

\* delete(hm.ActiveSegments, shardTreeID)
Unregister(w) ==
    /\ pc[w] = "unregister"
    /\ registry' = NoSegment
    /\ pc' = [pc EXCEPT ![w] = "update"]
    /\ UNCHANGED <<workers, nextID, segments, output, requests, stop, active,
                   timer, cur, cause, id, submitVars>>

\* updates <- update; stopTimer(); active = nil
SendUpdate(w) ==
    /\ pc[w] = "update" /\ Len(updates) < UpdatesCap
    /\ updates' = Append(updates, id[w])
    /\ timer' = [timer EXCEPT ![w] = "off"]
    /\ active' = [active EXCEPT ![w] = NoSegment]
    /\ id' = [id EXCEPT ![w] = NoSegment]
    /\ pc' = [pc EXCEPT ![w] = IF cause[w] = "stop" THEN "exit" ELSE "id"]
    /\ UNCHANGED <<manager, segments, persisted, mapped, down, requests, stop,
                   cur, cause, submitVars>>

\* The worker returns: its timer is stopped and done is closed ...
CloseDone(w) ==
    /\ pc[w] = "exit"
    /\ timer' = [timer EXCEPT ![w] = "off"]
    /\ pc' = [pc EXCEPT ![w] = "delete"]
    /\ UNCHANGED <<manager, segments, output, requests, stop, active, cur, cause, id, submitVars>>

\* ... and it leaves hm.workers if it is still the one registered.
DeleteWorker(w) ==
    /\ pc[w] = "delete"
    /\ workers' = IF workers = w THEN None ELSE workers
    /\ pc' = [pc EXCEPT ![w] = "gone"]
    /\ UNCHANGED <<registry, nextID, segments, output, requests, stop, active,
                   timer, cur, cause, id, submitVars>>

-----------------------------------------------------------------------------
(* The other ends *)

\* PersistUpdates takes the next update.
PersistUpdate ==
    /\ "persister" \notin down /\ updates # <<>>
    /\ persisted' = Append(persisted, Head(updates))
    /\ updates' = Tail(updates)
    /\ UNCHANGED <<manager, segments, mapped, down, workerVars, submitVars>>

\* ALL.Stop; or PersistUpdates returns after an error.
GoDown(f) ==
    /\ f \in Faults \ down
    /\ down' = down \cup {f}
    /\ UNCHANGED <<manager, segments, updates, persisted, mapped, workerVars, submitVars>>

SubmitStep(l) ==
    \/ \E w \in Workers : GetOrStartWorker(l, w)
    \/ SendRequest(l)
    \/ ReceiveResult(l)
    \/ WorkerStopped(l)

WorkerStep(w) ==
    \/ TakeRequest(w) \/ SeeStop(w)
    \/ NextSegmentID(w) \/ OpenSegment(w) \/ GetActiveSegment(w)
    \/ AppendLeaf(w) \/ PropagateToALL(w)
    \/ SealTree(w) \/ AppendSealedSegment(w) \/ Unregister(w) \/ SendUpdate(w)
    \/ CloseDone(w) \/ DeleteWorker(w)

Next ==
    \/ \E l \in Logs : SubmitStep(l) \/ Canceled(l)
    \/ \E w \in Workers : WorkerStep(w) \/ TimerFires(w)
    \/ StopWorker
    \/ PersistUpdate
    \/ \E f \in Faults : GoDown(f)

Spec == Init /\ [][Next]_vars
-----------------------------------------------------------------------------
Segment == SegmentIDs \cup {NoSegment}

ManagerType ==
    /\ workers \in Workers \cup {None}
    /\ registry \in Segment
    /\ nextID \in 0..(MaxSegmentID + 1)

SegmentsType ==
    /\ leaves \in [SegmentIDs -> Seq(Logs)]
    /\ treeSealed \subseteq SegmentIDs
    /\ shard \in Seq(SegmentIDs)

OutputType ==
    /\ updates \in Seq(SegmentIDs)
    /\ persisted \in Seq(SegmentIDs)
    /\ mapped \in [Logs -> SUBSET (SegmentIDs \X Nat)]
    /\ down \subseteq Faults

ControlType ==
    /\ pc \in [Workers -> {"idle", "select", "id", "open", "get", "append", "propagate",
                          "seal", "hmf", "unregister", "update", "exit", "delete", "gone"}]
    /\ stop \in [Workers -> BOOLEAN]
    /\ timer \in [Workers -> {"off", "armed", "spent"}]
    /\ cause \in [Workers -> {"request", "timer", "stop"}]

WorkerType ==
    /\ requests \in [Workers -> Seq(Logs)]
    /\ active \in [Workers -> Segment]
    /\ cur \in [Workers -> Logs \cup {None}]
    /\ id \in [Workers -> Segment]

SubmitType ==
    /\ spc \in [Logs -> {"idle", "send", "wait", "ok", "error"}]
    /\ on \in [Logs -> Workers \cup {None}]
    /\ reply \in [Logs -> {"none", "ok", "error"}]

\* Type invariant.
TypeOK == ManagerType /\ SegmentsType /\ OutputType /\ ControlType /\ WorkerType /\ SubmitType

\* The positions at which a log is a leaf.
Positions(l) == {p \in SegmentIDs \X (0..MaxSegmentLeaves - 1) :
                    p[2] < Len(leaves[p[1]]) /\ leaves[p[1]][p[2] + 1] = l}

\* A log whose submission succeeded is one leaf, once, and ALL was given exactly
\* that position for it, whichever worker served it and whatever was sealed in
\* between (leafID is read before the append, segment_worker.go:106).
AckedIsLocated ==
    \A l \in Logs : spc[l] = "ok" => /\ Cardinality(Positions(l)) = 1
                                     /\ mapped[l] = Positions(l)

\* Closing goes through the registry, not through the worker's own variable: a
\* worker that has an active segment is the only one that has it, and until it
\* has unregistered it the registry entry is that segment.  So a close never
\* seals a segment of the worker that runs beside it, an open never loses its
\* segment between openSegment and getActiveSegment, and a timer never fires
\* without a segment (segment_worker.go:121 would dereference nil).
OwnSegment ==
    \A w \in Workers :
        /\ pc[w] = "get" => registry = id[w]
        /\ active[w] # NoSegment /\ pc[w] # "update" => registry = active[w]
        /\ pc[w] \in {"hmf", "unregister", "update"} => id[w] = active[w]
        /\ timer[w] = "armed" => active[w] # NoSegment
        /\ \A v \in Workers \ {w} : active[w] # NoSegment => active[v] # active[w]

\* A running worker has the segment.
Carries(w, s) == active[w] = s /\ ~Done(w) /\ pc[w] # "exit"

\* No log is stranded: a segment that has leaves is in the shard tree, or a
\* running worker still has it.  A restart of the shard's worker leaves behind
\* at most an empty segment.
NothingStranded ==
    \A s \in SegmentIDs :
        leaves[s] # <<>> => s \in Range(shard) \/ \E w \in Workers : Carries(w, s)

(* The inductive invariant, in parts *)

\* A worker's variables agree with its place in runSegmentWorker.
WorkerInv ==
    \A w \in Workers :
        /\ pc[w] \in {"idle", "id", "open", "get"} => active[w] = NoSegment
        /\ pc[w] \in {"append", "propagate", "seal", "hmf", "unregister", "update"} => active[w] # NoSegment
        /\ timer[w] = "armed" => active[w] # NoSegment
        /\ pc[w] \in {"open", "get"} => id[w] # NoSegment
        /\ pc[w] \in {"hmf", "unregister", "update"} => id[w] = active[w]
        /\ pc[w] \in {"append", "propagate"} => cause[w] = "request"
        /\ cur[w] # None <=> /\ cause[w] = "request"
                             /\ pc[w] \in {"id", "open", "get", "append", "propagate",
                                           "seal", "hmf", "unregister", "update"}

\* The worker has put the registered segment there and not yet taken it out.
Holds(w) == pc[w] = "get" \/ (active[w] # NoSegment /\ pc[w] # "update")

\* Nobody but its holder touches the registry entry, and a worker that has
\* unregistered its segment shares it with no one.
RegistryInv ==
    /\ \A w \in Workers : Holds(w) => registry = IF pc[w] = "get" THEN id[w] ELSE active[w]
    /\ \A w, v \in Workers : Holds(w) /\ Holds(v) => w = v
    /\ \A w \in Workers : pc[w] = "update" =>
          registry # active[w] /\ \A v \in Workers \ {w} : active[v] # active[w]

\* No segment has been made with this ID.
Unused(s) ==
    /\ leaves[s] = <<>>
    /\ s \notin treeSealed
    /\ s # registry
    /\ \A w \in Workers : active[w] # s

\* An ID that is still to be handed out, or in the hands of a worker that has not
\* opened its segment yet, is unused, and no two workers have the same.
FreshIDs ==
    /\ \A s \in SegmentIDs : s >= nextID => Unused(s)
    /\ \A w \in Workers : pc[w] = "open" =>
          /\ id[w] < nextID
          /\ Unused(id[w])
          /\ \A v \in Workers \ {w} : pc[v] = "open" => id[v] # id[w]

\* Sealed trees have leaves and take no more; the shard tree has each of them once.
SealedInv ==
    /\ \A i, j \in DOMAIN shard : shard[i] = shard[j] => i = j
    /\ \A i \in DOMAIN shard : shard[i] \in treeSealed
    /\ \A s \in SegmentIDs : Len(leaves[s]) <= MaxSegmentLeaves
    /\ \A s \in treeSealed : leaves[s] # <<>>

\* A worker's segment is sealed, and then in the shard tree, when its place in the code
\* says so; a worker that returns leaves only an empty segment behind.
ActiveInv ==
    \A w \in Workers :
        /\ pc[w] = "get" => id[w] \notin treeSealed
        /\ active[w] # NoSegment /\ pc[w] \notin {"hmf", "unregister", "update"} =>
              active[w] \notin treeSealed
        /\ pc[w] = "hmf" => active[w] \in treeSealed \ Range(shard)
        /\ pc[w] \in {"unregister", "update"} => active[w] \in Range(shard)
        /\ active[w] # NoSegment /\ (Done(w) \/ pc[w] = "exit") => leaves[active[w]] = <<>>

\* The log is no leaf yet.
Fresh(l) == mapped[l] = {} /\ \A s \in SegmentIDs : \A i \in 1..Len(leaves[s]) : leaves[s][i] # l

\* The log's request was sent and has not been answered.
Waiting(l) == spc[l] \notin {"idle", "send"} /\ reply[l] = "none"

SubmissionsInv ==
    \A l \in Logs : /\ spc[l] \in {"idle", "send"} => Fresh(l) /\ reply[l] = "none"
                    /\ spc[l] \in {"send", "wait"} => on[l] \in Workers
                    /\ spc[l] = "ok" => reply[l] = "ok"

\* A request is in one place at a time: once in one queue, or in the hands of one worker.
QueuesInv ==
    /\ \A w \in Workers : \A i \in 1..Len(requests[w]) :
          /\ Fresh(requests[w][i]) /\ Waiting(requests[w][i])
          /\ \A v \in Workers : cur[v] # requests[w][i]
    /\ \A w, v \in Workers : \A i \in 1..Len(requests[w]), j \in 1..Len(requests[v]) :
          requests[w][i] = requests[v][j] => w = v /\ i = j

ServedInv ==
    /\ \A w \in Workers : cur[w] # None =>
          Waiting(cur[w]) /\ (pc[w] # "propagate" => Fresh(cur[w]))
    /\ \A w, v \in Workers : cur[w] # None /\ cur[w] = cur[v] => w = v

\* The log that is about to be propagated is the last leaf of its segment.
PropagateInv ==
    \A w \in Workers : pc[w] = "propagate" =>
        /\ leaves[active[w]] # <<>>
        /\ leaves[active[w]][Len(leaves[active[w]])] = cur[w]
        /\ mapped[cur[w]] = {}

\* A log is a leaf once.
UniqueLeaves ==
    \A s, t \in SegmentIDs : \A i \in 1..Len(leaves[s]), j \in 1..Len(leaves[t]) :
        leaves[s][i] = leaves[t][j] => s = t /\ i = j

\* The log is a leaf and ALL has been given its position.
Located(l) ==
    \E s \in SegmentIDs : \E i \in 1..Len(leaves[s]) :
        leaves[s][i] = l /\ mapped[l] = {<<s, i - 1>>}

AnswersInv == \A l \in Logs : reply[l] = "ok" => Located(l)

SegmentsInv ==
    /\ WorkerInv
    /\ RegistryInv
    /\ FreshIDs
    /\ SealedInv
    /\ ActiveInv
    /\ NothingStranded

RequestsInv ==
    /\ SubmissionsInv
    /\ QueuesInv
    /\ ServedInv
    /\ PropagateInv
    /\ UniqueLeaves
    /\ AnswersInv

\* The inductive invariant of SegmentWorkerProofs: every critical section of
\* manager.go and segment_worker.go keeps it, with any number of workers and logs.
IndInv == TypeOK /\ SegmentsInv /\ RequestsInv

\* The shard tree implements the append-only list of segments: a segment is
\* appended once, with 1 to MaxSegmentLeaves leaves that no other segment has,
\* and does not change afterwards ("Sealing freezes the leaf_count, root",
\* init.cql:153).
Log == INSTANCE ShardLog WITH segments <- [i \in DOMAIN shard |-> leaves[shard[i]]]
ShardLogSpec == Log!Spec

-----------------------------------------------------------------------------
\* Goroutines run, the persister is alive, timers fire.  No one has to call, stop
\* or cancel anything.  Weak fairness is enough: with finitely many submissions a
\* select cannot choose another ready case for ever.
Fairness ==
    /\ \A l \in Logs : WF_vars(SendRequest(l)) /\ WF_vars(ReceiveResult(l) \/ WorkerStopped(l))
    /\ \A w \in Workers : WF_vars(WorkerStep(w)) /\ WF_vars(TimerFires(w))
    /\ WF_vars(PersistUpdate)

FairSpec == Spec /\ Fairness

\* A worker that was told to stop comes to its end, with a full requests
\* channel, a full updates channel and a second worker beside it too.
StopCompletes == \A w \in Workers : stop[w] ~> Done(w)

\* A submission is answered even when its request was queued behind a stop.
SubmitReturns == \A l \in Logs : spc[l] \in {"send", "wait"} ~> spc[l] \in {"ok", "error"}

\* init.cql:151, "created_at controls the maximum active interval Delta": a
\* segment that has leaves is sealed some time after, filled up or not.
SealedByAge == \A s \in SegmentIDs : leaves[s] # <<>> ~> s \in Range(shard)
=============================================================================
