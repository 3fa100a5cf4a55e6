------------------------ MODULE SegmentWorkerProofs ------------------------
(***************************************************************************)
(* Proofs about SegmentWorker, for any number of logs, workers, leaves and *)
(* segments, any capacities of the channels and either fault.              *)
(***************************************************************************)
EXTENDS SegmentWorker, FiniteSetTheorems, SequenceTheorems, TLAPS

\* The inductive invariant holds initially.
LEMMA InitInd == Init => IndInv
  <1> SUFFICES ASSUME Init PROVE IndInv
    OBVIOUS
  <1> USE ConstantsAssumption DEF Init, SegmentIDs, NoSegment
  <1>1. TypeOK
    BY DEF TypeOK, ManagerType, SegmentsType, OutputType, ControlType, WorkerType, SubmitType, Segment
  <1>2. WorkerInv
    BY DEF WorkerInv
  <1>3. RegistryInv
    BY DEF RegistryInv, Holds
  <1>4. FreshIDs
    BY DEF FreshIDs, Unused
  <1>5. SealedInv
    BY DEF SealedInv
  <1>6. ActiveInv
    BY DEF ActiveInv, Done
  <1>7. NothingStranded
    BY DEF NothingStranded
  <1>8. SubmissionsInv
    BY DEF SubmissionsInv, Fresh
  <1>9. QueuesInv /\ ServedInv
    BY DEF QueuesInv, ServedInv
  <1>10. PropagateInv /\ UniqueLeaves
    BY DEF PropagateInv, UniqueLeaves
  <1>11. AnswersInv
    BY DEF AnswersInv
  <1> QED
    BY <1>1, <1>2, <1>3, <1>4, <1>5, <1>6, <1>7, <1>8, <1>9, <1>10, <1>11
    DEF IndInv, SegmentsInv, RequestsInv

-----------------------------------------------------------------------------
(* What keeps the parts of the invariant when the variables they read do not change *)

\* A log stays fresh while no leaf and no position is added.
LEMMA FreshFrame ==
    ASSUME leaves' = leaves, mapped' = mapped
    PROVE  \A l : Fresh(l) => Fresh(l)'
  BY DEF Fresh

\* A leaf stays where ALL was told it is.
LEMMA LocatedFrame ==
    ASSUME leaves' = leaves, mapped' = mapped
    PROVE  \A l : Located(l) => Located(l)'
  BY DEF Located

\* An ID stays unused while no segment is opened, filled or sealed.
LEMMA UnusedFrame ==
    ASSUME leaves' = leaves, treeSealed' = treeSealed, registry' = registry, active' = active
    PROVE  \A s : Unused(s) => Unused(s)'
  BY DEF Unused

\* The sealed trees and the shard tree do not change by themselves.
LEMMA SealedFrame ==
    ASSUME SealedInv, leaves' = leaves, treeSealed' = treeSealed, shard' = shard
    PROVE  SealedInv'
  BY DEF SealedInv

\* No segment is stranded while workers keep those that have leaves.
LEMMA StrandedFrame ==
    ASSUME NothingStranded, leaves' = leaves, shard' = shard,
           \A v \in Workers, s \in SegmentIDs :
               leaves[s] # <<>> /\ Carries(v, s) => s \in Range(shard) \/ Carries(v, s)'
    PROVE  NothingStranded'
  BY DEF NothingStranded

\* Places of a worker between which it neither takes nor gives up a segment.
Running == {"idle", "select", "id", "append", "propagate", "seal"}
Over == {"exit", "delete", "gone"}

\* A step that changes no segment, no registry entry and no ID, and moves a
\* worker only within these places, keeps what is said of the segments.
LEMMA SegmentsFrame ==
    ASSUME IndInv, WorkerInv', UNCHANGED <<registry, nextID, segments, active, id>>,
           \A v \in Workers : \/ pc'[v] = pc[v]
                              \/ pc[v] \in Running /\ pc'[v] \in Running
                              \/ pc[v] \in Over /\ pc'[v] \in Over
    PROVE  SegmentsInv'
  <1> USE DEF IndInv, SegmentsInv, segments, Running, Over
  <1>1. RegistryInv'
    <2>1. \A v \in Workers : /\ Holds(v)' => Holds(v)
                             /\ pc'[v] = "get" <=> pc[v] = "get"
                             /\ pc'[v] = "update" => pc[v] = "update"
      BY DEF Holds
    <2> QED
      BY <2>1 DEF RegistryInv
  <1>2. FreshIDs'
    BY UnusedFrame DEF FreshIDs
  <1>3. SealedInv'
    BY SealedFrame
  <1>4. ActiveInv'
    BY DEF ActiveInv, Done
  <1>5. NothingStranded'
    BY StrandedFrame DEF Carries, Done
  <1> QED
    BY <1>1, <1>2, <1>3, <1>4, <1>5

\* A step that leaves the requests, the leaves and the positions alone, and lets no
\* worker into or out of propagateToALL, keeps what is said of them, if what it
\* does to submissions is right and takes none back to before its request was sent.
LEMMA SubmittersFrame ==
    ASSUME IndInv, SubmissionsInv', UNCHANGED <<requests, cur, reply, leaves, mapped>>,
           \A l \in Logs : spc[l] \notin {"idle", "send"} => spc'[l] \notin {"idle", "send"},
           \A v \in Workers : pc'[v] = "propagate" <=> pc[v] = "propagate",
           \A v \in Workers : pc[v] = "propagate" => active'[v] = active[v]
    PROVE  RequestsInv'
  <1> USE ConstantsAssumption DEF IndInv, RequestsInv, TypeOK, WorkerType
  <1>1. \A l \in Logs : Waiting(l) => Waiting(l)'
    BY DEF Waiting
  <1>2. QueuesInv'
    BY <1>1, FreshFrame DEF QueuesInv
  <1>3. ServedInv'
    BY <1>1, FreshFrame DEF ServedInv
  <1>4. PropagateInv'
    BY DEF PropagateInv
  <1>5. UniqueLeaves'
    BY DEF UniqueLeaves
  <1>6. AnswersInv'
    BY LocatedFrame DEF AnswersInv
  <1> QED
    BY <1>2, <1>3, <1>4, <1>5, <1>6

\* The same for a step that does nothing to submissions either.
LEMMA RequestsFrame ==
    ASSUME IndInv, UNCHANGED <<requests, cur, spc, on, reply, leaves, mapped>>,
           \A v \in Workers : pc'[v] = "propagate" <=> pc[v] = "propagate",
           \A v \in Workers : pc[v] = "propagate" => active'[v] = active[v]
    PROVE  RequestsInv'
  <1>1. SubmissionsInv'
    BY FreshFrame DEF IndInv, RequestsInv, SubmissionsInv
  <1> QED
    BY <1>1, SubmittersFrame

\* Answering a request with an error: no one has to find its log afterwards.
LEMMA ErrorAnswer ==
    ASSUME IndInv, NEW w \in Workers, Answer(w, "error"), pc'[w] # "propagate",
           UNCHANGED <<requests, spc, on, leaves, mapped>>,
           \A v \in Workers \ {w} : pc'[v] = pc[v] /\ active'[v] = active[v]
    PROVE  RequestsInv'
  <1> USE ConstantsAssumption DEF IndInv, RequestsInv, TypeOK, WorkerType, SubmitType
  <1>1. \A v \in Workers : cur'[v] = IF v = w THEN None ELSE cur[v]
    BY DEF Answer
  <1>2. \A l \in Logs : reply'[l] = IF l = cur[w] THEN "error" ELSE reply[l]
    BY DEF Answer
  <1>3. SubmissionsInv'
    BY <1>2, FreshFrame DEF SubmissionsInv, ServedInv, Waiting
  <1>4. QueuesInv'
    BY <1>1, <1>2, FreshFrame DEF QueuesInv, Waiting
  <1>5. ServedInv'
    <2>1. ASSUME NEW v \in Workers, (cur[v] # None)'
          PROVE  (Waiting(cur[v]) /\ (pc[v] # "propagate" => Fresh(cur[v])))'
      <3>1. v # w /\ cur'[v] = cur[v] /\ cur[v] \in Logs /\ cur[v] # cur[w]
        BY <1>1, <2>1 DEF ServedInv
      <3>2. reply'[cur[v]] = reply[cur[v]]
        BY <1>2, <3>1
      <3> QED
        BY <3>1, <3>2, FreshFrame DEF ServedInv, Waiting
    <2>2. \A v, u \in Workers : (cur[v] # None /\ cur[v] = cur[u])' => v = u
      BY <1>1 DEF ServedInv
    <2> QED
      BY <2>1, <2>2 DEF ServedInv
  <1>6. PropagateInv'
    <2>1. \A v \in Workers : pc'[v] = "propagate" =>
             pc[v] = "propagate" /\ active'[v] = active[v] /\ cur'[v] = cur[v]
      BY <1>1
    <2>2. PropagateInv /\ leaves' = leaves /\ mapped' = mapped
      OBVIOUS
    <2> HIDE DEF IndInv
    <2> QED
      BY <2>1, <2>2 DEF PropagateInv
  <1>7. UniqueLeaves'
    <2>1. UniqueLeaves /\ leaves' = leaves
      OBVIOUS
    <2> HIDE DEF IndInv
    <2> QED
      BY <2>1 DEF UniqueLeaves
  <1>8. AnswersInv'
    BY <1>2, LocatedFrame DEF AnswersInv
  <1> QED
    BY <1>3, <1>4, <1>5, <1>6, <1>7, <1>8

-----------------------------------------------------------------------------
\* StopWorker.
LEMMA StopWorkerInd ==
    ASSUME IndInv, StopWorker
    PROVE  IndInv'
  <1> USE ConstantsAssumption
      DEF IndInv, SegmentsInv, RequestsInv, TypeOK, SegmentIDs, NoSegment, Segment,
          manager, segments, output, workerVars, submitVars
  <1>1. TypeOK'
    <2>1. ManagerType'
      BY DEF StopWorker, ManagerType
    <2>2. SegmentsType'
      BY DEF StopWorker, SegmentsType, WorkerType
    <2>3. OutputType'
      BY DEF StopWorker, OutputType, SegmentsType, WorkerType
    <2>4. ControlType'
      BY DEF StopWorker, ControlType, ManagerType
    <2>5. WorkerType'
      BY DEF StopWorker, WorkerType, ManagerType, SubmitType
    <2>6. SubmitType'
      BY DEF StopWorker, SubmitType, WorkerType
    <2> QED
      BY <2>1, <2>2, <2>3, <2>4, <2>5, <2>6 DEF TypeOK
  <1>2. WorkerInv'
    BY DEF StopWorker, WorkerInv, ControlType, WorkerType
  <1>3. SegmentsInv'
    BY <1>2, SegmentsFrame DEF StopWorker, ControlType, Running, Over
  <1>4. RequestsInv'
    BY RequestsFrame DEF StopWorker, ControlType
  <1> QED
    BY <1>1, <1>3, <1>4

\* A timer that fires.
LEMMA TimerFiresInd ==
    ASSUME IndInv, NEW w \in Workers, TimerFires(w)
    PROVE  IndInv'
  <1> USE ConstantsAssumption
      DEF IndInv, SegmentsInv, RequestsInv, TypeOK, SegmentIDs, NoSegment, Segment,
          manager, segments, output, workerVars, submitVars
  <1>1. TypeOK'
    <2>1. ManagerType'
      BY DEF TimerFires, ManagerType
    <2>2. SegmentsType'
      BY DEF TimerFires, SegmentsType, WorkerType
    <2>3. OutputType'
      BY DEF TimerFires, OutputType, SegmentsType, WorkerType
    <2>4. ControlType'
      BY DEF TimerFires, ControlType, ManagerType
    <2>5. WorkerType'
      BY DEF TimerFires, WorkerType, ManagerType, SubmitType
    <2>6. SubmitType'
      BY DEF TimerFires, SubmitType, WorkerType
    <2> QED
      BY <2>1, <2>2, <2>3, <2>4, <2>5, <2>6 DEF TypeOK
  <1>2. WorkerInv'
    BY DEF TimerFires, WorkerInv, ControlType, WorkerType
  <1>3. SegmentsInv'
    BY <1>2, SegmentsFrame DEF TimerFires, ControlType, Running, Over
  <1>4. RequestsInv'
    BY RequestsFrame DEF TimerFires, ControlType
  <1> QED
    BY <1>1, <1>3, <1>4

\* A worker that returns: done is closed.
LEMMA CloseDoneInd ==
    ASSUME IndInv, NEW w \in Workers, CloseDone(w)
    PROVE  IndInv'
  <1> USE ConstantsAssumption
      DEF IndInv, SegmentsInv, RequestsInv, TypeOK, SegmentIDs, NoSegment, Segment,
          manager, segments, output, workerVars, submitVars
  <1>1. TypeOK'
    <2>1. ManagerType'
      BY DEF CloseDone, ManagerType
    <2>2. SegmentsType'
      BY DEF CloseDone, SegmentsType, WorkerType
    <2>3. OutputType'
      BY DEF CloseDone, OutputType, SegmentsType, WorkerType
    <2>4. ControlType'
      BY DEF CloseDone, ControlType, ManagerType
    <2>5. WorkerType'
      BY DEF CloseDone, WorkerType, ManagerType, SubmitType
    <2>6. SubmitType'
      BY DEF CloseDone, SubmitType, WorkerType
    <2> QED
      BY <2>1, <2>2, <2>3, <2>4, <2>5, <2>6 DEF TypeOK
  <1>2. WorkerInv'
    BY DEF CloseDone, WorkerInv, ControlType, WorkerType
  <1>3. SegmentsInv'
    BY <1>2, SegmentsFrame DEF CloseDone, ControlType, Running, Over
  <1>4. RequestsInv'
    BY RequestsFrame DEF CloseDone, ControlType
  <1> QED
    BY <1>1, <1>3, <1>4

\* A worker that returns: it leaves hm.workers.
LEMMA DeleteWorkerInd ==
    ASSUME IndInv, NEW w \in Workers, DeleteWorker(w)
    PROVE  IndInv'
  <1> USE ConstantsAssumption
      DEF IndInv, SegmentsInv, RequestsInv, TypeOK, SegmentIDs, NoSegment, Segment,
          manager, segments, output, workerVars, submitVars
  <1>1. TypeOK'
    <2>1. ManagerType'
      BY DEF DeleteWorker, ManagerType
    <2>2. SegmentsType'
      BY DEF DeleteWorker, SegmentsType, WorkerType
    <2>3. OutputType'
      BY DEF DeleteWorker, OutputType, SegmentsType, WorkerType
    <2>4. ControlType'
      BY DEF DeleteWorker, ControlType, ManagerType
    <2>5. WorkerType'
      BY DEF DeleteWorker, WorkerType, ManagerType, SubmitType
    <2>6. SubmitType'
      BY DEF DeleteWorker, SubmitType, WorkerType
    <2> QED
      BY <2>1, <2>2, <2>3, <2>4, <2>5, <2>6 DEF TypeOK
  <1>2. WorkerInv'
    BY DEF DeleteWorker, WorkerInv, ControlType, WorkerType
  <1>3. SegmentsInv'
    BY <1>2, SegmentsFrame DEF DeleteWorker, ControlType, Running, Over
  <1>4. RequestsInv'
    BY RequestsFrame DEF DeleteWorker, ControlType
  <1> QED
    BY <1>1, <1>3, <1>4

\* The persister takes an update.
LEMMA PersistUpdateInd ==
    ASSUME IndInv, PersistUpdate
    PROVE  IndInv'
  <1> USE ConstantsAssumption
      DEF IndInv, SegmentsInv, RequestsInv, TypeOK, SegmentIDs, NoSegment, Segment,
          manager, segments, output, workerVars, submitVars
  <1>1. TypeOK'
    <2>1. ManagerType'
      BY DEF PersistUpdate, ManagerType
    <2>2. SegmentsType'
      BY DEF PersistUpdate, SegmentsType, WorkerType
    <2>3. OutputType'
      <3>1. updates \in Seq(SegmentIDs) /\ persisted \in Seq(SegmentIDs) /\ updates # <<>>
        BY DEF PersistUpdate, OutputType
      <3>2. Head(updates) \in SegmentIDs /\ Tail(updates) \in Seq(SegmentIDs)
        BY <3>1
      <3>3. Append(persisted, Head(updates)) \in Seq(SegmentIDs)
        BY <3>1, <3>2
      <3> QED
        BY <3>2, <3>3 DEF PersistUpdate, OutputType
    <2>4. ControlType'
      BY DEF PersistUpdate, ControlType, ManagerType
    <2>5. WorkerType'
      BY DEF PersistUpdate, WorkerType, ManagerType, SubmitType
    <2>6. SubmitType'
      BY DEF PersistUpdate, SubmitType, WorkerType
    <2> QED
      BY <2>1, <2>2, <2>3, <2>4, <2>5, <2>6 DEF TypeOK
  <1>2. WorkerInv'
    BY DEF PersistUpdate, WorkerInv, ControlType, WorkerType
  <1>3. SegmentsInv'
    BY <1>2, SegmentsFrame DEF PersistUpdate, ControlType, Running, Over
  <1>4. RequestsInv'
    BY RequestsFrame DEF PersistUpdate, ControlType
  <1> QED
    BY <1>1, <1>3, <1>4

\* ALL or the persister stops.
LEMMA GoDownInd ==
    ASSUME IndInv, NEW f \in Faults, GoDown(f)
    PROVE  IndInv'
  <1> USE ConstantsAssumption
      DEF IndInv, SegmentsInv, RequestsInv, TypeOK, SegmentIDs, NoSegment, Segment,
          manager, segments, output, workerVars, submitVars
  <1>1. TypeOK'
    <2>1. ManagerType'
      BY DEF GoDown, ManagerType
    <2>2. SegmentsType'
      BY DEF GoDown, SegmentsType, WorkerType
    <2>3. OutputType'
      BY DEF GoDown, OutputType, SegmentsType, WorkerType
    <2>4. ControlType'
      BY DEF GoDown, ControlType, ManagerType
    <2>5. WorkerType'
      BY DEF GoDown, WorkerType, ManagerType, SubmitType
    <2>6. SubmitType'
      BY DEF GoDown, SubmitType, WorkerType
    <2> QED
      BY <2>1, <2>2, <2>3, <2>4, <2>5, <2>6 DEF TypeOK
  <1>2. WorkerInv'
    BY DEF GoDown, WorkerInv, ControlType, WorkerType
  <1>3. SegmentsInv'
    BY <1>2, SegmentsFrame DEF GoDown, ControlType, Running, Over
  <1>4. RequestsInv'
    BY RequestsFrame DEF GoDown, ControlType
  <1> QED
    BY <1>1, <1>3, <1>4

\* getOrStartWorker, with the registered worker or a new one.
LEMMA GetOrStartWorkerInd ==
    ASSUME IndInv, NEW l \in Logs, NEW w \in Workers, GetOrStartWorker(l, w)
    PROVE  IndInv'
  <1> USE ConstantsAssumption
      DEF IndInv, SegmentsInv, RequestsInv, TypeOK, SegmentIDs, NoSegment, Segment,
          manager, segments, output, workerVars, submitVars
  <1>1. TypeOK'
    <2>1. ManagerType'
      BY DEF GetOrStartWorker, ManagerType
    <2>2. SegmentsType'
      BY DEF GetOrStartWorker, SegmentsType, WorkerType
    <2>3. OutputType'
      BY DEF GetOrStartWorker, OutputType, SegmentsType, WorkerType
    <2>4. ControlType'
      BY DEF GetOrStartWorker, ControlType, ManagerType
    <2>5. WorkerType'
      BY DEF GetOrStartWorker, WorkerType, ManagerType, SubmitType
    <2>6. SubmitType'
      BY DEF GetOrStartWorker, SubmitType, WorkerType
    <2> QED
      BY <2>1, <2>2, <2>3, <2>4, <2>5, <2>6 DEF TypeOK
  <1>2. WorkerInv'
    BY DEF GetOrStartWorker, WorkerInv, ControlType, WorkerType
  <1>3. SegmentsInv'
    BY <1>2, SegmentsFrame DEF GetOrStartWorker, ControlType, Running, Over
  <1>4. RequestsInv'
    <2>1. SubmissionsInv'
      BY FreshFrame DEF GetOrStartWorker, SubmissionsInv, SubmitType
    <2> QED
      BY <2>1, SubmittersFrame DEF GetOrStartWorker, ControlType, SubmitType
  <1> QED
    BY <1>1, <1>3, <1>4

\* SubmitLog returns, for each of its three reasons.
LEMMA ReturnInd ==
    ASSUME IndInv, NEW l \in Logs, ReceiveResult(l) \/ WorkerStopped(l) \/ Canceled(l)
    PROVE  IndInv'
  <1> USE ConstantsAssumption
      DEF IndInv, SegmentsInv, RequestsInv, TypeOK, SegmentIDs, NoSegment, Segment,
          manager, segments, output, workerVars, submitVars
  <1>1. TypeOK'
    <2>1. ManagerType'
      BY DEF ReceiveResult, WorkerStopped, Canceled, Return, ManagerType
    <2>2. SegmentsType'
      BY DEF ReceiveResult, WorkerStopped, Canceled, Return, SegmentsType, WorkerType
    <2>3. OutputType'
      BY DEF ReceiveResult, WorkerStopped, Canceled, Return, OutputType, SegmentsType, WorkerType
    <2>4. ControlType'
      BY DEF ReceiveResult, WorkerStopped, Canceled, Return, ControlType, ManagerType
    <2>5. WorkerType'
      BY DEF ReceiveResult, WorkerStopped, Canceled, Return, WorkerType, ManagerType, SubmitType
    <2>6. SubmitType'
      BY DEF ReceiveResult, WorkerStopped, Canceled, Return, SubmitType, WorkerType
    <2> QED
      BY <2>1, <2>2, <2>3, <2>4, <2>5, <2>6 DEF TypeOK
  <1>2. WorkerInv'
    BY DEF ReceiveResult, WorkerStopped, Canceled, Return, WorkerInv, ControlType, WorkerType
  <1>3. SegmentsInv'
    BY <1>2, SegmentsFrame DEF ReceiveResult, WorkerStopped, Canceled, Return, ControlType, Running, Over
  <1>4. RequestsInv'
    <2>1. SubmissionsInv'
      BY FreshFrame DEF ReceiveResult, WorkerStopped, Canceled, Return, SubmissionsInv, SubmitType
    <2> QED
      BY <2>1, SubmittersFrame DEF ReceiveResult, WorkerStopped, Canceled, Return, SubmitType
  <1> QED
    BY <1>1, <1>3, <1>4

\* worker.requests <- request: the request is in no queue and with no worker yet.
LEMMA SendRequestInd ==
    ASSUME IndInv, NEW l \in Logs, SendRequest(l)
    PROVE  IndInv'
  <1> USE ConstantsAssumption
      DEF IndInv, SegmentsInv, RequestsInv, TypeOK, SegmentIDs, NoSegment, Segment,
          manager, segments, output, workerVars, submitVars
  <1>1. TypeOK'
    <2>1. ManagerType'
      BY DEF SendRequest, ManagerType
    <2>2. SegmentsType'
      BY DEF SendRequest, SegmentsType, WorkerType
    <2>3. OutputType'
      BY DEF SendRequest, OutputType, SegmentsType, WorkerType
    <2>4. ControlType'
      BY DEF SendRequest, ControlType, ManagerType
    <2>5. WorkerType'
      BY DEF SendRequest, WorkerType, SubmitType, SubmissionsInv
    <2>6. SubmitType'
      BY DEF SendRequest, SubmitType, WorkerType
    <2> QED
      BY <2>1, <2>2, <2>3, <2>4, <2>5, <2>6 DEF TypeOK
  <1>2. WorkerInv'
    BY DEF SendRequest, WorkerInv, ControlType, WorkerType
  <1>3. SegmentsInv'
    BY <1>2, SegmentsFrame DEF SendRequest, ControlType, Running, Over
  <1>4. RequestsInv'
    <2> DEFINE o == on[l]
    <2>1. o \in Workers /\ Fresh(l) /\ reply[l] = "none"
      BY DEF SendRequest, SubmissionsInv
    <2>2. /\ UNCHANGED <<cur, on, reply, leaves, mapped, pc, active>>
          /\ spc' = [spc EXCEPT ![l] = "wait"]
          /\ \A v \in Workers : requests'[v] = IF v = o THEN Append(requests[v], l) ELSE requests[v]
      BY <2>1 DEF SendRequest, WorkerType
    <2>3. ~Waiting(l) /\ Waiting(l)' /\ \A k \in Logs : Waiting(k) => Waiting(k)'
      BY <2>1, <2>2 DEF SendRequest, Waiting, SubmitType
    <2>4. \A v \in Workers : \A i \in 1..Len(requests[v]) :
             requests[v][i] \in Logs /\ requests[v][i] # l
      BY <2>3 DEF QueuesInv, WorkerType
    <2>5. \A v \in Workers : cur[v] # l
      BY <2>3 DEF ServedInv
    <2> HIDE DEF o
    <2>6. ASSUME NEW v \in Workers, NEW i \in 1..Len(requests'[v])
          PROVE  \/ i \in 1..Len(requests[v]) /\ requests'[v][i] = requests[v][i]
                 \/ v = o /\ i = Len(requests[v]) + 1 /\ requests'[v][i] = l
      <3>1. requests[v] \in Seq(Logs)
        BY DEF WorkerType
      <3>2. CASE v = o
        <4>1. requests'[v] = Append(requests[v], l)
          BY <2>2, <3>2
        <4> QED
          BY <3>1, <3>2, <4>1
      <3>3. CASE v # o
        BY <2>2, <3>3
      <3> QED
        BY <3>2, <3>3
    <2>7. SubmissionsInv'
      BY <2>1, <2>2, FreshFrame DEF SubmissionsInv, SubmitType, o
    <2>8. QueuesInv'
      <3>1. ASSUME NEW v \in Workers, NEW i \in 1..Len(requests'[v])
            PROVE  /\ (Fresh(requests[v][i]) /\ Waiting(requests[v][i]))'
                   /\ \A u \in Workers : cur'[u] # requests'[v][i]
        BY <2>1, <2>2, <2>3, <2>4, <2>5, <2>6, FreshFrame DEF QueuesInv
      <3>2. ASSUME NEW v \in Workers, NEW u \in Workers,
                   NEW i \in 1..Len(requests'[v]), NEW j \in 1..Len(requests'[u]),
                   requests'[v][i] = requests'[u][j]
            PROVE  v = u /\ i = j
        <4>1. CASE i \in 1..Len(requests[v]) /\ requests'[v][i] = requests[v][i]
          <5>1. requests[v][i] # l
            BY <2>4, <4>1
          <5>2. j \in 1..Len(requests[u]) /\ requests'[u][j] = requests[u][j]
            BY <2>6, <3>2, <4>1, <5>1
          <5>3. requests[v][i] = requests[u][j]
            BY <3>2, <4>1, <5>2
          <5> QED
            BY <4>1, <5>2, <5>3 DEF QueuesInv
        <4>2. CASE v = o /\ i = Len(requests[v]) + 1 /\ requests'[v][i] = l
          BY <2>4, <2>6, <3>2, <4>2
        <4> QED
          BY <2>6, <4>1, <4>2
      <3> QED
        BY <3>1, <3>2 DEF QueuesInv
    <2>9. ServedInv'
      BY <2>2, <2>3, FreshFrame DEF ServedInv, WorkerType
    <2>10. PropagateInv'
      BY <2>2 DEF PropagateInv
    <2>11. UniqueLeaves'
      BY <2>2 DEF UniqueLeaves
    <2>12. AnswersInv'
      BY <2>2, LocatedFrame DEF AnswersInv
    <2> QED
      BY <2>7, <2>8, <2>9, <2>10, <2>11, <2>12
  <1> QED
    BY <1>1, <1>3, <1>4

\* A worker takes a request: it leaves the queue and is with this worker alone.
LEMMA TakeRequestInd ==
    ASSUME IndInv, NEW w \in Workers, TakeRequest(w)
    PROVE  IndInv'
  <1> USE ConstantsAssumption
      DEF IndInv, SegmentsInv, RequestsInv, TypeOK, SegmentIDs, NoSegment, Segment,
          manager, segments, output, workerVars, submitVars
  <1>1. TypeOK'
    <2>1. ManagerType'
      BY DEF TakeRequest, ManagerType
    <2>2. SegmentsType'
      BY DEF TakeRequest, SegmentsType, WorkerType
    <2>3. OutputType'
      BY DEF TakeRequest, OutputType, SegmentsType, WorkerType
    <2>4. ControlType'
      BY DEF TakeRequest, ControlType, ManagerType
    <2>5. WorkerType'
      BY DEF TakeRequest, WorkerType, ManagerType, SubmitType
    <2>6. SubmitType'
      BY DEF TakeRequest, SubmitType, WorkerType
    <2> QED
      BY <2>1, <2>2, <2>3, <2>4, <2>5, <2>6 DEF TypeOK
  <1>2. WorkerInv'
    BY DEF TakeRequest, WorkerInv, ControlType, WorkerType
  <1>3. SegmentsInv'
    BY <1>2, SegmentsFrame DEF TakeRequest, ControlType, Running, Over
  <1>4. RequestsInv'
    <2> DEFINE l == Head(requests[w])
    <2>1. requests[w] \in Seq(Logs) /\ 1 \in 1..Len(requests[w]) /\ l = requests[w][1] /\ l \in Logs
      BY DEF TakeRequest, WorkerType
    <2>2. /\ UNCHANGED <<spc, on, reply, leaves, mapped, active>>
          /\ \A v \in Workers : cur'[v] = IF v = w THEN l ELSE cur[v]
          /\ \A v \in Workers : requests'[v] = IF v = w THEN Tail(requests[w]) ELSE requests[v]
          /\ \A v \in Workers : v # w => pc'[v] = pc[v]
          /\ pc'[w] # "propagate"
      BY DEF TakeRequest, WorkerType, ControlType
    <2>3. Fresh(l) /\ Waiting(l) /\ \A v \in Workers : cur[v] # l
      BY <2>1 DEF QueuesInv
    <2> HIDE DEF l
    <2>4. ASSUME NEW v \in Workers, NEW i \in 1..Len(requests'[v])
          PROVE  /\ v = w => i + 1 \in 1..Len(requests[w]) /\ requests'[v][i] = requests[w][i + 1]
                 /\ v # w => i \in 1..Len(requests[v]) /\ requests'[v][i] = requests[v][i]
      <3>1. CASE v = w
        <4>1. requests'[v] = Tail(requests[w])
          BY <2>2, <3>1
        <4>2. Len(Tail(requests[w])) = Len(requests[w]) - 1
          BY <2>1
        <4>3. i + 1 \in 1..Len(requests[w])
          BY <2>1, <4>1, <4>2
        <4> QED
          BY <2>1, <3>1, <4>1, <4>3
      <3>2. CASE v # w
        BY <2>2, <3>2
      <3> QED
        BY <3>1, <3>2
    <2>5. SubmissionsInv'
      BY <2>2, FreshFrame DEF SubmissionsInv
    <2>6. QueuesInv'
      <3>1. ASSUME NEW v \in Workers, NEW i \in 1..Len(requests'[v])
            PROVE  /\ (Fresh(requests[v][i]) /\ Waiting(requests[v][i]))'
                   /\ \A u \in Workers : cur'[u] # requests'[v][i]
        <4> DEFINE k == IF v = w THEN i + 1 ELSE i
        <4>1. k \in 1..Len(requests[v]) /\ requests'[v][i] = requests[v][k]
          BY <2>4
        <4>2. v = w => k # 1
          BY <2>4
        <4> HIDE DEF k
        <4>3. Fresh(requests[v][k]) /\ Waiting(requests[v][k]) /\ \A u \in Workers : cur[u] # requests[v][k]
          BY <4>1 DEF QueuesInv
        <4>4. requests[v][k] # l
          BY <2>1, <4>1, <4>2 DEF QueuesInv
        <4> QED
          BY <2>2, <4>1, <4>3, <4>4, FreshFrame DEF Waiting
      <3>2. ASSUME NEW v \in Workers, NEW u \in Workers,
                   NEW i \in 1..Len(requests'[v]), NEW j \in 1..Len(requests'[u]),
                   requests'[v][i] = requests'[u][j]
            PROVE  v = u /\ i = j
        BY <2>4, <3>2 DEF QueuesInv
      <3> QED
        BY <3>1, <3>2 DEF QueuesInv
    <2>7. ServedInv'
      <3>1. ASSUME NEW v \in Workers, (cur[v] # None)'
            PROVE  (Waiting(cur[v]) /\ (pc[v] # "propagate" => Fresh(cur[v])))'
        BY <2>2, <2>3, <3>1, FreshFrame DEF ServedInv, Waiting
      <3>2. \A v, u \in Workers : (cur[v] # None /\ cur[v] = cur[u])' => v = u
        BY <2>2, <2>3 DEF ServedInv
      <3> QED
        BY <3>1, <3>2 DEF ServedInv
    <2>8. PropagateInv'
      BY <2>2 DEF PropagateInv
    <2>9. UniqueLeaves'
      BY <2>2 DEF UniqueLeaves
    <2>10. AnswersInv'
      BY <2>2, LocatedFrame DEF AnswersInv
    <2> QED
      BY <2>5, <2>6, <2>7, <2>8, <2>9, <2>10
  <1> QED
    BY <1>1, <1>3, <1>4

\* nextSegmentID: the ID is unused, and no one has been given it.
LEMMA NextSegmentIDInd ==
    ASSUME IndInv, NEW w \in Workers, NextSegmentID(w)
    PROVE  IndInv'
  <1> USE ConstantsAssumption
      DEF IndInv, SegmentsInv, RequestsInv, TypeOK, SegmentIDs, NoSegment, Segment,
          manager, segments, output, workerVars, submitVars
  <1>1. TypeOK'
    <2>1. ManagerType'
      BY DEF NextSegmentID, ManagerType
    <2>2. SegmentsType'
      BY DEF NextSegmentID, SegmentsType, WorkerType
    <2>3. OutputType'
      BY DEF NextSegmentID, OutputType, SegmentsType, WorkerType
    <2>4. ControlType'
      BY DEF NextSegmentID, ControlType, ManagerType
    <2>5. WorkerType'
      BY DEF NextSegmentID, WorkerType, ManagerType, SubmitType
    <2>6. SubmitType'
      BY DEF NextSegmentID, SubmitType, WorkerType
    <2> QED
      BY <2>1, <2>2, <2>3, <2>4, <2>5, <2>6 DEF TypeOK
  <1>2. WorkerInv'
    BY DEF NextSegmentID, WorkerInv, ControlType, WorkerType, ManagerType
  <1>3. SegmentsInv'
    <2>1. RegistryInv'
      BY DEF NextSegmentID, RegistryInv, Holds, WorkerInv, ControlType, WorkerType
    <2>2. FreshIDs'
      <3>1. /\ UNCHANGED <<leaves, treeSealed, registry, active>> /\ nextID' = nextID + 1
            /\ \A v \in Workers : v # w => pc'[v] = pc[v] /\ id'[v] = id[v]
            /\ id'[w] = nextID /\ nextID \in 0..MaxSegmentID
        BY DEF NextSegmentID, ControlType, WorkerType, ManagerType
      <3>2. \A s : Unused(s) => Unused(s)'
        BY <3>1, UnusedFrame
      <3>3. \A v \in Workers : v # w /\ pc'[v] = "open" => id'[v] \in 0..nextID - 1
        BY <3>1 DEF FreshIDs, WorkerInv, WorkerType
      <3>4. \A s \in SegmentIDs : s >= nextID' => Unused(s)'
        BY <3>1, <3>2 DEF FreshIDs
      <3>5. ASSUME NEW v \in Workers, pc'[v] = "open"
            PROVE  (id[v] < nextID /\ Unused(id[v]))'
        BY <3>1, <3>2, <3>3, <3>5 DEF FreshIDs
      <3>6. ASSUME NEW v \in Workers, NEW u \in Workers, v # u, pc'[v] = "open", pc'[u] = "open"
            PROVE  id'[v] # id'[u]
        BY <3>1, <3>3, <3>6 DEF FreshIDs
      <3> QED
        BY <3>4, <3>5, <3>6 DEF FreshIDs
    <2>3. SealedInv'
      BY SealedFrame DEF NextSegmentID
    <2>4. ActiveInv'
      BY DEF NextSegmentID, ActiveInv, Done, ControlType, WorkerInv
    <2>5. NothingStranded'
      BY StrandedFrame DEF NextSegmentID, Carries, Done, ControlType, WorkerInv
    <2> QED
      BY <1>2, <2>1, <2>2, <2>3, <2>4, <2>5
  <1>4. RequestsInv'
    BY RequestsFrame DEF NextSegmentID, ControlType
  <1> QED
    BY <1>1, <1>3, <1>4

\* A worker sees its stop channel: it drops at most an empty segment.
LEMMA SeeStopInd ==
    ASSUME IndInv, NEW w \in Workers, SeeStop(w)
    PROVE  IndInv'
  <1> USE ConstantsAssumption
      DEF IndInv, SegmentsInv, RequestsInv, TypeOK, SegmentIDs, NoSegment, Segment,
          manager, segments, output, workerVars, submitVars
  <1>1. TypeOK'
    <2>1. ManagerType'
      BY DEF SeeStop, ManagerType
    <2>2. SegmentsType'
      BY DEF SeeStop, SegmentsType, WorkerType
    <2>3. OutputType'
      BY DEF SeeStop, OutputType, SegmentsType, WorkerType
    <2>4. ControlType'
      BY DEF SeeStop, ControlType, ManagerType
    <2>5. WorkerType'
      BY DEF SeeStop, WorkerType, ManagerType, SubmitType
    <2>6. SubmitType'
      BY DEF SeeStop, SubmitType, WorkerType
    <2> QED
      BY <2>1, <2>2, <2>3, <2>4, <2>5, <2>6 DEF TypeOK
  <1>2. WorkerInv'
    BY DEF SeeStop, WorkerInv, ControlType, WorkerType
  <1>3. SegmentsInv'
    <2>1. RegistryInv'
      BY DEF SeeStop, RegistryInv, Holds, ControlType
    <2>2. FreshIDs'
      BY UnusedFrame DEF SeeStop, FreshIDs, ControlType
    <2>3. SealedInv'
      BY SealedFrame DEF SeeStop
    <2>4. ActiveInv'
      BY DEF SeeStop, ActiveInv, Done, ControlType
    <2>5. NothingStranded'
      BY StrandedFrame DEF SeeStop, Carries, Done, ControlType
    <2> QED
      BY <1>2, <2>1, <2>2, <2>3, <2>4, <2>5
  <1>4. RequestsInv'
    BY RequestsFrame DEF SeeStop, ControlType
  <1> QED
    BY <1>1, <1>3, <1>4

\* openSegment: the new tree is empty and no worker holds the entry, or the open fails.
LEMMA OpenSegmentInd ==
    ASSUME IndInv, NEW w \in Workers, OpenSegment(w)
    PROVE  IndInv'
  <1> USE ConstantsAssumption
      DEF IndInv, SegmentsInv, RequestsInv, TypeOK, SegmentIDs, NoSegment, Segment,
          manager, segments, output, workerVars, submitVars
  <1>1. TypeOK'
    <2>1. ManagerType'
      BY DEF OpenSegment, Answer, ManagerType, WorkerType
    <2>2. SegmentsType'
      BY DEF OpenSegment, Answer, SegmentsType, WorkerType
    <2>3. OutputType'
      BY DEF OpenSegment, Answer, OutputType, SegmentsType, WorkerType
    <2>4. ControlType'
      BY DEF OpenSegment, Answer, ControlType, ManagerType
    <2>5. WorkerType'
      BY DEF OpenSegment, Answer, WorkerType, ManagerType, SubmitType
    <2>6. SubmitType'
      BY DEF OpenSegment, Answer, SubmitType, WorkerType
    <2> QED
      BY <2>1, <2>2, <2>3, <2>4, <2>5, <2>6 DEF TypeOK
  <1>2. WorkerInv'
    BY DEF OpenSegment, Answer, WorkerInv, ControlType, WorkerType
  <1>3. SegmentsInv'
    <2>1. CASE registry = NoSegment
      <3>1. /\ UNCHANGED <<leaves, treeSealed, shard, nextID, active, id>>
            /\ registry' = id[w] /\ id[w] \in SegmentIDs /\ pc[w] = "open" /\ pc'[w] = "get"
            /\ \A v \in Workers : v # w => pc'[v] = pc[v]
        BY <2>1 DEF OpenSegment, ControlType, WorkerInv, WorkerType
      <3>2. Unused(id[w]) /\ id[w] < nextID
        BY <3>1 DEF FreshIDs
      <3>3. \A v \in Workers : ~Holds(v)
        BY <2>1 DEF RegistryInv, Holds, WorkerInv
      <3>4. RegistryInv'
        <4>1. \A v \in Workers : Holds(v)' => v = w
          BY <3>1, <3>3 DEF Holds
        <4> QED
          BY <3>1, <3>2, <4>1 DEF RegistryInv, Unused
      <3>5. FreshIDs'
        <4>1. \A s \in SegmentIDs : Unused(s) /\ s # id[w] => Unused(s)'
          BY <3>1 DEF Unused
        <4>2. \A s \in SegmentIDs : s >= nextID' => Unused(s)'
          BY <3>1, <3>2, <4>1 DEF FreshIDs, ManagerType
        <4>3. \A v \in Workers : pc'[v] = "open" => v # w /\ pc[v] = "open" /\ id[v] \in SegmentIDs
          BY <3>1 DEF WorkerInv, WorkerType
        <4> QED
          BY <3>1, <4>1, <4>2, <4>3 DEF FreshIDs
      <3>6. SealedInv'
        BY <3>1, SealedFrame
      <3>7. ActiveInv'
        BY <3>1, <3>2 DEF ActiveInv, Done, Unused
      <3>8. NothingStranded'
        BY <3>1, StrandedFrame DEF Carries, Done
      <3> QED
        BY <1>2, <3>4, <3>5, <3>6, <3>7, <3>8
    <2>2. CASE registry # NoSegment
      <3>1. /\ UNCHANGED <<leaves, treeSealed, shard, registry, nextID, active>>
            /\ pc[w] = "open" /\ pc'[w] = "select" /\ active[w] = NoSegment
            /\ \A v \in Workers : v # w => pc'[v] = pc[v] /\ id'[v] = id[v]
        BY <2>2 DEF OpenSegment, ControlType, WorkerInv, WorkerType
      <3>2. RegistryInv'
        <4>1. \A v \in Workers : Holds(v)' => v # w /\ Holds(v)
          BY <3>1 DEF Holds
        <4> QED
          BY <3>1, <4>1 DEF RegistryInv
      <3>3. FreshIDs'
        <4>1. \A v \in Workers : pc'[v] = "open" => v # w /\ pc[v] = "open" /\ id'[v] = id[v]
          BY <3>1
        <4> QED
          BY <3>1, <4>1, UnusedFrame DEF FreshIDs
      <3>4. SealedInv'
        BY <3>1, SealedFrame
      <3>5. ActiveInv'
        BY <3>1 DEF ActiveInv, Done
      <3>6. NothingStranded'
        BY <3>1, StrandedFrame DEF Carries, Done
      <3> QED
        BY <1>2, <3>2, <3>3, <3>4, <3>5, <3>6
    <2> QED
      BY <2>1, <2>2
  <1>4. RequestsInv'
    <2>1. CASE registry = NoSegment
      BY <2>1, RequestsFrame DEF OpenSegment, ControlType
    <2>2. CASE registry # NoSegment
      BY <2>2, ErrorAnswer DEF OpenSegment, ControlType
    <2> QED
      BY <2>1, <2>2
  <1> QED
    BY <1>1, <1>3, <1>4

\* getActiveSegment: the entry is still the segment this worker has just opened.
LEMMA GetActiveSegmentInd ==
    ASSUME IndInv, NEW w \in Workers, GetActiveSegment(w)
    PROVE  IndInv'
  <1> USE ConstantsAssumption
      DEF IndInv, SegmentsInv, RequestsInv, TypeOK, SegmentIDs, NoSegment, Segment,
          manager, segments, output, workerVars, submitVars
  <1>5. registry = id[w] /\ registry # NoSegment /\ Holds(w) /\ pc[w] = "get"
    BY DEF GetActiveSegment, RegistryInv, Holds, WorkerInv
  <1>1. TypeOK'
    <2>1. ManagerType'
      BY DEF GetActiveSegment, ManagerType
    <2>2. SegmentsType'
      BY DEF GetActiveSegment, SegmentsType, WorkerType
    <2>3. OutputType'
      BY DEF GetActiveSegment, OutputType, SegmentsType, WorkerType
    <2>4. ControlType'
      BY <1>5 DEF GetActiveSegment, ControlType, ManagerType
    <2>5. WorkerType'
      BY <1>5 DEF GetActiveSegment, WorkerType, ManagerType, SubmitType
    <2>6. SubmitType'
      BY <1>5 DEF GetActiveSegment, SubmitType, WorkerType
    <2> QED
      BY <2>1, <2>2, <2>3, <2>4, <2>5, <2>6 DEF TypeOK
  <1>2. WorkerInv'
    BY <1>5 DEF GetActiveSegment, WorkerInv, ControlType, WorkerType
  <1>3. SegmentsInv'
    <2>1. /\ UNCHANGED <<leaves, treeSealed, shard, registry, nextID>>
          /\ pc[w] = "get" /\ pc'[w] \in {"append", "select"} /\ active[w] = NoSegment
          /\ active'[w] = registry
          /\ \A v \in Workers : v # w => pc'[v] = pc[v] /\ id'[v] = id[v] /\ active'[v] = active[v]
      BY <1>5 DEF GetActiveSegment, ControlType, WorkerInv, WorkerType
    <2>2. \A v \in Workers : v # w => ~Holds(v) /\ active[v] # registry
      BY <1>5 DEF RegistryInv, Holds
    <2>3. RegistryInv'
      <3>1. \A v \in Workers : Holds(v)' => v = w
        BY <2>1, <2>2 DEF Holds
      <3> QED
        BY <2>1, <2>2, <3>1 DEF RegistryInv
    <2>4. FreshIDs'
      <3>1. \A s : Unused(s) => Unused(s)'
        BY <2>1 DEF Unused
      <3>2. \A v \in Workers : pc'[v] = "open" => v # w /\ pc[v] = "open" /\ id'[v] = id[v]
        BY <2>1
      <3> QED
        BY <2>1, <3>1, <3>2 DEF FreshIDs
    <2>5. SealedInv'
      BY <2>1, SealedFrame
    <2>6. ActiveInv'
      BY <1>5, <2>1 DEF ActiveInv, Done
    <2>7. NothingStranded'
      BY <2>1, StrandedFrame DEF Carries, Done
    <2> QED
      BY <1>2, <2>3, <2>4, <2>5, <2>6, <2>7
  <1>4. RequestsInv'
    BY <1>5, RequestsFrame DEF GetActiveSegment, ControlType, WorkerType
  <1> QED
    BY <1>1, <1>3, <1>4

\* AppendSealedSegment: the segment is sealed and not in the shard tree yet.
LEMMA AppendSealedSegmentInd ==
    ASSUME IndInv, NEW w \in Workers, AppendSealedSegment(w)
    PROVE  IndInv'
  <1> USE ConstantsAssumption
      DEF IndInv, SegmentsInv, RequestsInv, TypeOK, SegmentIDs, NoSegment, Segment,
          manager, segments, output, workerVars, submitVars
  <1>1. TypeOK'
    <2>1. ManagerType'
      BY DEF AppendSealedSegment, ManagerType
    <2>2. SegmentsType'
      BY DEF AppendSealedSegment, SegmentsType, WorkerType, WorkerInv
    <2>3. OutputType'
      BY DEF AppendSealedSegment, OutputType, SegmentsType, WorkerType
    <2>4. ControlType'
      BY DEF AppendSealedSegment, ControlType, ManagerType
    <2>5. WorkerType'
      BY DEF AppendSealedSegment, WorkerType, ManagerType, SubmitType
    <2>6. SubmitType'
      BY DEF AppendSealedSegment, SubmitType, WorkerType
    <2> QED
      BY <2>1, <2>2, <2>3, <2>4, <2>5, <2>6 DEF TypeOK
  <1>2. WorkerInv'
    BY DEF AppendSealedSegment, WorkerInv, ControlType, WorkerType
  <1>3. SegmentsInv'
    <2>1. /\ UNCHANGED <<leaves, treeSealed, registry, nextID, active, id>>
          /\ pc[w] = "hmf" /\ pc'[w] = "unregister" /\ id[w] = active[w]
          /\ \A v \in Workers : v # w => pc'[v] = pc[v]
          /\ active[w] \in SegmentIDs /\ active[w] \in treeSealed \ Range(shard)
      BY DEF AppendSealedSegment, ControlType, WorkerType, WorkerInv, ActiveInv
    <2>2. /\ shard \in Seq(SegmentIDs) /\ shard' = Append(shard, active[w])
          /\ DOMAIN shard = 1..Len(shard) /\ DOMAIN shard' = 1..(Len(shard) + 1)
          /\ \A i \in 1..Len(shard) : shard'[i] = shard[i]
          /\ shard'[Len(shard) + 1] = active[w]
      BY <2>1 DEF AppendSealedSegment, SegmentsType
    <2>3. Range(shard)' = Range(shard) \cup {active[w]}
      BY <2>2 DEF Range
    <2>4. RegistryInv'
      <3>1. \A v \in Workers : Holds(v)' <=> Holds(v)
        BY <2>1 DEF Holds
      <3> QED
        BY <2>1, <3>1 DEF RegistryInv
    <2>5. FreshIDs'
      BY <2>1, UnusedFrame DEF FreshIDs
    <2>6. SealedInv'
      <3>1. \A i, j \in DOMAIN shard' : shard'[i] = shard'[j] => i = j
        BY <2>1, <2>2 DEF SealedInv, Range
      <3>2. \A i \in DOMAIN shard' : shard'[i] \in treeSealed'
        BY <2>1, <2>2 DEF SealedInv
      <3> QED
        BY <2>1, <3>1, <3>2 DEF SealedInv
    <2>7. ActiveInv'
      <3>1. \A v \in Workers : v # w /\ pc[v] = "hmf" => active[v] # active[w]
        BY <2>1 DEF RegistryInv, Holds, WorkerInv
      <3> QED
        BY <2>1, <2>3, <3>1 DEF ActiveInv, Done
    <2>8. NothingStranded'
      <3>1. \A v \in Workers, s \in SegmentIDs : Carries(v, s) => Carries(v, s)'
        BY <2>1 DEF Carries, Done
      <3> QED
        BY <2>1, <2>3, <3>1 DEF NothingStranded
    <2> QED
      BY <1>2, <2>4, <2>5, <2>6, <2>7, <2>8
  <1>4. RequestsInv'
    BY RequestsFrame DEF AppendSealedSegment, ControlType
  <1> QED
    BY <1>1, <1>3, <1>4

\* delete(hm.ActiveSegments, ...): the entry is the segment of this worker.
LEMMA UnregisterInd ==
    ASSUME IndInv, NEW w \in Workers, Unregister(w)
    PROVE  IndInv'
  <1> USE ConstantsAssumption
      DEF IndInv, SegmentsInv, RequestsInv, TypeOK, SegmentIDs, NoSegment, Segment,
          manager, segments, output, workerVars, submitVars
  <1>1. TypeOK'
    <2>1. ManagerType'
      BY DEF Unregister, ManagerType
    <2>2. SegmentsType'
      BY DEF Unregister, SegmentsType, WorkerType
    <2>3. OutputType'
      BY DEF Unregister, OutputType, SegmentsType, WorkerType
    <2>4. ControlType'
      BY DEF Unregister, ControlType, ManagerType
    <2>5. WorkerType'
      BY DEF Unregister, WorkerType, ManagerType, SubmitType
    <2>6. SubmitType'
      BY DEF Unregister, SubmitType, WorkerType
    <2> QED
      BY <2>1, <2>2, <2>3, <2>4, <2>5, <2>6 DEF TypeOK
  <1>2. WorkerInv'
    BY DEF Unregister, WorkerInv, ControlType, WorkerType
  <1>3. SegmentsInv'
    <2>1. /\ UNCHANGED <<leaves, treeSealed, shard, nextID, active, id>>
          /\ pc[w] = "unregister" /\ pc'[w] = "update" /\ registry' = NoSegment
          /\ active[w] # NoSegment
          /\ \A v \in Workers : v # w => pc'[v] = pc[v]
      BY DEF Unregister, ControlType, WorkerInv
    <2>2. registry = active[w] /\ \A v \in Workers : v # w => ~Holds(v)
      BY <2>1 DEF RegistryInv, Holds
    <2>3. RegistryInv'
      <3>1. \A v \in Workers : ~Holds(v)'
        BY <2>1, <2>2 DEF Holds
      <3>2. \A v \in Workers : v # w => active[v] # active[w]
        BY <2>1, <2>2 DEF RegistryInv, Holds
      <3> QED
        BY <2>1, <3>1, <3>2 DEF RegistryInv, WorkerInv
    <2>4. FreshIDs'
      <3>1. \A s \in SegmentIDs : Unused(s) => Unused(s)'
        BY <2>1 DEF Unused
      <3>2. \A v \in Workers : pc'[v] = "open" => v # w /\ pc[v] = "open" /\ id[v] \in SegmentIDs
        BY <2>1 DEF WorkerInv, WorkerType
      <3> QED
        BY <2>1, <3>1, <3>2 DEF FreshIDs
    <2>5. SealedInv'
      BY <2>1, SealedFrame
    <2>6. ActiveInv'
      BY <2>1 DEF ActiveInv, Done
    <2>7. NothingStranded'
      BY <2>1, StrandedFrame DEF Carries, Done
    <2> QED
      BY <1>2, <2>3, <2>4, <2>5, <2>6, <2>7
  <1>4. RequestsInv'
    BY RequestsFrame DEF Unregister, ControlType
  <1> QED
    BY <1>1, <1>3, <1>4

\* updates <- update: the segment the worker forgets is in the shard tree.
LEMMA SendUpdateInd ==
    ASSUME IndInv, NEW w \in Workers, SendUpdate(w)
    PROVE  IndInv'
  <1> USE ConstantsAssumption
      DEF IndInv, SegmentsInv, RequestsInv, TypeOK, SegmentIDs, NoSegment, Segment,
          manager, segments, output, workerVars, submitVars
  <1>1. TypeOK'
    <2>1. ManagerType'
      BY DEF SendUpdate, ManagerType
    <2>2. SegmentsType'
      BY DEF SendUpdate, SegmentsType, WorkerType
    <2>3. OutputType'
      BY DEF SendUpdate, OutputType, WorkerType, WorkerInv
    <2>4. ControlType'
      BY DEF SendUpdate, ControlType, ManagerType
    <2>5. WorkerType'
      BY DEF SendUpdate, WorkerType, ManagerType, SubmitType
    <2>6. SubmitType'
      BY DEF SendUpdate, SubmitType, WorkerType
    <2> QED
      BY <2>1, <2>2, <2>3, <2>4, <2>5, <2>6 DEF TypeOK
  <1>2. WorkerInv'
    BY DEF SendUpdate, WorkerInv, ControlType, WorkerType
  <1>3. SegmentsInv'
    <2>1. /\ UNCHANGED <<leaves, treeSealed, shard, nextID, registry>>
          /\ pc[w] = "update" /\ pc'[w] \in {"exit", "id"} /\ active'[w] = NoSegment
          /\ \A v \in Workers : v # w => pc'[v] = pc[v] /\ id'[v] = id[v] /\ active'[v] = active[v]
      BY DEF SendUpdate, ControlType, WorkerType
    <2>2. RegistryInv'
      <3>1. \A v \in Workers : Holds(v)' => v # w /\ Holds(v)
        BY <2>1 DEF Holds
      <3>2. \A v \in Workers : pc'[v] = "update" => v # w /\ active[v] # NoSegment
        BY <2>1 DEF WorkerInv
      <3> QED
        BY <2>1, <3>1, <3>2 DEF RegistryInv
    <2>3. FreshIDs'
      <3>1. \A s \in SegmentIDs : Unused(s) => Unused(s)'
        BY <2>1 DEF Unused
      <3>2. \A v \in Workers : pc'[v] = "open" => v # w /\ pc[v] = "open" /\ id[v] \in SegmentIDs
        BY <2>1 DEF WorkerInv, WorkerType
      <3> QED
        BY <2>1, <3>1, <3>2 DEF FreshIDs
    <2>4. SealedInv'
      BY <2>1, SealedFrame
    <2>5. ActiveInv'
      BY <2>1 DEF ActiveInv, Done
    <2>6. NothingStranded'
      BY <2>1, StrandedFrame DEF Carries, Done, ActiveInv
    <2> QED
      BY <1>2, <2>2, <2>3, <2>4, <2>5, <2>6
  <1>4. RequestsInv'
    BY RequestsFrame DEF SendUpdate, ControlType, WorkerType
  <1> QED
    BY <1>1, <1>3, <1>4

\* closeSegment up to Seal: the registered segment is this worker's own.
LEMMA SealTreeInd ==
    ASSUME IndInv, NEW w \in Workers, SealTree(w)
    PROVE  IndInv'
  <1> USE ConstantsAssumption
      DEF IndInv, SegmentsInv, RequestsInv, TypeOK, SegmentIDs, NoSegment, Segment,
          manager, segments, output, workerVars, submitVars
  <1>5. /\ pc[w] = "seal" /\ active[w] # NoSegment /\ active[w] \in SegmentIDs
        /\ registry = active[w] /\ registry \notin treeSealed
        /\ \A v \in Workers : v # w => ~Holds(v) /\ pc[v] # "get" /\ active[v] # registry
    BY DEF SealTree, RegistryInv, Holds, WorkerInv, ActiveInv, WorkerType
  <1>1. TypeOK'
    <2>1. ManagerType'
      BY DEF SealTree, Answer, ManagerType
    <2>2. SegmentsType'
      BY DEF SealTree, Answer, SegmentsType, ManagerType
    <2>3. OutputType'
      BY DEF SealTree, Answer, OutputType, SegmentsType, WorkerType
    <2>4. ControlType'
      BY DEF SealTree, Answer, ControlType, ManagerType
    <2>5. WorkerType'
      BY DEF SealTree, Answer, WorkerType, ManagerType, SubmitType
    <2>6. SubmitType'
      BY DEF SealTree, Answer, SubmitType, WorkerType
    <2> QED
      BY <2>1, <2>2, <2>3, <2>4, <2>5, <2>6 DEF TypeOK
  <1>2. WorkerInv'
    BY <1>5 DEF SealTree, Answer, WorkerInv, ControlType, WorkerType
  <1>3. SegmentsInv'
    <2>1. CASE leaves[registry] = <<>>
      <3>1. /\ UNCHANGED <<leaves, treeSealed, shard, registry, nextID, active, id>>
            /\ pc'[w] \in {"exit", "select"}
            /\ \A v \in Workers : v # w => pc'[v] = pc[v]
        BY <2>1 DEF SealTree, ControlType
      <3>2. RegistryInv'
        <4>1. \A v \in Workers : Holds(v)' <=> Holds(v)
          BY <1>5, <3>1 DEF Holds
        <4> QED
          BY <1>5, <3>1, <4>1 DEF RegistryInv
      <3>3. FreshIDs'
        BY <3>1, UnusedFrame DEF FreshIDs
      <3>4. SealedInv'
        BY <3>1, SealedFrame
      <3>5. ActiveInv'
        BY <1>5, <2>1, <3>1 DEF ActiveInv, Done
      <3>6. NothingStranded'
        BY <1>5, <2>1, <3>1, StrandedFrame DEF Carries, Done
      <3> QED
        BY <1>2, <3>2, <3>3, <3>4, <3>5, <3>6
    <2>2. CASE leaves[registry] # <<>>
      <3>1. /\ UNCHANGED <<leaves, shard, registry, nextID, active>>
            /\ treeSealed' = treeSealed \cup {registry} /\ pc'[w] = "hmf"
            /\ \A v \in Workers : v # w => pc'[v] = pc[v] /\ id'[v] = id[v]
        BY <1>5, <2>2 DEF SealTree, ControlType, WorkerType
      <3>2. RegistryInv'
        <4>1. \A v \in Workers : Holds(v)' <=> Holds(v)
          BY <1>5, <3>1 DEF Holds
        <4> QED
          BY <1>5, <3>1, <4>1 DEF RegistryInv
      <3>3. FreshIDs'
        <4>1. \A s : Unused(s) => Unused(s)'
          BY <3>1 DEF Unused
        <4> QED
          BY <3>1, <4>1 DEF FreshIDs
      <3>4. SealedInv'
        BY <2>2, <3>1 DEF SealedInv
      <3>5. ActiveInv'
        <4>1. registry \notin Range(shard)
          BY <1>5 DEF SealedInv, Range
        <4>2. \A v \in Workers : pc[v] = "hmf" => active[v] # registry
          BY <1>5
        <4> QED
          BY <1>5, <3>1, <4>1, <4>2 DEF ActiveInv, Done
      <3>6. NothingStranded'
        BY <1>5, <3>1, StrandedFrame DEF Carries, Done
      <3> QED
        BY <1>2, <3>2, <3>3, <3>4, <3>5, <3>6
    <2> QED
      BY <2>1, <2>2
  <1>4. RequestsInv'
    <2>1. CASE leaves[registry] = <<>>
      BY <2>1, ErrorAnswer DEF SealTree, ControlType
    <2>2. CASE leaves[registry] # <<>>
      BY <1>5, <2>2, RequestsFrame DEF SealTree, ControlType
    <2> QED
      BY <2>1, <2>2
  <1> QED
    BY <1>1, <1>3, <1>4

\* SegmentTree.Append: the log is no leaf yet, and the segment is this worker's alone.
LEMMA AppendLeafInd ==
    ASSUME IndInv, NEW w \in Workers, AppendLeaf(w)
    PROVE  IndInv'
  <1> USE ConstantsAssumption
      DEF IndInv, SegmentsInv, RequestsInv, TypeOK, SegmentIDs, NoSegment, Segment,
          manager, segments, output, workerVars, submitVars
  <1>5. /\ pc[w] = "append" /\ active[w] # NoSegment /\ active[w] \in SegmentIDs /\ cur[w] \in Logs
        /\ active[w] \notin treeSealed /\ registry = active[w] /\ Fresh(cur[w]) /\ Waiting(cur[w])
        /\ \A v \in Workers : v # w => active[v] # active[w] /\ cur[v] # cur[w]
    <2>1. pc[w] = "append" /\ active[w] # NoSegment /\ active[w] \in SegmentIDs /\ cur[w] \in Logs
      BY DEF AppendLeaf, WorkerInv, WorkerType
    <2>2. registry = active[w] /\ \A v \in Workers : v # w => active[v] # active[w]
      BY <2>1 DEF RegistryInv, Holds
    <2>3. active[w] \notin treeSealed
      BY <2>1 DEF ActiveInv
    <2>4. Fresh(cur[w]) /\ Waiting(cur[w]) /\ \A v \in Workers : v # w => cur[v] # cur[w]
      BY <2>1 DEF ServedInv
    <2> QED
      BY <2>1, <2>2, <2>3, <2>4
  <1>1. TypeOK'
    <2>1. ManagerType'
      BY DEF AppendLeaf, Answer, ManagerType
    <2>2. SegmentsType'
      <3>1. leaves[active[w]] \in Seq(Logs) /\ Append(leaves[active[w]], cur[w]) \in Seq(Logs)
        BY <1>5 DEF SegmentsType
      <3>2. leaves' = leaves \/ leaves' = [leaves EXCEPT ![active[w]] = Append(leaves[active[w]], cur[w])]
        BY DEF AppendLeaf
      <3> QED
        BY <1>5, <3>1, <3>2 DEF AppendLeaf, SegmentsType
    <2>3. OutputType'
      BY DEF AppendLeaf, Answer, OutputType, SegmentsType, WorkerType
    <2>4. ControlType'
      BY DEF AppendLeaf, Answer, ControlType, ManagerType
    <2>5. WorkerType'
      BY DEF AppendLeaf, Answer, WorkerType, ManagerType, SubmitType
    <2>6. SubmitType'
      BY DEF AppendLeaf, Answer, SubmitType, WorkerType
    <2> QED
      BY <2>1, <2>2, <2>3, <2>4, <2>5, <2>6 DEF TypeOK
  <1>2. WorkerInv'
    BY DEF AppendLeaf, Answer, WorkerInv, ControlType, WorkerType
  <1>3. SegmentsInv' /\ RequestsInv'
    <2>1. CASE Len(leaves[active[w]]) >= MaxSegmentLeaves
      <3>1. SegmentsInv'
        BY <1>2, <1>5, <2>1, SegmentsFrame DEF AppendLeaf, ControlType, Running
      <3>2. RequestsInv'
        BY <2>1, ErrorAnswer DEF AppendLeaf, ControlType
      <3> QED
        BY <3>1, <3>2
    <2>2. CASE ~(Len(leaves[active[w]]) >= MaxSegmentLeaves)
      <3> DEFINE a == active[w]
                 l == cur[w]
      <3>1. /\ UNCHANGED <<treeSealed, shard, registry, nextID, active, id, cur, reply, requests, mapped, spc, on>>
            /\ pc'[w] = "propagate" /\ \A v \in Workers : v # w => pc'[v] = pc[v]
            /\ leaves' = [leaves EXCEPT ![a] = Append(leaves[a], l)]
        BY <1>5, <2>2 DEF AppendLeaf, ControlType
      <3>2. leaves[a] \in Seq(Logs) /\ \A s \in SegmentIDs : leaves[s] \in Seq(Logs)
        BY <1>5 DEF SegmentsType
      <3>3. leaves'[a] = Append(leaves[a], l) /\ \A s \in SegmentIDs : s # a => leaves'[s] = leaves[s]
        BY <1>5, <3>1 DEF SegmentsType
      <3>4. /\ Len(leaves'[a]) = Len(leaves[a]) + 1 /\ leaves'[a] # <<>> /\ Len(leaves[a]) \in Nat
            /\ leaves'[a][Len(leaves[a]) + 1] = l
            /\ \A i \in 1..Len(leaves[a]) : leaves'[a][i] = leaves[a][i]
        <4>1. leaves[a] \in Seq(Logs) /\ l \in Logs /\ leaves'[a] = Append(leaves[a], l)
          BY <1>5, <3>2, <3>3
        <4> HIDE DEF IndInv, a, l
        <4> QED
          BY <4>1, AppendProperties, LenProperties
      <3>5. a \in SegmentIDs /\ l \in Logs
        BY <1>5
      <3> HIDE DEF a, l
      <3>6. ASSUME NEW s \in SegmentIDs, NEW i \in 1..Len(leaves'[s])
            PROVE  \/ i \in 1..Len(leaves[s]) /\ leaves'[s][i] = leaves[s][i]
                   \/ s = a /\ i = Len(leaves[s]) + 1 /\ leaves'[s][i] = l
        <4>1. CASE s = a
          <5>1. i \in 1..(Len(leaves[a]) + 1)
            BY <3>4, <4>1
          <5> QED
            BY <3>4, <4>1, <5>1
        <4>2. CASE s # a
          BY <3>3, <4>2
        <4> QED
          BY <4>1, <4>2
      <3>7. ASSUME NEW s \in SegmentIDs, NEW i \in 1..Len(leaves[s])
            PROVE  i \in 1..Len(leaves'[s]) /\ leaves'[s][i] = leaves[s][i]
        <4>1. CASE s = a
          BY <3>4, <4>1
        <4>2. CASE s # a
          BY <3>3, <4>2
        <4> QED
          BY <4>1, <4>2
      <3>8. \A k : Fresh(k) /\ k # l => Fresh(k)'
        BY <3>1, <3>6 DEF Fresh
      <3>9. \A k : Waiting(k)' <=> Waiting(k)
        BY <3>1 DEF Waiting
      <3>10. SegmentsInv'
        <4>1. RegistryInv'
          <5>1. \A v \in Workers : Holds(v)' => Holds(v)
            BY <1>5, <3>1 DEF Holds
          <5> QED
            BY <1>5, <3>1, <5>1 DEF RegistryInv
        <4>2. FreshIDs'
          <5>1. \A s \in SegmentIDs : Unused(s) => Unused(s)'
            BY <1>5, <3>1, <3>3 DEF Unused, a
          <5>2. \A v \in Workers : pc'[v] = "open" => v # w /\ pc[v] = "open" /\ id[v] \in SegmentIDs
            BY <3>1 DEF WorkerInv, WorkerType
          <5> QED
            BY <3>1, <5>1, <5>2 DEF FreshIDs
        <4>3. SealedInv'
          <5>1. \A s \in SegmentIDs : Len(leaves'[s]) <= MaxSegmentLeaves
            BY <2>2, <3>3, <3>4 DEF SealedInv, a
          <5>2. \A s \in treeSealed : s \in SegmentIDs /\ leaves'[s] = leaves[s]
            BY <1>5, <3>3 DEF SegmentsType, a
          <5> QED
            BY <3>1, <5>1, <5>2 DEF SealedInv
        <4>4. ActiveInv'
          <5>1. \A v \in Workers : v # w /\ active[v] # NoSegment => leaves'[active[v]] = leaves[active[v]]
            BY <1>5, <3>3 DEF WorkerType, a
          <5>2. ASSUME NEW v \in Workers, v # w, active[v] # NoSegment, Done(v)' \/ pc'[v] = "exit"
                PROVE  leaves'[active[v]] = <<>>
            BY <3>1, <5>1, <5>2 DEF ActiveInv, Done
          <5>3. ~Done(w)' /\ pc'[w] = "propagate" /\ active[w] \notin treeSealed
            BY <1>5, <3>1 DEF Done
          <5> QED
            BY <3>1, <5>2, <5>3 DEF ActiveInv
        <4>5. NothingStranded'
          <5>1. \A v \in Workers, s \in SegmentIDs : Carries(v, s) => Carries(v, s)'
            BY <1>5, <3>1 DEF Carries, Done
          <5>2. \A s : s = a => Carries(w, s)'
            BY <3>1 DEF Carries, Done, a
          <5>3. ASSUME NEW s \in SegmentIDs, leaves'[s] # <<>>
                PROVE  s \in Range(shard) \/ \E v \in Workers : Carries(v, s)'
            <6>1. CASE s = a
              BY <5>2, <6>1
            <6>2. CASE s # a
              BY <3>3, <5>1, <5>3, <6>2 DEF NothingStranded
            <6> QED
              BY <6>1, <6>2
          <5> QED
            BY <3>1, <5>3 DEF NothingStranded
        <4> QED
          BY <1>2, <4>1, <4>2, <4>3, <4>4, <4>5
      <3>11. SubmissionsInv'
        BY <1>5, <3>1, <3>8 DEF SubmissionsInv, Waiting, l
      <3>12. QueuesInv'
        <4>1. \A v \in Workers : \A i \in 1..Len(requests[v]) : requests[v][i] # l
          BY DEF QueuesInv, l
        <4> QED
          BY <3>1, <3>8, <3>9, <4>1 DEF QueuesInv
      <3>13. ServedInv'
        <4>1. \A v \in Workers : v # w => cur[v] # l
          BY <1>5 DEF l
        <4> QED
          BY <3>1, <3>8, <3>9, <4>1 DEF ServedInv
      <3>14. PropagateInv'
        <4>1. \A v \in Workers : v # w /\ pc[v] = "propagate" =>
                 active[v] \in SegmentIDs /\ leaves'[active[v]] = leaves[active[v]]
          BY <1>5, <3>3 DEF WorkerType, WorkerInv, a
        <4>2. mapped[l] = {}
          BY <1>5 DEF Fresh, l
        <4>3. ASSUME NEW v \in Workers, pc'[v] = "propagate"
              PROVE  (/\ leaves[active[v]] # <<>>
                      /\ leaves[active[v]][Len(leaves[active[v]])] = cur[v]
                      /\ mapped[cur[v]] = {})'
          <5>1. CASE v = w
            BY <3>1, <3>4, <4>2, <5>1 DEF a, l
          <5>2. CASE v # w
            <6>1. pc[v] = "propagate" /\ leaves'[active[v]] = leaves[active[v]]
              BY <3>1, <4>1, <4>3, <5>2
            <6>2. leaves[active[v]] # <<>> /\ leaves[active[v]][Len(leaves[active[v]])] = cur[v]
                    /\ mapped[cur[v]] = {}
              BY <6>1 DEF PropagateInv
            <6> QED
              BY <3>1, <6>1, <6>2, Zenon
          <5> QED
            BY <5>1, <5>2
        <4> QED
          BY <4>3, Zenon DEF PropagateInv
      <3>15. UniqueLeaves'
        <4>1. \A s \in SegmentIDs : \A i \in 1..Len(leaves[s]) : leaves[s][i] # l
          BY <1>5 DEF Fresh, l
        <4>2. ASSUME NEW s \in SegmentIDs, NEW t \in SegmentIDs, NEW i \in 1..Len(leaves'[s]),
                     NEW j \in 1..Len(leaves'[t]), leaves'[s][i] = leaves'[t][j]
              PROVE  s = t /\ i = j
          <5>1. CASE leaves'[s][i] = l
            <6>1. s = a /\ i = Len(leaves[a]) + 1
              BY <3>6, <4>1, <5>1
            <6>2. t = a /\ j = Len(leaves[a]) + 1
              BY <3>6, <4>1, <4>2, <5>1
            <6> QED
              BY <6>1, <6>2
          <5>2. CASE leaves'[s][i] # l
            <6>1. i \in 1..Len(leaves[s]) /\ leaves'[s][i] = leaves[s][i]
              BY <3>6, <5>2
            <6>2. j \in 1..Len(leaves[t]) /\ leaves'[t][j] = leaves[t][j]
              BY <3>6, <4>2, <5>2
            <6>3. leaves[s][i] = leaves[t][j]
              BY <4>2, <6>1, <6>2
            <6> QED
              BY <6>1, <6>2, <6>3 DEF UniqueLeaves
          <5> QED
            BY <5>1, <5>2
        <4> QED
          BY <4>2 DEF UniqueLeaves
      <3>16. AnswersInv'
        <4>1. \A k : Located(k) => Located(k)'
          BY <3>1, <3>7 DEF Located
        <4> QED
          BY <3>1, <4>1 DEF AnswersInv
      <3> QED
        BY <3>10, <3>11, <3>12, <3>13, <3>14, <3>15, <3>16
    <2> QED
      BY <2>1, <2>2
  <1> QED
    BY <1>1, <1>3

\* propagateToALL: the position submitted is that of the leaf just appended.
LEMMA PropagateToALLInd ==
    ASSUME IndInv, NEW w \in Workers, PropagateToALL(w)
    PROVE  IndInv'
  <1> USE ConstantsAssumption
      DEF IndInv, SegmentsInv, RequestsInv, TypeOK, SegmentIDs, NoSegment, Segment,
          manager, segments, output, workerVars, submitVars
  <1> DEFINE a == active[w]
             l == cur[w]
  <1>5. /\ pc[w] = "propagate" /\ a # NoSegment /\ a \in SegmentIDs /\ l \in Logs
        /\ leaves[a] \in Seq(Logs) /\ Len(leaves[a]) \in 1..Len(leaves[a])
        /\ leaves[a][Len(leaves[a])] = l /\ mapped[l] = {} /\ Waiting(l)
        /\ \A v \in Workers : v # w => cur[v] # l
    <2>1. pc[w] = "propagate" /\ a # NoSegment /\ a \in SegmentIDs /\ l \in Logs
      BY DEF PropagateToALL, WorkerInv, WorkerType
    <2>2. leaves[a] \in Seq(Logs) /\ leaves[a] # <<>>
      BY <2>1 DEF PropagateInv, SegmentsType
    <2>3. Len(leaves[a]) \in 1..Len(leaves[a])
      BY <2>2
    <2>4. leaves[a][Len(leaves[a])] = l /\ mapped[l] = {}
      BY <2>1 DEF PropagateInv
    <2>5. Waiting(l) /\ \A v \in Workers : v # w => cur[v] # l
      BY <2>1 DEF ServedInv
    <2> QED
      BY <2>1, <2>2, <2>3, <2>4, <2>5
  <1>6. Position(w) \in SegmentIDs \X Nat
    BY <1>5 DEF Position
  <1>1. TypeOK'
    <2>1. ManagerType'
      BY DEF PropagateToALL, Answer, ManagerType
    <2>2. SegmentsType'
      <3>1. SegmentsType /\ leaves' = leaves /\ treeSealed' = treeSealed /\ shard' = shard
        BY DEF PropagateToALL
      <3> QED
        BY <3>1, Zenon DEF SegmentsType
    <2>3. OutputType'
      <3>1. mapped \in [Logs -> SUBSET (SegmentIDs \X Nat)] /\ l \in Logs
        BY <1>5 DEF OutputType
      <3>2. [mapped EXCEPT ![l] = @ \cup {Position(w)}] \in [Logs -> SUBSET (SegmentIDs \X Nat)]
        BY <1>6, <3>1
      <3>3. updates' = updates /\ persisted' = persisted /\ down' = down
        BY DEF PropagateToALL
      <3>4. mapped' = [mapped EXCEPT ![l] = @ \cup {Position(w)}] \/ mapped' = mapped
        BY Zenon DEF PropagateToALL
      <3> QED
        BY <3>1, <3>2, <3>3, <3>4, Zenon DEF OutputType
    <2>4. ControlType'
      BY DEF PropagateToALL, Answer, ControlType, ManagerType
    <2>5. WorkerType'
      BY DEF PropagateToALL, Answer, WorkerType, ManagerType, SubmitType
    <2>6. SubmitType'
      BY DEF PropagateToALL, Answer, SubmitType, WorkerType
    <2> QED
      BY <2>1, <2>2, <2>3, <2>4, <2>5, <2>6 DEF TypeOK
  <1>2. WorkerInv'
    BY DEF PropagateToALL, Answer, WorkerInv, ControlType, WorkerType
  <1>3. SegmentsInv'
    BY <1>2, SegmentsFrame DEF PropagateToALL, Answer, ControlType, Running, Over
  <1>4. RequestsInv'
    <2>1. CASE Answer(w, "error") /\ UNCHANGED mapped
      BY <2>1, ErrorAnswer DEF PropagateToALL, ControlType
    <2>2. CASE Answer(w, "ok") /\ mapped' = [mapped EXCEPT ![l] = @ \cup {Position(w)}]
      <3>1. /\ UNCHANGED <<leaves, requests, spc, on, active>>
            /\ pc'[w] = "select" /\ \A v \in Workers : v # w => pc'[v] = pc[v]
        BY DEF PropagateToALL, ControlType
      <3>2. /\ \A v \in Workers : cur'[v] = IF v = w THEN None ELSE cur[v]
            /\ \A k \in Logs : reply'[k] = IF k = l THEN "ok" ELSE reply[k]
        BY <1>5, <2>2 DEF Answer, WorkerType, SubmitType
      <3>3. \A k \in Logs : mapped'[k] = IF k = l THEN {Position(w)} ELSE mapped[k]
        BY <1>5, <2>2 DEF OutputType
      <3>4. Position(w) = <<a, Len(leaves[a]) - 1>>
        BY DEF Position
      <3> HIDE DEF a, l
      <3>5. \A k \in Logs : k # l => (Fresh(k) => Fresh(k)') /\ (Waiting(k) => Waiting(k)')
        BY <3>1, <3>2, <3>3 DEF Fresh, Waiting
      <3>6. SubmissionsInv'
        BY <1>5, <3>1, <3>2, <3>5 DEF SubmissionsInv, Waiting
      <3>7. QueuesInv'
        <4>1. \A v \in Workers : \A i \in 1..Len(requests[v]) : requests[v][i] \in Logs /\ requests[v][i] # l
          BY DEF QueuesInv, WorkerType, l
        <4> QED
          BY <3>1, <3>2, <3>5, <4>1 DEF QueuesInv
      <3>8. ServedInv'
        <4>1. ASSUME NEW v \in Workers, (cur[v] # None)'
              PROVE  (Waiting(cur[v]) /\ (pc[v] # "propagate" => Fresh(cur[v])))'
          <5>1. v # w /\ cur'[v] = cur[v] /\ cur[v] \in Logs /\ cur[v] # l
            BY <1>5, <3>2, <4>1 DEF WorkerType
          <5> QED
            BY <3>1, <3>5, <5>1 DEF ServedInv
        <4>2. \A v, u \in Workers : (cur[v] # None /\ cur[v] = cur[u])' => v = u
          BY <3>2 DEF ServedInv
        <4> QED
          BY <4>1, <4>2 DEF ServedInv
      <3>9. PropagateInv'
        <4>1. \A v \in Workers : pc[v] = "propagate" => cur[v] \in Logs
          BY DEF WorkerInv, WorkerType
        <4>2. \A v \in Workers : pc'[v] = "propagate" => v # w /\ pc[v] = "propagate"
          BY <3>1
        <4>3. \A v \in Workers : pc'[v] = "propagate" =>
                 cur'[v] = cur[v] /\ mapped'[cur[v]] = mapped[cur[v]]
          BY <1>5, <3>2, <3>3, <4>1, <4>2
        <4> QED
          BY <3>1, <4>2, <4>3 DEF PropagateInv
      <3>10. UniqueLeaves'
        BY <3>1 DEF UniqueLeaves
      <3>11. AnswersInv'
        <4>1. \A k \in Logs : k = l => Located(k)'
          BY <1>5, <3>1, <3>3, <3>4 DEF Located
        <4>2. \A k \in Logs : k # l /\ Located(k) => Located(k)'
          BY <3>1, <3>3 DEF Located
        <4> QED
          BY <3>2, <4>1, <4>2 DEF AnswersInv
      <3> QED
        BY <3>6, <3>7, <3>8, <3>9, <3>10, <3>11
    <2> QED
      BY <2>1, <2>2 DEF PropagateToALL
  <1> QED
    BY <1>1, <1>3, <1>4

-----------------------------------------------------------------------------
(* The theorems *)

\* Every step keeps the inductive invariant.
LEMMA NextInd == ASSUME IndInv, [Next]_vars PROVE IndInv'
  <1>1. CASE \E l \in Logs : SubmitStep(l) \/ Canceled(l)
    BY <1>1, GetOrStartWorkerInd, SendRequestInd, ReturnInd DEF SubmitStep
  <1>2. CASE \E w \in Workers : WorkerStep(w) \/ TimerFires(w)
    <2> SUFFICES ASSUME NEW w \in Workers, WorkerStep(w) \/ TimerFires(w) PROVE IndInv'
      BY <1>2
    <2> QED
      BY TakeRequestInd, SeeStopInd, NextSegmentIDInd, OpenSegmentInd, GetActiveSegmentInd,
         AppendLeafInd, PropagateToALLInd, SealTreeInd, AppendSealedSegmentInd, UnregisterInd,
         SendUpdateInd, CloseDoneInd, DeleteWorkerInd, TimerFiresInd DEF WorkerStep
  <1>3. CASE StopWorker
    BY <1>3, StopWorkerInd
  <1>4. CASE PersistUpdate
    BY <1>4, PersistUpdateInd
  <1>5. CASE \E f \in Faults : GoDown(f)
    BY <1>5, GoDownInd
  <1>6. CASE UNCHANGED vars
    <2> USE <1>6 DEF vars, manager, segments, output, workerVars, submitVars, IndInv
    <2>1. TypeOK'
      BY DEF TypeOK, ManagerType, SegmentsType, OutputType, ControlType, WorkerType, SubmitType
    <2>2. WorkerInv'
      BY DEF SegmentsInv, WorkerInv
    <2>3. SegmentsInv'
      BY <2>2, SegmentsFrame
    <2>4. RequestsInv'
      BY RequestsFrame
    <2> QED
      BY <2>1, <2>3, <2>4
  <1> QED
    BY <1>1, <1>2, <1>3, <1>4, <1>5, <1>6 DEF Next

\* The inductive invariant holds in every reachable state.
THEOREM Inductive == Spec => []IndInv
  BY InitInd, NextInd, PTL DEF Spec

\* Type correctness of the workers, the manager and the submissions.
THEOREM TypeCorrect == Spec => []TypeOK
  <1>1. IndInv => TypeOK
    BY DEF IndInv
  <1> QED
    BY <1>1, Inductive, PTL

\* No log is stranded, whichever workers are stopped and started when: what
\* closeSegment seals and what a worker forgets on its way out are its own.
THEOREM NoLogStranded == Spec => []NothingStranded
  <1>1. IndInv => NothingStranded
    BY DEF IndInv, SegmentsInv
  <1> QED
    BY <1>1, Inductive, PTL

\* A worker's segment is its own, and the registry entry is that segment, although
\* closeSegment and getActiveSegment read the registry and not the worker's variable.
THEOREM SegmentsAreOwned == Spec => []OwnSegment
  <1>1. ASSUME IndInv PROVE OwnSegment
    <2> USE <1>1 DEF IndInv, SegmentsInv, TypeOK
    <2> SUFFICES ASSUME NEW w \in Workers
                 PROVE  /\ pc[w] = "get" => registry = id[w]
                        /\ active[w] # NoSegment /\ pc[w] # "update" => registry = active[w]
                        /\ pc[w] \in {"hmf", "unregister", "update"} => id[w] = active[w]
                        /\ timer[w] = "armed" => active[w] # NoSegment
                        /\ \A v \in Workers \ {w} : active[w] # NoSegment => active[v] # active[w]
      BY DEF OwnSegment
    <2>1. pc[w] = "get" => registry = id[w]
      BY DEF RegistryInv, Holds
    <2>2. active[w] # NoSegment /\ pc[w] # "update" => registry = active[w]
      BY DEF RegistryInv, Holds, WorkerInv
    <2>3. /\ pc[w] \in {"hmf", "unregister", "update"} => id[w] = active[w]
          /\ timer[w] = "armed" => active[w] # NoSegment
      BY DEF WorkerInv
    <2>4. \A v \in Workers \ {w} : active[w] # NoSegment => active[v] # active[w]
      BY DEF RegistryInv, Holds, WorkerInv
    <2> QED
      BY <2>1, <2>2, <2>3, <2>4
  <1> QED
    BY <1>1, Inductive, PTL

\* A log whose submission succeeded is one leaf, once, and ALL was given exactly its
\* position: with leafID read before the append, the position is right, and from then
\* on neither the leaf nor the position moves.
THEOREM AckedLogsAreLocated == Spec => []AckedIsLocated
  <1>1. ASSUME IndInv PROVE AckedIsLocated
    <2> USE <1>1, ConstantsAssumption DEF IndInv, RequestsInv, SegmentsInv, TypeOK
    <2> SUFFICES ASSUME NEW l \in Logs, spc[l] = "ok"
                 PROVE  Cardinality(Positions(l)) = 1 /\ mapped[l] = Positions(l)
      BY DEF AckedIsLocated
    <2>1. Located(l)
      BY DEF SubmissionsInv, AnswersInv
    <2>2. PICK s \in SegmentIDs : \E i \in 1..Len(leaves[s]) :
                 leaves[s][i] = l /\ mapped[l] = {<<s, i - 1>>}
      BY <2>1 DEF Located
    <2>3. PICK i \in 1..Len(leaves[s]) : leaves[s][i] = l /\ mapped[l] = {<<s, i - 1>>}
      BY <2>2
    <2>4. Len(leaves[s]) \in Nat /\ Len(leaves[s]) <= MaxSegmentLeaves
      BY DEF SealedInv, SegmentsType
    <2>5. <<s, i - 1>> \in Positions(l)
      BY <2>3, <2>4 DEF Positions
    <2>6. ASSUME NEW p \in Positions(l) PROVE p = <<s, i - 1>>
      <3>1. /\ p \in SegmentIDs \X (0..MaxSegmentLeaves - 1)
            /\ p[2] < Len(leaves[p[1]]) /\ leaves[p[1]][p[2] + 1] = l
        BY DEF Positions
      <3>2. p[1] \in SegmentIDs /\ p[2] \in Nat /\ p = <<p[1], p[2]>>
        BY <3>1
      <3>3. Len(leaves[p[1]]) \in Nat
        BY <3>2 DEF SegmentsType
      <3>4. p[2] + 1 \in 1..Len(leaves[p[1]])
        BY <3>1, <3>2, <3>3
      <3>5. p[1] = s /\ p[2] + 1 = i
        BY <2>3, <3>1, <3>2, <3>4 DEF UniqueLeaves
      <3> QED
        BY <3>2, <3>5
    <2>7. Positions(l) = {<<s, i - 1>>}
      BY <2>5, <2>6
    <2> QED
      BY <2>3, <2>7, FS_Singleton
  <1> QED
    BY <1>1, Inductive, PTL

-----------------------------------------------------------------------------
(* The shard tree implements ShardLog *)

\* The segments of the shard tree, as the abstract specification sees them.
ShardSegments == [i \in DOMAIN shard |-> leaves[shard[i]]]

\* A step that appends no segment leaves those of the shard tree as they are: a leaf
\* is only ever appended to a segment that is not sealed.
LEMMA ShardStutters ==
    ASSUME IndInv, [Next]_vars, ~(\E w \in Workers : AppendSealedSegment(w))
    PROVE  UNCHANGED ShardSegments
  <1> USE DEF manager, segments, output, workerVars, submitVars
  <1>1. CASE \E l \in Logs : SubmitStep(l) \/ Canceled(l)
    BY <1>1 DEF ShardSegments, SubmitStep, Canceled, GetOrStartWorker, SendRequest,
                ReceiveResult, WorkerStopped, Return
  <1>2. ASSUME NEW w \in Workers, AppendLeaf(w) PROVE UNCHANGED ShardSegments
    <2>1. active[w] \in SegmentIDs /\ active[w] \notin treeSealed
      BY <1>2 DEF AppendLeaf, IndInv, TypeOK, WorkerType, Segment, SegmentsInv, WorkerInv, ActiveInv
    <2>2. shard' = shard /\ \A s \in SegmentIDs : s # active[w] => leaves'[s] = leaves[s]
      BY <1>2, <2>1 DEF AppendLeaf, IndInv, TypeOK, SegmentsType
    <2>3. \A i \in DOMAIN shard : shard[i] \in treeSealed /\ shard[i] \in SegmentIDs
      BY DEF IndInv, SegmentsInv, SealedInv, TypeOK, SegmentsType
    <2> QED
      BY <2>1, <2>2, <2>3 DEF ShardSegments
  <1>3. CASE \E w \in Workers : WorkerStep(w) \/ TimerFires(w)
    <2> SUFFICES ASSUME NEW w \in Workers, WorkerStep(w) \/ TimerFires(w), ~AppendLeaf(w)
                 PROVE  UNCHANGED <<leaves, shard>>
      BY <1>2, <1>3 DEF ShardSegments
    <2> QED
      BY DEF WorkerStep, TimerFires, TakeRequest, SeeStop, NextSegmentID, OpenSegment, GetActiveSegment,
             PropagateToALL, SealTree, Unregister, SendUpdate, CloseDone, DeleteWorker
  <1>4. CASE StopWorker \/ PersistUpdate \/ \E f \in Faults : GoDown(f)
    BY <1>4 DEF ShardSegments, StopWorker, PersistUpdate, GoDown
  <1>5. CASE UNCHANGED vars
    BY <1>5 DEF ShardSegments, vars
  <1> QED
    BY <1>1, <1>3, <1>4, <1>5 DEF Next

\* AppendSealedSegment appends one segment of 1 to MaxSegmentLeaves different logs, none
\* of which any segment of the shard tree has.
LEMMA ShardAppends ==
    ASSUME IndInv, NEW w \in Workers, AppendSealedSegment(w)
    PROVE  Log!Next
  <1> DEFINE seg == leaves[id[w]]
  <1> USE ConstantsAssumption DEF IndInv, SegmentsInv, RequestsInv, TypeOK
  <1>1. /\ id[w] = active[w] /\ id[w] \in SegmentIDs /\ id[w] \in treeSealed /\ id[w] \notin Range(shard)
        /\ shard' = Append(shard, id[w]) /\ leaves' = leaves
    BY DEF AppendSealedSegment, WorkerInv, ActiveInv, WorkerType, Segment
  <1>2. shard \in Seq(SegmentIDs) /\ leaves \in [SegmentIDs -> Seq(Logs)]
    BY DEF SegmentsType
  <1>3. seg \in Seq(Logs) /\ seg # <<>> /\ Len(seg) <= MaxSegmentLeaves
    BY <1>1, <1>2 DEF SealedInv
  <1>4. seg \in Log!Segments
    <2>1. Len(seg) \in 1..MaxSegmentLeaves /\ seg \in [1..Len(seg) -> Logs]
      BY <1>3, LenProperties, EmptySeq
    <2>2. \A i, j \in DOMAIN seg : seg[i] = seg[j] => i = j
      BY <1>1, <2>1 DEF UniqueLeaves
    <2>3. seg \in UNION {[1..n -> Logs] : n \in 1..MaxSegmentLeaves}
      BY <2>1
    <2> QED
      BY <2>2, <2>3 DEF Log!Segments, Log!IsInjective
  <1>5. /\ ShardSegments \in Seq(Seq(Logs)) /\ ShardSegments' \in Seq(Seq(Logs))
        /\ Len(ShardSegments) = Len(shard) /\ Len(ShardSegments') = Len(shard) + 1
    <2>1. /\ Len(shard) \in Nat /\ DOMAIN shard = 1..Len(shard) /\ DOMAIN shard' = 1..Len(shard) + 1
          /\ shard' \in Seq(SegmentIDs)
      BY <1>1, <1>2
    <2>2. /\ ShardSegments \in [1..Len(shard) -> Seq(Logs)]
          /\ ShardSegments' \in [1..Len(shard) + 1 -> Seq(Logs)]
      BY <1>1, <1>2, <2>1 DEF ShardSegments
    <2>3. ShardSegments \in Seq(Seq(Logs)) /\ ShardSegments' \in Seq(Seq(Logs))
      BY <2>1, <2>2, SeqDef
    <2> QED
      BY <2>1, <2>2, <2>3
  <1>6. ShardSegments' = Append(ShardSegments, seg)
    <2>1. /\ Append(ShardSegments, seg) \in Seq(Seq(Logs))
          /\ Len(Append(ShardSegments, seg)) = Len(shard) + 1
      BY <1>3, <1>5, AppendProperties
    <2>2. ASSUME NEW i \in 1..Len(shard) + 1
          PROVE  ShardSegments'[i] = Append(ShardSegments, seg)[i]
      BY <1>1, <1>2, <1>3, <1>5 DEF ShardSegments
    <2> QED
      BY <1>5, <2>1, <2>2, SeqEqual
  <1>7. \A i \in DOMAIN ShardSegments : Range(ShardSegments[i]) \cap Range(seg) = {}
    <2> SUFFICES ASSUME NEW i \in DOMAIN shard, NEW j \in DOMAIN leaves[shard[i]], NEW k \in DOMAIN seg,
                        leaves[shard[i]][j] = seg[k]
                 PROVE  FALSE
      BY DEF ShardSegments, Range
    <2>1. shard[i] \in SegmentIDs /\ shard[i] # id[w]
      BY <1>1, <1>2 DEF Range
    <2>2. j \in 1..Len(leaves[shard[i]]) /\ k \in 1..Len(leaves[id[w]])
      BY <1>1, <1>2, <2>1
    <2> QED
      BY <1>1, <2>1, <2>2 DEF UniqueLeaves
  <1> QED
    BY <1>4, <1>6, <1>7 DEF Log!Next, Log!Seal, Log!Range, Range, ShardSegments

\* Ingestion implements the append-only list of segments: whatever the workers, their
\* callers and StopWorker do, the shard tree only grows, by whole segments of logs
\* that are in no other one, and a segment in it never changes.
THEOREM ImplementsShardLog == Spec => ShardLogSpec
  <1>1. Init => Log!Init
    BY DEF Init, Log!Init
  <1>2. ASSUME IndInv, [Next]_vars PROVE [Log!Next]_ShardSegments
    BY <1>2, ShardStutters, ShardAppends
  <1> QED
    BY <1>1, <1>2, Inductive, PTL DEF Spec, ShardLogSpec, Log!Spec, ShardSegments

=============================================================================
