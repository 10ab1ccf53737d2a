-------------------------- MODULE JobOutcome_proofs --------------------------
(***************************************************************************)
(* What becomes of a job: proofs about JobRuntime that need what a worker  *)
(* has still to do.  No delivered job is abandoned and no success goes     *)
(* uncharged; a job delivered once takes the course of JobLifecycle; the   *)
(* last webhook tells the outcome as long as no two workers have the job;  *)
(* and a job run once is complete when it says so, its counters exact.     *)
(***************************************************************************)
EXTENDS JobRuntime_proofs

USE DEF rows, stores, effects, queue, environment, history, locals, loop, ending, At, Go

-----------------------------------------------------------------------------
(* Steps of a worker.                                                      *)

InWork(w) == step[w] # "idle"

\* The worker goes on with its job; no other job's row changes, nor another worker.
Alone(w) ==
    /\ InWork(w) /\ InWork(w)'
    /\ UNCHANGED <<inHand, messages, unpublished, cancelling>>
    /\ \A v \in Worker \ {w} :
         UNCHANGED <<step[v], verdict[v], finalized[v], nack[v]>>
    /\ \A k \in Job \ {inHand[w]} : UNCHANGED <<status[k], charges[k]>>

\* The steps of process_job but its last.
Going(w) ==
    \/ Load(w) \/ Start(w) \/ AllocateGpu(w) \/ Begin(w) \/ Poll(w)
    \/ ProcessSegment(w) \/ Finalize(w)
    \/ Notify(w) \/ CancelJob(w) \/ AnnounceCancellation(w)
    \/ HandleException(w) \/ ReportFailure(w)
    \/ Raise(w) \/ RaiseAfterRelease(w)

\* Each of them touches its own job only.
LEMMA GoingAlone ==
    ASSUME TypeOK, NEW w \in Worker, Going(w)
    PROVE  Alone(w)
<1>t. /\ step \in [Worker -> Step] /\ inHand \in [Worker -> Job]
      /\ verdict \in [Worker -> Success \cup {"failed"}] /\ finalized \in [Worker -> Status]
      /\ nack \in [Worker -> BOOLEAN]
      /\ status \in [Job -> Status] /\ charges \in [Job -> Nat]
  BY DEF TypeOK
<1>1. CASE Load(w) \/ Start(w) \/ AllocateGpu(w) \/ Begin(w)
  BY <1>t, <1>1
     DEF Load, Start, AllocateGpu, SetHolds, Begin, Alone, InWork
<1>2. CASE Poll(w) \/ CacheHit(w) \/ CacheMiss(w) \/ StartAttempt(w)
  BY <1>t, <1>2
     DEF Poll, CacheHit, CacheMiss, TryAttempt, NextSegment, StartAttempt, Alone, InWork
<1>3. CASE SegmentSucceeds(w) \/ SegmentFails(w)
             \/ CompleteSegment(w) \/ TallySegments(w)
  BY <1>t, <1>3
     DEF SegmentSucceeds, SegmentFails, TryAttempt, CompleteSegment, TallySegments, Alone, InWork
<1>4. CASE UpdateProgress(w) \/ FinalizeJob(w) \/ ReleaseGpu(w) \/ Seal(w)
  BY <1>t, <1>4
     DEF UpdateProgress, NextSegment, FinalizeJob, SetVerdict, ReleaseGpu, Seal, Alone, InWork
<1>5. CASE StoreManifest(w) \/ ExposeManifest(w)
             \/ MaterializeArtifacts(w) \/ Unseal(w)
  BY <1>t, <1>5
     DEF StoreManifest, ExposeManifest, MaterializeArtifacts, Unseal, SetVerdict, Alone, InWork
<1>6. CASE ConsumeUsage(w) \/ Reconcile(w) \/ Rescue(w) \/ Rescued(w)
  BY <1>t, <1>6
     DEF ConsumeUsage, Reconcile, SetHolds, Rescue, SetVerdict, Rescued, Alone, InWork
<1>7. CASE Notify(w) \/ CancelJob(w) \/ AnnounceCancellation(w)
             \/ HandleException(w) \/ ReportFailure(w)
  BY <1>t, <1>7
     DEF Notify, CancelJob, AnnounceCancellation, HandleException, ReportFailure, Alone, InWork
<1>8. CASE Raise(w) \/ RaiseAfterRelease(w)
  BY <1>t, <1>8, ConstantsAssumption
     DEF Raise, Handler, Fault, RaiseAfterRelease, Alone, InWork, ManifestSteps, FinalizeSteps
<1>. QED
  BY <1>1, <1>2, <1>3, <1>4, <1>5, <1>6, <1>7, <1>8
     DEF Going, ProcessSegment, Finalize

-----------------------------------------------------------------------------
(* What a worker owes its job.                                             *)

\* The steps from which a worker has still to write a terminal status.
WriteAhead ==
    ProcessingSteps \cup
    {"load", "start", "allocate", "begin", "finalize", "freegpu", "seal", "rescue", "cancel",
     "except"}

\* The worker will write a terminal status or hand its message back.
Unfinished(w) == step[w] \in WriteAhead \/ nack[w]

\* It will charge for the success it has written, write another status or hand back.
Unbilled(w) ==
    \/ Unfinished(w) \/ step[w] = "unseal"
    \/ step[w] \in ManifestSteps \cup {"bill"} /\ verdict[w] \in Success

\* A worker an exception is leaving has nothing left but the finally clause.
NackLeaves == \A w \in Worker : nack[w] => step[w] = "release"

\* A job that was delivered and has no terminal status yet has a message or a worker
\* that will give it one.
Attended == \A j \in Job : deliveries[j] > 0 /\ status[j] \notin Terminal =>
    messages[j] > 0 \/ \E w \in Busy(j) : Unfinished(w)

\* A success is charged, or somebody will charge it or take it back.
Accounted == \A j \in Job : status[j] \in Success =>
    charges[j] > 0 \/ messages[j] > 0 \/ \E w \in Busy(j) : Unbilled(w)

\* No step of process_job drops what is owed: it pays, or owes it still.
LEMMA GoingOwes ==
    ASSUME TypeOK, NackLeaves, NEW w \in Worker, Going(w)
    PROVE  LET j == inHand[w] IN
           /\ nack'[w] => step'[w] = "release"
           /\ Unfinished(w) => Unfinished(w)' \/ status'[j] \in Terminal
           /\ Unbilled(w) => Unbilled(w)' \/ status'[j] \notin Success \/ charges'[j] > 0
           /\ status'[j] = status[j] \/ status'[j] \in Terminal \/ Unfinished(w)'
           /\ status'[j] = status[j] \/ status'[j] \notin Success \/ Unbilled(w)'
           /\ charges[j] > 0 => charges'[j] > 0
           /\ UNCHANGED deliveries
<1>t. /\ step \in [Worker -> Step] /\ inHand \in [Worker -> Job]
      /\ verdict \in [Worker -> Success \cup {"failed"}] /\ nack \in [Worker -> BOOLEAN]
      /\ status \in [Job -> Status] /\ charges \in [Job -> Nat]
  BY DEF TypeOK
<1>n. nack[w] => step[w] = "release"
  BY DEF NackLeaves
<1>. USE DEF Unfinished, Unbilled, WriteAhead, ProcessingSteps, ManifestSteps, Terminal, Success
<1>1. CASE Load(w)
  BY <1>t, <1>n, <1>1 DEF Load
<1>2. CASE Start(w)
  BY <1>t, <1>n, <1>2 DEF Start
<1>3. CASE AllocateGpu(w)
  BY <1>t, <1>n, <1>3 DEF AllocateGpu, SetHolds
<1>4. CASE Begin(w)
  BY <1>t, <1>n, <1>4 DEF Begin
<1>5. CASE Poll(w)
  BY <1>t, <1>n, <1>5 DEF Poll
<1>6. CASE CacheHit(w)
  BY <1>t, <1>n, <1>6 DEF CacheHit, TryAttempt, NextSegment
<1>7. CASE CacheMiss(w)
  BY <1>t, <1>n, <1>7 DEF CacheMiss, TryAttempt, NextSegment
<1>8. CASE StartAttempt(w)
  BY <1>t, <1>n, <1>8 DEF StartAttempt
<1>9. CASE SegmentSucceeds(w)
  BY <1>t, <1>n, <1>9 DEF SegmentSucceeds
<1>10. CASE SegmentFails(w)
  BY <1>t, <1>n, <1>10 DEF SegmentFails, TryAttempt
<1>11. CASE CompleteSegment(w)
  BY <1>t, <1>n, <1>11 DEF CompleteSegment
<1>12. CASE TallySegments(w)
  BY <1>t, <1>n, <1>12 DEF TallySegments
<1>13. CASE UpdateProgress(w)
  BY <1>t, <1>n, <1>13 DEF UpdateProgress, NextSegment
<1>14. CASE FinalizeJob(w)
  BY <1>t, <1>n, <1>14 DEF FinalizeJob, SetVerdict, Verdict
<1>15. CASE ReleaseGpu(w)
  BY <1>t, <1>n, <1>15 DEF ReleaseGpu
<1>16. CASE Seal(w)
  BY <1>t, <1>n, <1>16 DEF Seal
<1>17. CASE StoreManifest(w)
  BY <1>t, <1>n, <1>17 DEF StoreManifest
<1>18. CASE ExposeManifest(w)
  BY <1>t, <1>n, <1>18 DEF ExposeManifest
<1>19. CASE MaterializeArtifacts(w)
  BY <1>t, <1>n, <1>19 DEF MaterializeArtifacts
<1>20. CASE Unseal(w)
  BY <1>t, <1>n, <1>20 DEF Unseal, SetVerdict
<1>21. CASE ConsumeUsage(w)
  BY <1>t, <1>n, <1>21 DEF ConsumeUsage
<1>22. CASE Reconcile(w)
  BY <1>t, <1>n, <1>22 DEF Reconcile, SetHolds
<1>23. CASE Rescue(w)
  BY <1>t, <1>n, <1>23 DEF Rescue, SetVerdict
<1>24. CASE Rescued(w)
  BY <1>t, <1>n, <1>24 DEF Rescued, SetHolds
<1>25. CASE Notify(w)
  BY <1>t, <1>n, <1>25 DEF Notify
<1>26. CASE CancelJob(w)
  BY <1>t, <1>n, <1>26 DEF CancelJob
<1>27. CASE AnnounceCancellation(w)
  BY <1>t, <1>n, <1>27 DEF AnnounceCancellation
<1>28. CASE HandleException(w)
  BY <1>t, <1>n, <1>28 DEF HandleException
<1>29. CASE ReportFailure(w)
  BY <1>t, <1>n, <1>29 DEF ReportFailure
<1>30. CASE Raise(w)
  <2>1. /\ step[w] \notin {"idle", "release"} /\ ~nack[w]
        /\ nack' = [nack EXCEPT ![w] = (Handler(step[w]) = "release")]
        /\ step' = [step EXCEPT ![w] = Handler(step[w])]
        /\ UNCHANGED <<status, charges, verdict, deliveries>>
    BY <1>n, <1>30, ConstantsAssumption DEF Raise, Fault
  <2>2. CASE step[w] \in ManifestSteps
    BY <1>t, <2>1, <2>2 DEF Handler
  <2>3. CASE step[w] \in FinalizeSteps
    BY <1>t, <2>1, <2>3 DEF Handler, FinalizeSteps
  <2>4. CASE step[w] \in {"load", "except", "report"}
    BY <1>t, <2>1, <2>4 DEF Handler, FinalizeSteps
  <2>5. CASE step[w] \notin ManifestSteps \cup FinalizeSteps \cup {"load", "except", "report"}
    BY <1>t, <2>1, <2>5 DEF Handler
  <2>. QED
    BY <2>2, <2>3, <2>4, <2>5
<1>31. CASE RaiseAfterRelease(w)
  BY <1>t, <1>n, <1>31 DEF RaiseAfterRelease, Fault
<1>. QED
  BY <1>1, <1>2, <1>3, <1>4, <1>5, <1>6, <1>7, <1>8, <1>9, <1>10, <1>11, <1>12,
      <1>13, <1>14, <1>15, <1>16, <1>17, <1>18, <1>19, <1>20, <1>21, <1>22, <1>23, <1>24,
      <1>25, <1>26, <1>27, <1>28, <1>29, <1>30, <1>31
     DEF Going, ProcessSegment, Finalize

\* The finally clause and the death of a worker hand the message back, unless process_job
\* has come to its end.
LEMMA LeavingOwes ==
    ASSUME TypeOK, NackLeaves, NEW w \in Worker,
           Release(w) \/ Crash(w) \/ RaiseInFinally(w)
    PROVE  /\ ~nack'[w] /\ step'[w] = "idle"
           /\ \A v \in Worker \ {w} :
                UNCHANGED <<step[v], inHand[v], verdict[v], nack[v]>>
           /\ UNCHANGED <<status, charges, deliveries>>
           /\ \A j \in Job : messages[j] > 0 => messages'[j] > 0
           /\ InWork(w) /\ Unbilled(w) => messages'[inHand[w]] > 0
           /\ InWork(w)
<1>t. /\ step \in [Worker -> Step] /\ inHand \in [Worker -> Job]
      /\ verdict \in [Worker -> Success \cup {"failed"}] /\ nack \in [Worker -> BOOLEAN]
      /\ messages \in [Job -> Nat] /\ holds \in [Worker -> BOOLEAN]
  BY DEF TypeOK
<1>1. /\ step' = [step EXCEPT ![w] = "idle"] /\ inHand' = [inHand EXCEPT ![w] = AnyJob]
      /\ verdict' = [verdict EXCEPT ![w] = "failed"] /\ nack' = [nack EXCEPT ![w] = FALSE]
      /\ UNCHANGED <<status, charges, deliveries>> /\ step[w] # "idle"
  BY DEF Release, Crash, RaiseInFinally, Fault, HandBack, Forget
<1>2. \/ messages' = [messages EXCEPT ![inHand[w]] = @ + 1]
      \/ messages' = messages /\ step[w] = "release" /\ ~nack[w]
  <2>1. CASE Release(w)
    BY <2>1 DEF Release, HandBack
  <2>2. CASE Crash(w)
    BY <2>2 DEF Crash
  <2>3. CASE RaiseInFinally(w)
    BY <2>3 DEF RaiseInFinally, HandBack
  <2>. QED
    BY <2>1, <2>2, <2>3
<1>3. \A j \in Job : messages[j] > 0 => messages'[j] > 0
  BY <1>t, <1>2
<1>4. Unbilled(w) => messages'[inHand[w]] > 0
  BY <1>t, <1>2 DEF Unbilled, Unfinished, WriteAhead, ProcessingSteps, ManifestSteps
<1>. QED
  BY <1>t, <1>1, <1>3, <1>4 DEF InWork

\* An exception leaves a worker nothing but the finally clause, whichever raised it.
LEMMA NackStep ==
    ASSUME TypeOK, NackLeaves, [Next]_vars
    PROVE  NackLeaves'
<1>t. step \in [Worker -> Step] /\ nack \in [Worker -> BOOLEAN]
  BY DEF TypeOK
<1>1. ASSUME NEW w \in Worker, Going(w)
      PROVE  NackLeaves'
  BY <1>1, GoingOwes, GoingAlone DEF NackLeaves, Alone
<1>2. ASSUME NEW w \in Worker, Release(w) \/ Crash(w) \/ RaiseInFinally(w)
      PROVE  NackLeaves'
  BY <1>2, LeavingOwes DEF NackLeaves
<1>3. ASSUME NEW w \in Worker, NEW j \in Job, Deliver(w, j)
      PROVE  NackLeaves'
  BY <1>t, <1>3 DEF NackLeaves, Deliver
<1>4. ASSUME NEW j \in Job, Api(j) \/ Duplicate(j)
      PROVE  NackLeaves'
  BY <1>4 DEF NackLeaves, Api, CreateJob, PublishJob, PublishFails, RequestCancellation,
              ReadForCancellation, WriteCancellation, Duplicate
<1>5. CASE UNCHANGED vars
  BY <1>5 DEF NackLeaves, vars
<1>. QED
  BY <1>1, <1>2, <1>3, <1>4, <1>5 DEF Next, WorkerStep, ProcessJob, Going

\* What a step does to what is owed to a job: it stays owed until it is paid, and a status
\* is written by a worker that answers for it.
OwedStays(j) ==
    /\ messages[j] > 0 => messages'[j] > 0 \/ \E w \in Worker : Deliver(w, j)
    /\ \A w \in Busy(j) : Unfinished(w) =>
         \/ w \in Busy(j)' /\ Unfinished(w)'
         \/ status'[j] \in Terminal \/ messages'[j] > 0
    /\ \A w \in Busy(j) : Unbilled(w) =>
         \/ w \in Busy(j)' /\ Unbilled(w)'
         \/ status'[j] \notin Success \/ charges'[j] > 0 \/ messages'[j] > 0
    /\ \/ status'[j] = status[j] \/ status'[j] \in Terminal
       \/ status[j] \notin Terminal \/ j \in cancelling
       \/ \E w \in Busy(j)' : Unfinished(w)'
    /\ \/ status'[j] = status[j] \/ status'[j] \notin Success
       \/ \E w \in Busy(j)' : Unbilled(w)'
    /\ charges[j] > 0 => charges'[j] > 0
    /\ deliveries'[j] = deliveries[j] \/ \E w \in Worker : Deliver(w, j)

\* Every step of the system keeps to that.
LEMMA OwedStep ==
    ASSUME TypeOK, NackLeaves, [Next]_vars, NEW j \in Job
    PROVE  OwedStays(j)
<1>. USE DEF OwedStays
<1>t. /\ step \in [Worker -> Step] /\ inHand \in [Worker -> Job]
      /\ verdict \in [Worker -> Success \cup {"failed"}] /\ nack \in [Worker -> BOOLEAN]
      /\ status \in [Job -> Status] /\ charges \in [Job -> Nat]
      /\ messages \in [Job -> Nat] /\ deliveries \in [Job -> Nat]
  BY DEF TypeOK
<1>1. ASSUME NEW w \in Worker, Going(w)
      PROVE  OwedStays(j)
  <2>1. Alone(w)
    BY <1>1, GoingAlone
  <2>2. \A v \in Worker \ {w} : (Unfinished(v)' <=> Unfinished(v)) /\ (Unbilled(v)' <=> Unbilled(v))
    BY <2>1 DEF Alone, Unfinished, Unbilled
  <2>3. \A v \in Worker : v \in Busy(j)' <=> v \in Busy(j)
    BY <2>1 DEF Alone, InWork, Busy
  <2>4. messages' = messages /\ UNCHANGED deliveries
    BY <1>1, <2>1, GoingOwes DEF Alone
  <2>5. CASE inHand[w] # j
    <3>1. UNCHANGED <<status[j], charges[j]>> /\ w \notin Busy(j)
      BY <2>1, <2>5 DEF Alone, Busy
    <3>. QED
      BY <2>2, <2>3, <2>4, <3>1 DEF Busy
  <2>6. CASE inHand[w] = j
    <3>1. w \in Busy(j)
      BY <2>1, <2>6 DEF Alone, InWork, Busy
    <3>2. /\ Unfinished(w) => Unfinished(w)' \/ status'[j] \in Terminal
          /\ Unbilled(w) => Unbilled(w)' \/ status'[j] \notin Success \/ charges'[j] > 0
          /\ status'[j] = status[j] \/ status'[j] \in Terminal \/ Unfinished(w)'
          /\ status'[j] = status[j] \/ status'[j] \notin Success \/ Unbilled(w)'
          /\ charges[j] > 0 => charges'[j] > 0
      BY <1>1, <2>6, GoingOwes
    <3>. QED
      BY <2>2, <2>3, <2>4, <3>1, <3>2 DEF Busy
  <2>. QED
    BY <2>5, <2>6
<1>2. ASSUME NEW w \in Worker, Release(w) \/ Crash(w) \/ RaiseInFinally(w)
      PROVE  OwedStays(j)
  <2>1. /\ UNCHANGED <<status, charges, deliveries>>
        /\ messages[j] > 0 => messages'[j] > 0
        /\ inHand[w] = j /\ Unbilled(w) => messages'[j] > 0
        /\ \A v \in Worker \ {w} : UNCHANGED <<step[v], inHand[v], verdict[v], nack[v]>>
    BY <1>2, LeavingOwes
  <2>2. \A v \in Worker \ {w} : /\ (Unfinished(v)' <=> Unfinished(v))
                                /\ (Unbilled(v)' <=> Unbilled(v))
                                /\ (v \in Busy(j)' <=> v \in Busy(j))
    BY <2>1 DEF Unfinished, Unbilled, Busy
  <2>3. \A v \in Busy(j) : v \in Worker /\ inHand[v] = j /\ (Unfinished(v) => Unbilled(v))
    BY DEF Busy, Unbilled
  <2>. QED
    BY <2>1, <2>2, <2>3
<1>3. ASSUME NEW w \in Worker, NEW k \in Job, Deliver(w, k)
      PROVE  OwedStays(j)
  <2>1. /\ step[w] = "idle" /\ step' = [step EXCEPT ![w] = "load"]
        /\ inHand' = [inHand EXCEPT ![w] = k]
        /\ messages' = [messages EXCEPT ![k] = @ - 1]
        /\ deliveries' = [deliveries EXCEPT ![k] = @ + 1]
        /\ UNCHANGED <<status, charges, verdict, nack>>
    BY <1>3 DEF Deliver
  <2>2. \A v \in Busy(j) : /\ v # w /\ v \in Busy(j)'
                           /\ (Unfinished(v)' <=> Unfinished(v)) /\ (Unbilled(v)' <=> Unbilled(v))
    BY <1>t, <2>1 DEF Busy, Unfinished, Unbilled
  <2>3. k # j => messages'[j] = messages[j] /\ deliveries'[j] = deliveries[j]
    BY <1>t, <2>1
  <2>. QED
    BY <1>3, <2>1, <2>2, <2>3
<1>4. ASSUME NEW k \in Job, Api(k) \/ Duplicate(k)
      PROVE  OwedStays(j)
  <2>1. /\ UNCHANGED <<step, inHand, verdict, nack, charges, deliveries>>
        /\ messages[j] > 0 => messages'[j] > 0
        /\ status'[j] \notin Success \/ status'[j] = status[j]
        /\ status'[j] = status[j] \/ status[j] \notin Terminal \/ j \in cancelling
    BY <1>t, <1>4
       DEF Api, CreateJob, PublishJob, PublishFails, RequestCancellation, ReadForCancellation,
           WriteCancellation, Duplicate, Success, Terminal
  <2>2. \A v \in Worker : /\ (Unfinished(v)' <=> Unfinished(v)) /\ (Unbilled(v)' <=> Unbilled(v))
                          /\ (v \in Busy(j)' <=> v \in Busy(j))
    BY <2>1 DEF Unfinished, Unbilled, Busy
  <2>. QED
    BY <2>1, <2>2 DEF Busy
<1>5. CASE UNCHANGED vars
  BY <1>5 DEF vars, Busy, Unfinished, Unbilled
<1>. QED
  BY <1>1, <1>2, <1>3, <1>4, <1>5 DEF Next, WorkerStep, ProcessJob, Going

\* A delivery leaves a worker that owes the job everything.
LEMMA DeliveredOwes ==
    ASSUME TypeOK, NEW w \in Worker, NEW j \in Job, Deliver(w, j)
    PROVE  w \in Busy(j)' /\ Unfinished(w)' /\ Unbilled(w)'
  BY DEF TypeOK, Deliver, Busy, Unfinished, Unbilled, WriteAhead

\* A job left completed or partial has been charged and packaged, for any number of
\* workers, redeliveries, cancellations, exceptions and crashes.
THEOREM NoSuccessUncharged == Spec => []SuccessIsCharged
<1>1. Init => NackLeaves /\ Accounted
  BY DEF Init, NackLeaves, Accounted, Success
<1>2. ASSUME TypeOK, NackLeaves, Accounted, [Next]_vars
      PROVE  (NackLeaves /\ Accounted)'
  <2>1. SUFFICES ASSUME NEW j \in Job, status'[j] \in Success
                 PROVE  charges'[j] > 0 \/ messages'[j] > 0 \/ \E w \in Busy(j)' : Unbilled(w)'
    BY <1>2, NackStep DEF Accounted
  <2>2. CASE \E w \in Worker : Deliver(w, j)
    BY <1>2, <2>2, DeliveredOwes
  <2>3. CASE ~\E w \in Worker : Deliver(w, j)
    BY <1>2, <2>1, <2>3, OwedStep DEF Accounted, OwedStays
  <2>. QED
    BY <2>2, <2>3
<1>3. Accounted /\ ChargeIsBacked => SuccessIsCharged
  BY DEF Accounted, ChargeIsBacked, SuccessIsCharged, Settled, TypeOK
<1>. QED
  BY <1>1, <1>2, <1>3, TypeCorrect, ChargesBacked, PTL DEF Spec

\* Where a cancellation tests and writes the status in one step, no job that was ever
\* delivered is left in a status of a running job: whatever fails, it has a terminal
\* status, or its message comes back.
THEOREM NoneAbandoned == AtomicCancel /\ Spec => []NoJobAbandoned
<1>. DEFINE Watched == AtomicCancel /\ cancelling = {} /\ NackLeaves /\ Attended
<1>1. AtomicCancel /\ Init => Watched
  BY DEF Init, NackLeaves, Attended
<1>2. ASSUME TypeOK, Watched, [Next]_vars
      PROVE  Watched'
  <2>1. cancelling' = {}
    <3>1. ASSUME NEW w \in Worker, Going(w)
          PROVE  cancelling' = cancelling
      BY <1>2, <3>1, GoingAlone DEF Alone
    <3>2. ASSUME NEW w \in Worker, Release(w) \/ Crash(w) \/ RaiseInFinally(w)
          PROVE  cancelling' = cancelling
      BY <3>2 DEF Release, Crash, RaiseInFinally
    <3>3. ASSUME NEW w \in Worker, NEW j \in Job, Deliver(w, j)
          PROVE  cancelling' = cancelling
      BY <3>3 DEF Deliver
    <3>4. ASSUME NEW j \in Job, Api(j) \/ Duplicate(j)
          PROVE  cancelling' = cancelling
      <4>1. ~ReadForCancellation(j)
        BY <1>2 DEF ReadForCancellation
      <4>2. ~WriteCancellation(j)
        BY <1>2 DEF WriteCancellation
      <4>3. CASE CreateJob(j) \/ PublishJob(j) \/ PublishFails(j)
        BY <4>3 DEF CreateJob, PublishJob, PublishFails
      <4>4. CASE RequestCancellation(j)
        BY <4>4 DEF RequestCancellation
      <4>5. CASE Duplicate(j)
        BY <4>5 DEF Duplicate
      <4>. QED
        BY <3>4, <4>1, <4>2, <4>3, <4>4, <4>5 DEF Api
    <3>5. CASE UNCHANGED vars
      BY <1>2, <3>5 DEF vars
    <3>. QED
      BY <1>2, <3>1, <3>2, <3>3, <3>4, <3>5 DEF Next, WorkerStep, ProcessJob, Going
  <2>2. ASSUME NEW j \in Job, deliveries'[j] > 0, status'[j] \notin Terminal
        PROVE  messages'[j] > 0 \/ \E w \in Busy(j)' : Unfinished(w)'
    <3>1. CASE \E w \in Worker : Deliver(w, j)
      BY <1>2, <3>1, DeliveredOwes
    <3>2. CASE ~\E w \in Worker : Deliver(w, j)
      <4>1. deliveries'[j] = deliveries[j] /\ (messages[j] > 0 => messages'[j] > 0)
        BY <1>2, <3>2, OwedStep DEF OwedStays
      <4>2. CASE status[j] \in Terminal
        BY <1>2, <2>2, <4>2, OwedStep DEF OwedStays
      <4>3. CASE status[j] \notin Terminal
        BY <1>2, <2>2, <4>1, <4>3, OwedStep DEF Attended, OwedStays
      <4>. QED
        BY <4>2, <4>3
    <3>. QED
      BY <3>1, <3>2
  <2>3. Attended'
    BY <2>2 DEF Attended
  <2>4. NackLeaves'
    BY <1>2, NackStep
  <2>. QED
    BY <1>2, <2>1, <2>3, <2>4
<1>3. Attended => NoJobAbandoned
  BY DEF Attended, NoJobAbandoned, Settled
<1>. QED
  BY <1>1, <1>2, <1>3, TypeCorrect, PTL DEF Spec

-----------------------------------------------------------------------------
(* One delivery: the invariant.                                            *)

\* The message of a job is delivered once and worked on to the end: nobody dies, nothing
\* is duplicated, no exception returns the message, and none is raised once the charge is
\* made or the cancellation written.
DeliveredOnce ==
    /\ AtomicCancel /\ MaxCrashes = 0 /\ MaxDuplicates = 0
    /\ FaultPoints \cap {"load", "except", "report", "release"} = {}
    /\ FaultPoints \cap {"reconcile", "notify", "cancelled"} = {}

\* The message of a job is unpublished, in the queue or in one hand, and gone afterwards.
OneMessage ==
    /\ cancelling = {}
    /\ \A j \in Job : j \in unpublished \/ messages[j] > 0 =>
         /\ messages[j] = IF j \in unpublished THEN 0 ELSE 1
         /\ status[j] \in {"queued", "cancel_requested"} /\ charges[j] = 0
         /\ \A w \in Worker : InWork(w) => inHand[w] # j
    /\ \A j \in Job : status[j] = "absent" => charges[j] = 0
    /\ \A v, w \in Worker : InWork(v) /\ InWork(w) /\ inHand[v] = inHand[w] => v = w

\* What the row of the job in hand holds at each step of process_job.
RowAt(s, current, outcome) ==
    /\ s \in {"load", "start"} => current \in {"queued", "cancel_requested"}
    /\ s \in ProcessingSteps \cup {"allocate", "begin", "finalize", "freegpu", "seal"} =>
         current \in {"processing", "cancel_requested"}
    /\ s = "cancel" => current = "cancel_requested"
    /\ s \in ManifestSteps => current \in Success
    /\ s \in ManifestSteps \cup {"bill"} => current = outcome
    /\ s = "unseal" => current \in Success
    /\ s \in {"rescue", "except"} => current # "cancelled"
    /\ s = "rescued" => current = "failed"
    /\ s \in {"reconcile", "notify", "cancelled", "report", "release"} => current \in Terminal

Stage(w) ==
    /\ ~nack[w] /\ finalized[w] \in Terminal
    /\ InWork(w) =>
         /\ status[inHand[w]] # "absent"
         /\ step[w] \notin {"reconcile", "notify", "release"} => charges[inHand[w]] = 0
         /\ RowAt(step[w], status[inHand[w]], verdict[w])

LifeInv == DeliveredOnce /\ OneMessage /\ \A w \in Worker : Stage(w)

\* It holds at the beginning.
LEMMA InitLife == DeliveredOnce /\ Init => LifeInv
  BY DEF Init, LifeInv, OneMessage, Stage, InWork, Terminal

\* A worker's step is the business of its own job: what the row holds at the worker's
\* next step is all that has to be shown.
LEMMA AloneKeeps ==
    ASSUME TypeOK, LifeInv, NEW w \in Worker, Alone(w), Stage(w)'
    PROVE  LifeInv'
<1>t. /\ step \in [Worker -> Step] /\ inHand \in [Worker -> Job]
      /\ inHand' = inHand
  BY DEF TypeOK, Alone
<1>1. DeliveredOnce'
  BY DEF LifeInv, DeliveredOnce
<1>2. \A v \in Worker : InWork(v)' = InWork(v)
  BY DEF Alone, InWork
<1>3. \A v \in Worker \ {w} : InWork(v) => inHand[v] # inHand[w]
  BY DEF Alone, LifeInv, OneMessage
<1>4. ~(inHand[w] \in unpublished \/ messages[inHand[w]] > 0)
  BY <1>t DEF Alone, LifeInv, OneMessage
<1>5. OneMessage'
  <2>1. cancelling' = {}
    BY DEF Alone, LifeInv, OneMessage
  <2>2. ASSUME NEW j \in Job, j \in unpublished' \/ messages'[j] > 0
        PROVE  /\ messages'[j] = IF j \in unpublished' THEN 0 ELSE 1
               /\ status'[j] \in {"queued", "cancel_requested"} /\ charges'[j] = 0
               /\ \A v \in Worker : InWork(v)' => inHand'[v] # j
    <3>1. j # inHand[w]
      BY <1>4, <2>2 DEF Alone
    <3>. QED
      BY <1>2, <2>2, <3>1 DEF Alone, LifeInv, OneMessage
  <2>3. ASSUME NEW j \in Job, status'[j] = "absent"
        PROVE  charges'[j] = 0
    <3>1. j # inHand[w]
      BY <2>3 DEF Alone, Stage, InWork
    <3>. QED
      BY <2>3, <3>1 DEF Alone, LifeInv, OneMessage
  <2>4. \A u, v \in Worker : InWork(u)' /\ InWork(v)' /\ inHand'[u] = inHand'[v] => u = v
    BY <1>2 DEF Alone, LifeInv, OneMessage
  <2>. QED
    BY <2>1, <2>2, <2>3, <2>4 DEF OneMessage
<1>6. ASSUME NEW v \in Worker \ {w}
      PROVE  Stage(v)'
  <2>1. InWork(v) => inHand[v] \in Job \ {inHand[w]}
    BY <1>t, <1>3
  <2>2. Stage(v)
    BY DEF LifeInv
  <2>3. UNCHANGED <<step[v], verdict[v], finalized[v], nack[v], inHand[v]>>
    BY DEF Alone
  <2>4. InWork(v) => UNCHANGED <<status[inHand[v]], charges[inHand[v]]>>
    BY <2>1 DEF Alone
  <2>. QED
    BY <1>2, <2>2, <2>3, <2>4 DEF Stage
<1>. QED
  BY <1>1, <1>5, <1>6 DEF LifeInv

\* What each step finds in the row of its job, and so what the next one will find.
LEMMA GoingStage ==
    ASSUME TypeOK, LifeInv, NEW w \in Worker, Going(w)
    PROVE  Stage(w)'
<1>t. /\ step \in [Worker -> Step] /\ inHand \in [Worker -> Job]
      /\ verdict \in [Worker -> Success \cup {"failed"}] /\ finalized \in [Worker -> Status]
      /\ nack \in [Worker -> BOOLEAN]
      /\ status \in [Job -> Status] /\ charges \in [Job -> Nat]
  BY DEF TypeOK
<1>s. Stage(w)
  BY DEF LifeInv
<1>. USE DEF Stage, InWork, RowAt, ProcessingSteps, ManifestSteps, Terminal, Success
<1>1. CASE Load(w)
  BY <1>t, <1>s, <1>1 DEF Load
<1>2. CASE Start(w)
  BY <1>t, <1>s, <1>2 DEF Start
<1>3. CASE AllocateGpu(w)
  BY <1>t, <1>s, <1>3 DEF AllocateGpu, SetHolds
<1>4. CASE Begin(w)
  BY <1>t, <1>s, <1>4 DEF Begin
<1>5. CASE Poll(w)
  BY <1>t, <1>s, <1>5 DEF Poll
<1>6. CASE CacheHit(w)
  BY <1>t, <1>s, <1>6 DEF CacheHit, TryAttempt, NextSegment
<1>7. CASE CacheMiss(w)
  BY <1>t, <1>s, <1>7 DEF CacheMiss, TryAttempt, NextSegment
<1>8. CASE StartAttempt(w)
  BY <1>t, <1>s, <1>8 DEF StartAttempt
<1>9. CASE SegmentSucceeds(w)
  BY <1>t, <1>s, <1>9 DEF SegmentSucceeds
<1>10. CASE SegmentFails(w)
  BY <1>t, <1>s, <1>10 DEF SegmentFails, TryAttempt
<1>11. CASE CompleteSegment(w)
  BY <1>t, <1>s, <1>11 DEF CompleteSegment
<1>12. CASE TallySegments(w)
  BY <1>t, <1>s, <1>12 DEF TallySegments
<1>13. CASE UpdateProgress(w)
  BY <1>t, <1>s, <1>13 DEF UpdateProgress, NextSegment
<1>14. CASE FinalizeJob(w)
  BY <1>t, <1>s, <1>14 DEF FinalizeJob, SetVerdict, Verdict
<1>15. CASE ReleaseGpu(w)
  BY <1>t, <1>s, <1>15 DEF ReleaseGpu
<1>16. CASE Seal(w)
  BY <1>t, <1>s, <1>16 DEF Seal
<1>17. CASE StoreManifest(w)
  BY <1>t, <1>s, <1>17 DEF StoreManifest
<1>18. CASE ExposeManifest(w)
  BY <1>t, <1>s, <1>18 DEF ExposeManifest
<1>19. CASE MaterializeArtifacts(w)
  BY <1>t, <1>s, <1>19 DEF MaterializeArtifacts
<1>20. CASE Unseal(w)
  BY <1>t, <1>s, <1>20 DEF Unseal, SetVerdict
<1>21. CASE ConsumeUsage(w)
  BY <1>t, <1>s, <1>21 DEF ConsumeUsage
<1>22. CASE Reconcile(w)
  BY <1>t, <1>s, <1>22 DEF Reconcile, SetHolds
<1>23. CASE Rescue(w)
  BY <1>t, <1>s, <1>23 DEF Rescue, SetVerdict
<1>24. CASE Rescued(w)
  BY <1>t, <1>s, <1>24 DEF Rescued, SetHolds
<1>25. CASE Notify(w)
  BY <1>t, <1>s, <1>25 DEF Notify
<1>26. CASE CancelJob(w)
  BY <1>t, <1>s, <1>26 DEF CancelJob
<1>27. CASE AnnounceCancellation(w)
  BY <1>t, <1>s, <1>27 DEF AnnounceCancellation
<1>28. CASE HandleException(w)
  BY <1>t, <1>s, <1>28 DEF HandleException
<1>29. CASE ReportFailure(w)
  BY <1>t, <1>s, <1>29 DEF ReportFailure
<1>30. CASE Raise(w)
  <2>1. /\ step[w] \notin {"idle", "load", "except", "report", "release",
                       "reconcile", "notify", "cancelled"}
        /\ nack' = [nack EXCEPT ![w] = (Handler(step[w]) = "release")]
        /\ step' = [step EXCEPT ![w] = Handler(step[w])]
        /\ UNCHANGED <<inHand, status, charges, verdict, finalized>>
    BY <1>30, ConstantsAssumption DEF LifeInv, DeliveredOnce, Raise, Fault
  <2>2. CASE step[w] \in ManifestSteps
    BY <1>t, <1>s, <2>1, <2>2 DEF Handler
  <2>3. CASE step[w] \in FinalizeSteps
    BY <1>t, <1>s, <2>1, <2>3 DEF Handler, FinalizeSteps
  <2>4. CASE step[w] \notin ManifestSteps \cup FinalizeSteps
    <3>1. Handler(step[w]) = "except"
      BY <2>1, <2>4 DEF Handler
    <3>2. step[w] \in {"start", "allocate", "begin", "finalize", "freegpu", "rescue", "rescued",
                       "cancel"} \cup ProcessingSteps
      BY <1>t, <2>1, <2>4 DEF Step, FinalizeSteps
    <3>3. charges[inHand[w]] = 0 /\ status[inHand[w]] # "cancelled"
      BY <1>s, <3>2
    <3>. QED
      BY <1>t, <1>s, <2>1, <3>1, <3>2, <3>3
  <2>. QED
    BY <2>2, <2>3, <2>4
<1>31. CASE RaiseAfterRelease(w)
  BY <1>t, <1>s, <1>31 DEF RaiseAfterRelease, Fault
<1>. QED
  BY <1>1, <1>2, <1>3, <1>4, <1>5, <1>6, <1>7, <1>8, <1>9, <1>10, <1>11, <1>12,
      <1>13, <1>14, <1>15, <1>16, <1>17, <1>18, <1>19, <1>20, <1>21, <1>22, <1>23, <1>24,
      <1>25, <1>26, <1>27, <1>28, <1>29, <1>30, <1>31
     DEF Going, ProcessSegment, Finalize

-----------------------------------------------------------------------------
(* One delivery: the steps of the API, of the queue and the finally clause. *)

\* A job is created once, published once and cancelled only while it is active.
LEMMA ApiLife ==
    ASSUME TypeOK, LifeInv, NEW j \in Job, Api(j) \/ Duplicate(j)
    PROVE  LifeInv'
<1>t. /\ step \in [Worker -> Step] /\ inHand \in [Worker -> Job]
      /\ status \in [Job -> Status] /\ charges \in [Job -> Nat]
      /\ messages \in [Job -> Nat] /\ verdict \in [Worker -> Success \cup {"failed"}]
  BY DEF TypeOK
<1>d. DeliveredOnce'
  BY DEF LifeInv, DeliveredOnce
<1>1. ASSUME CreateJob(j)
      PROVE  LifeInv'
  <2>1. \A w \in Worker : InWork(w) => inHand[w] # j
    BY <1>1 DEF LifeInv, Stage, CreateJob
  <2>2. charges[j] = 0 /\ messages[j] = 0
    BY <1>t, <1>1 DEF LifeInv, OneMessage, CreateJob
  <2>3. OneMessage'
    BY <1>t, <1>1, <2>1, <2>2 DEF LifeInv, OneMessage, InWork, CreateJob
  <2>4. \A w \in Worker : Stage(w)'
    BY <1>t, <1>1, <2>1 DEF LifeInv, Stage, InWork, CreateJob
  <2>. QED
    BY <1>d, <2>3, <2>4 DEF LifeInv
<1>2. ASSUME PublishJob(j)
      PROVE  LifeInv'
  <2>1. OneMessage'
    BY <1>t, <1>2 DEF LifeInv, OneMessage, InWork, PublishJob
  <2>2. \A w \in Worker : Stage(w)'
    BY <1>2 DEF LifeInv, Stage, InWork, PublishJob
  <2>. QED
    BY <1>d, <2>1, <2>2 DEF LifeInv
<1>3. ASSUME PublishFails(j)
      PROVE  LifeInv'
  <2>1. OneMessage'
    BY <1>t, <1>3 DEF LifeInv, OneMessage, InWork, PublishFails
  <2>2. \A w \in Worker : Stage(w)'
    BY <1>3 DEF LifeInv, Stage, InWork, PublishFails
  <2>. QED
    BY <1>d, <2>1, <2>2 DEF LifeInv
<1>4. ASSUME RequestCancellation(j)
      PROVE  LifeInv'
  <2>1. /\ status[j] \in {"queued", "processing"}
        /\ status' = [status EXCEPT ![j] = "cancel_requested"]
    BY <1>t, <1>4 DEF RequestCancellation, Status, Terminal, Success
  <2>2. OneMessage'
    BY <1>t, <1>4, <2>1 DEF LifeInv, OneMessage, InWork, RequestCancellation
  <2>3. ASSUME NEW w \in Worker
        PROVE  Stage(w)'
    <3>1. /\ Stage(w)
          /\ UNCHANGED <<step, inHand, verdict, finalized, nack, charges>>
      BY <1>4 DEF LifeInv, RequestCancellation
    <3>2. CASE inHand[w] # j
      BY <1>t, <2>1, <3>1, <3>2 DEF Stage, InWork
    <3>3. CASE inHand[w] = j
      <4>. DEFINE ended == ManifestSteps \cup {"bill", "unseal", "cancel", "rescued", "reconcile",
                                               "notify", "cancelled", "report", "release"}
      <4>1. InWork(w) => step[w] \notin ended
        BY <1>t, <2>1, <3>1, <3>3 DEF Stage, RowAt, ManifestSteps, Terminal, Success
      <4>2. InWork(w) => RowAt(step[w], "cancel_requested", verdict[w])
        BY <4>1 DEF RowAt, ProcessingSteps, ManifestSteps
      <4>. QED
        BY <1>t, <2>1, <3>1, <3>3, <4>2 DEF Stage, InWork
    <3>. QED
      BY <3>2, <3>3
  <2>. QED
    BY <1>d, <2>2, <2>3 DEF LifeInv
<1>5. ~ReadForCancellation(j) /\ ~WriteCancellation(j)
  BY DEF LifeInv, DeliveredOnce, OneMessage, ReadForCancellation, WriteCancellation
<1>6. ~Duplicate(j)
  BY DEF LifeInv, DeliveredOnce, TypeOK, Duplicate
<1>. QED
  BY <1>1, <1>2, <1>3, <1>4, <1>5, <1>6 DEF Api

\* A delivery takes the only message of its job.
LEMMA DeliverLife ==
    ASSUME TypeOK, LifeInv, NEW w \in Worker, NEW j \in Job, Deliver(w, j)
    PROVE  LifeInv'
<1>t. /\ step \in [Worker -> Step] /\ inHand \in [Worker -> Job]
      /\ status \in [Job -> Status] /\ charges \in [Job -> Nat]
      /\ messages \in [Job -> Nat]
  BY DEF TypeOK
<1>1. DeliveredOnce'
  BY DEF LifeInv, DeliveredOnce
<1>2. /\ messages[j] = 1 /\ j \notin unpublished
      /\ status[j] \in {"queued", "cancel_requested"} /\ charges[j] = 0
      /\ \A v \in Worker : InWork(v) => inHand[v] # j
  BY DEF LifeInv, OneMessage, Deliver
<1>3. /\ step[w] = "idle" /\ step' = [step EXCEPT ![w] = "load"]
      /\ inHand' = [inHand EXCEPT ![w] = j]
      /\ messages' = [messages EXCEPT ![j] = 0]
      /\ UNCHANGED <<status, charges, unpublished, cancelling, verdict, finalized, nack>>
  BY <1>2 DEF Deliver
<1>4. OneMessage'
  <2>1. cancelling' = {} /\ \A k \in Job : status'[k] = "absent" => charges'[k] = 0
    BY <1>3 DEF LifeInv, OneMessage
  <2>2. ASSUME NEW k \in Job, k \in unpublished' \/ messages'[k] > 0
        PROVE  /\ messages'[k] = IF k \in unpublished' THEN 0 ELSE 1
               /\ status'[k] \in {"queued", "cancel_requested"} /\ charges'[k] = 0
               /\ \A v \in Worker : InWork(v)' => inHand'[v] # k
    <3>1. k # j
      BY <1>t, <1>2, <1>3, <2>2
    <3>. QED
      BY <1>t, <1>3, <2>2, <3>1 DEF LifeInv, OneMessage, InWork
  <2>3. \A u, v \in Worker : InWork(u)' /\ InWork(v)' /\ inHand'[u] = inHand'[v] => u = v
    BY <1>t, <1>2, <1>3 DEF LifeInv, OneMessage, InWork
  <2>. QED
    BY <2>1, <2>2, <2>3 DEF OneMessage
<1>5. Stage(w)'
  <2>1. step'[w] = "load" /\ inHand'[w] = j
    BY <1>t, <1>3
  <2>. QED
    BY <1>2, <1>3, <2>1
       DEF LifeInv, Stage, InWork, RowAt, ProcessingSteps, ManifestSteps
<1>6. \A v \in Worker \ {w} : Stage(v)'
  BY <1>t, <1>3 DEF LifeInv, Stage, InWork
<1>. QED
  BY <1>1, <1>4, <1>5, <1>6 DEF LifeInv

\* The message of a job that has ended is acknowledged.
LEMMA ReleaseLife ==
    ASSUME TypeOK, LifeInv, NEW w \in Worker, Release(w)
    PROVE  LifeInv'
<1>t. /\ step \in [Worker -> Step] /\ inHand \in [Worker -> Job]
      /\ finalized \in [Worker -> Status] /\ nack \in [Worker -> BOOLEAN]
  BY DEF TypeOK
<1>1. DeliveredOnce'
  BY DEF LifeInv, DeliveredOnce
<1>2. ~nack[w]
  BY DEF LifeInv, Stage
<1>3. Forget(w) /\ UNCHANGED <<status, charges, messages, unpublished, cancelling>>
  BY <1>2 DEF Release, HandBack
<1>4. /\ ~InWork(w)'
      /\ \A v \in Worker \ {w} : UNCHANGED <<step[v], inHand[v], verdict[v], finalized[v], nack[v]>>
  BY <1>t, <1>3 DEF Forget, InWork, TypeOK
<1>5. OneMessage'
  BY <1>3, <1>4 DEF LifeInv, OneMessage, InWork
<1>6. Stage(w)'
  BY <1>t, <1>3, <1>4 DEF Forget, Stage, Terminal
<1>7. \A v \in Worker \ {w} : Stage(v)'
  BY <1>3, <1>4 DEF LifeInv, Stage, InWork
<1>. QED
  BY <1>1, <1>5, <1>6, <1>7 DEF LifeInv

\* Every step keeps the invariant.
LEMMA LifeStep ==
    ASSUME TypeOK, LifeInv, [Next]_vars
    PROVE  LifeInv'
<1>1. CASE \E j \in Job : Api(j) \/ Duplicate(j)
  BY <1>1, ApiLife
<1>2. CASE \E w \in Worker, j \in Job : Deliver(w, j)
  BY <1>2, DeliverLife
<1>3. CASE \E w \in Worker : Going(w)
  BY <1>3, GoingAlone, GoingStage, AloneKeeps
<1>4. CASE \E w \in Worker : Release(w)
  BY <1>4, ReleaseLife
<1>5. ASSUME NEW w \in Worker
      PROVE  ~Crash(w) /\ ~RaiseInFinally(w)
  <2>1. ~Crash(w)
    BY DEF LifeInv, DeliveredOnce, TypeOK, Crash
  <2>2. ~RaiseInFinally(w)
    BY DEF LifeInv, DeliveredOnce, RaiseInFinally, Fault
  <2>. QED
    BY <2>1, <2>2
<1>6. CASE UNCHANGED vars
  <2>1. DeliveredOnce'
    BY DEF LifeInv, DeliveredOnce
  <2>2. OneMessage'
    BY <1>6 DEF vars, LifeInv, OneMessage, InWork
  <2>3. \A w \in Worker : Stage(w)'
    BY <1>6 DEF vars, LifeInv, Stage, InWork
  <2>. QED
    BY <2>1, <2>2, <2>3 DEF LifeInv
<1>. QED
  BY <1>1, <1>2, <1>3, <1>4, <1>5, <1>6 DEF Next, WorkerStep, ProcessJob, Going

-----------------------------------------------------------------------------
(* One delivery: the refinement.                                           *)

\* Every step is a move of the lifecycle or leaves status and charges alone.
LEMMA LifecycleStep ==
    ASSUME TypeOK, LifeInv, [Next]_vars
    PROVE  [Lifecycle!Next]_<<status, charges>>
<1>t. /\ step \in [Worker -> Step] /\ inHand \in [Worker -> Job]
      /\ verdict \in [Worker -> Success \cup {"failed"}]
      /\ status \in [Job -> Status] /\ charges \in [Job -> Nat]
  BY DEF TypeOK
<1>. DEFINE Moves(j) == \/ Lifecycle!Accept(j) \/ Lifecycle!Begin(j) \/ Lifecycle!AskCancel(j)
                        \/ Lifecycle!AcknowledgeCancel(j) \/ Lifecycle!Conclude(j)
                        \/ Lifecycle!Fail(j) \/ Lifecycle!Demote(j) \/ Lifecycle!Meter(j)
            Goal == [Lifecycle!Next]_<<status, charges>>
<1>m. ASSUME NEW j \in Job, Moves(j)
      PROVE  Goal
  BY <1>m DEF Lifecycle!Next
<1>s. \A w \in Worker : Stage(w)
  BY DEF LifeInv
<1>f. ASSUME NEW j \in Job, status' = [status EXCEPT ![j] = "failed"], UNCHANGED charges,
             charges[j] = 0, status[j] \notin {"absent", "cancelled"}
      PROVE  Goal
  <2>1. status[j] \in Lifecycle!Running \cup Lifecycle!Success \cup {"failed"}
    BY <1>t, <1>f DEF Status, Terminal, Success, Lifecycle!Running, Lifecycle!Success
  <2>2. CASE status[j] \in Lifecycle!Running
    BY <1>f, <1>m, <2>2 DEF Lifecycle!Fail, Lifecycle!Move
  <2>3. CASE status[j] \in Lifecycle!Success
    BY <1>f, <1>m, <2>3 DEF Lifecycle!Demote, Lifecycle!Move
  <2>4. CASE status[j] = "failed"
    BY <1>t, <1>f, <2>4
  <2>. QED
    BY <2>1, <2>2, <2>3, <2>4
<1>1. ASSUME NEW j \in Job, CreateJob(j)
      PROVE  Goal
  BY <1>1, <1>m DEF CreateJob, Lifecycle!Accept, Lifecycle!Move
<1>2. ASSUME NEW j \in Job, RequestCancellation(j)
      PROVE  Goal
  <2>1. status[j] \in {"queued", "processing"}
    BY <1>t, <1>2 DEF RequestCancellation, Status, Terminal, Success
  <2>. QED
    BY <1>2, <1>m, <2>1 DEF RequestCancellation, Lifecycle!AskCancel, Lifecycle!Move
<1>3. ASSUME NEW j \in Job, PublishJob(j) \/ PublishFails(j) \/ ReadForCancellation(j)
             \/ Duplicate(j)
      PROVE  Goal
  BY <1>3 DEF PublishJob, PublishFails, ReadForCancellation, Duplicate
<1>4. ASSUME NEW j \in Job
      PROVE  ~WriteCancellation(j)
  BY DEF LifeInv, OneMessage, WriteCancellation
<1>5. ASSUME NEW w \in Worker, Start(w)
      PROVE  Goal
  <2>1. inHand[w] \in Job /\ status[inHand[w]] \in {"queued", "cancel_requested"}
    BY <1>t, <1>s, <1>5 DEF Stage, InWork, RowAt, Start
  <2>2. Lifecycle!Begin(inHand[w])
    BY <1>5, <2>1 DEF Start, Lifecycle!Begin, Lifecycle!Move
  <2>. QED
    BY <1>m, <2>1, <2>2
<1>6. ASSUME NEW w \in Worker, Seal(w)
      PROVE  Goal
  <2>1. /\ inHand[w] \in Job /\ status[inHand[w]] \in {"processing", "cancel_requested"}
        /\ charges[inHand[w]] = 0
    BY <1>t, <1>s, <1>6 DEF Stage, InWork, RowAt, Seal
  <2>2. status' = [status EXCEPT ![inHand[w]] = verdict[w]] /\ UNCHANGED charges
    BY <1>6 DEF Seal
  <2>3. CASE verdict[w] = "failed"
    BY <1>f, <2>1, <2>2, <2>3
  <2>4. CASE verdict[w] \in Success
    <3>1. Lifecycle!Conclude(inHand[w])
      BY <2>1, <2>2, <2>4 DEF Success, Lifecycle!Success, Lifecycle!Conclude, Lifecycle!Move
    <3>. QED
      BY <1>m, <2>1, <3>1
  <2>. QED
    BY <1>t, <2>3, <2>4
<1>7. ASSUME NEW w \in Worker, Unseal(w) \/ Rescue(w) \/ HandleException(w)
      PROVE  Goal
  <2>1. /\ inHand[w] \in Job /\ charges[inHand[w]] = 0
        /\ status[inHand[w]] \notin {"absent", "cancelled"}
        /\ step[w] \in {"unseal", "rescue", "except"}
    BY <1>t, <1>s, <1>7 DEF Stage, InWork, RowAt, Success, Unseal, Rescue, HandleException
  <2>2. status' = [status EXCEPT ![inHand[w]] = "failed"] /\ UNCHANGED charges
    BY <1>7 DEF Unseal, Rescue, HandleException
  <2>. QED
    BY <1>f, <2>1, <2>2
<1>8. ASSUME NEW w \in Worker, CancelJob(w)
      PROVE  Goal
  <2>1. inHand[w] \in Job /\ status[inHand[w]] = "cancel_requested"
    BY <1>t, <1>s, <1>8 DEF Stage, InWork, RowAt, CancelJob
  <2>2. Lifecycle!AcknowledgeCancel(inHand[w])
    BY <1>8, <2>1 DEF CancelJob, Lifecycle!AcknowledgeCancel, Lifecycle!Move
  <2>. QED
    BY <1>m, <2>1, <2>2
<1>9. ASSUME NEW w \in Worker, ConsumeUsage(w)
      PROVE  Goal
  <2>1. inHand[w] \in Job /\ charges[inHand[w]] = 0 /\ status[inHand[w]] = verdict[w]
    BY <1>t, <1>s, <1>9 DEF Stage, InWork, RowAt, ConsumeUsage
  <2>2. CASE verdict[w] \in Success
    <3>1. charges' = [charges EXCEPT ![inHand[w]] = 1] /\ UNCHANGED status
      BY <1>t, <1>9, <2>1, <2>2 DEF ConsumeUsage
    <3>2. Lifecycle!Meter(inHand[w])
      BY <2>1, <2>2, <3>1 DEF Success, Lifecycle!Success, Lifecycle!Meter
    <3>. QED
      BY <1>m, <2>1, <3>2
  <2>3. CASE verdict[w] \notin Success
    BY <1>t, <1>9, <2>3 DEF ConsumeUsage
  <2>. QED
    BY <2>2, <2>3
<1>10. ASSUME NEW w \in Worker, NEW j \in Job, Deliver(w, j)
       PROVE  Goal
  BY <1>10 DEF Deliver
<1>11. ASSUME NEW w \in Worker,
              \/ Load(w) \/ AllocateGpu(w) \/ Begin(w) \/ Poll(w) \/ ProcessSegment(w)
              \/ FinalizeJob(w) \/ ReleaseGpu(w) \/ StoreManifest(w) \/ ExposeManifest(w)
              \/ MaterializeArtifacts(w) \/ Reconcile(w) \/ Rescued(w)
       PROVE  Goal
  BY <1>11
     DEF Load, AllocateGpu, Begin, Poll, ProcessSegment, CacheHit, CacheMiss, StartAttempt,
         SegmentSucceeds, SegmentFails, CompleteSegment, TallySegments, UpdateProgress,
         FinalizeJob, ReleaseGpu, StoreManifest, ExposeManifest, MaterializeArtifacts,
         Reconcile, Rescued
<1>12. ASSUME NEW w \in Worker,
              \/ Notify(w) \/ AnnounceCancellation(w) \/ ReportFailure(w) \/ Release(w)
              \/ Crash(w) \/ Raise(w) \/ RaiseAfterRelease(w) \/ RaiseInFinally(w)
       PROVE  Goal
  BY <1>12
     DEF Notify, AnnounceCancellation, ReportFailure, Release, Crash, Raise,
         RaiseAfterRelease, RaiseInFinally
<1>13. CASE UNCHANGED vars
  BY <1>13 DEF vars
<1>. QED
  BY <1>1, <1>2, <1>3, <1>4, <1>5, <1>6, <1>7, <1>8, <1>9, <1>10, <1>11, <1>12, <1>13
     DEF Next, Api, WorkerStep, ProcessJob, Finalize

\* Delivered once, the runtime keeps what the job API promises, for any number of jobs,
\* workers and segments: a success is demoted only while it is uncharged, a charge is
\* made once and only for a success, and a cancelled job stays cancelled.
THEOREM RuntimeImplementsLifecycle == DeliveredOnce /\ Spec => ImplementsLifecycle
<1>1. Init => Lifecycle!Init
  BY DEF Init, Lifecycle!Init
<1>2. DeliveredOnce /\ Init => LifeInv
  BY InitLife
<1>3. TypeOK /\ LifeInv /\ [Next]_vars => LifeInv'
  BY LifeStep
<1>4. TypeOK /\ LifeInv /\ [Next]_vars => [Lifecycle!Next]_<<status, charges>>
  BY LifecycleStep
<1>. QED
  BY <1>1, <1>2, <1>3, <1>4, TypeCorrect, PTL
     DEF Spec, ImplementsLifecycle, Lifecycle!Spec

-----------------------------------------------------------------------------
(* The last webhook.                                                       *)

\* No two workers have the same job in hand: the broker repeats no message that is still being
\* worked on, or there is one worker.
OneAtATime == MaxDuplicates = 0 \/ \A v, w \in Worker : v = w

\* What is published, delivered, worked on or cancelled has a row.
Present == \A j \in Job :
    messages[j] > 0 \/ deliveries[j] > 0 \/ j \in unpublished \cup cancelling \/ Busy(j) # {} =>
       status[j] # "absent"

\* A job is in one worker's hand ...
Sole == \A v, w \in Worker : InWork(v) /\ InWork(w) /\ inHand[v] = inHand[w] => v = w

\* ... since its message is the only one, and not in the queue meanwhile.
OneCopy == \A j \in Job :
    /\ messages[j] <= 1
    /\ j \in unpublished => messages[j] = 0
    /\ j \in unpublished \/ messages[j] > 0 => Busy(j) = {}

HandInv == OneAtATime /\ Present /\ Sole /\ (MaxDuplicates = 0 => OneCopy)

\* It holds at the beginning.
LEMMA InitHand == OneAtATime /\ Init => HandInv
  BY DEF Init, HandInv, OneAtATime, Present, Sole, OneCopy, Busy, InWork

\* process_job writes a status, and never takes the row away.
LEMMA GoingRow ==
    ASSUME TypeOK, NEW w \in Worker, Going(w), status[inHand[w]] # "absent"
    PROVE  status'[inHand[w]] # "absent"
<1>t. /\ status \in [Job -> Status] /\ inHand \in [Worker -> Job]
      /\ verdict \in [Worker -> Success \cup {"failed"}]
  BY DEF TypeOK
<1>1. CASE Start(w) \/ Seal(w) \/ Unseal(w) \/ Rescue(w) \/ CancelJob(w) \/ HandleException(w)
  BY <1>t, <1>1 DEF Start, Seal, Unseal, Rescue, CancelJob, HandleException, Success
<1>2. CASE UNCHANGED status
  BY <1>2
<1>. QED
  BY <1>1, <1>2
     DEF Going, ProcessSegment, Finalize, Load, AllocateGpu, Begin, Poll, CacheHit, CacheMiss,
         StartAttempt, SegmentSucceeds, SegmentFails, CompleteSegment, TallySegments, UpdateProgress,
         FinalizeJob, ReleaseGpu, StoreManifest, ExposeManifest, MaterializeArtifacts, ConsumeUsage,
         Reconcile, Rescued, Notify, AnnounceCancellation, ReportFailure, Raise, RaiseAfterRelease

\* A worker takes a job that nobody else has, and gives its only message back.
LEMMA HandStep ==
    ASSUME TypeOK, NackLeaves, HandInv, [Next]_vars
    PROVE  HandInv'
<1>t. /\ step \in [Worker -> Step] /\ inHand \in [Worker -> Job] /\ status \in [Job -> Status]
      /\ messages \in [Job -> Nat] /\ deliveries \in [Job -> Nat]
  BY DEF TypeOK
<1>. USE DEF HandInv, Present, Sole, OneCopy, Busy, InWork
<1>o. OneAtATime'
  BY DEF OneAtATime
<1>1. ASSUME NEW w \in Worker, Going(w)
      PROVE  HandInv'
  <2>1. /\ step[w] # "idle" /\ step'[w] # "idle"
        /\ UNCHANGED <<inHand, messages, unpublished, cancelling>>
        /\ \A v \in Worker : v # w => step'[v] = step[v]
        /\ \A k \in Job : k # inHand[w] => status'[k] = status[k]
        /\ UNCHANGED deliveries
    BY <1>1, GoingAlone, GoingOwes DEF Alone
  <2>2. status[inHand[w]] # "absent"
    BY <1>t, <2>1
  <2>3. status'[inHand[w]] # "absent"
    BY <1>1, <2>2, GoingRow
  <2>4. \A v \in Worker : step'[v] = "idle" <=> step[v] = "idle"
    BY <2>1
  <2>5. \A k \in Job : Busy(k)' = Busy(k)
    BY <2>1, <2>4
  <2>6. Present'
    BY <2>1, <2>3, <2>5
  <2>7. Sole' /\ (MaxDuplicates = 0 => OneCopy')
    BY <2>1, <2>4, <2>5
  <2>. QED
    BY <1>o, <2>6, <2>7
<1>2. ASSUME NEW w \in Worker, Release(w) \/ Crash(w) \/ RaiseInFinally(w)
      PROVE  HandInv'
  <2>1. /\ step[w] # "idle" /\ step' = [step EXCEPT ![w] = "idle"]
        /\ inHand' = [inHand EXCEPT ![w] = AnyJob]
        /\ UNCHANGED <<status, unpublished, cancelling, deliveries>>
        /\ messages' = messages \/ messages' = [messages EXCEPT ![inHand[w]] = @ + 1]
    BY <1>2 DEF Release, Crash, RaiseInFinally, Fault, HandBack, Forget
  <2>2. \A k \in Job : Busy(k)' \subseteq Busy(k) \ {w}
    BY <1>t, <2>1
  <2>3. w \in Busy(inHand[w]) /\ inHand[w] \in Job
    BY <1>t, <2>1
  <2>4. \A k \in Job : messages'[k] > 0 => messages[k] > 0 \/ k = inHand[w]
    BY <1>t, <2>1
  <2>5. Present'
    BY <2>1, <2>2, <2>3, <2>4
  <2>6. Sole'
    BY <1>t, <2>1
  <2>7. ASSUME MaxDuplicates = 0
        PROVE  OneCopy'
    <3>1. PICK j \in Job : inHand[w] = j
      BY <1>t
    <3>2. ~(j \in unpublished \/ messages[j] > 0) /\ messages[j] \in Nat /\ Busy(j) \subseteq {w}
      BY <1>t, <2>3, <2>7, <3>1
    <3>3. Busy(j)' = {}
      BY <2>2, <3>2
    <3>4. messages'[j] <= 1 /\ \A k \in Job : k # j => messages'[k] = messages[k]
      BY <1>t, <2>1, <3>1, <3>2
    <3>5. \A k \in Job : k # j =>
             /\ messages'[k] <= 1 /\ (k \in unpublished => messages'[k] = 0)
             /\ (k \in unpublished \/ messages'[k] > 0 => Busy(k)' = {})
      BY <1>t, <2>2, <2>7, <3>4
    <3>. QED
      BY <2>1, <3>2, <3>3, <3>4, <3>5
  <2>. QED
    BY <1>o, <2>5, <2>6, <2>7
<1>3. ASSUME NEW w \in Worker, NEW j \in Job, Deliver(w, j)
      PROVE  HandInv'
  <2>1. /\ step[w] = "idle" /\ step' = [step EXCEPT ![w] = "load"]
        /\ inHand' = [inHand EXCEPT ![w] = j]
        /\ messages[j] > 0 /\ messages' = [messages EXCEPT ![j] = @ - 1]
        /\ UNCHANGED <<status, unpublished, cancelling>>
        /\ deliveries' = [deliveries EXCEPT ![j] = @ + 1]
    BY <1>3 DEF Deliver
  <2>2. \A k \in Job : Busy(k)' = IF k = j THEN Busy(k) \cup {w} ELSE Busy(k)
    BY <1>t, <2>1
  <2>3. \A k \in Job : k # j => messages'[k] = messages[k] /\ deliveries'[k] = deliveries[k]
    BY <1>t, <2>1
  <2>4. Present'
    BY <2>1, <2>2, <2>3
  <2>5. Sole'
    <3>1. CASE MaxDuplicates = 0
      <4>1. Busy(j) = {}
        BY <2>1, <3>1
      <4>. QED
        BY <1>t, <2>1, <4>1
    <3>2. CASE \A u, v \in Worker : u = v
      BY <3>2
    <3>. QED
      BY <3>1, <3>2 DEF OneAtATime
  <2>6. ASSUME MaxDuplicates = 0
        PROVE  OneCopy'
    <3>1. messages[j] = 1 /\ messages'[j] = 0 /\ j \notin unpublished
      BY <1>t, <2>1, <2>6
    <3>. QED
      BY <1>t, <2>1, <2>2, <2>3, <2>6, <3>1
  <2>. QED
    BY <1>o, <2>4, <2>5, <2>6
<1>4. ASSUME NEW j \in Job, Api(j) \/ Duplicate(j)
      PROVE  HandInv'
  <2>1. UNCHANGED <<step, inHand>>
    BY <1>4
       DEF Api, CreateJob, PublishJob, PublishFails, RequestCancellation, ReadForCancellation,
           WriteCancellation, Duplicate
  <2>2. Present'
    BY <1>t, <1>4
       DEF Api, CreateJob, PublishJob, PublishFails, RequestCancellation, ReadForCancellation,
           WriteCancellation, Duplicate
  <2>3. ASSUME MaxDuplicates = 0
        PROVE  OneCopy'
    <3>1. CASE CreateJob(j)
      <4>1. messages[j] = 0 /\ Busy(j) = {}
        BY <1>t, <3>1 DEF CreateJob
      <4>2. unpublished' = unpublished \cup {j} /\ UNCHANGED messages
        BY <3>1 DEF CreateJob
      <4>. QED
        BY <2>1, <2>3, <4>1, <4>2
    <3>2. CASE PublishJob(j)
      <4>1. messages[j] = 0 /\ Busy(j) = {}
        BY <2>3, <3>2 DEF PublishJob
      <4>2. unpublished' = unpublished \ {j} /\ messages' = [messages EXCEPT ![j] = @ + 1]
        BY <3>2 DEF PublishJob
      <4>. QED
        BY <1>t, <2>1, <2>3, <4>1, <4>2
    <3>3. ~Duplicate(j)
      BY <2>3 DEF Duplicate, TypeOK
    <3>4. CASE PublishFails(j)
      BY <2>1, <2>3, <3>4 DEF PublishFails
    <3>5. CASE RequestCancellation(j) \/ ReadForCancellation(j) \/ WriteCancellation(j)
      BY <2>1, <2>3, <3>5 DEF RequestCancellation, ReadForCancellation, WriteCancellation
    <3>. QED
      BY <1>4, <3>1, <3>2, <3>3, <3>4, <3>5 DEF Api
  <2>. QED
    BY <1>o, <2>1, <2>2, <2>3
<1>5. CASE UNCHANGED vars
  BY <1>5, <1>o DEF vars
<1>. QED
  BY <1>1, <1>2, <1>3, <1>4, <1>5 DEF Next, WorkerStep, ProcessJob, Going

\* At s, the row holds the outcome that the worker has still to announce, or a cancellation that
\* came since.
Told(s, current, outcome, final) ==
    /\ s \in {"freegpu", "seal"} => final = outcome
    /\ s \in ManifestSteps \cup {"bill", "reconcile", "rescued", "notify"} =>
         current \in {final, "cancel_requested"}
    /\ s = "cancelled" => current \in {"cancelled", "cancel_requested"}
    /\ s = "report" => current \in {"failed", "cancel_requested"}

TellsOwn == \A w \in Worker :
    InWork(w) => Told(step[w], status[inHand[w]], verdict[w], finalized[w])

\* A worker whose last event is still to come, or whose message comes back.
Untold(w) == step[w] # "release" \/ nack[w]

Announced == \A j \in Job : status[j] \in Terminal =>
    lastEvent[j] = status[j] \/ messages[j] > 0 \/ \E w \in Busy(j) : Untold(w)

\* Each step of process_job keeps to what it has to announce, and comes to its end when the last
\* webhook tells what the row holds.
LEMMA GoingTells ==
    ASSUME TypeOK, NackLeaves, NEW w \in Worker, Going(w),
           Told(step[w], status[inHand[w]], verdict[w], finalized[w])
    PROVE  /\ Told(step'[w], status'[inHand[w]], verdict'[w], finalized'[w])
           /\ \A k \in Job : k # inHand[w] => lastEvent'[k] = lastEvent[k]
           /\ status'[inHand[w]] \in Terminal =>
                lastEvent'[inHand[w]] = status'[inHand[w]] \/ Untold(w)'
<1>t. /\ step \in [Worker -> Step] /\ inHand \in [Worker -> Job] /\ status \in [Job -> Status]
      /\ verdict \in [Worker -> Success \cup {"failed"}] /\ finalized \in [Worker -> Status]
      /\ nack \in [Worker -> BOOLEAN] /\ lastEvent \in [Job -> Event]
  BY DEF TypeOK
<1>. USE DEF Told, Untold, ManifestSteps
<1>. DEFINE Goal == /\ Told(step'[w], status'[inHand[w]], verdict'[w], finalized'[w])
                    /\ \A k \in Job : k # inHand[w] => lastEvent'[k] = lastEvent[k]
                    /\ status'[inHand[w]] \in Terminal =>
                         lastEvent'[inHand[w]] = status'[inHand[w]] \/ Untold(w)'
<1>1. CASE Load(w) \/ Start(w) \/ AllocateGpu(w) \/ Begin(w) \/ Poll(w)
  <2>1. PICK s \in {"except", "cancel", "start", "allocate", "begin", "poll", "finalize", "lookup"} :
           step' = [step EXCEPT ![w] = s]
    BY <1>1 DEF Load, Start, AllocateGpu, SetHolds, Begin, Poll
  <2>2. \A k \in Job : k # inHand[w] => lastEvent'[k] = lastEvent[k]
    BY <1>t, <1>1 DEF Load, Start, AllocateGpu, Begin, Poll
  <2>. QED
    BY <1>t, <2>1, <2>2
<1>2. CASE ProcessSegment(w)
  <2>1. PICK s \in {"tally", "attempt", "poll", "run", "complete", "progress"} :
           step' = [step EXCEPT ![w] = s]
    BY <1>2 DEF ProcessSegment, CacheHit, CacheMiss, TryAttempt, NextSegment, StartAttempt,
                SegmentSucceeds, SegmentFails, CompleteSegment, TallySegments, UpdateProgress
  <2>2. UNCHANGED lastEvent
    BY <1>2 DEF ProcessSegment, CacheHit, CacheMiss, StartAttempt, SegmentSucceeds, SegmentFails,
                CompleteSegment, TallySegments, UpdateProgress
  <2>. QED
    BY <1>t, <2>1, <2>2
<1>3. CASE FinalizeJob(w)
  <2>1. \/ step' = [step EXCEPT ![w] = "cancel"] /\ UNCHANGED <<verdict, finalized>>
        \/ \E v \in Status : /\ step' = [step EXCEPT ![w] = "freegpu"]
                             /\ verdict' = [verdict EXCEPT ![w] = v]
                             /\ finalized' = [finalized EXCEPT ![w] = v]
    BY <1>3, StatusNames DEF FinalizeJob, SetVerdict, Verdict
  <2>2. UNCHANGED lastEvent
    BY <1>3 DEF FinalizeJob
  <2>. QED
    BY <1>t, <2>1, <2>2
<1>4. CASE ReleaseGpu(w)
  BY <1>t, <1>4 DEF ReleaseGpu
<1>5. CASE Seal(w)
  BY <1>t, <1>5 DEF Seal
<1>6. CASE StoreManifest(w) \/ MaterializeArtifacts(w)
  BY <1>t, <1>6 DEF StoreManifest, MaterializeArtifacts
<1>7. CASE ExposeManifest(w)
  BY <1>t, <1>7 DEF ExposeManifest
<1>8. CASE Unseal(w) \/ Rescue(w)
  BY <1>t, <1>8, StatusNames DEF Unseal, Rescue, SetVerdict
<1>9. CASE ConsumeUsage(w) \/ Reconcile(w) \/ Rescued(w)
  BY <1>t, <1>9 DEF ConsumeUsage, Reconcile, Rescued, SetHolds
<1>10. CASE Notify(w)
  <2>1. /\ step[w] = "notify" /\ UNCHANGED <<status, verdict, finalized, nack>>
        /\ IF finalized[w] \in Terminal
           THEN /\ lastEvent' = [lastEvent EXCEPT ![inHand[w]] = finalized[w]]
                /\ step' = [step EXCEPT ![w] = "release"]
           ELSE step' = [step EXCEPT ![w] = "except"] /\ UNCHANGED lastEvent
    BY <1>10 DEF Notify, Announce
  <2>2. status[inHand[w]] \in {finalized[w], "cancel_requested"}
    BY <2>1
  <2>3. "cancel_requested" \notin Terminal
    BY DEF Terminal, Success
  <2>. QED
    BY <1>t, <2>1, <2>2, <2>3
<1>11. CASE CancelJob(w) \/ HandleException(w)
  BY <1>t, <1>11 DEF CancelJob, HandleException
<1>12. CASE AnnounceCancellation(w) \/ ReportFailure(w)
  <2>1. PICK e \in {"cancelled", "failed"} :
           /\ lastEvent' = [lastEvent EXCEPT ![inHand[w]] = e]
           /\ step' = [step EXCEPT ![w] = "release"]
           /\ status[inHand[w]] \in {e, "cancel_requested"} /\ UNCHANGED status
    BY <1>12 DEF AnnounceCancellation, ReportFailure, Announce
  <2>. QED
    BY <1>t, <2>1 DEF Terminal, Success
<1>13. CASE Raise(w)
  <2>1. /\ UNCHANGED <<status, verdict, finalized, lastEvent>>
        /\ nack' = [nack EXCEPT ![w] = (Handler(step[w]) = "release")]
        /\ step' = [step EXCEPT ![w] = Handler(step[w])]
    BY <1>13 DEF Raise
  <2>2. Handler(step[w]) \in {"unseal", "rescue", "release", "except"}
    BY DEF Handler
  <2>3. step'[w] = Handler(step[w]) /\ (nack'[w] <=> Handler(step[w]) = "release")
    BY <1>t, <2>1
  <2>. QED
    BY <2>1, <2>2, <2>3
<1>14. CASE RaiseAfterRelease(w)
  BY <1>t, <1>14 DEF RaiseAfterRelease
<1>. QED
  BY <1>1, <1>2, <1>3, <1>4, <1>5, <1>6, <1>7, <1>8, <1>9, <1>10, <1>11, <1>12, <1>13, <1>14
     DEF Going, Finalize

\* A worker alone with its job is the only one to change what it has to announce.
LEMMA TellStep ==
    ASSUME TypeOK, NackLeaves, HandInv, TellsOwn, Announced, [Next]_vars
    PROVE  TellsOwn' /\ Announced'
<1>t. /\ step \in [Worker -> Step] /\ inHand \in [Worker -> Job] /\ status \in [Job -> Status]
      /\ messages \in [Job -> Nat] /\ nack \in [Worker -> BOOLEAN]
      /\ verdict \in [Worker -> Success \cup {"failed"}] /\ finalized \in [Worker -> Status]
  BY DEF TypeOK
<1>. USE DEF TellsOwn, Announced, Busy, InWork
<1>1. ASSUME NEW w \in Worker, Going(w)
      PROVE  TellsOwn' /\ Announced'
  <2>1. /\ step[w] # "idle" /\ step'[w] # "idle" /\ UNCHANGED <<inHand, messages>>
        /\ \A v \in Worker : v # w => UNCHANGED <<step[v], verdict[v], finalized[v], nack[v]>>
        /\ \A k \in Job : k # inHand[w] => status'[k] = status[k]
    BY <1>1, GoingAlone DEF Alone
  <2>2. /\ Told(step'[w], status'[inHand[w]], verdict'[w], finalized'[w])
        /\ \A k \in Job : k # inHand[w] => lastEvent'[k] = lastEvent[k]
        /\ status'[inHand[w]] \in Terminal =>
             lastEvent'[inHand[w]] = status'[inHand[w]] \/ Untold(w)'
    BY <1>1, <2>1, GoingTells
  <2>3. ASSUME NEW v \in Worker, InWork(v)'
        PROVE  Told(step'[v], status'[inHand'[v]], verdict'[v], finalized'[v])
    <3>1. CASE v = w
      BY <2>1, <2>2, <3>1
    <3>2. CASE v # w
      <4>1. inHand[v] # inHand[w] /\ InWork(v) /\ inHand[v] \in Job
        BY <1>t, <2>1, <2>3, <3>2 DEF HandInv, Sole
      <4>. QED
        BY <2>1, <3>2, <4>1
    <3>. QED
      BY <3>1, <3>2
  <2>4. ASSUME NEW k \in Job, status'[k] \in Terminal
        PROVE  lastEvent'[k] = status'[k] \/ messages'[k] > 0 \/ \E v \in Busy(k)' : Untold(v)'
    <3>1. CASE k = inHand[w]
      BY <2>1, <2>2, <2>4, <3>1
    <3>2. CASE k # inHand[w]
      <4>1. \A v \in Busy(k) : v # w /\ v \in Busy(k)' /\ (Untold(v) => Untold(v)')
        BY <2>1, <3>2 DEF Untold
      <4>. QED
        BY <2>1, <2>2, <2>4, <3>2, <4>1
    <3>. QED
      BY <3>1, <3>2
  <2>. QED
    BY <2>3, <2>4
<1>2. ASSUME NEW w \in Worker, Release(w) \/ Crash(w) \/ RaiseInFinally(w)
      PROVE  TellsOwn' /\ Announced'
  <2>1. /\ step[w] # "idle" /\ step' = [step EXCEPT ![w] = "idle"]
        /\ inHand' = [inHand EXCEPT ![w] = AnyJob] /\ nack' = [nack EXCEPT ![w] = FALSE]
        /\ verdict' = [verdict EXCEPT ![w] = "failed"]
        /\ finalized' = [finalized EXCEPT ![w] = "failed"]
        /\ UNCHANGED <<status, lastEvent>>
    BY <1>2 DEF Release, Crash, RaiseInFinally, Fault, HandBack, Forget
  <2>2. \/ messages' = [messages EXCEPT ![inHand[w]] = @ + 1]
        \/ messages' = messages /\ ~Untold(w)
    <3>1. CASE Release(w)
      BY <3>1 DEF Release, HandBack, Untold
    <3>2. CASE Crash(w)
      BY <3>2 DEF Crash
    <3>3. CASE RaiseInFinally(w)
      BY <3>3 DEF RaiseInFinally, HandBack
    <3>. QED
      BY <1>2, <3>1, <3>2, <3>3
  <2>3. TellsOwn'
    BY <1>t, <2>1
  <2>4. \A k \in Job : messages[k] > 0 => messages'[k] > 0
    BY <1>t, <2>2
  <2>5. \A k \in Job : \A v \in Busy(k) :
           Untold(v) => messages'[k] > 0 \/ (v \in Busy(k)' /\ Untold(v)')
    BY <1>t, <2>1, <2>2 DEF Untold
  <2>6. Announced'
    BY <2>1, <2>4, <2>5
  <2>. QED
    BY <2>3, <2>6
<1>3. ASSUME NEW w \in Worker, NEW j \in Job, Deliver(w, j)
      PROVE  TellsOwn' /\ Announced'
  <2>1. /\ step[w] = "idle" /\ step' = [step EXCEPT ![w] = "load"]
        /\ inHand' = [inHand EXCEPT ![w] = j]
        /\ messages' = [messages EXCEPT ![j] = @ - 1]
        /\ UNCHANGED <<status, lastEvent, verdict, finalized, nack>>
    BY <1>3 DEF Deliver
  <2>2. TellsOwn'
    BY <1>t, <2>1 DEF Told, ManifestSteps
  <2>3. w \in Busy(j)' /\ Untold(w)'
    BY <1>t, <2>1 DEF Untold
  <2>4. \A k \in Job : /\ k # j => messages'[k] = messages[k]
                       /\ \A v \in Busy(k) : Untold(v) => v \in Busy(k)' /\ Untold(v)'
    BY <1>t, <2>1 DEF Untold
  <2>5. Announced'
    BY <2>1, <2>3, <2>4
  <2>. QED
    BY <2>2, <2>5
<1>4. ASSUME NEW j \in Job, Api(j) \/ Duplicate(j)
      PROVE  TellsOwn' /\ Announced'
  <2>1. UNCHANGED <<step, inHand, verdict, finalized, nack, lastEvent>>
    BY <1>4
       DEF Api, CreateJob, PublishJob, PublishFails, RequestCancellation, ReadForCancellation,
           WriteCancellation, Duplicate
  <2>2. \A k \in Job : messages[k] > 0 => messages'[k] > 0
    BY <1>t, <1>4
       DEF Api, CreateJob, PublishJob, PublishFails, RequestCancellation, ReadForCancellation,
           WriteCancellation, Duplicate
  <2>3. \A k \in Job : status'[k] # status[k] =>
           status'[k] = "cancel_requested" \/ (status'[k] = "queued" /\ status[k] = "absent")
    BY <1>t, <1>4
       DEF Api, CreateJob, PublishJob, PublishFails, RequestCancellation, ReadForCancellation,
           WriteCancellation, Duplicate
  <2>4. \A k \in Job : status'[k] = status[k] \/ status'[k] = "cancel_requested" \/ Busy(k) = {}
    BY <2>3 DEF HandInv, Present
  <2>5. TellsOwn'
    <3>1. SUFFICES ASSUME NEW v \in Worker, InWork(v)
                   PROVE  Told(step[v], status'[inHand[v]], verdict[v], finalized[v])
      BY <2>1
    <3>2. v \in Busy(inHand[v]) /\ inHand[v] \in Job
      BY <1>t, <3>1
    <3>3. status'[inHand[v]] = status[inHand[v]] \/ status'[inHand[v]] = "cancel_requested"
      BY <2>4, <3>2
    <3>. QED
      BY <3>1, <3>3 DEF Told
  <2>6. Announced'
    BY <2>1, <2>2, <2>3 DEF Untold, Terminal, Success
  <2>. QED
    BY <2>5, <2>6
<1>5. CASE UNCHANGED vars
  BY <1>5 DEF vars, Told, Untold
<1>. QED
  BY <1>1, <1>2, <1>3, <1>4, <1>5 DEF Next, WorkerStep, ProcessJob, Going

\* The last webhook about a job at rest tells its status, wherever exceptions, crashes and
\* cancellations fall and however often it is delivered, as long as no two workers have it at once.
THEOREM OutcomeTold == OneAtATime /\ Spec => []OutcomeAnnounced
<1>. DEFINE Telling == NackLeaves /\ HandInv /\ TellsOwn /\ Announced
<1>1. OneAtATime /\ Init => Telling
  BY InitHand DEF Init, NackLeaves, TellsOwn, Announced, InWork, Terminal, Success
<1>2. TypeOK /\ Telling /\ [Next]_vars => Telling'
  BY NackStep, HandStep, TellStep
<1>3. Telling => OutcomeAnnounced
  BY DEF Announced, OutcomeAnnounced, Settled
<1>. QED
  BY <1>1, <1>2, <1>3, TypeCorrect, PTL DEF Spec

-----------------------------------------------------------------------------
(* What a success is worth.  A second run of process_job works from what   *)
(* the first has left: a segment whose attempts are used up is skipped as  *)
(* it stands, "processing" included, and the counts are those of the last  *)
(* segment that was not skipped.  So the rest is about jobs that are run   *)
(* once: no crash, no second delivery, and no exception in a handler or in *)
(* the finally clause.                                                     *)

RunsOnce ==
    /\ MaxCrashes = 0 /\ MaxDuplicates = 0
    /\ FaultPoints \cap {"except", "report", "release"} = {}

Counted(j) == [completed |-> Cardinality(Having(j, "completed")),
               failed |-> Cardinality(Having(j, "failed"))]
Exact(j) == counts[j] = Counted(j)
DoneTo(j, n) == \A i \in Segment : i <= n => segments[j][i].status \in {"completed", "failed"}
Whole(j, outcome) ==
    DoneTo(j, SegmentCount) /\ Exact(j) /\ (outcome = "completed" => Having(j, "failed") = {})

\* No segment has been attempted, and no success written.
Fresh(j) == status[j] \notin Success /\ \A i \in Segment : segments[j][i].attempt = 0

Before == {"load", "start", "allocate", "begin"}
Deciding == {"finalize", "freegpu", "seal"}

\* What the segment loop has done of its job when the worker is at its next step.
Course(w) == LET j == inHand[w]
                 s == step[w] IN
    /\ s \in Before \cup {"idle"} => at[w] = 1
    /\ s \in Before \/ nack[w] => Fresh(j)
    /\ s \in ProcessingSteps \cup Deciding => status[j] \notin Success
    /\ s \in ProcessingSteps => DoneTo(j, at[w] - 1) /\ \A i \in Segment : snapshot[w][i] = 0
    /\ s \in {"tally", "progress"} => DoneTo(j, at[w])
    /\ s = "progress" => tally[w] = Counted(j)
    /\ s = "poll" /\ at[w] > 1 => Exact(j)
    /\ s = "finalize" => DoneTo(j, SegmentCount) /\ Exact(j)
    /\ s \in {"freegpu", "seal"} => Whole(j, verdict[w])

\* A job nobody has worked on yet is as it was created; a success is whole.
NotBegun == \A j \in Job : j \in unpublished \/ messages[j] > 0 \/ status[j] = "absent" => Fresh(j)
SuccessIsWhole == \A j \in Job : status[j] \in Success => Whole(j, status[j])

CourseInv == RunsOnce /\ NotBegun /\ SuccessIsWhole /\ \A w \in Worker : Course(w)

\* It holds at the beginning.
LEMMA InitCourse == RunsOnce /\ Init => CourseInv
  BY DEF Init, CourseInv, NotBegun, SuccessIsWhole, Course, Fresh, RunsOnce, Before, Deciding,
         ProcessingSteps, Success

\* Another worker's loop and another job's segments are out of reach.
LEMMA GoingApart ==
    ASSUME TypeOK, NEW w \in Worker, Going(w)
    PROVE  /\ \A v \in Worker \ {w} : UNCHANGED <<snapshot[v], at[v], tally[v]>>
           /\ \A k \in Job \ {inHand[w]} : UNCHANGED <<segments[k], counts[k]>>
<1>t. /\ snapshot \in [Worker -> [Segment -> 0..MaxAttempts]]
      /\ at \in [Worker -> 1..(SegmentCount + 1)]
      /\ tally \in [Worker -> [completed: 0..SegmentCount, failed: 0..SegmentCount]]
      /\ segments \in [Job -> [Segment -> [status: SegmentStatus, attempt: 0..MaxAttempts]]]
      /\ counts \in [Job -> [completed: 0..SegmentCount, failed: 0..SegmentCount]]
      /\ inHand \in [Worker -> Job]
  BY DEF TypeOK
<1>1. CASE UNCHANGED <<segments, counts, snapshot, at, tally>>
  BY <1>1
<1>2. CASE Begin(w) \/ TallySegments(w)
  BY <1>t, <1>2 DEF Begin, TallySegments
<1>3. CASE CacheHit(w) \/ CacheMiss(w) \/ StartAttempt(w) \/ SegmentFails(w) \/ CompleteSegment(w)
  BY <1>t, <1>3
     DEF CacheHit, CacheMiss, StartAttempt, SegmentFails, CompleteSegment, WriteSegment, TryAttempt,
         NextSegment
<1>4. CASE UpdateProgress(w)
  BY <1>t, <1>4 DEF UpdateProgress, NextSegment
<1>5. CASE Load(w) \/ Start(w) \/ AllocateGpu(w) \/ Poll(w) \/ SegmentSucceeds(w)
  BY <1>1, <1>5 DEF Load, Start, AllocateGpu, SetHolds, Poll, SegmentSucceeds
<1>6. CASE Finalize(w)
  BY <1>1, <1>6
     DEF Finalize, FinalizeJob, SetVerdict, SetHolds, ReleaseGpu, Seal, StoreManifest,
         ExposeManifest, MaterializeArtifacts, Unseal, ConsumeUsage, Reconcile, Rescue, Rescued
<1>7. CASE Notify(w) \/ CancelJob(w) \/ AnnounceCancellation(w) \/ HandleException(w)
             \/ ReportFailure(w) \/ Raise(w) \/ RaiseAfterRelease(w)
  BY <1>1, <1>7
     DEF Notify, CancelJob, AnnounceCancellation, HandleException, ReportFailure, Raise,
         RaiseAfterRelease
<1>. QED
  BY <1>2, <1>3, <1>4, <1>5, <1>6, <1>7 DEF Going, ProcessSegment

\* Writing a segment leaves those before it as they are; writing it a result completes them
\* by one.
LEMMA WriteDone ==
    ASSUME TypeOK, NEW w \in Worker, NEW s \in SegmentStatus, NEW n \in 0..MaxAttempts,
           NEW j \in Job, inHand[w] = j, at[w] \in Segment,
           WriteSegment(w, s, n), DoneTo(j, at[w] - 1)
    PROVE  /\ \A i \in Segment : i <= at[w] - 1 => segments'[j][i].status \in {"completed", "failed"}
           /\ s \in {"completed", "failed"} =>
                \A i \in Segment : i <= at[w] => segments'[j][i].status \in {"completed", "failed"}
<1>1. \A i \in Segment : segments'[j][i] = IF i = at[w] THEN [status |-> s, attempt |-> n]
                                                        ELSE segments[j][i]
  BY DEF TypeOK, WriteSegment
<1>2. at[w] \in Int /\ \A i \in Segment : i \in Int
  BY ConstantsAssumption DEF Segment
<1>3. \A i \in Segment : i <= at[w] - 1 => i # at[w]
  BY <1>2
<1>4. \A i \in Segment : i <= at[w] => i = at[w] \/ i <= at[w] - 1
  BY <1>2
<1>. QED
  BY <1>1, <1>3, <1>4 DEF DoneTo

\* Each step of process_job does its part.
LEMMA GoingCourse ==
    ASSUME TypeOK, IndexInLoop, NackLeaves, RunsOnce, NEW w \in Worker, Going(w), Course(w),
           NEW j \in Job, inHand[w] = j, status[j] \in Success => Whole(j, status[j])
    PROVE  /\ Course(w)'
           /\ status'[j] \in Success => Whole(j, status[j])'
<1>t. /\ step \in [Worker -> Step] /\ inHand' = inHand
      /\ status \in [Job -> Status] /\ verdict \in [Worker -> Success \cup {"failed"}]
      /\ nack \in [Worker -> BOOLEAN]
      /\ snapshot \in [Worker -> [Segment -> 0..MaxAttempts]]
      /\ at \in [Worker -> 1..(SegmentCount + 1)]
      /\ attempt \in [Worker -> 0..MaxAttempts]
      /\ segments \in [Job -> [Segment -> [status: SegmentStatus, attempt: 0..MaxAttempts]]]
      /\ counts \in [Job -> [completed: 0..SegmentCount, failed: 0..SegmentCount]]
      /\ tally \in [Worker -> [completed: 0..SegmentCount, failed: 0..SegmentCount]]
  BY GoingAlone DEF TypeOK, Alone
<1>n. step[w] # "release" => ~nack[w]
  BY DEF NackLeaves
<1>s. "completed" \in SegmentStatus /\ "failed" \in SegmentStatus /\ "queued" \in SegmentStatus
      /\ "processing" \in SegmentStatus
  BY DEF SegmentStatus
<1>i. step[w] \in ProcessingSteps \ {"poll"} => at[w] \in Segment
  BY DEF IndexInLoop
<1>1. ASSUME UNCHANGED <<segments, counts>>,
             step'[w] \notin Before \cup ProcessingSteps \cup Deciding \cup {"idle"}, ~nack'[w],
             status'[j] = status[j] \/ status'[j] \notin Success
      PROVE  Course(w)' /\ (status'[j] \in Success => Whole(j, status[j])')
  BY <1>t, <1>1, Zenon
     DEF Course, Before, Deciding, ProcessingSteps, Whole, DoneTo, Exact, Counted, Having
<1>2. ASSUME UNCHANGED <<segments, snapshot, at, nack>>, step[w] # "release", step[w] \in Before,
             step'[w] \in Before, status'[j] = status[j] \/ status'[j] \notin Success
      PROVE  Course(w)' /\ (status'[j] \in Success => Whole(j, status[j])')
  BY <1>t, <1>2, <1>n DEF Course, Fresh, Before, Deciding, ProcessingSteps
<1>3. CASE Load(w)
  <2>1. step[w] = "load" /\ step'[w] \in {"except", "cancel", "start"}
    BY <1>t, <1>3 DEF Load
  <2>2. UNCHANGED <<rows, loop, ending>>
    BY <1>3 DEF Load
  <2>3. CASE step'[w] = "start"
    BY <1>2, <2>1, <2>2, <2>3 DEF Before
  <2>4. CASE step'[w] \in {"except", "cancel"}
    BY <1>1, <1>n, <2>1, <2>2, <2>4 DEF Before, ProcessingSteps, Deciding
  <2>. QED
    BY <2>1, <2>3, <2>4
<1>4. CASE Start(w) \/ AllocateGpu(w)
  <2>1. /\ step[w] \in {"start", "allocate"} /\ step'[w] \in {"allocate", "begin"}
        /\ UNCHANGED <<segments, snapshot, at, nack>>
        /\ status'[j] = status[j] \/ status'[j] = "processing"
    BY <1>t, <1>4 DEF Start, AllocateGpu, SetHolds
  <2>. QED
    BY <1>2, <2>1 DEF Before, Success
<1>5. CASE Begin(w)
  <2>1. /\ step[w] = "begin" /\ step'[w] = "poll" /\ UNCHANGED <<rows, at, tally, ending>>
        /\ snapshot'[w] = [i \in Segment |-> segments[j][i].attempt]
    BY <1>t, <1>5 DEF Begin
  <2>2. at[w] = 1 /\ Fresh(j) /\ ~nack'[w]
    BY <1>n, <2>1 DEF Course, Before
  <2>3. \A i \in Segment : snapshot'[w][i] = 0
    BY <2>1, <2>2 DEF Fresh
  <2>4. \A i \in Segment : ~(i <= at[w] - 1)
    BY <2>2 DEF Segment
  <2>. QED
    BY <1>t, <2>1, <2>2, <2>3, <2>4 DEF Course, Fresh, DoneTo, Before, Deciding, ProcessingSteps
<1>6. CASE Poll(w)
  <2>1. /\ step[w] = "poll" /\ UNCHANGED <<rows, loop, ending>>
        /\ \/ step'[w] = "finalize" /\ at[w] > SegmentCount
           \/ step'[w] \in {"cancel", "lookup"}
    BY <1>t, <1>6 DEF Poll
  <2>2. CASE step'[w] = "finalize" /\ at[w] > SegmentCount
    <3>1. at[w] > 1 /\ \A i \in Segment : i <= SegmentCount => i <= at[w] - 1
      BY <1>t, <2>2, ConstantsAssumption DEF Segment
    <3>2. DoneTo(j, SegmentCount) /\ Exact(j) /\ status[j] \notin Success /\ ~nack[w]
      BY <1>n, <2>1, <3>1 DEF Course, DoneTo, ProcessingSteps
    <3>3. (DoneTo(j, SegmentCount) /\ Exact(j))'
      BY <2>1, <3>2, Zenon DEF DoneTo, Exact, Counted, Having
    <3>. QED
      BY <1>t, <2>1, <2>2, <3>2, <3>3 DEF Course, Before, Deciding, ProcessingSteps
  <2>3. CASE step'[w] = "cancel"
    BY <1>1, <1>n, <2>1, <2>3 DEF Before, ProcessingSteps, Deciding
  <2>4. CASE step'[w] = "lookup"
    BY <1>t, <1>n, <2>1, <2>4 DEF Course, DoneTo, Before, Deciding, ProcessingSteps
  <2>. QED
    BY <2>1, <2>2, <2>3, <2>4
\* The steps of the loop that leave the segment without a result.
<1>7. ASSUME step[w] \in ProcessingSteps \ {"poll"},
             UNCHANGED <<status, counts, snapshot, at, nack>>,
             step'[w] \in {"attempt", "run", "complete"},
             \A i \in Segment : i <= at[w] - 1 => segments'[j][i].status \in {"completed", "failed"}
      PROVE  Course(w)' /\ (status'[j] \in Success => Whole(j, status[j])')
  <2>1. status[j] \notin Success /\ ~nack[w] /\ \A i \in Segment : snapshot[w][i] = 0
    BY <1>n, <1>7 DEF Course, ProcessingSteps
  <2>. QED
    BY <1>t, <1>7, <2>1 DEF Course, DoneTo, Before, Deciding, ProcessingSteps
\* The steps that give it one.
<1>8. ASSUME step[w] \in ProcessingSteps \ {"poll"},
             UNCHANGED <<status, counts, snapshot, at, nack>>,
             step'[w] = "tally",
             \A i \in Segment : i <= at[w] - 1 => segments'[j][i].status \in {"completed", "failed"},
             \A i \in Segment : i <= at[w] => segments'[j][i].status \in {"completed", "failed"}
      PROVE  Course(w)' /\ (status'[j] \in Success => Whole(j, status[j])')
  <2>1. status[j] \notin Success /\ ~nack[w] /\ \A i \in Segment : snapshot[w][i] = 0
    BY <1>n, <1>8 DEF Course, ProcessingSteps
  <2>. QED
    BY <1>t, <1>8, <2>1 DEF Course, DoneTo, Before, Deciding, ProcessingSteps
<1>d. step[w] \in ProcessingSteps => DoneTo(j, at[w] - 1)
  BY DEF Course
<1>9. CASE CacheHit(w) \/ CompleteSegment(w)
  <2>1. /\ step[w] \in {"lookup", "complete"} /\ step'[w] = "tally"
        /\ UNCHANGED <<status, counts, snapshot, at, nack>>
    BY <1>t, <1>9 DEF CacheHit, CompleteSegment
  <2>2. step[w] \in ProcessingSteps \ {"poll"}
    BY <2>1 DEF ProcessingSteps
  <2>3. PICK n \in 0..MaxAttempts : WriteSegment(w, "completed", n)
    <3>1. CASE CacheHit(w)
      <4>1. snapshot[w][at[w]] \in 0..MaxAttempts /\ 1 \in 0..MaxAttempts
        BY <1>t, <1>i, <2>2, ConstantsAssumption
      <4>. QED
        BY <3>1, <4>1 DEF CacheHit
    <3>2. CASE CompleteSegment(w)
      BY <1>t, <3>2 DEF CompleteSegment
    <3>. QED
      BY <1>9, <3>1, <3>2
  <2>. QED
    BY <1>8, <1>d, <1>i, <1>s, <2>1, <2>2, <2>3, WriteDone
<1>10. CASE CacheMiss(w)
  <2>1. /\ step[w] = "lookup" /\ snapshot[w][at[w]] = 0
    BY <1>i, <1>10 DEF CacheMiss, Course, ProcessingSteps
  <2>2. 0 < MaxAttempts
    BY ConstantsAssumption
  <2>3. step'[w] = "attempt" /\ UNCHANGED <<status, segments, counts, snapshot, at, nack>>
    BY <1>t, <1>10, <2>1, <2>2 DEF CacheMiss, TryAttempt
  <2>. QED
    BY <1>7, <1>d, <2>1, <2>3 DEF ProcessingSteps, DoneTo
<1>11. CASE StartAttempt(w)
  <2>1. /\ step[w] = "attempt" /\ step'[w] = "run"
        /\ UNCHANGED <<status, counts, snapshot, at, nack>>
        /\ WriteSegment(w, "processing", attempt[w])
    BY <1>t, <1>11 DEF StartAttempt
  <2>2. step[w] \in ProcessingSteps \ {"poll"} /\ attempt[w] \in 0..MaxAttempts
    BY <1>t, <2>1 DEF ProcessingSteps
  <2>. QED
    BY <1>7, <1>d, <1>i, <1>s, <2>1, <2>2, WriteDone
<1>12. CASE SegmentSucceeds(w)
  <2>1. /\ step[w] = "run" /\ step'[w] = "complete"
        /\ UNCHANGED <<status, segments, counts, snapshot, at, nack>>
    BY <1>t, <1>12 DEF SegmentSucceeds
  <2>. QED
    BY <1>7, <1>d, <2>1 DEF ProcessingSteps, DoneTo
<1>13. CASE SegmentFails(w)
  <2>1. /\ step[w] = "run" /\ UNCHANGED <<status, counts, snapshot, at, nack>>
        /\ \/ step'[w] = "attempt" /\ WriteSegment(w, "queued", attempt[w])
           \/ step'[w] = "tally" /\ WriteSegment(w, "failed", attempt[w])
    BY <1>t, <1>13 DEF SegmentFails, TryAttempt
  <2>2. step[w] \in ProcessingSteps \ {"poll"} /\ attempt[w] \in 0..MaxAttempts
    BY <1>t, <2>1 DEF ProcessingSteps
  <2>3. CASE step'[w] = "attempt" /\ WriteSegment(w, "queued", attempt[w])
    BY <1>7, <1>d, <1>i, <1>s, <2>1, <2>2, <2>3, WriteDone
  <2>4. CASE step'[w] = "tally" /\ WriteSegment(w, "failed", attempt[w])
    BY <1>8, <1>d, <1>i, <1>s, <2>1, <2>2, <2>4, WriteDone
  <2>. QED
    BY <2>1, <2>3, <2>4
<1>14. CASE TallySegments(w)
  <2>1. /\ step[w] = "tally" /\ step'[w] = "progress"
        /\ UNCHANGED <<rows, snapshot, at, nack>> /\ tally'[w] = Counted(j)
    BY <1>t, <1>14 DEF TallySegments, Counted
  <2>2. Counted(j)' = Counted(j)
    BY <2>1, Zenon DEF Counted, Having
  <2>. QED
    BY <1>t, <1>n, <2>1, <2>2 DEF Course, DoneTo, Before, Deciding, ProcessingSteps
<1>15. CASE UpdateProgress(w)
  <2>1. /\ step[w] = "progress" /\ step'[w] = "poll" /\ at'[w] = at[w] + 1
        /\ UNCHANGED <<status, segments, snapshot, nack>> /\ counts'[j] = tally[w]
    BY <1>t, <1>15 DEF UpdateProgress, NextSegment
  <2>2. Exact(j)'
    <3>1. tally[w] = Counted(j) /\ Counted(j)' = Counted(j)
      BY <2>1, Zenon DEF Course, Counted, Having
    <3>. QED
      BY <2>1, <3>1 DEF Exact
  <2>3. at'[w] - 1 = at[w] /\ ~nack[w] /\ status[j] \notin Success
    BY <1>t, <1>n, <2>1 DEF Course, ProcessingSteps
  <2>4. DoneTo(j, at[w]) /\ \A i \in Segment : snapshot[w][i] = 0
    BY <2>1 DEF Course, ProcessingSteps
  <2>. QED
    BY <1>t, <2>1, <2>2, <2>3, <2>4 DEF Course, DoneTo, Before, Deciding, ProcessingSteps
<1>16. CASE FinalizeJob(w)
  <2>1. step[w] = "finalize" /\ UNCHANGED <<rows, snapshot, at, tally, nack>>
    BY <1>16 DEF FinalizeJob, SetVerdict
  <2>2. CASE step'[w] = "cancel"
    BY <1>1, <1>n, <2>1, <2>2 DEF Before, ProcessingSteps, Deciding
  <2>3. CASE step'[w] = "freegpu" /\ verdict'[w] = Verdict(j)
    <3>1. Verdict(j) = "completed" => Having(j, "failed") = {}
      BY DEF Verdict
    <3>2. Whole(j, Verdict(j)) /\ status[j] \notin Success /\ ~nack[w]
      BY <1>n, <2>1, <3>1 DEF Whole, Course, Deciding
    <3>3. Whole(j, verdict[w])'
      BY <2>1, <2>3, <3>2, Zenon DEF Whole, DoneTo, Exact, Counted, Having
    <3>. QED
      BY <1>t, <2>1, <2>3, <3>2, <3>3 DEF Course, Before, Deciding, ProcessingSteps
  <2>4. step'[w] = "cancel" \/ (step'[w] = "freegpu" /\ verdict'[w] = Verdict(j))
    BY <1>t, <1>16 DEF FinalizeJob, SetVerdict
  <2>. QED
    BY <2>2, <2>3, <2>4
<1>17. CASE ReleaseGpu(w)
  <2>1. step[w] = "freegpu" /\ step'[w] = "seal" /\ UNCHANGED <<rows, loop, ending>>
    BY <1>t, <1>17 DEF ReleaseGpu
  <2>2. Whole(j, verdict[w]) /\ status[j] \notin Success /\ ~nack[w]
    BY <1>n, <2>1 DEF Course, Deciding
  <2>3. Whole(j, verdict[w])'
    BY <2>1, <2>2, Zenon DEF Whole, DoneTo, Exact, Counted, Having
  <2>. QED
    BY <1>t, <2>1, <2>2, <2>3 DEF Course, Before, Deciding, ProcessingSteps
<1>18. CASE Seal(w)
  <2>1. /\ step[w] = "seal" /\ step'[w] \in {"manifest", "bill"}
        /\ UNCHANGED <<segments, counts, loop, ending>> /\ status'[j] = verdict[w]
    BY <1>t, <1>18 DEF Seal
  <2>2. Whole(j, verdict[w]) /\ ~nack[w]
    BY <1>n, <2>1 DEF Course
  <2>3. Whole(j, status[j])'
    BY <2>1, <2>2, Zenon DEF Whole, DoneTo, Exact, Counted, Having
  <2>. QED
    BY <1>t, <2>1, <2>2, <2>3 DEF Course, Before, Deciding, ProcessingSteps
<1>19. CASE StoreManifest(w) \/ ExposeManifest(w) \/ MaterializeArtifacts(w) \/ Unseal(w)
             \/ ConsumeUsage(w) \/ Reconcile(w) \/ Rescue(w) \/ Rescued(w)
  <2>1. /\ step[w] # "release" /\ UNCHANGED <<segments, counts, nack>>
        /\ step'[w] \in {"expose", "deliver", "bill", "reconcile", "notify", "rescued"}
        /\ status'[j] = status[j] \/ status'[j] = "failed"
    BY <1>t, <1>19
       DEF StoreManifest, ExposeManifest, MaterializeArtifacts, Unseal, ConsumeUsage, Reconcile,
           Rescue, Rescued, SetVerdict, SetHolds
  <2>. QED
    BY <1>1, <1>n, <2>1 DEF Before, ProcessingSteps, Deciding, Success
<1>20. CASE Notify(w) \/ CancelJob(w) \/ AnnounceCancellation(w) \/ HandleException(w)
             \/ ReportFailure(w)
  <2>1. /\ step[w] # "release" /\ UNCHANGED <<segments, counts, nack>>
        /\ step'[w] \in {"except", "cancelled", "report", "release"}
        /\ status'[j] = status[j] \/ status'[j] \in {"failed", "cancelled"}
    BY <1>t, <1>20 DEF Notify, CancelJob, AnnounceCancellation, HandleException, ReportFailure
  <2>. QED
    BY <1>1, <1>n, <2>1 DEF Before, ProcessingSteps, Deciding, Success
<1>21. CASE RaiseAfterRelease(w)
  <2>1. /\ step[w] = "freegpu" /\ UNCHANGED <<rows, nack>> /\ step'[w] = "except"
    BY <1>t, <1>21 DEF RaiseAfterRelease, Fault
  <2>. QED
    BY <1>1, <1>n, <2>1 DEF Before, ProcessingSteps, Deciding
\* Only an exception at "load", before anything is done, hands the message back.
<1>22. CASE Raise(w)
  <2>1. step[w] \notin {"except", "report", "release"} /\ UNCHANGED <<rows, loop>>
    BY <1>22 DEF Raise, Fault, RunsOnce
  <2>2. CASE step[w] = "load"
    <3>1. step'[w] = "release"
      BY <1>t, <1>22, <2>2 DEF Raise, Handler, ManifestSteps, FinalizeSteps
    <3>2. Fresh(j)
      BY <2>2 DEF Course, Before
    <3>. QED
      BY <1>t, <2>1, <3>1, <3>2 DEF Course, Fresh, Before, Deciding, ProcessingSteps
  <2>3. CASE step[w] # "load"
    <3>1. Handler(step[w]) \in {"unseal", "rescue", "except"}
      BY <2>1, <2>3 DEF Handler
    <3>2. step'[w] \in {"unseal", "rescue", "except"} /\ nack'[w] = FALSE
      BY <1>t, <1>22, <3>1 DEF Raise
    <3>. QED
      BY <1>1, <2>1, <3>2 DEF Before, ProcessingSteps, Deciding
  <2>. QED
    BY <2>2, <2>3
<1>. QED
  BY <1>3, <1>4, <1>5, <1>6, <1>9, <1>10, <1>11, <1>12, <1>13, <1>14, <1>15, <1>16, <1>17, <1>18,
     <1>19, <1>20, <1>21, <1>22
     DEF Going, ProcessSegment, Finalize

\* A worker that has let go of its message leaves the others' locals alone.
LEMMA ForgetApart ==
    ASSUME TypeOK, NEW w \in Worker, Forget(w)
    PROVE  /\ step' = [step EXCEPT ![w] = "idle"] /\ at' = [at EXCEPT ![w] = 1]
           /\ nack' = [nack EXCEPT ![w] = FALSE]
           /\ \A v \in Worker \ {w} :
                UNCHANGED <<step[v], inHand[v], at[v], snapshot[v], tally[v], verdict[v], nack[v]>>
  BY DEF TypeOK, Forget

\* The loop is undisturbed: its job is in no other worker's hand, a cancellation writes the
\* status only, and a message that comes back has nothing done for it.
LEMMA CourseStep ==
    ASSUME TypeOK, IndexInLoop, NackLeaves, HandInv, CourseInv, [Next]_vars
    PROVE  CourseInv'
<1>t. /\ step \in [Worker -> Step] /\ inHand \in [Worker -> Job] /\ status \in [Job -> Status]
      /\ messages \in [Job -> Nat] /\ nack \in [Worker -> BOOLEAN] /\ at \in [Worker -> Nat]
      /\ crashes \in Nat /\ duplicates \in Nat
  BY DEF TypeOK
<1>r. RunsOnce /\ RunsOnce'
  BY DEF CourseInv, RunsOnce
\* A step that does nothing to a worker but touch other jobs.
<1>k. ASSUME NEW v \in Worker,
             UNCHANGED <<step[v], inHand[v], at[v], snapshot[v], tally[v], verdict[v], nack[v]>>,
             InWork(v) => UNCHANGED <<segments[inHand[v]], counts[inHand[v]]>>,
             InWork(v) => status'[inHand[v]] \notin Success
                          \/ status'[inHand[v]] = status[inHand[v]]
      PROVE  Course(v)'
  <2>1. CASE step[v] = "idle"
    BY <1>k, <2>1
       DEF CourseInv, Course, NackLeaves, Before, Deciding, ProcessingSteps
  <2>2. CASE step[v] # "idle"
    <3>. PICK j \in Job : inHand[v] = j
      BY <1>t
    <3>1. UNCHANGED <<segments[j], counts[j]>> /\ inHand'[v] = j
      BY <1>k, <2>2 DEF InWork
    <3>2. \A s : Having(j, s)' = Having(j, s)
      BY <3>1, Zenon DEF Having
    <3>3. Counted(j)' = Counted(j)
      BY <3>2 DEF Counted
    <3>4. Exact(j)' = Exact(j)
      BY <3>1, <3>3 DEF Exact
    <3>5. Course(v)
      BY DEF CourseInv
    <3>6. status[j] \notin Success => status'[j] \notin Success
      BY <1>k, <2>2 DEF InWork
    <3>. QED
      BY <1>k, <3>1, <3>2, <3>3, <3>4, <3>5, <3>6 DEF Course, Fresh, Whole, DoneTo
  <2>. QED
    BY <2>1, <2>2
<1>w. ASSUME NEW k \in Job, UNCHANGED <<segments[k], counts[k]>>,
             status'[k] \notin Success \/ status'[k] = status[k]
      PROVE  /\ status'[k] \in Success => Whole(k, status[k])'
             /\ Fresh(k) => Fresh(k)'
  <2>1. \A s : Having(k, s)' = Having(k, s)
    BY <1>w, Zenon DEF Having
  <2>2. Exact(k)' = Exact(k)
    BY <1>w, <2>1 DEF Exact, Counted
  <2>. QED
    BY <1>w, <2>1, <2>2 DEF CourseInv, SuccessIsWhole, Whole, DoneTo, Fresh
<1>1. ASSUME NEW w \in Worker, Going(w)
      PROVE  CourseInv'
  <2>. PICK j \in Job : inHand[w] = j
    BY <1>t
  <2>1. /\ inHand' = inHand /\ messages' = messages /\ unpublished' = unpublished
        /\ step[w] # "idle" /\ step'[w] # "idle"
        /\ \A v \in Worker \ {w} : UNCHANGED <<step[v], verdict[v], nack[v]>>
        /\ \A k \in Job \ {j} : status'[k] = status[k]
    BY <1>1, GoingAlone DEF Alone, InWork
  <2>2. /\ \A v \in Worker \ {w} : UNCHANGED <<snapshot[v], at[v], tally[v]>>
        /\ \A k \in Job \ {j} : UNCHANGED <<segments[k], counts[k]>>
    BY <1>1, GoingApart
  <2>3. Course(w)' /\ (status'[j] \in Success => Whole(j, status[j])')
    BY <1>1, <1>r, GoingCourse DEF CourseInv, SuccessIsWhole
  <2>4. \A v \in Worker \ {w} : InWork(v) => inHand[v] \in Job \ {j}
    BY <1>t, <2>1 DEF HandInv, Sole, InWork
  <2>5. ASSUME NEW v \in Worker \ {w}
        PROVE  Course(v)'
    BY <1>k, <2>1, <2>2, <2>4
  <2>6. j \notin unpublished /\ ~(messages[j] > 0) /\ status[j] # "absent"
    <3>1. w \in Busy(j)
      BY <2>1 DEF Busy
    <3>. QED
      BY <1>r, <3>1 DEF HandInv, OneCopy, Present, RunsOnce
  <2>7. status'[j] # "absent"
    BY <1>1, <2>6, GoingRow
  <2>8. \A k \in Job \ {j} : /\ status'[k] \in Success => Whole(k, status[k])'
                             /\ Fresh(k) => Fresh(k)'
    BY <1>w, <2>1, <2>2
  <2>9. NotBegun'
    BY <2>1, <2>6, <2>7, <2>8 DEF CourseInv, NotBegun
  <2>10. SuccessIsWhole'
    BY <2>3, <2>8 DEF SuccessIsWhole
  <2>. QED
    BY <1>r, <2>3, <2>5, <2>9, <2>10 DEF CourseInv
<1>2. ASSUME NEW w \in Worker, Release(w) \/ Crash(w) \/ RaiseInFinally(w)
      PROVE  CourseInv'
  <2>. PICK j \in Job : inHand[w] = j
    BY <1>t
  <2>1. Release(w)
    <3>1. ~(crashes < MaxCrashes) /\ "release" \notin FaultPoints
      BY <1>r, <1>t DEF RunsOnce
    <3>2. Crash(w) => crashes < MaxCrashes
      BY DEF Crash
    <3>3. RaiseInFinally(w) => "release" \in FaultPoints
      BY DEF RaiseInFinally, Fault
    <3>. QED
      BY <1>2, <3>1, <3>2, <3>3
  <2>2. /\ step' = [step EXCEPT ![w] = "idle"] /\ at' = [at EXCEPT ![w] = 1]
        /\ nack' = [nack EXCEPT ![w] = FALSE]
        /\ \A v \in Worker \ {w} :
             UNCHANGED <<step[v], inHand[v], at[v], snapshot[v], tally[v], verdict[v], nack[v]>>
        /\ UNCHANGED <<rows, unpublished>>
    BY <2>1, ForgetApart DEF Release, HandBack
  <2>3. \A k \in Job : messages'[k] > 0 => messages[k] > 0 \/ (k = j /\ nack[w])
    BY <1>t, <2>1 DEF Release, HandBack
  <2>4. Course(w)'
    BY <1>t, <2>2 DEF Course, Before, Deciding, ProcessingSteps
  <2>5. \A v \in Worker \ {w} : Course(v)'
    BY <1>k, <2>2
  <2>6. nack[w] => Fresh(j)
    BY DEF CourseInv, Course
  <2>7. \A k \in Job : /\ status'[k] \in Success => Whole(k, status[k])'
                       /\ Fresh(k) => Fresh(k)'
    BY <1>w, <2>2
  <2>8. NotBegun'
    BY <2>2, <2>3, <2>6, <2>7 DEF CourseInv, NotBegun
  <2>. QED
    BY <1>r, <2>4, <2>5, <2>7, <2>8 DEF CourseInv, SuccessIsWhole
<1>3. ASSUME NEW w \in Worker, NEW j \in Job, Deliver(w, j)
      PROVE  CourseInv'
  <2>1. /\ step[w] = "idle" /\ step' = [step EXCEPT ![w] = "load"]
        /\ inHand' = [inHand EXCEPT ![w] = j]
        /\ messages[j] > 0 /\ messages' = [messages EXCEPT ![j] = @ - 1]
        /\ UNCHANGED <<rows, unpublished, loop, ending>>
    BY <1>3 DEF Deliver
  <2>2. \A k \in Job : /\ status'[k] \in Success => Whole(k, status[k])'
                       /\ Fresh(k) => Fresh(k)'
    BY <1>w, <2>1
  <2>3. Fresh(j)'
    BY <2>1, <2>2 DEF CourseInv, NotBegun
  <2>4. Course(w)'
    <3>1. step'[w] = "load" /\ inHand'[w] = j /\ at'[w] = 1
      BY <1>t, <2>1 DEF CourseInv, Course
    <3>. QED
      BY <2>3, <3>1 DEF Course, Before, Deciding, ProcessingSteps
  <2>5. \A v \in Worker \ {w} : Course(v)'
    BY <1>k, <1>t, <2>1
  <2>6. \A k \in Job : messages'[k] > 0 => messages[k] > 0
    BY <1>t, <2>1
  <2>7. NotBegun'
    BY <2>1, <2>2, <2>6 DEF CourseInv, NotBegun
  <2>. QED
    BY <1>r, <2>2, <2>4, <2>5, <2>7 DEF CourseInv, SuccessIsWhole
<1>4. ASSUME NEW j \in Job, Api(j) \/ Duplicate(j)
      PROVE  CourseInv'
  <2>1. Api(j)
    BY <1>4, <1>r, <1>t DEF RunsOnce, Duplicate
  <2>2. /\ UNCHANGED <<segments, counts, step, locals>>
        /\ \A k \in Job : status'[k] = status[k] \/ status'[k] \in {"cancel_requested", "queued"}
        /\ \A k \in Job : k \in unpublished' \/ messages'[k] > 0 \/ status'[k] = "absent" =>
             k \in unpublished \/ messages[k] > 0 \/ status[k] = "absent"
    BY <1>t, <2>1
       DEF Api, CreateJob, PublishJob, PublishFails, RequestCancellation, ReadForCancellation,
           WriteCancellation
  <2>3. \A k \in Job : status'[k] = status[k] \/ status'[k] \notin Success
    BY <2>2 DEF Success
  <2>4. \A k \in Job : /\ status'[k] \in Success => Whole(k, status[k])'
                       /\ Fresh(k) => Fresh(k)'
    BY <1>w, <2>2, <2>3
  <2>5. \A v \in Worker : Course(v)'
    BY <1>k, <1>t, <2>2, <2>3
  <2>6. NotBegun'
    BY <2>2, <2>4 DEF CourseInv, NotBegun
  <2>. QED
    BY <1>r, <2>4, <2>5, <2>6 DEF CourseInv, SuccessIsWhole
<1>5. CASE UNCHANGED vars
  <2>1. \A v \in Worker : Course(v)'
    BY <1>5, <1>k DEF vars
  <2>2. \A k \in Job : /\ status'[k] \in Success => Whole(k, status[k])'
                       /\ Fresh(k) => Fresh(k)'
    BY <1>5, <1>w DEF vars
  <2>. QED
    BY <1>5, <1>r, <2>1, <2>2 DEF vars, CourseInv, NotBegun, SuccessIsWhole
<1>. QED
  BY <1>1, <1>2, <1>3, <1>4, <1>5 DEF Next, WorkerStep, ProcessJob, Going

\* A run in which every segment has a result counts every segment.
LEMMA CountsAddUp ==
    ASSUME NEW j \in Job, DoneTo(j, SegmentCount)
    PROVE  /\ Having(j, "failed") = {} => Having(j, "completed") = Segment
           /\ Cardinality(Having(j, "completed")) + Cardinality(Having(j, "failed")) = SegmentCount
<1>1. Having(j, "completed") \cup Having(j, "failed") = Segment
  BY ConstantsAssumption DEF Having, DoneTo, Segment
<1>2. Having(j, "completed") \cap Having(j, "failed") = {}
  BY DEF Having
<1>3. IsFiniteSet(Segment) /\ Cardinality(Segment) = SegmentCount
  BY FS_Interval, ConstantsAssumption DEF Segment
<1>4. IsFiniteSet(Having(j, "completed")) /\ IsFiniteSet(Having(j, "failed"))
  BY <1>1, <1>3, FS_Subset
<1>5. /\ Cardinality(Having(j, "completed")) \in Nat /\ Cardinality(Having(j, "failed")) \in Nat
      /\ Cardinality({}) = 0
  BY <1>4, FS_CardinalityType, FS_EmptySet
<1>6. Cardinality(Segment) = Cardinality(Having(j, "completed")) + Cardinality(Having(j, "failed"))
                             - Cardinality(Having(j, "completed") \cap Having(j, "failed"))
  BY <1>1, <1>4, FS_Union
<1>7. Cardinality(Having(j, "completed") \cap Having(j, "failed")) = 0
  BY <1>2, <1>5
<1>8. Having(j, "failed") = {} => Having(j, "completed") = Segment
  BY <1>1
<1>. QED
  BY <1>3, <1>5, <1>6, <1>7, <1>8

\* So it holds throughout, where each job runs once.
LEMMA CourseInvariant == RunsOnce /\ Spec => [](TypeOK /\ CourseInv)
<1>. DEFINE Running == IndexInLoop /\ NackLeaves /\ HandInv /\ CourseInv
<1>1. RunsOnce /\ Init => Running
  <2>1. RunsOnce => OneAtATime
    BY DEF RunsOnce, OneAtATime
  <2>. QED
    BY <2>1, InitType, InitHand, InitCourse DEF Init, NackLeaves
<1>2. TypeOK /\ Running /\ [Next]_vars => Running'
  BY IndexStep, NackStep, HandStep, CourseStep
<1>. QED
  BY <1>1, <1>2, TypeCorrect, PTL DEF Spec

\* A job run once and left completed has the output of every segment, whatever exceptions and
\* cancellations its run has met.
THEOREM CompletedIsComplete == RunsOnce /\ Spec => []CompletedIsWhole
<1>1. CourseInv => CompletedIsWhole
  <2>. SUFFICES ASSUME CourseInv, NEW j \in Job, status[j] = "completed"
                PROVE  Having(j, "completed") = Segment
    BY DEF CompletedIsWhole
  <2>1. Whole(j, "completed")
    BY DEF CourseInv, SuccessIsWhole, Success
  <2>. QED
    BY <2>1, CountsAddUp DEF Whole
<1>. QED
  BY <1>1, CourseInvariant, PTL

\* The counters of a job run once and left a success are those of its segments, with none
\* left out.
THEOREM CountersAgree == RunsOnce /\ Spec => []CountersExact
<1>1. CourseInv => CountersExact
  <2>. SUFFICES ASSUME CourseInv, NEW j \in Job, status[j] \in Success
                PROVE  /\ counts[j] = Counted(j)
                       /\ counts[j].completed + counts[j].failed = SegmentCount
    BY DEF CountersExact, Counted
  <2>1. DoneTo(j, SegmentCount) /\ Exact(j)
    BY DEF CourseInv, SuccessIsWhole, Whole
  <2>. QED
    BY <2>1, CountsAddUp DEF Exact, Counted
<1>. QED
  BY <1>1, CourseInvariant, PTL
=============================================================================
