-------------------------- MODULE JobRuntime_proofs --------------------------
(***************************************************************************)
(* Proofs about JobRuntime, for any jobs, workers, segment counts, retry   *)
(* budgets, fault points and bounds: its types, what charges rest on and   *)
(* how many there are, and the leases: none is left over, and none is      *)
(* taken from a worker that processes segments.                            *)
(***************************************************************************)
EXTENDS JobRuntime, FiniteSetTheorems, TLAPS

USE DEF rows, stores, effects, queue, environment, history, locals, loop, ending, At, Go

-----------------------------------------------------------------------------
(* The names the program writes, and the counters it computes.             *)

\* The names of the steps belong to Step.
LEMMA StepNames ==
    /\ {"idle", "load", "start", "allocate", "begin", "finalize", "freegpu", "rescue",
        "rescued", "notify", "cancel", "cancelled", "except", "report",
        "release"} \subseteq Step
    /\ {"poll", "lookup", "attempt", "run", "complete", "tally", "progress"} \subseteq Step
    /\ {"manifest", "expose", "deliver", "seal", "unseal", "bill",
        "reconcile"} \subseteq Step
  BY DEF Step, ProcessingSteps, ManifestSteps, FinalizeSteps

\* The literals the program writes to a status column or a webhook are of its enumeration.
LEMMA StatusNames ==
    /\ {"absent", "queued", "processing", "cancel_requested", "completed", "partial",
        "failed", "cancelled"} \subseteq Status
    /\ {"none", "started", "failed", "cancelled"} \cup Terminal \subseteq Event
    /\ {"queued", "processing", "completed", "failed"} \subseteq SegmentStatus
    /\ Success \cup {"failed"} \subseteq Status
    /\ {"completed", "partial"} \subseteq Success
  BY DEF Status, Terminal, Success, Event, SegmentStatus

\* How many segments have some property is a number of segments: what
\* _update_processing_progress counts fits the counters of the job row.
LEMMA CountsInRange ==
    ASSUME NEW S, S \subseteq Segment
    PROVE  Cardinality(S) \in 0..SegmentCount
<1>1. IsFiniteSet(Segment) /\ Cardinality(Segment) = SegmentCount
  BY ConstantsAssumption, FS_Interval DEF Segment
<1>2. IsFiniteSet(S) /\ Cardinality(S) <= Cardinality(Segment)
  BY <1>1, FS_Subset
<1>. QED
  BY <1>1, <1>2, FS_CardinalityType, ConstantsAssumption

\* A set that loses at most one element of another is at most one smaller.
LEMMA LosesOne ==
    ASSUME NEW S, NEW T, IsFiniteSet(S), IsFiniteSet(T), NEW x, S \ {x} \subseteq T
    PROVE  /\ Cardinality(S) \in Nat /\ Cardinality(T) \in Nat
           /\ Cardinality(S) <= Cardinality(T) + 1
           /\ x \notin S \/ x \in T => Cardinality(S) <= Cardinality(T)
<1>1. /\ Cardinality(S) \in Nat /\ Cardinality(T) \in Nat
      /\ IsFiniteSet(S \ {x}) /\ Cardinality(S \ {x}) \in Nat
  BY FS_CardinalityType, FS_RemoveElement
<1>2. Cardinality(S \ {x}) <= Cardinality(T)
  BY <1>1, FS_Subset
<1>3. Cardinality(S) <= Cardinality(S \ {x}) + 1
  BY <1>1, FS_RemoveElement
<1>4. x \notin S \/ x \in T => S \subseteq T
  OBVIOUS
<1>5. x \notin S \/ x \in T => Cardinality(S) <= Cardinality(T)
  BY <1>4, FS_Subset
<1>. QED
  BY <1>1, <1>2, <1>3, <1>5

\* There is a job for an idle worker's inHand to name.
LEMMA AnyJobIsJob == AnyJob \in Job
  BY ConstantsAssumption DEF AnyJob

-----------------------------------------------------------------------------
(* Type correctness.                                                       *)

\* While a segment is processed the index of the loop names one: without it the
\* index could not be shown to stay within one past the last segment.
IndexInLoop == \A w \in Worker :
    step[w] \in ProcessingSteps \ {"poll"} => at[w] \in Segment

\* The empty store and the idle workers are well typed.
LEMMA InitType == Init => TypeOK /\ IndexInLoop
  BY AnyJobIsJob, StepNames, StatusNames, ConstantsAssumption
     DEF Init, TypeOK, IndexInLoop, Segment, NothingCounted, ProcessingSteps

\* A worker that has handed its message back or died has well-typed locals again.
LEMMA ForgetType ==
    ASSUME TypeOK, NEW w \in Worker, Forget(w)
    PROVE  /\ step' \in [Worker -> Step] /\ inHand' \in [Worker -> Job]
           /\ snapshot' \in [Worker -> [Segment -> 0..MaxAttempts]]
           /\ at' \in [Worker -> 1..(SegmentCount + 1)]
           /\ attempt' \in [Worker -> 0..MaxAttempts]
           /\ tally' \in [Worker -> [completed: 0..SegmentCount, failed: 0..SegmentCount]]
           /\ verdict' \in [Worker -> Success \cup {"failed"}]
           /\ finalized' \in [Worker -> Status]
           /\ holds' \in [Worker -> BOOLEAN] /\ nack' \in [Worker -> BOOLEAN]
  BY AnyJobIsJob, StepNames, StatusNames, ConstantsAssumption
     DEF TypeOK, Forget, NothingCounted

\* Counting one up in a table of counters.
LEMMA CountUp ==
    ASSUME NEW S, NEW f \in [S -> Nat], NEW x \in S
    PROVE  [f EXCEPT ![x] = f[x] + 1] \in [S -> Nat]
  OBVIOUS

\* release_gpu leaves the number of busy leases a natural number, also when there is none.
LEMMA FreeLeaseType ==
    ASSUME TypeOK, NEW j \in Job, FreeLease(j)
    PROVE  leases' \in [Job -> Nat]
<1>. DEFINE left == IF leases[j] = 0 THEN 0 ELSE leases[j] - 1
<1>1. left \in Nat
  BY DEF TypeOK
<1>2. leases' = [leases EXCEPT ![j] = left]
  BY DEF FreeLease
<1>. QED
  BY <1>1, <1>2 DEF TypeOK

\* An acknowledgement or a returned message leaves the queue well typed.
LEMMA HandBackType ==
    ASSUME TypeOK, NEW w \in Worker, NEW returned, HandBack(w, returned)
    PROVE  messages' \in [Job -> Nat]
<1>1. CASE messages' = [messages EXCEPT ![inHand[w]] = @ + 1]
  BY <1>1 DEF TypeOK
<1>2. CASE messages' = messages
  BY <1>2 DEF TypeOK
<1>. QED
  BY <1>1, <1>2 DEF HandBack

\* update_segment_for_worker keeps the segment rows well typed.
LEMMA WriteSegmentType ==
    ASSUME TypeOK, NEW w \in Worker, NEW s \in SegmentStatus, NEW n \in 0..MaxAttempts,
           WriteSegment(w, s, n)
    PROVE  segments' \in [Job -> [Segment -> [status: SegmentStatus,
    attempt: 0..MaxAttempts]]]
  BY DEF TypeOK, WriteSegment

\* The attempts of _process_segment stay within the retry budget.
LEMMA TryAttemptType ==
    ASSUME TypeOK, NEW w \in Worker, NEW n \in 0..MaxAttempts, TryAttempt(w, n)
    PROVE  step' \in [Worker -> Step] /\ attempt' \in [Worker -> 0..MaxAttempts]
  BY StepNames DEF TypeOK, TryAttempt

\* The loop index goes at most one past the last segment.
LEMMA NextSegmentType ==
    ASSUME TypeOK, NEW w \in Worker, at[w] \in Segment, NextSegment(w)
    PROVE  step' \in [Worker -> Step] /\ at' \in [Worker -> 1..(SegmentCount + 1)]
<1>1. at[w] + 1 \in 1..(SegmentCount + 1)
  BY ConstantsAssumption DEF Segment
<1>. QED
  BY <1>1, StepNames DEF TypeOK, NextSegment

\* Every step keeps the types.
LEMMA TypeStep ==
    ASSUME TypeOK, IndexInLoop, [Next]_vars
    PROVE  TypeOK'
<1>1. ASSUME NEW j \in Job, CreateJob(j) PROVE TypeOK'
  BY <1>1, StatusNames
     DEF TypeOK, CreateJob
<1>2. ASSUME NEW j \in Job, PublishJob(j) PROVE TypeOK'
  BY <1>2
     DEF TypeOK, PublishJob
<1>3. ASSUME NEW j \in Job, PublishFails(j) PROVE TypeOK'
  BY <1>3
     DEF TypeOK, PublishFails
<1>4. ASSUME NEW j \in Job, RequestCancellation(j) PROVE TypeOK'
  BY <1>4, StatusNames
     DEF TypeOK, RequestCancellation
<1>5. ASSUME NEW j \in Job, ReadForCancellation(j) PROVE TypeOK'
  BY <1>5
     DEF TypeOK, ReadForCancellation
<1>6. ASSUME NEW j \in Job, WriteCancellation(j) PROVE TypeOK'
  BY <1>6, StatusNames
     DEF TypeOK, WriteCancellation
<1>7. ASSUME NEW j \in Job, Duplicate(j) PROVE TypeOK'
  BY <1>7
     DEF TypeOK, Duplicate
<1>8. ASSUME NEW w \in Worker, NEW j \in Job, Deliver(w, j) PROVE TypeOK'
  BY <1>8, StepNames
     DEF TypeOK, Deliver
<1>9. ASSUME NEW w \in Worker, Load(w) PROVE TypeOK'
  BY <1>9, StepNames
     DEF TypeOK, Load
<1>10. ASSUME NEW w \in Worker, Start(w) PROVE TypeOK'
  BY <1>10, StepNames, StatusNames
     DEF TypeOK, Start
<1>11. ASSUME NEW w \in Worker, AllocateGpu(w) PROVE TypeOK'
  BY <1>11, StepNames
     DEF TypeOK, AllocateGpu, SetHolds
<1>12. ASSUME NEW w \in Worker, Begin(w) PROVE TypeOK'
  BY <1>12, StepNames, StatusNames
     DEF TypeOK, Begin
<1>13. ASSUME NEW w \in Worker, Poll(w) PROVE TypeOK'
  BY <1>13, StepNames
     DEF TypeOK, Poll
<1>14. ASSUME NEW w \in Worker, CacheHit(w) PROVE TypeOK'
  BY <1>14, StepNames, StatusNames, ConstantsAssumption
     DEF TypeOK, CacheHit, WriteSegment
<1>15. ASSUME NEW w \in Worker, CacheMiss(w) PROVE TypeOK'
  <2>1. at[w] \in Segment
    BY <1>15 DEF CacheMiss, IndexInLoop, ProcessingSteps
  <2>2. CASE snapshot[w][at[w]] < MaxAttempts
    <3>1. snapshot[w][at[w]] + 1 \in 0..MaxAttempts
      BY <2>1, <2>2, ConstantsAssumption DEF TypeOK
    <3>2. TryAttempt(w, snapshot[w][at[w]] + 1)
      BY <1>15, <2>2 DEF CacheMiss
    <3>. QED
      BY <1>15, <3>1, <3>2, TryAttemptType DEF TypeOK, CacheMiss, TryAttempt
  <2>3. CASE ~(snapshot[w][at[w]] < MaxAttempts)
    <3>1. NextSegment(w)
      BY <1>15, <2>3 DEF CacheMiss
    <3>. QED
      BY <1>15, <2>1, <3>1, NextSegmentType DEF TypeOK, CacheMiss, NextSegment
  <2>. QED
    BY <2>2, <2>3
<1>16. ASSUME NEW w \in Worker, StartAttempt(w) PROVE TypeOK'
  <2>1. segments' \in [Job -> [Segment -> [status: SegmentStatus, attempt: 0..MaxAttempts]]]
    BY <1>16, WriteSegmentType, StatusNames DEF TypeOK, StartAttempt
  <2>2. runs[inHand[w]] \in [Segment -> Nat] /\ at[w] \in Segment
    BY <1>16 DEF TypeOK, StartAttempt, IndexInLoop, ProcessingSteps
  <2>3. [runs[inHand[w]] EXCEPT ![at[w]] = runs[inHand[w]][at[w]] + 1] \in [Segment -> Nat]
    BY <2>2, CountUp
  <2>4. runs' = [runs EXCEPT ![inHand[w]] =
                   [runs[inHand[w]] EXCEPT ![at[w]] = runs[inHand[w]][at[w]] + 1]]
    BY <1>16 DEF TypeOK, StartAttempt
  <2>5. runs' \in [Job -> [Segment -> Nat]]
    BY <2>3, <2>4 DEF TypeOK
  <2>. QED
    BY <1>16, <2>1, <2>5, StepNames DEF TypeOK, StartAttempt
<1>17. ASSUME NEW w \in Worker, SegmentSucceeds(w) PROVE TypeOK'
  <2>1. cached[inHand[w]] \cup {at[w]} \in SUBSET Segment
    BY <1>17 DEF TypeOK, SegmentSucceeds, IndexInLoop, ProcessingSteps
  <2>2. cached' \in [Job -> SUBSET Segment]
    BY <1>17, <2>1 DEF TypeOK, SegmentSucceeds
  <2>. QED
    BY <1>17, <2>2, StepNames DEF TypeOK, SegmentSucceeds
<1>18. ASSUME NEW w \in Worker, SegmentFails(w) PROVE TypeOK'
  <2>1. CASE attempt[w] < MaxAttempts
    <3>1. attempt[w] + 1 \in 0..MaxAttempts
      BY <2>1, ConstantsAssumption DEF TypeOK
    <3>2. WriteSegment(w, "queued", attempt[w]) /\ TryAttempt(w, attempt[w] + 1)
      BY <1>18, <2>1 DEF SegmentFails
    <3>. QED
      BY <1>18, <3>1, <3>2, WriteSegmentType, TryAttemptType, StatusNames
         DEF TypeOK, SegmentFails, TryAttempt
  <2>2. CASE ~(attempt[w] < MaxAttempts)
    <3>1. WriteSegment(w, "failed", attempt[w]) /\ Go(w, "tally") /\ UNCHANGED locals
      BY <1>18, <2>2 DEF SegmentFails
    <3>. QED
      BY <1>18, <3>1, WriteSegmentType, StepNames, StatusNames DEF TypeOK, SegmentFails
  <2>. QED
    BY <2>1, <2>2
<1>19. ASSUME NEW w \in Worker, CompleteSegment(w) PROVE TypeOK'
  BY <1>19, StepNames, StatusNames
     DEF TypeOK, CompleteSegment, WriteSegment
<1>20. ASSUME NEW w \in Worker, TallySegments(w) PROVE TypeOK'
  BY <1>20, StepNames, CountsInRange
     DEF TypeOK, TallySegments, Having
<1>21. ASSUME NEW w \in Worker, UpdateProgress(w) PROVE TypeOK'
  <2>1. at[w] \in Segment /\ NextSegment(w)
    BY <1>21 DEF UpdateProgress, IndexInLoop, ProcessingSteps
  <2>2. step' \in [Worker -> Step] /\ at' \in [Worker -> 1..(SegmentCount + 1)]
    BY <2>1, NextSegmentType
  <2>3. UNCHANGED <<inHand, snapshot, attempt, tally, ending>>
    BY <2>1 DEF NextSegment
  <2>. QED
    BY <1>21, <2>2, <2>3 DEF TypeOK, UpdateProgress
<1>22. ASSUME NEW w \in Worker, FinalizeJob(w) PROVE TypeOK'
  <2>1. CASE status[inHand[w]] = "cancel_requested"
    <3>1. /\ step' = [step EXCEPT ![w] = "cancel"]
          /\ UNCHANGED <<rows, stores, effects, queue, environment, history, locals>>
      BY <1>22, <2>1 DEF FinalizeJob
    <3>2. step' \in [Worker -> Step]
      BY <3>1, StepNames DEF TypeOK
    <3>. QED
      BY <3>1, <3>2 DEF TypeOK
  <2>2. CASE status[inHand[w]] # "cancel_requested"
    <3>1. SetVerdict(w, "freegpu", Verdict(inHand[w]))
      BY <1>22, <2>2 DEF FinalizeJob
    <3>2. Verdict(inHand[w]) \in Success \cup {"failed"}
      BY StatusNames DEF Verdict
    <3>3. DeadLetter(w) \/ UNCHANGED deadLetters
      BY <1>22, <2>2 DEF FinalizeJob
    <3>4. deadLetters' \in [Worker -> SUBSET Job]
      <4>1. CASE DeadLetter(w)
        BY <4>1 DEF TypeOK, DeadLetter
      <4>2. CASE UNCHANGED deadLetters
        BY <4>2 DEF TypeOK
      <4>. QED
        BY <3>3, <4>1, <4>2
    <3>. QED
      BY <1>22, <3>1, <3>2, <3>4, StepNames, StatusNames DEF TypeOK, FinalizeJob, SetVerdict
  <2>. QED
    BY <2>1, <2>2
<1>23. ASSUME NEW w \in Worker, ReleaseGpu(w) PROVE TypeOK'
  BY <1>23, FreeLeaseType, StepNames DEF TypeOK, ReleaseGpu
<1>24. ASSUME NEW w \in Worker, Seal(w) PROVE TypeOK'
  BY <1>24, StepNames, StatusNames
     DEF TypeOK, Seal
<1>25. ASSUME NEW w \in Worker, StoreManifest(w) PROVE TypeOK'
  BY <1>25, StepNames
     DEF TypeOK, StoreManifest
<1>26. ASSUME NEW w \in Worker, ExposeManifest(w) PROVE TypeOK'
  BY <1>26, StepNames
     DEF TypeOK, ExposeManifest
<1>27. ASSUME NEW w \in Worker, MaterializeArtifacts(w) PROVE TypeOK'
  BY <1>27, StepNames
     DEF TypeOK, MaterializeArtifacts
<1>28. ASSUME NEW w \in Worker, Unseal(w) PROVE TypeOK'
  BY <1>28, StepNames, StatusNames
     DEF TypeOK, Unseal, SetVerdict
<1>29. ASSUME NEW w \in Worker, ConsumeUsage(w) PROVE TypeOK'
  BY <1>29, StepNames
     DEF TypeOK, ConsumeUsage
<1>30. ASSUME NEW w \in Worker, Reconcile(w) PROVE TypeOK'
  BY <1>30, StepNames
     DEF TypeOK, Reconcile, SetHolds
<1>31. ASSUME NEW w \in Worker, Rescue(w) PROVE TypeOK'
  BY <1>31, StepNames, StatusNames
     DEF TypeOK, Rescue, SetVerdict
<1>32. ASSUME NEW w \in Worker, Rescued(w) PROVE TypeOK'
  BY <1>32, StepNames
     DEF TypeOK, Rescued, SetHolds
<1>33. ASSUME NEW w \in Worker, Notify(w) PROVE TypeOK'
  <2>1. lastEvent' \in [Job -> Event]
    BY <1>33, StatusNames DEF TypeOK, Notify, Announce
  <2>2. step' \in [Worker -> Step]
    BY <1>33, StepNames DEF TypeOK, Notify
  <2>. QED
    BY <1>33, <2>1, <2>2 DEF TypeOK, Notify
<1>34. ASSUME NEW w \in Worker, CancelJob(w) PROVE TypeOK'
  BY <1>34, StepNames, StatusNames
     DEF TypeOK, CancelJob
<1>35. ASSUME NEW w \in Worker, AnnounceCancellation(w) PROVE TypeOK'
  BY <1>35, StepNames, StatusNames
     DEF TypeOK, AnnounceCancellation, Announce
<1>36. ASSUME NEW w \in Worker, HandleException(w) PROVE TypeOK'
  BY <1>36, StepNames, StatusNames
     DEF TypeOK, HandleException, DeadLetter
<1>37. ASSUME NEW w \in Worker, ReportFailure(w) PROVE TypeOK'
  BY <1>37, StepNames, StatusNames
     DEF TypeOK, ReportFailure, Announce
<1>38. ASSUME NEW w \in Worker, Release(w) PROVE TypeOK'
  <2>1. leases' \in [Job -> Nat]
    BY <1>38, FreeLeaseType DEF TypeOK, Release
  <2>2. messages' \in [Job -> Nat]
    BY <1>38, HandBackType DEF Release
  <2>. QED
    BY <1>38, <2>1, <2>2, ForgetType DEF TypeOK, Release, HandBack
<1>39. ASSUME NEW w \in Worker, Crash(w) PROVE TypeOK'
  BY <1>39, ForgetType
     DEF TypeOK, Crash
<1>40. ASSUME NEW w \in Worker, Raise(w) PROVE TypeOK'
  BY <1>40, StepNames
     DEF TypeOK, Raise, Handler, Fault
<1>41. ASSUME NEW w \in Worker, RaiseAfterRelease(w) PROVE TypeOK'
  BY <1>41, FreeLeaseType, StepNames DEF TypeOK, RaiseAfterRelease, Fault
<1>42. ASSUME NEW w \in Worker, RaiseInFinally(w) PROVE TypeOK'
  <2>1. messages' \in [Job -> Nat]
    BY <1>42, HandBackType DEF RaiseInFinally
  <2>2. lost' \in [Job -> Nat]
    BY <1>42 DEF TypeOK, RaiseInFinally
  <2>. QED
    BY <1>42, <2>1, <2>2, ForgetType DEF TypeOK, RaiseInFinally, Fault, HandBack
<1>43. CASE UNCHANGED vars
  BY <1>43 DEF vars, TypeOK
<1>. QED
  BY <1>1, <1>2, <1>3, <1>4, <1>5, <1>6, <1>7, <1>8, <1>9, <1>10, <1>11, <1>12, <1>13,
      <1>14, <1>15, <1>16, <1>17, <1>18, <1>19, <1>20, <1>21, <1>22, <1>23, <1>24, <1>25,
      <1>26, <1>27, <1>28, <1>29, <1>30, <1>31, <1>32, <1>33, <1>34, <1>35, <1>36, <1>37,
      <1>38, <1>39, <1>40, <1>41, <1>42, <1>43
     DEF Next, Api, WorkerStep, ProcessJob, ProcessSegment, Finalize

\* Every step keeps the loop index on a segment while one is processed.
LEMMA IndexStep ==
    ASSUME TypeOK, IndexInLoop, [Next]_vars
    PROVE  IndexInLoop'
<1>t. step \in [Worker -> Step] /\ at \in [Worker -> 1..(SegmentCount + 1)] /\ inHand \in [Worker -> Job]
  BY DEF TypeOK
<1>1. ASSUME NEW j \in Job, CreateJob(j) \/ PublishJob(j) \/ PublishFails(j)
             \/ RequestCancellation(j)
      PROVE  IndexInLoop'
  BY <1>t, <1>1
     DEF CreateJob, PublishJob, PublishFails, RequestCancellation, IndexInLoop,
         ProcessingSteps
<1>2. ASSUME NEW j \in Job, ReadForCancellation(j) \/ WriteCancellation(j) \/ Duplicate(j)
      PROVE  IndexInLoop'
  BY <1>t, <1>2
     DEF ReadForCancellation, WriteCancellation, Duplicate, IndexInLoop, ProcessingSteps
<1>3. ASSUME NEW w \in Worker, NEW j \in Job, Deliver(w, j)
      PROVE  IndexInLoop'
  BY <1>t, <1>3
     DEF Deliver, IndexInLoop, ProcessingSteps
<1>4. ASSUME NEW w \in Worker, Load(w) \/ Start(w) \/ AllocateGpu(w) \/ Begin(w)
      PROVE  IndexInLoop'
  BY <1>t, <1>4
     DEF Load, Start, AllocateGpu, SetHolds, Begin, IndexInLoop, ProcessingSteps
<1>5. ASSUME NEW w \in Worker, Poll(w)
      PROVE  IndexInLoop'
  BY <1>t, <1>5, ConstantsAssumption
     DEF Poll, Segment, IndexInLoop, ProcessingSteps
<1>6. ASSUME NEW w \in Worker, CacheHit(w) \/ CacheMiss(w) \/ StartAttempt(w)
             \/ SegmentSucceeds(w)
      PROVE  IndexInLoop'
  BY <1>t, <1>6
     DEF CacheHit, CacheMiss, TryAttempt, NextSegment, StartAttempt, SegmentSucceeds,
         IndexInLoop, ProcessingSteps
<1>7. ASSUME NEW w \in Worker, SegmentFails(w) \/ CompleteSegment(w)
             \/ TallySegments(w) \/ UpdateProgress(w)
      PROVE  IndexInLoop'
  BY <1>t, <1>7
     DEF SegmentFails, TryAttempt, CompleteSegment, TallySegments, UpdateProgress,
         NextSegment, IndexInLoop, ProcessingSteps
<1>8. ASSUME NEW w \in Worker, FinalizeJob(w) \/ ReleaseGpu(w) \/ Seal(w)
             \/ StoreManifest(w)
      PROVE  IndexInLoop'
  BY <1>t, <1>8
     DEF FinalizeJob, SetVerdict, ReleaseGpu, Seal, StoreManifest, IndexInLoop,
         ProcessingSteps
<1>9. ASSUME NEW w \in Worker, ExposeManifest(w) \/ MaterializeArtifacts(w)
             \/ Unseal(w) \/ ConsumeUsage(w)
      PROVE  IndexInLoop'
  BY <1>t, <1>9
     DEF ExposeManifest, MaterializeArtifacts, Unseal, SetVerdict, ConsumeUsage,
         IndexInLoop, ProcessingSteps
<1>10. ASSUME NEW w \in Worker, Reconcile(w) \/ Rescue(w) \/ Rescued(w) \/ Notify(w)
      PROVE  IndexInLoop'
  BY <1>t, <1>10
     DEF Reconcile, SetHolds, Rescue, SetVerdict, Rescued, Notify, IndexInLoop,
         ProcessingSteps
<1>11. ASSUME NEW w \in Worker, CancelJob(w) \/ AnnounceCancellation(w)
              \/ HandleException(w) \/ ReportFailure(w)
      PROVE  IndexInLoop'
  BY <1>t, <1>11
     DEF CancelJob, AnnounceCancellation, HandleException, ReportFailure, IndexInLoop,
         ProcessingSteps
<1>12. ASSUME NEW w \in Worker, Release(w) \/ Crash(w) \/ Raise(w) \/ RaiseAfterRelease(w)
      PROVE  IndexInLoop'
  BY <1>t, <1>12
     DEF Release, HandBack, Crash, Raise, Handler, Fault, RaiseAfterRelease, Forget,
         IndexInLoop, ProcessingSteps
<1>13. ASSUME NEW w \in Worker, RaiseInFinally(w)
      PROVE  IndexInLoop'
  BY <1>t, <1>13
     DEF RaiseInFinally, Fault, HandBack, Forget, IndexInLoop, ProcessingSteps
<1>14. CASE UNCHANGED vars
  BY <1>14 DEF vars, IndexInLoop, ProcessingSteps
<1>. QED
  BY <1>1, <1>2, <1>3, <1>4, <1>5, <1>6, <1>7, <1>8, <1>9, <1>10, <1>11, <1>12, <1>13, <1>14
     DEF Next, Api, WorkerStep, ProcessJob, ProcessSegment, Finalize

\* The rows, the queue and the locals of process_job stay within their types, whatever
\* interleaving of deliveries, cancellations, exceptions and crashes happens.
THEOREM TypeCorrect == Spec => []TypeOK
<1>1. TypeOK /\ IndexInLoop /\ [Next]_vars => (TypeOK /\ IndexInLoop)'
  BY TypeStep, IndexStep
<1>. QED
  BY <1>1, InitType, PTL DEF Spec

-----------------------------------------------------------------------------
(* Charges.                                                                *)

\* What _finalize_job has stored when it comes to a step of its success path.
StoredSoFar == \A w \in Worker :
    /\ step[w] \in {"expose", "deliver"} => inHand[w] \in manifests
    /\ step[w] = "bill" /\ verdict[w] \in Success => inHand[w] \in manifests \cap artifacts

\* Nothing is charged at first.
LEMMA InitBacked == Init => StoredSoFar /\ ChargeIsBacked
  BY DEF Init, StoredSoFar, ChargeIsBacked

\* _finalize_job reaches its charge for a success only past both stores; every
\* exception before it leaves the success path or drops the verdict.
LEMMA StoredStep ==
    ASSUME TypeOK, StoredSoFar, [Next]_vars
    PROVE  StoredSoFar'
<1>t. /\ step \in [Worker -> Step] /\ inHand \in [Worker -> Job]
      /\ verdict \in [Worker -> Success \cup {"failed"}]
  BY DEF TypeOK
<1>1. ASSUME NEW j \in Job, CreateJob(j) \/ PublishJob(j) \/ PublishFails(j)
             \/ RequestCancellation(j)
      PROVE  StoredSoFar'
  BY <1>t, <1>1
     DEF CreateJob, PublishJob, PublishFails, RequestCancellation, StoredSoFar
<1>2. ASSUME NEW j \in Job, ReadForCancellation(j) \/ WriteCancellation(j) \/ Duplicate(j)
      PROVE  StoredSoFar'
  BY <1>t, <1>2
     DEF ReadForCancellation, WriteCancellation, Duplicate, StoredSoFar
<1>3. ASSUME NEW w \in Worker, NEW j \in Job, Deliver(w, j)
      PROVE  StoredSoFar'
  BY <1>t, <1>3
     DEF Deliver, StoredSoFar
<1>4. ASSUME NEW w \in Worker, Load(w) \/ Start(w) \/ AllocateGpu(w) \/ Begin(w)
      PROVE  StoredSoFar'
  BY <1>t, <1>4
     DEF Load, Start, AllocateGpu, SetHolds, Begin, StoredSoFar
<1>5. ASSUME NEW w \in Worker, Poll(w) \/ CacheHit(w) \/ CacheMiss(w) \/ StartAttempt(w)
      PROVE  StoredSoFar'
  BY <1>t, <1>5
     DEF Poll, CacheHit, CacheMiss, TryAttempt, NextSegment, StartAttempt, StoredSoFar
<1>6. ASSUME NEW w \in Worker, SegmentSucceeds(w) \/ SegmentFails(w)
             \/ CompleteSegment(w) \/ TallySegments(w)
      PROVE  StoredSoFar'
  BY <1>t, <1>6
     DEF SegmentSucceeds, SegmentFails, TryAttempt, CompleteSegment, TallySegments,
         StoredSoFar
<1>7. ASSUME NEW w \in Worker, UpdateProgress(w) \/ FinalizeJob(w) \/ ReleaseGpu(w)
             \/ Seal(w)
      PROVE  StoredSoFar'
  BY <1>t, <1>7
     DEF UpdateProgress, NextSegment, FinalizeJob, SetVerdict, ReleaseGpu, Seal, StoredSoFar
<1>8. ASSUME NEW w \in Worker, StoreManifest(w) \/ ExposeManifest(w)
             \/ MaterializeArtifacts(w)
      PROVE  StoredSoFar'
  BY <1>t, <1>8
     DEF StoreManifest, ExposeManifest, MaterializeArtifacts, StoredSoFar
<1>9. ASSUME NEW w \in Worker, Unseal(w)
      PROVE  StoredSoFar'
  BY <1>t, <1>9 DEF Unseal, SetVerdict, StoredSoFar, Success
<1>10. ASSUME NEW w \in Worker, ConsumeUsage(w) \/ Reconcile(w) \/ Rescue(w) \/ Rescued(w)
      PROVE  StoredSoFar'
  BY <1>t, <1>10
     DEF ConsumeUsage, Reconcile, SetHolds, Rescue, SetVerdict, Rescued, StoredSoFar
<1>11. ASSUME NEW w \in Worker, Notify(w) \/ CancelJob(w) \/ AnnounceCancellation(w)
              \/ HandleException(w)
      PROVE  StoredSoFar'
  BY <1>t, <1>11
     DEF Notify, CancelJob, AnnounceCancellation, HandleException, StoredSoFar
<1>12. ASSUME NEW w \in Worker, ReportFailure(w) \/ Release(w) \/ Crash(w) \/ Raise(w)
      PROVE  StoredSoFar'
  BY <1>t, <1>12
     DEF ReportFailure, Release, HandBack, Crash, Raise, Handler, Fault, Forget, StoredSoFar
<1>13. ASSUME NEW w \in Worker, RaiseAfterRelease(w) \/ RaiseInFinally(w)
      PROVE  StoredSoFar'
  BY <1>t, <1>13
     DEF RaiseAfterRelease, Fault, RaiseInFinally, HandBack, Forget, StoredSoFar
<1>14. CASE UNCHANGED vars
  BY <1>14 DEF vars, StoredSoFar
<1>. QED
  BY <1>1, <1>2, <1>3, <1>4, <1>5, <1>6, <1>7, <1>8, <1>9, <1>10, <1>11, <1>12, <1>13, <1>14
     DEF Next, Api, WorkerStep, ProcessJob, ProcessSegment, Finalize

\* A charge for a success finds manifest and packages stored, and no step removes them.
LEMMA BackedStep ==
    ASSUME TypeOK, StoredSoFar, ChargeIsBacked, [Next]_vars
    PROVE  ChargeIsBacked'
<1>t. inHand \in [Worker -> Job] /\ charges \in [Job -> Nat]
  BY DEF TypeOK
<1>1. ASSUME NEW j \in Job, CreateJob(j) \/ PublishJob(j) \/ PublishFails(j)
             \/ RequestCancellation(j) \/ ReadForCancellation(j) \/ WriteCancellation(j) \/ Duplicate(j)
      PROVE  ChargeIsBacked'
  BY <1>t, <1>1
     DEF CreateJob, PublishJob, PublishFails, RequestCancellation, ReadForCancellation,
         WriteCancellation, Duplicate, ChargeIsBacked
<1>2. ASSUME NEW w \in Worker, NEW j \in Job, Deliver(w, j)
      PROVE  ChargeIsBacked'
  BY <1>t, <1>2
     DEF Deliver, ChargeIsBacked
<1>3. ASSUME NEW w \in Worker, Load(w) \/ Start(w) \/ AllocateGpu(w) \/ Begin(w)
             \/ Poll(w) \/ CacheHit(w) \/ CacheMiss(w)
      PROVE  ChargeIsBacked'
  BY <1>t, <1>3
     DEF Load, Start, AllocateGpu, SetHolds, Begin, Poll, CacheHit, CacheMiss, TryAttempt,
         NextSegment, ChargeIsBacked
<1>4. ASSUME NEW w \in Worker, StartAttempt(w) \/ SegmentSucceeds(w) \/ SegmentFails(w)
             \/ CompleteSegment(w) \/ TallySegments(w) \/ UpdateProgress(w) \/ FinalizeJob(w)
      PROVE  ChargeIsBacked'
  BY <1>t, <1>4
     DEF StartAttempt, SegmentSucceeds, SegmentFails, TryAttempt, CompleteSegment,
         TallySegments, UpdateProgress, NextSegment, FinalizeJob, SetVerdict, ChargeIsBacked
<1>5. ASSUME NEW w \in Worker, ReleaseGpu(w) \/ Seal(w) \/ StoreManifest(w)
             \/ ExposeManifest(w) \/ MaterializeArtifacts(w) \/ Unseal(w)
      PROVE  ChargeIsBacked'
  BY <1>t, <1>5
     DEF ReleaseGpu, Seal, StoreManifest, ExposeManifest, MaterializeArtifacts, Unseal,
         SetVerdict, ChargeIsBacked
<1>6. ASSUME NEW w \in Worker, ConsumeUsage(w)
      PROVE  ChargeIsBacked'
  BY <1>t, <1>6 DEF ConsumeUsage, ChargeIsBacked, StoredSoFar
<1>7. ASSUME NEW w \in Worker, Reconcile(w) \/ Rescue(w) \/ Rescued(w) \/ Notify(w)
             \/ CancelJob(w) \/ AnnounceCancellation(w) \/ HandleException(w)
      PROVE  ChargeIsBacked'
  BY <1>t, <1>7
     DEF Reconcile, SetHolds, Rescue, SetVerdict, Rescued, Notify, CancelJob,
         AnnounceCancellation, HandleException, ChargeIsBacked
<1>8. ASSUME NEW w \in Worker, ReportFailure(w) \/ Release(w) \/ Crash(w) \/ Raise(w)
             \/ RaiseAfterRelease(w) \/ RaiseInFinally(w)
      PROVE  ChargeIsBacked'
  BY <1>t, <1>8
     DEF ReportFailure, Release, HandBack, Crash, Raise, Handler, Fault,
         RaiseAfterRelease, RaiseInFinally, Forget, ChargeIsBacked
<1>9. CASE UNCHANGED vars
  BY <1>9 DEF vars, ChargeIsBacked
<1>. QED
  BY <1>1, <1>2, <1>3, <1>4, <1>5, <1>6, <1>7, <1>8, <1>9
     DEF Next, Api, WorkerStep, ProcessJob, ProcessSegment, Finalize


\* Minutes are charged only for a job whose manifest and packages are stored: for any
\* number of workers at the same job, and exceptions and crashes anywhere.
THEOREM ChargesBacked == Spec => []ChargeIsBacked
<1>1. TypeOK /\ StoredSoFar /\ ChargeIsBacked /\ [Next]_vars => (StoredSoFar /\ ChargeIsBacked)'
  BY StoredStep, BackedStep
<1>. QED
  BY <1>1, InitBacked, TypeCorrect, PTL DEF Spec

\* The steps from which _finalize_job may still come to consume_minutes.
ChargeAhead ==
    ProcessingSteps \cup ManifestSteps \cup
    {"load", "start", "allocate", "begin", "finalize", "freegpu", "seal", "unseal", "bill"}

\* The deliveries of a job whose charge may still come.
Uncharged(j) == {w \in Worker : step[w] \in ChargeAhead /\ inHand[w] = j}

\* What has been charged for a job and what may still be is within its deliveries.
ChargeBudget == \A j \in Job : charges[j] + Cardinality(Uncharged(j)) <= deliveries[j]

\* Nothing charges but ConsumeUsage, and only a delivery opens the way to it: no
\* exception leads a worker back before its charge.
NoneReturns == \A w \in Worker :
    step'[w] \in ChargeAhead => step[w] \in ChargeAhead /\ inHand'[w] = inHand[w]

\* A step other than a delivery or the charge itself brings no worker before its charge.
LEMMA ChargePath ==
    ASSUME TypeOK, [Next]_vars
    PROVE  \/ \E w \in Worker, j \in Job : Deliver(w, j)
           \/ \E w \in Worker : ConsumeUsage(w)
           \/ NoneReturns /\ UNCHANGED <<charges, deliveries>>
<1>. DEFINE Quiet == NoneReturns /\ UNCHANGED <<charges, deliveries>>
<1>t. /\ step \in [Worker -> Step] /\ inHand \in [Worker -> Job]
  BY DEF TypeOK
<1>1. ASSUME NEW j \in Job, CreateJob(j) \/ PublishJob(j) \/ PublishFails(j)
             \/ RequestCancellation(j)
      PROVE  Quiet
  BY <1>t, <1>1
     DEF CreateJob, PublishJob, PublishFails, RequestCancellation, NoneReturns, ChargeAhead,
         ProcessingSteps, ManifestSteps, FinalizeSteps
<1>2. ASSUME NEW j \in Job, ReadForCancellation(j) \/ WriteCancellation(j) \/ Duplicate(j)
      PROVE  Quiet
  BY <1>t, <1>2
     DEF ReadForCancellation, WriteCancellation, Duplicate, NoneReturns, ChargeAhead,
         ProcessingSteps, ManifestSteps, FinalizeSteps
<1>3. ASSUME NEW w \in Worker, Load(w) \/ Start(w) \/ AllocateGpu(w) \/ Begin(w)
      PROVE  Quiet
  BY <1>t, <1>3
     DEF Load, Start, AllocateGpu, SetHolds, Begin, NoneReturns, ChargeAhead,
         ProcessingSteps, ManifestSteps, FinalizeSteps
<1>4. ASSUME NEW w \in Worker, Poll(w) \/ CacheHit(w) \/ CacheMiss(w) \/ StartAttempt(w)
      PROVE  Quiet
  BY <1>t, <1>4
     DEF Poll, CacheHit, CacheMiss, TryAttempt, NextSegment, StartAttempt, NoneReturns,
         ChargeAhead,
         ProcessingSteps, ManifestSteps, FinalizeSteps
<1>5. ASSUME NEW w \in Worker, SegmentSucceeds(w) \/ SegmentFails(w)
             \/ CompleteSegment(w) \/ TallySegments(w)
      PROVE  Quiet
  BY <1>t, <1>5
     DEF SegmentSucceeds, SegmentFails, TryAttempt, CompleteSegment, TallySegments,
         NoneReturns, ChargeAhead,
         ProcessingSteps, ManifestSteps, FinalizeSteps
<1>6. ASSUME NEW w \in Worker, UpdateProgress(w) \/ FinalizeJob(w) \/ ReleaseGpu(w)
             \/ Seal(w)
      PROVE  Quiet
  BY <1>t, <1>6
     DEF UpdateProgress, NextSegment, FinalizeJob, SetVerdict, ReleaseGpu, Seal,
         NoneReturns, ChargeAhead,
         ProcessingSteps, ManifestSteps, FinalizeSteps
<1>7. ASSUME NEW w \in Worker, StoreManifest(w) \/ ExposeManifest(w)
             \/ MaterializeArtifacts(w) \/ Unseal(w)
      PROVE  Quiet
  BY <1>t, <1>7
     DEF StoreManifest, ExposeManifest, MaterializeArtifacts, Unseal, SetVerdict,
         NoneReturns, ChargeAhead,
         ProcessingSteps, ManifestSteps, FinalizeSteps
<1>8. ASSUME NEW w \in Worker, Reconcile(w) \/ Rescue(w) \/ Rescued(w) \/ Notify(w)
      PROVE  Quiet
  BY <1>t, <1>8
     DEF Reconcile, SetHolds, Rescue, SetVerdict, Rescued, Notify, NoneReturns, ChargeAhead,
         ProcessingSteps, ManifestSteps, FinalizeSteps
<1>9. ASSUME NEW w \in Worker, CancelJob(w) \/ AnnounceCancellation(w)
             \/ HandleException(w) \/ ReportFailure(w)
      PROVE  Quiet
  BY <1>t, <1>9
     DEF CancelJob, AnnounceCancellation, HandleException, ReportFailure, NoneReturns,
         ChargeAhead,
         ProcessingSteps, ManifestSteps, FinalizeSteps
<1>10. ASSUME NEW w \in Worker, Release(w) \/ Crash(w)
      PROVE  Quiet
  BY <1>t, <1>10
     DEF Release, HandBack, Crash, Forget, NoneReturns, ChargeAhead,
         ProcessingSteps, ManifestSteps, FinalizeSteps
<1>11. ASSUME NEW w \in Worker, Raise(w)
      PROVE  Quiet
  BY <1>t, <1>11
     DEF Raise, Handler, Fault, NoneReturns, ChargeAhead,
         ProcessingSteps, ManifestSteps, FinalizeSteps
<1>12. ASSUME NEW w \in Worker, RaiseAfterRelease(w) \/ RaiseInFinally(w)
      PROVE  Quiet
  BY <1>t, <1>12
     DEF RaiseAfterRelease, RaiseInFinally, Fault, HandBack, Forget, NoneReturns, ChargeAhead,
         ProcessingSteps, ManifestSteps, FinalizeSteps
<1>13. CASE UNCHANGED vars
  BY <1>13 DEF vars, NoneReturns
<1>. QED
  BY <1>1, <1>2, <1>3, <1>4, <1>5, <1>6, <1>7, <1>8, <1>9, <1>10, <1>11, <1>12, <1>13
     DEF Next, Api, WorkerStep, ProcessJob, ProcessSegment, Finalize

\* Deliveries open the way to one charge each, and the charge closes it.
LEMMA BudgetStep ==
    ASSUME TypeOK, TypeOK', ChargeBudget, [Next]_vars
    PROVE  ChargeBudget'
<1>t. /\ charges \in [Job -> Nat] /\ deliveries \in [Job -> Nat]
      /\ charges' \in [Job -> Nat] /\ deliveries' \in [Job -> Nat]
      /\ step \in [Worker -> Step] /\ inHand \in [Worker -> Job]
  BY DEF TypeOK
<1>. SUFFICES ASSUME NEW j \in Job
              PROVE  charges'[j] + Cardinality(Uncharged(j)') <= deliveries'[j]
  BY DEF ChargeBudget
<1>f. IsFiniteSet(Uncharged(j)) /\ IsFiniteSet(Uncharged(j)')
  BY WorkersAssumption, FS_Subset DEF Uncharged
<1>n. Cardinality(Uncharged(j)) \in Nat /\ Cardinality(Uncharged(j)') \in Nat
  BY <1>f, FS_CardinalityType
<1>b. charges[j] + Cardinality(Uncharged(j)) <= deliveries[j]
  BY DEF ChargeBudget
<1>1. ASSUME NEW w \in Worker, NEW k \in Job, Deliver(w, k)
      PROVE  charges'[j] + Cardinality(Uncharged(j)') <= deliveries'[j]
  <2>1. /\ step' = [step EXCEPT ![w] = "load"] /\ inHand' = [inHand EXCEPT ![w] = k]
        /\ charges' = charges /\ deliveries' = [deliveries EXCEPT ![k] = @ + 1]
    BY <1>1 DEF Deliver
  <2>2. Uncharged(j)' \ {w} \subseteq Uncharged(j)
    BY <1>t, <2>1 DEF Uncharged
  <2>3. Cardinality(Uncharged(j)') <= Cardinality(Uncharged(j)) + 1
    BY <1>f, <2>2, LosesOne
  <2>4. CASE j = k
    BY <1>t, <1>n, <1>b, <2>1, <2>3, <2>4
  <2>5. CASE j # k
    <3>1. w \notin Uncharged(j)'
      BY <1>t, <2>1, <2>5 DEF Uncharged
    <3>2. Cardinality(Uncharged(j)') <= Cardinality(Uncharged(j))
      BY <1>f, <2>2, <3>1, LosesOne
    <3>3. charges'[j] = charges[j] /\ deliveries'[j] = deliveries[j]
      BY <1>t, <2>1, <2>5
    <3>. QED
      BY <1>t, <1>n, <1>b, <3>2, <3>3
  <2>. QED
    BY <2>4, <2>5
<1>2. ASSUME NEW w \in Worker, ConsumeUsage(w)
      PROVE  charges'[j] + Cardinality(Uncharged(j)') <= deliveries'[j]
  <2>1. /\ step[w] = "bill" /\ step' = [step EXCEPT ![w] = "reconcile"]
        /\ inHand' = inHand /\ deliveries' = deliveries
        /\ charges' = [charges EXCEPT ![inHand[w]] =
                          IF verdict[w] \in Success THEN @ + 1 ELSE @]
    BY <1>2 DEF ConsumeUsage
  <2>2. Uncharged(j)' = Uncharged(j) \ {w}
    BY <1>t, <2>1 DEF Uncharged, ChargeAhead, ProcessingSteps, ManifestSteps
  <2>3. CASE inHand[w] = j
    <3>1. w \in Uncharged(j)
      BY <2>1, <2>3 DEF Uncharged, ChargeAhead
    <3>2. Cardinality(Uncharged(j)') = Cardinality(Uncharged(j)) - 1
      BY <1>f, <2>2, <3>1, FS_RemoveElement
    <3>3. charges'[j] <= charges[j] + 1
      BY <1>t, <2>1, <2>3
    <3>. QED
      BY <1>t, <1>n, <1>b, <2>1, <3>2, <3>3
  <2>4. CASE inHand[w] # j
    <3>1. charges'[j] = charges[j]
      BY <1>t, <2>1, <2>4
    <3>2. Cardinality(Uncharged(j)') <= Cardinality(Uncharged(j))
      BY <1>f, <2>2, FS_Subset
    <3>. QED
      BY <1>t, <1>n, <1>b, <2>1, <3>1, <3>2
  <2>. QED
    BY <2>3, <2>4
<1>3. CASE NoneReturns /\ UNCHANGED <<charges, deliveries>>
  <2>1. Uncharged(j)' \subseteq Uncharged(j)
    BY <1>3 DEF NoneReturns, Uncharged
  <2>2. Cardinality(Uncharged(j)') <= Cardinality(Uncharged(j))
    BY <1>f, <2>1, FS_Subset
  <2>. QED
    BY <1>t, <1>n, <1>b, <1>3, <2>2
<1>. QED
  BY <1>1, <1>2, <1>3, ChargePath

\* A delivery of a job charges at most once, for any number of workers, exceptions,
\* crashes and redeliveries: consume_minutes is on no path of process_job twice.
THEOREM ChargedOncePerDelivery == Spec => []ChargedPerDelivery
<1>1. Init => ChargeBudget
  <2>1. SUFFICES ASSUME Init, NEW j \in Job
                 PROVE  charges[j] + Cardinality(Uncharged(j)) <= deliveries[j]
    BY DEF ChargeBudget
  <2>2. Uncharged(j) = {}
    BY <2>1 DEF Init, Uncharged, ChargeAhead, ProcessingSteps, ManifestSteps
  <2>3. charges[j] = 0 /\ deliveries[j] = 0
    BY <2>1 DEF Init
  <2>. QED
    BY <2>2, <2>3, FS_EmptySet
<1>2. TypeOK /\ TypeOK' /\ ChargeBudget /\ [Next]_vars => ChargeBudget'
  BY BudgetStep
<1>3. TypeOK /\ ChargeBudget => ChargedPerDelivery
  <2>1. SUFFICES ASSUME TypeOK, ChargeBudget, NEW j \in Job
                 PROVE  charges[j] <= deliveries[j]
    BY DEF ChargedPerDelivery
  <2>2. Cardinality(Uncharged(j)) \in Nat
    BY WorkersAssumption, FS_Subset, FS_CardinalityType DEF Uncharged
  <2>. QED
    BY <2>1, <2>2 DEF TypeOK, ChargeBudget
<1>. QED
  BY <1>1, <1>2, <1>3, TypeCorrect, PTL DEF Spec

-----------------------------------------------------------------------------
(* Leases.                                                                 *)

\* _finalize_job has released the GPU and not yet returned that it has.
AfterRelease == ManifestSteps \cup FinalizeSteps \cup {"rescue", "rescued"}

\* The deliveries of a job that may still have a lease to give back.
Holding(j) == {w \in Busy(j) : holds[w] /\ step[w] \notin AfterRelease}

\* The invariant behind LeasesAccounted: a worker that has released counts no more.
LeaseBudget == \A j \in Job : leases[j] <= Cardinality(Holding(j)) + lost[j]

\* A worker has no lease before it allocates one.
AllocatesOnce == \A w \in Worker :
    step[w] \in {"idle", "load", "start", "allocate"} => ~holds[w]

\* No worker stops holding a lease, and none is allocated.
LeasesKept ==
    /\ UNCHANGED <<leases, lost>>
    /\ \A w \in Worker, j \in Job : w \in Holding(j) => w \in Holding(j)'

\* Every end of process_job forgets gpu_allocated, and only AllocateGpu sets it.
LEMMA AllocatesOnceStep ==
    ASSUME TypeOK, AllocatesOnce, [Next]_vars
    PROVE  AllocatesOnce'
<1>t. /\ step \in [Worker -> Step] /\ holds \in [Worker -> BOOLEAN]
  BY DEF TypeOK
<1>1. ASSUME NEW j \in Job, CreateJob(j) \/ PublishJob(j) \/ PublishFails(j)
             \/ RequestCancellation(j)
      PROVE  AllocatesOnce'
  BY <1>t, <1>1
     DEF CreateJob, PublishJob, PublishFails, RequestCancellation, AllocatesOnce
<1>2. ASSUME NEW j \in Job, ReadForCancellation(j) \/ WriteCancellation(j) \/ Duplicate(j)
      PROVE  AllocatesOnce'
  BY <1>t, <1>2
     DEF ReadForCancellation, WriteCancellation, Duplicate, AllocatesOnce
<1>3. ASSUME NEW w \in Worker, NEW j \in Job, Deliver(w, j)
      PROVE  AllocatesOnce'
  BY <1>t, <1>3
     DEF Deliver, AllocatesOnce
<1>4. ASSUME NEW w \in Worker, Load(w) \/ Start(w) \/ Begin(w)
      PROVE  AllocatesOnce'
  BY <1>t, <1>4
     DEF Load, Start, Begin, AllocatesOnce
<1>5. ASSUME NEW w \in Worker, Poll(w) \/ CacheHit(w) \/ CacheMiss(w) \/ StartAttempt(w)
      PROVE  AllocatesOnce'
  BY <1>t, <1>5
     DEF Poll, CacheHit, CacheMiss, TryAttempt, NextSegment, StartAttempt, AllocatesOnce
<1>6. ASSUME NEW w \in Worker, SegmentSucceeds(w) \/ SegmentFails(w)
             \/ CompleteSegment(w) \/ TallySegments(w)
      PROVE  AllocatesOnce'
  BY <1>t, <1>6
     DEF SegmentSucceeds, SegmentFails, TryAttempt, CompleteSegment, TallySegments,
         AllocatesOnce
<1>7. ASSUME NEW w \in Worker, UpdateProgress(w) \/ FinalizeJob(w) \/ Seal(w)
      PROVE  AllocatesOnce'
  BY <1>t, <1>7
     DEF UpdateProgress, NextSegment, FinalizeJob, SetVerdict, Seal, AllocatesOnce
<1>8. ASSUME NEW w \in Worker, StoreManifest(w) \/ ExposeManifest(w)
             \/ MaterializeArtifacts(w) \/ Unseal(w)
      PROVE  AllocatesOnce'
  BY <1>t, <1>8
     DEF StoreManifest, ExposeManifest, MaterializeArtifacts, Unseal, SetVerdict, AllocatesOnce
<1>9. ASSUME NEW w \in Worker, ConsumeUsage(w) \/ Reconcile(w) \/ Rescue(w) \/ Rescued(w)
      PROVE  AllocatesOnce'
  BY <1>t, <1>9
     DEF ConsumeUsage, Reconcile, SetHolds, Rescue, SetVerdict, Rescued, AllocatesOnce
<1>10. ASSUME NEW w \in Worker, Notify(w) \/ CancelJob(w) \/ AnnounceCancellation(w)
             \/ HandleException(w) \/ ReportFailure(w)
      PROVE  AllocatesOnce'
  BY <1>t, <1>10
     DEF Notify, CancelJob, AnnounceCancellation, HandleException, ReportFailure, AllocatesOnce
<1>11. ASSUME NEW w \in Worker, Raise(w)
      PROVE  AllocatesOnce'
  BY <1>t, <1>11
     DEF Raise, Handler, Fault, AllocatesOnce, ManifestSteps, FinalizeSteps
<1>12. ASSUME NEW w \in Worker, AllocateGpu(w)
      PROVE  AllocatesOnce'
  BY <1>t, <1>12
     DEF AllocateGpu, SetHolds, AllocatesOnce
<1>13. ASSUME NEW w \in Worker, ReleaseGpu(w)
      PROVE  AllocatesOnce'
  BY <1>t, <1>13
     DEF ReleaseGpu, FreeLease, AllocatesOnce
<1>14. ASSUME NEW w \in Worker, RaiseAfterRelease(w)
      PROVE  AllocatesOnce'
  BY <1>t, <1>14
     DEF RaiseAfterRelease, Fault, FreeLease, AllocatesOnce
<1>15. ASSUME NEW w \in Worker, Release(w) \/ RaiseInFinally(w) \/ Crash(w)
      PROVE  AllocatesOnce'
  BY <1>t, <1>15
     DEF Release, RaiseInFinally, Fault, HandBack, Crash, Forget, FreeLease, AllocatesOnce
<1>16. CASE UNCHANGED vars
  BY <1>16 DEF vars, AllocatesOnce
<1>. QED
  BY <1>1, <1>2, <1>3, <1>4, <1>5, <1>6, <1>7, <1>8, <1>9, <1>10,
      <1>11, <1>12, <1>13, <1>14, <1>15, <1>16
     DEF Next, Api, WorkerStep, ProcessJob, ProcessSegment, Finalize

\* A step that allocates or frees nothing keeps every lease with its holder.
LEMMA LeasePath ==
    ASSUME TypeOK, [Next]_vars
    PROVE  \/ LeasesKept
           \/ \E w \in Worker : AllocateGpu(w) \/ ReleaseGpu(w) \/ RaiseAfterRelease(w)
           \/ \E w \in Worker : Release(w) \/ RaiseInFinally(w) \/ Crash(w)
<1>t. /\ step \in [Worker -> Step] /\ inHand \in [Worker -> Job]
      /\ holds \in [Worker -> BOOLEAN]
  BY DEF TypeOK
<1>1. ASSUME NEW j \in Job, CreateJob(j) \/ PublishJob(j) \/ PublishFails(j)
             \/ RequestCancellation(j)
      PROVE  LeasesKept
  BY <1>t, <1>1
     DEF CreateJob, PublishJob, PublishFails, RequestCancellation, LeasesKept, Holding,
         Busy, AfterRelease, ManifestSteps, FinalizeSteps
<1>2. ASSUME NEW j \in Job, ReadForCancellation(j) \/ WriteCancellation(j) \/ Duplicate(j)
      PROVE  LeasesKept
  BY <1>t, <1>2
     DEF ReadForCancellation, WriteCancellation, Duplicate, LeasesKept, Holding,
         Busy, AfterRelease, ManifestSteps, FinalizeSteps
<1>3. ASSUME NEW w \in Worker, NEW j \in Job, Deliver(w, j)
      PROVE  LeasesKept
  BY <1>t, <1>3
     DEF Deliver, LeasesKept, Holding,
         Busy, AfterRelease, ManifestSteps, FinalizeSteps
<1>4. ASSUME NEW w \in Worker, Load(w) \/ Start(w) \/ Begin(w)
      PROVE  LeasesKept
  BY <1>t, <1>4
     DEF Load, Start, Begin, LeasesKept, Holding,
         Busy, AfterRelease, ManifestSteps, FinalizeSteps
<1>5. ASSUME NEW w \in Worker, Poll(w) \/ CacheHit(w) \/ CacheMiss(w) \/ StartAttempt(w)
      PROVE  LeasesKept
  BY <1>t, <1>5
     DEF Poll, CacheHit, CacheMiss, TryAttempt, NextSegment, StartAttempt, LeasesKept, Holding,
         Busy, AfterRelease, ManifestSteps, FinalizeSteps
<1>6. ASSUME NEW w \in Worker, SegmentSucceeds(w) \/ SegmentFails(w)
             \/ CompleteSegment(w) \/ TallySegments(w)
      PROVE  LeasesKept
  BY <1>t, <1>6
     DEF SegmentSucceeds, SegmentFails, TryAttempt, CompleteSegment, TallySegments,
         LeasesKept, Holding,
         Busy, AfterRelease, ManifestSteps, FinalizeSteps
<1>7. ASSUME NEW w \in Worker, UpdateProgress(w) \/ FinalizeJob(w) \/ Seal(w)
      PROVE  LeasesKept
  BY <1>t, <1>7
     DEF UpdateProgress, NextSegment, FinalizeJob, SetVerdict, Seal, LeasesKept, Holding,
         Busy, AfterRelease, ManifestSteps, FinalizeSteps
<1>8. ASSUME NEW w \in Worker, StoreManifest(w) \/ ExposeManifest(w)
             \/ MaterializeArtifacts(w) \/ Unseal(w)
      PROVE  LeasesKept
  BY <1>t, <1>8
     DEF StoreManifest, ExposeManifest, MaterializeArtifacts, Unseal, SetVerdict,
         LeasesKept, Holding,
         Busy, AfterRelease, ManifestSteps, FinalizeSteps
<1>9. ASSUME NEW w \in Worker, ConsumeUsage(w) \/ Reconcile(w) \/ Rescue(w) \/ Rescued(w)
      PROVE  LeasesKept
  BY <1>t, <1>9
     DEF ConsumeUsage, Reconcile, SetHolds, Rescue, SetVerdict, Rescued, LeasesKept, Holding,
         Busy, AfterRelease, ManifestSteps, FinalizeSteps
<1>10. ASSUME NEW w \in Worker, Notify(w) \/ CancelJob(w) \/ AnnounceCancellation(w)
             \/ HandleException(w) \/ ReportFailure(w)
      PROVE  LeasesKept
  BY <1>t, <1>10
     DEF Notify, CancelJob, AnnounceCancellation, HandleException, ReportFailure,
         LeasesKept, Holding,
         Busy, AfterRelease, ManifestSteps, FinalizeSteps
<1>11. ASSUME NEW w \in Worker, Raise(w)
      PROVE  LeasesKept
  BY <1>t, <1>11
     DEF Raise, Handler, Fault, LeasesKept, Holding,
         Busy, AfterRelease, ManifestSteps, FinalizeSteps
<1>12. CASE UNCHANGED vars
  BY <1>12 DEF vars, LeasesKept, Holding, Busy
<1>. QED
  BY <1>1, <1>2, <1>3, <1>4, <1>5, <1>6, <1>7, <1>8, <1>9, <1>10,
      <1>11, <1>12
     DEF Next, Api, WorkerStep, ProcessJob, ProcessSegment, Finalize

\* A lease is allocated to a worker that has none, freed by one that has, and lost with
\* one that dies or whose release fails.
LEMMA LeaseBudgetStep ==
    ASSUME TypeOK, TypeOK', AllocatesOnce, LeaseBudget, [Next]_vars
    PROVE  LeaseBudget'
<1>t. /\ leases \in [Job -> Nat] /\ lost \in [Job -> Nat]
      /\ leases' \in [Job -> Nat] /\ lost' \in [Job -> Nat]
      /\ step \in [Worker -> Step] /\ inHand \in [Worker -> Job]
      /\ holds \in [Worker -> BOOLEAN]
  BY DEF TypeOK
<1>. SUFFICES ASSUME NEW j \in Job
              PROVE  leases'[j] <= Cardinality(Holding(j)') + lost'[j]
  BY DEF LeaseBudget
<1>f. IsFiniteSet(Holding(j)) /\ IsFiniteSet(Holding(j)')
  BY WorkersAssumption, FS_Subset DEF Holding, Busy
<1>n. Cardinality(Holding(j)) \in Nat /\ Cardinality(Holding(j)') \in Nat
  BY <1>f, FS_CardinalityType
<1>b. leases[j] <= Cardinality(Holding(j)) + lost[j]
  BY DEF LeaseBudget
<1>k. ASSUME Holding(j) \subseteq Holding(j)', leases'[j] <= leases[j], lost[j] <= lost'[j]
      PROVE  leases'[j] <= Cardinality(Holding(j)') + lost'[j]
  <2>1. Cardinality(Holding(j)) <= Cardinality(Holding(j)')
    BY <1>f, <1>k, FS_Subset
  <2>. QED
    BY <1>t, <1>n, <1>b, <1>k, <2>1
<1>1. CASE LeasesKept
  <2>1. Holding(j) \subseteq Holding(j)'
    BY <1>1 DEF LeasesKept, Holding, Busy
  <2>2. leases'[j] = leases[j] /\ lost'[j] = lost[j]
    BY <1>1 DEF LeasesKept
  <2>. QED
    BY <1>t, <1>k, <2>1, <2>2
<1>2. ASSUME NEW w \in Worker, AllocateGpu(w)
      PROVE  leases'[j] <= Cardinality(Holding(j)') + lost'[j]
  <2>1. /\ step[w] = "allocate" /\ ~holds[w]
        /\ step' = [step EXCEPT ![w] = "begin"] /\ holds' = [holds EXCEPT ![w] = TRUE]
        /\ inHand' = inHand /\ lost' = lost
        /\ leases' = [leases EXCEPT ![inHand[w]] = @ + 1]
    BY <1>2 DEF AllocateGpu, SetHolds, AllocatesOnce
  <2>2. Holding(j) \subseteq Holding(j)' \ {w}
    BY <1>t, <2>1 DEF Holding, Busy
  <2>3. CASE inHand[w] = j
    <3>1. w \in Holding(j)'
      BY <1>t, <2>1, <2>3 DEF Holding, Busy, AfterRelease, ManifestSteps, FinalizeSteps
    <3>2. /\ IsFiniteSet(Holding(j)' \ {w})
          /\ Cardinality(Holding(j)' \ {w}) = Cardinality(Holding(j)') - 1
      BY <1>f, <3>1, FS_RemoveElement
    <3>3. Cardinality(Holding(j)) <= Cardinality(Holding(j)') - 1
      BY <2>2, <3>2, FS_Subset
    <3>4. leases'[j] = leases[j] + 1
      BY <1>t, <2>1, <2>3
    <3>. QED
      BY <1>t, <1>n, <1>b, <2>1, <3>3, <3>4
  <2>4. CASE inHand[w] # j
    <3>1. leases'[j] = leases[j]
      BY <1>t, <2>1, <2>4
    <3>. QED
      BY <1>t, <1>k, <2>1, <2>2, <3>1
  <2>. QED
    BY <2>3, <2>4
<1>3. ASSUME NEW w \in Worker, Holding(j) \ {w} \subseteq Holding(j)',
             \/ inHand[w] = j /\ leases'[j] = (IF leases[j] = 0 THEN 0 ELSE leases[j] - 1)
             \/ lost'[j] = lost[j] + 1 /\ leases'[j] = leases[j],
             lost[j] <= lost'[j]
      PROVE  leases'[j] <= Cardinality(Holding(j)') + lost'[j]
  <2>1. Cardinality(Holding(j)) <= Cardinality(Holding(j)') + 1
    BY <1>f, <1>3, LosesOne
  <2>. QED
    BY <1>t, <1>n, <1>b, <1>3, <2>1
<1>4. ASSUME NEW w \in Worker, ReleaseGpu(w)
      PROVE  leases'[j] <= Cardinality(Holding(j)') + lost'[j]
  <2>1. /\ step' = [step EXCEPT ![w] = "seal"] /\ UNCHANGED <<inHand, holds, lost>>
        /\ leases' = [leases EXCEPT ![inHand[w]] = IF @ = 0 THEN 0 ELSE @ - 1]
    BY <1>4 DEF ReleaseGpu, FreeLease
  <2>2. Holding(j) \ {w} \subseteq Holding(j)'
    BY <1>t, <2>1 DEF Holding, Busy
  <2>3. CASE inHand[w] = j
    BY <1>t, <1>3, <2>1, <2>2, <2>3
  <2>4. CASE inHand[w] # j
    <3>1. Holding(j) \subseteq Holding(j)'
      BY <2>2, <2>4 DEF Holding, Busy
    <3>. QED
      BY <1>t, <1>k, <2>1, <2>4, <3>1
  <2>. QED
    BY <2>3, <2>4
<1>5. ASSUME NEW w \in Worker, RaiseAfterRelease(w)
      PROVE  leases'[j] <= Cardinality(Holding(j)') + lost'[j]
  <2>1. /\ step' = [step EXCEPT ![w] = "except"] /\ UNCHANGED <<inHand, holds, lost>>
        /\ leases' = [leases EXCEPT ![inHand[w]] = IF @ = 0 THEN 0 ELSE @ - 1]
    BY <1>5 DEF RaiseAfterRelease, FreeLease, Fault
  <2>2. Holding(j) \subseteq Holding(j)'
    BY <1>t, <2>1 DEF Holding, Busy, AfterRelease, ManifestSteps, FinalizeSteps
  <2>3. leases'[j] <= leases[j]
    BY <1>t, <2>1
  <2>. QED
    BY <1>t, <1>k, <2>1, <2>2, <2>3
<1>6. ASSUME NEW w \in Worker, Release(w) \/ RaiseInFinally(w) \/ Crash(w)
      PROVE  leases'[j] <= Cardinality(Holding(j)') + lost'[j]
  <2>1. Holding(j) \ {w} \subseteq Holding(j)'
    BY <1>t, <1>6
       DEF Release, RaiseInFinally, Fault, HandBack, Crash, Forget, Holding, Busy
  <2>2. CASE holds[w] /\ inHand[w] = j
    <3>1. CASE Release(w)
      BY <1>t, <1>3, <2>1, <2>2, <3>1 DEF Release, FreeLease
    <3>2. CASE RaiseInFinally(w)
      BY <1>t, <1>3, <2>1, <2>2, <3>2 DEF RaiseInFinally
    <3>3. CASE Crash(w)
      BY <1>t, <1>3, <2>1, <2>2, <3>3 DEF Crash
    <3>. QED
      BY <1>6, <3>1, <3>2, <3>3
  <2>3. CASE ~(holds[w] /\ inHand[w] = j)
    <3>1. Holding(j) \subseteq Holding(j)'
      BY <2>1, <2>3 DEF Holding, Busy
    <3>2. leases'[j] <= leases[j] /\ lost[j] <= lost'[j]
      <4>1. CASE Release(w)
        BY <1>t, <2>3, <4>1 DEF Release, FreeLease
      <4>2. CASE RaiseInFinally(w)
        BY <1>t, <2>3, <4>2 DEF RaiseInFinally
      <4>3. CASE Crash(w)
        BY <1>t, <2>3, <4>3 DEF Crash
      <4>. QED
        BY <1>6, <4>1, <4>2, <4>3
    <3>. QED
      BY <1>k, <3>1, <3>2
  <2>. QED
    BY <2>2, <2>3
<1>. QED
  BY <1>1, <1>2, <1>4, <1>5, <1>6, LeasePath

\* However deliveries, exceptions and crashes interleave, no more leases stay busy for a
\* job than workers hold and crashes or failed releases have lost.
THEOREM LeasesGivenBack == Spec => []LeasesAccounted
<1>1. Init => AllocatesOnce /\ LeaseBudget
  <2>1. Init => AllocatesOnce
    BY DEF Init, AllocatesOnce
  <2>2. ASSUME Init, NEW j \in Job
        PROVE  leases[j] <= Cardinality(Holding(j)) + lost[j]
    <3>1. Holding(j) = {}
      BY <2>2 DEF Init, Holding, Busy
    <3>2. leases[j] = 0 /\ lost[j] = 0
      BY <2>2 DEF Init
    <3>. QED
      BY <3>1, <3>2, FS_EmptySet
  <2>. QED
    BY <2>1, <2>2 DEF LeaseBudget
<1>2. TypeOK /\ TypeOK' /\ AllocatesOnce /\ LeaseBudget /\ [Next]_vars
        => (AllocatesOnce /\ LeaseBudget)'
  BY AllocatesOnceStep, LeaseBudgetStep
<1>3. TypeOK /\ LeaseBudget => LeasesAccounted
  <2>1. SUFFICES ASSUME TypeOK, LeaseBudget, NEW j \in Job
                 PROVE  leases[j] <= Cardinality({w \in Busy(j) : holds[w]}) + lost[j]
    BY DEF LeasesAccounted
  <2>2. /\ IsFiniteSet({w \in Busy(j) : holds[w]})
        /\ Holding(j) \subseteq {w \in Busy(j) : holds[w]}
    BY WorkersAssumption, FS_Subset DEF Busy, Holding
  <2>3. /\ Cardinality(Holding(j)) <= Cardinality({w \in Busy(j) : holds[w]})
        /\ Cardinality(Holding(j)) \in Nat
        /\ Cardinality({w \in Busy(j) : holds[w]}) \in Nat
    BY <2>2, FS_Subset, FS_CardinalityType
  <2>. QED
    BY <2>1, <2>3 DEF TypeOK, LeaseBudget
<1>. QED
  BY <1>1, <1>2, <1>3, TypeCorrect, PTL DEF Spec

\* No exception is raised once a lease is released and before _finalize_job has returned that it
\* is: the exception handler would release by job id again, and take another delivery's lease.
ReleasesOnce == FaultPoints \cap {"freegpu", "rescue", "rescued"} = {}

\* From the allocation to the release a worker knows that it has a lease.
HoldsInLoop == \A w \in Worker :
    step[w] \in ProcessingSteps \cup {"begin", "finalize", "freegpu"} => holds[w]

\* The invariant behind LeaseHeldWhileProcessing: each worker that may still release has a lease.
LeaseFloor == \A j \in Job : Cardinality(Holding(j)) <= leases[j]

\* No lease is given back, and no worker begins to hold one.
NoneFreed ==
    /\ UNCHANGED leases
    /\ \A w \in Worker, j \in Job : w \in Holding(j)' => w \in Holding(j)

\* The steps but the allocation and the releases: nothing in between re-enters a release.
LEMMA FloorPath ==
    ASSUME TypeOK, AllocatesOnce, HoldsInLoop, ReleasesOnce, [Next]_vars
    PROVE  /\ HoldsInLoop'
           /\ \/ NoneFreed
              \/ \E w \in Worker : AllocateGpu(w) \/ ReleaseGpu(w) \/ Release(w)
<1>t. /\ step \in [Worker -> Step] /\ inHand \in [Worker -> Job]
      /\ holds \in [Worker -> BOOLEAN]
  BY DEF TypeOK
<1>. USE DEF HoldsInLoop, NoneFreed, Holding, Busy, AfterRelease, ProcessingSteps, ManifestSteps,
             FinalizeSteps
<1>1. ASSUME NEW j \in Job, Api(j) \/ Duplicate(j)
      PROVE  HoldsInLoop' /\ NoneFreed
  BY <1>t, <1>1
     DEF Api, CreateJob, PublishJob, PublishFails, RequestCancellation, ReadForCancellation,
         WriteCancellation, Duplicate
<1>2. ASSUME NEW w \in Worker, NEW j \in Job, Deliver(w, j)
      PROVE  HoldsInLoop' /\ NoneFreed
  BY <1>t, <1>2 DEF Deliver, AllocatesOnce
<1>3. ASSUME NEW w \in Worker, Load(w) \/ Start(w) \/ Begin(w) \/ Poll(w)
      PROVE  HoldsInLoop' /\ NoneFreed
  BY <1>t, <1>3 DEF Load, Start, Begin, Poll
<1>4. ASSUME NEW w \in Worker, CacheHit(w) \/ CacheMiss(w) \/ StartAttempt(w) \/ SegmentSucceeds(w)
      PROVE  HoldsInLoop' /\ NoneFreed
  BY <1>t, <1>4 DEF CacheHit, CacheMiss, TryAttempt, NextSegment, StartAttempt, SegmentSucceeds
<1>5. ASSUME NEW w \in Worker,
             SegmentFails(w) \/ CompleteSegment(w) \/ TallySegments(w) \/ UpdateProgress(w)
      PROVE  HoldsInLoop' /\ NoneFreed
  BY <1>t, <1>5
     DEF SegmentFails, TryAttempt, CompleteSegment, TallySegments, UpdateProgress, NextSegment
<1>6. ASSUME NEW w \in Worker, FinalizeJob(w) \/ Seal(w) \/ StoreManifest(w) \/ ExposeManifest(w)
      PROVE  HoldsInLoop' /\ NoneFreed
  BY <1>t, <1>6 DEF FinalizeJob, SetVerdict, Seal, StoreManifest, ExposeManifest
<1>7. ASSUME NEW w \in Worker, MaterializeArtifacts(w) \/ Unseal(w) \/ ConsumeUsage(w) \/ Rescue(w)
      PROVE  HoldsInLoop' /\ NoneFreed
  BY <1>t, <1>7 DEF MaterializeArtifacts, Unseal, SetVerdict, ConsumeUsage, Rescue
<1>8. ASSUME NEW w \in Worker, Reconcile(w) \/ Rescued(w) \/ Notify(w) \/ CancelJob(w)
      PROVE  HoldsInLoop' /\ NoneFreed
  BY <1>t, <1>8 DEF Reconcile, Rescued, SetHolds, Notify, CancelJob
<1>9. ASSUME NEW w \in Worker, AnnounceCancellation(w) \/ HandleException(w) \/ ReportFailure(w)
      PROVE  HoldsInLoop' /\ NoneFreed
  BY <1>t, <1>9 DEF AnnounceCancellation, HandleException, ReportFailure
<1>10. ASSUME NEW w \in Worker, Raise(w)
      PROVE  HoldsInLoop' /\ NoneFreed
  <2>1. step[w] \notin {"idle", "rescue", "rescued"} /\ UNCHANGED <<inHand, holds, leases>>
    BY <1>10, ConstantsAssumption DEF Raise, Fault, ReleasesOnce
  <2>2. PICK s \in {"unseal", "rescue", "release", "except"} :
           /\ step' = [step EXCEPT ![w] = s]
           /\ step[w] \in ManifestSteps \cup FinalizeSteps => s \in {"unseal", "rescue"}
    BY <1>10 DEF Raise, Handler
  <2>. QED
    BY <1>t, <2>1, <2>2
<1>11. ASSUME NEW w \in Worker, Crash(w) \/ RaiseInFinally(w)
      PROVE  HoldsInLoop' /\ NoneFreed
  <2>1. /\ step' = [step EXCEPT ![w] = "idle"] /\ inHand' = [inHand EXCEPT ![w] = AnyJob]
        /\ holds' = [holds EXCEPT ![w] = FALSE] /\ UNCHANGED leases
    BY <1>11 DEF Crash, RaiseInFinally, HandBack, Forget
  <2>. QED
    BY <1>t, <2>1
<1>12. ASSUME NEW w \in Worker, AllocateGpu(w) \/ ReleaseGpu(w) \/ Release(w)
      PROVE  HoldsInLoop'
  <2>1. CASE AllocateGpu(w)
    BY <1>t, <2>1 DEF AllocateGpu, SetHolds
  <2>2. CASE ReleaseGpu(w)
    BY <1>t, <2>2 DEF ReleaseGpu
  <2>3. CASE Release(w)
    BY <1>t, <2>3 DEF Release, HandBack, Forget
  <2>. QED
    BY <1>12, <2>1, <2>2, <2>3
<1>13. \A w \in Worker : ~RaiseAfterRelease(w)
  BY DEF RaiseAfterRelease, Fault, ReleasesOnce
<1>14. CASE UNCHANGED vars
  BY <1>14 DEF vars
<1>. QED
  BY <1>1, <1>2, <1>3, <1>4, <1>5, <1>6, <1>7, <1>8, <1>9, <1>10, <1>11, <1>12, <1>13, <1>14
     DEF Next, WorkerStep, ProcessJob, ProcessSegment, Finalize

\* A worker frees a lease of its job only while it holds one itself.
LEMMA FloorStep ==
    ASSUME TypeOK, TypeOK', AllocatesOnce, HoldsInLoop, ReleasesOnce, LeaseFloor, [Next]_vars
    PROVE  LeaseFloor'
<1>t. /\ leases \in [Job -> Nat] /\ leases' \in [Job -> Nat]
      /\ step \in [Worker -> Step] /\ inHand \in [Worker -> Job] /\ holds \in [Worker -> BOOLEAN]
  BY DEF TypeOK
<1>. SUFFICES ASSUME NEW j \in Job
              PROVE  Cardinality(Holding(j)') <= leases'[j]
  BY DEF LeaseFloor
<1>f. IsFiniteSet(Holding(j)) /\ IsFiniteSet(Holding(j)')
  BY WorkersAssumption, FS_Subset DEF Holding, Busy
<1>n. Cardinality(Holding(j)) \in Nat /\ Cardinality(Holding(j)') \in Nat
  BY <1>f, FS_CardinalityType
<1>b. Cardinality(Holding(j)) <= leases[j]
  BY DEF LeaseFloor
<1>k. ASSUME Holding(j)' \subseteq Holding(j), leases'[j] = leases[j]
      PROVE  Cardinality(Holding(j)') <= leases'[j]
  <2>1. Cardinality(Holding(j)') <= Cardinality(Holding(j))
    BY <1>f, <1>k, FS_Subset
  <2>. QED
    BY <1>t, <1>n, <1>b, <1>k, <2>1
<1>1. CASE NoneFreed
  <2>1. Holding(j)' \subseteq Holding(j)
    BY <1>1 DEF NoneFreed, Holding, Busy
  <2>. QED
    BY <1>1, <1>k, <2>1 DEF NoneFreed
<1>2. ASSUME NEW w \in Worker, AllocateGpu(w)
      PROVE  Cardinality(Holding(j)') <= leases'[j]
  <2>1. /\ step' = [step EXCEPT ![w] = "begin"] /\ inHand' = inHand
        /\ holds' = [holds EXCEPT ![w] = TRUE]
        /\ leases' = [leases EXCEPT ![inHand[w]] = @ + 1]
    BY <1>2 DEF AllocateGpu, SetHolds
  <2>2. Holding(j)' \ {w} \subseteq Holding(j)
    BY <1>t, <2>1 DEF Holding, Busy
  <2>3. CASE inHand[w] = j
    <3>1. Cardinality(Holding(j)') <= Cardinality(Holding(j)) + 1
      BY <1>f, <2>2, LosesOne
    <3>2. leases'[j] = leases[j] + 1
      BY <1>t, <2>1, <2>3
    <3>. QED
      BY <1>t, <1>n, <1>b, <3>1, <3>2
  <2>4. CASE inHand[w] # j
    <3>1. Holding(j)' \subseteq Holding(j) /\ leases'[j] = leases[j]
      BY <1>t, <2>1, <2>2, <2>4 DEF Holding, Busy
    <3>. QED
      BY <1>k, <3>1
  <2>. QED
    BY <2>3, <2>4
<1>3. ASSUME NEW w \in Worker, ReleaseGpu(w) \/ Release(w)
      PROVE  Cardinality(Holding(j)') <= leases'[j]
  <2>1. /\ w \notin Holding(j)'
        /\ Holding(j)' \subseteq Holding(j)
    BY <1>t, <1>3
       DEF ReleaseGpu, Release, HandBack, Forget, Holding, Busy, AfterRelease, FinalizeSteps
  <2>2. CASE w \in Holding(j)
    <3>1. leases'[j] = IF leases[j] = 0 THEN 0 ELSE leases[j] - 1
      BY <1>t, <1>3, <2>2 DEF ReleaseGpu, Release, FreeLease, Holding, Busy
    <3>2. /\ IsFiniteSet(Holding(j) \ {w})
          /\ Cardinality(Holding(j) \ {w}) = Cardinality(Holding(j)) - 1
      BY <1>f, <2>2, FS_RemoveElement
    <3>3. Cardinality(Holding(j)') <= Cardinality(Holding(j)) - 1
      BY <2>1, <3>2, FS_Subset
    <3>. QED
      BY <1>t, <1>n, <1>b, <3>1, <3>3
  <2>3. CASE w \notin Holding(j)
    <3>1. inHand[w] = j => Release(w) /\ ~holds[w]
      BY <1>3, <2>3
         DEF ReleaseGpu, Release, HoldsInLoop, Holding, Busy, AfterRelease, ManifestSteps, FinalizeSteps
    <3>2. leases'[j] = leases[j]
      BY <1>t, <1>3, <3>1 DEF ReleaseGpu, Release, FreeLease
    <3>. QED
      BY <1>k, <2>1, <3>2
  <2>. QED
    BY <2>2, <2>3
<1>. QED
  BY <1>1, <1>2, <1>3, FloorPath

\* Whatever workers process the same job at once, are repeated, fail or die, a worker that is
\* processing segments has a lease, as long as no release raises after it has released.
THEOREM ProcessingKeepsLease == ReleasesOnce /\ Spec => []LeaseHeldWhileProcessing
<1>. DEFINE Kept == ReleasesOnce /\ AllocatesOnce /\ HoldsInLoop /\ LeaseFloor
<1>1. ReleasesOnce /\ Init => Kept
  <2>1. Init => AllocatesOnce /\ HoldsInLoop
    BY DEF Init, AllocatesOnce, HoldsInLoop, ProcessingSteps
  <2>2. ASSUME Init, NEW j \in Job
        PROVE  Cardinality(Holding(j)) <= leases[j]
    <3>1. Holding(j) = {}
      BY <2>2 DEF Init, Holding, Busy
    <3>2. leases[j] = 0
      BY <2>2 DEF Init
    <3>. QED
      BY <3>1, <3>2, FS_EmptySet
  <2>. QED
    BY <2>1, <2>2 DEF LeaseFloor
<1>2. TypeOK /\ TypeOK' /\ Kept /\ [Next]_vars => Kept'
  <2>1. ReleasesOnce => ReleasesOnce'
    BY DEF ReleasesOnce
  <2>. QED
    BY <2>1, AllocatesOnceStep, FloorPath, FloorStep
<1>3. TypeOK /\ Kept => LeaseHeldWhileProcessing
  <2>1. SUFFICES ASSUME TypeOK, Kept, NEW j \in Job
                 PROVE  Cardinality({w \in Busy(j) : step[w] \in ProcessingSteps}) <= leases[j]
    BY DEF LeaseHeldWhileProcessing
  <2>2. /\ IsFiniteSet(Holding(j))
        /\ {w \in Busy(j) : step[w] \in ProcessingSteps} \subseteq Holding(j)
    BY <2>1, WorkersAssumption, FS_Subset
       DEF Busy, Holding, HoldsInLoop, AfterRelease, ProcessingSteps, ManifestSteps, FinalizeSteps
  <2>3. /\ Cardinality({w \in Busy(j) : step[w] \in ProcessingSteps}) <= Cardinality(Holding(j))
        /\ Cardinality(Holding(j)) \in Nat
        /\ Cardinality({w \in Busy(j) : step[w] \in ProcessingSteps}) \in Nat
    BY <2>2, FS_Subset, FS_CardinalityType
  <2>. QED
    BY <2>1, <2>3 DEF TypeOK, LeaseFloor
<1>. QED
  BY <1>1, <1>2, <1>3, TypeCorrect, PTL DEF Spec

-----------------------------------------------------------------------------
(* Jobs on a plan tier that is not known.                                  *)

\* A worker that holds a refused job has only the way to the exception handler open.
RefusedPath == \A w \in Worker :
    /\ step[w] = "idle" => ~holds[w]
    /\ step[w] # "idle" /\ inHand[w] \in UnsupportedTier =>
         step[w] \in {"load", "except", "report", "release"} /\ ~holds[w]

NeverRan == \A j \in UnsupportedTier :
    /\ leases[j] = 0 /\ charges[j] = 0 /\ status[j] \notin Success
    /\ \A i \in Segment : runs[j][i] = 0

\* A worker never leaves the refused path with such a job in hand.
LEMMA RefusedStep ==
    ASSUME TypeOK, RefusedPath, [Next]_vars
    PROVE  RefusedPath'
<1>t. /\ step \in [Worker -> Step] /\ inHand \in [Worker -> Job]
      /\ holds \in [Worker -> BOOLEAN]
  BY DEF TypeOK
<1>1. ASSUME NEW j \in Job, CreateJob(j) \/ PublishJob(j) \/ PublishFails(j)
             \/ RequestCancellation(j)
      PROVE  RefusedPath'
  BY <1>t, <1>1
     DEF CreateJob, PublishJob, PublishFails, RequestCancellation, RefusedPath
<1>2. ASSUME NEW j \in Job, ReadForCancellation(j) \/ WriteCancellation(j) \/ Duplicate(j)
      PROVE  RefusedPath'
  BY <1>t, <1>2
     DEF ReadForCancellation, WriteCancellation, Duplicate, RefusedPath
<1>3. ASSUME NEW w \in Worker, NEW j \in Job, Deliver(w, j)
      PROVE  RefusedPath'
  BY <1>t, <1>3
     DEF Deliver, RefusedPath
<1>4. ASSUME NEW w \in Worker, Load(w) \/ Start(w) \/ AllocateGpu(w) \/ Begin(w)
      PROVE  RefusedPath'
  BY <1>t, <1>4
     DEF Load, Start, AllocateGpu, SetHolds, Begin, RefusedPath
<1>5. ASSUME NEW w \in Worker, Poll(w) \/ CacheHit(w) \/ CacheMiss(w) \/ StartAttempt(w)
      PROVE  RefusedPath'
  BY <1>t, <1>5
     DEF Poll, CacheHit, CacheMiss, TryAttempt, NextSegment, StartAttempt, RefusedPath
<1>6. ASSUME NEW w \in Worker, SegmentSucceeds(w) \/ SegmentFails(w)
             \/ CompleteSegment(w) \/ TallySegments(w)
      PROVE  RefusedPath'
  BY <1>t, <1>6
     DEF SegmentSucceeds, SegmentFails, TryAttempt, CompleteSegment, TallySegments,
         RefusedPath
<1>7. ASSUME NEW w \in Worker, UpdateProgress(w) \/ FinalizeJob(w) \/ ReleaseGpu(w)
             \/ Seal(w)
      PROVE  RefusedPath'
  BY <1>t, <1>7
     DEF UpdateProgress, NextSegment, FinalizeJob, SetVerdict, ReleaseGpu, Seal, RefusedPath
<1>8. ASSUME NEW w \in Worker, StoreManifest(w) \/ ExposeManifest(w)
             \/ MaterializeArtifacts(w) \/ Unseal(w)
      PROVE  RefusedPath'
  BY <1>t, <1>8
     DEF StoreManifest, ExposeManifest, MaterializeArtifacts, Unseal, SetVerdict,
         RefusedPath
<1>9. ASSUME NEW w \in Worker, ConsumeUsage(w) \/ Reconcile(w) \/ Rescue(w) \/ Rescued(w)
      PROVE  RefusedPath'
  BY <1>t, <1>9
     DEF ConsumeUsage, Reconcile, SetHolds, Rescue, SetVerdict, Rescued, RefusedPath
<1>10. ASSUME NEW w \in Worker, Notify(w) \/ CancelJob(w) \/ AnnounceCancellation(w)
              \/ HandleException(w)
      PROVE  RefusedPath'
  BY <1>t, <1>10
     DEF Notify, CancelJob, AnnounceCancellation, HandleException, RefusedPath
<1>11. ASSUME NEW w \in Worker, ReportFailure(w) \/ Release(w) \/ Crash(w)
      PROVE  RefusedPath'
  BY <1>t, <1>11
     DEF ReportFailure, Release, HandBack, Crash, Forget, RefusedPath
<1>12. ASSUME NEW w \in Worker, Raise(w)
      PROVE  RefusedPath'
  BY <1>t, <1>12 DEF Raise, Handler, Fault, RefusedPath, ManifestSteps, FinalizeSteps
<1>13. ASSUME NEW w \in Worker, RaiseAfterRelease(w) \/ RaiseInFinally(w)
      PROVE  RefusedPath'
  BY <1>t, <1>13
     DEF RaiseAfterRelease, Fault, RaiseInFinally, HandBack, Forget, RefusedPath
<1>14. CASE UNCHANGED vars
  BY <1>14 DEF vars, RefusedPath
<1>. QED
  BY <1>1, <1>2, <1>3, <1>4, <1>5, <1>6, <1>7, <1>8, <1>9, <1>10, <1>11, <1>12, <1>13, <1>14
     DEF Next, Api, WorkerStep, ProcessJob, ProcessSegment, Finalize

\* No step of the refused path, nor of the API, allocates, runs, charges or succeeds.
LEMMA NeverRanStep ==
    ASSUME TypeOK, RefusedPath, NeverRan, [Next]_vars
    PROVE  NeverRan'
<1>t. /\ step \in [Worker -> Step] /\ inHand \in [Worker -> Job]
      /\ holds \in [Worker -> BOOLEAN] /\ status \in [Job -> Status]
      /\ leases \in [Job -> Nat] /\ charges \in [Job -> Nat]
      /\ runs \in [Job -> [Segment -> Nat]]
  BY DEF TypeOK
<1>1. ASSUME NEW j \in Job, CreateJob(j)
      PROVE  NeverRan'
  BY <1>t, <1>1
     DEF CreateJob, NeverRan, RefusedPath, Success
<1>2. ASSUME NEW j \in Job, PublishJob(j)
      PROVE  NeverRan'
  BY <1>t, <1>2
     DEF PublishJob, NeverRan, RefusedPath, Success
<1>3. ASSUME NEW j \in Job, PublishFails(j)
      PROVE  NeverRan'
  BY <1>t, <1>3
     DEF PublishFails, NeverRan, RefusedPath, Success
<1>4. ASSUME NEW j \in Job, RequestCancellation(j)
      PROVE  NeverRan'
  BY <1>t, <1>4
     DEF RequestCancellation, NeverRan, RefusedPath, Success
<1>5. ASSUME NEW j \in Job, ReadForCancellation(j)
      PROVE  NeverRan'
  BY <1>t, <1>5
     DEF ReadForCancellation, NeverRan, RefusedPath, Success
<1>6. ASSUME NEW j \in Job, WriteCancellation(j)
      PROVE  NeverRan'
  BY <1>t, <1>6
     DEF WriteCancellation, NeverRan, RefusedPath, Success
<1>7. ASSUME NEW j \in Job, Duplicate(j)
      PROVE  NeverRan'
  BY <1>t, <1>7
     DEF Duplicate, NeverRan, RefusedPath, Success
<1>8. ASSUME NEW w \in Worker, NEW j \in Job, Deliver(w, j)
      PROVE  NeverRan'
  BY <1>t, <1>8
     DEF Deliver, NeverRan, RefusedPath, Success
<1>9. ASSUME NEW w \in Worker, Load(w)
      PROVE  NeverRan'
  BY <1>t, <1>9
     DEF Load, NeverRan, RefusedPath, Success
<1>10. ASSUME NEW w \in Worker, Start(w)
      PROVE  NeverRan'
  BY <1>t, <1>10
     DEF Start, NeverRan, RefusedPath, Success
<1>11. ASSUME NEW w \in Worker, AllocateGpu(w)
      PROVE  NeverRan'
  <2>1. inHand[w] \notin UnsupportedTier
    BY <1>t, <1>11 DEF AllocateGpu, RefusedPath
  <2>. QED
    BY <1>t, <1>11, <2>1 DEF AllocateGpu, NeverRan
<1>12. ASSUME NEW w \in Worker, Begin(w)
      PROVE  NeverRan'
  BY <1>t, <1>12
     DEF Begin, NeverRan, RefusedPath, Success
<1>13. ASSUME NEW w \in Worker, Poll(w)
      PROVE  NeverRan'
  BY <1>t, <1>13
     DEF Poll, NeverRan, RefusedPath, Success
<1>14. ASSUME NEW w \in Worker, CacheHit(w)
      PROVE  NeverRan'
  BY <1>t, <1>14
     DEF CacheHit, NeverRan, RefusedPath, Success
<1>15. ASSUME NEW w \in Worker, CacheMiss(w)
      PROVE  NeverRan'
  BY <1>t, <1>15
     DEF CacheMiss, TryAttempt, NextSegment, NeverRan, RefusedPath, Success
<1>16. ASSUME NEW w \in Worker, StartAttempt(w)
      PROVE  NeverRan'
  BY <1>t, <1>16
     DEF StartAttempt, NeverRan, RefusedPath, Success
<1>17. ASSUME NEW w \in Worker, SegmentSucceeds(w)
      PROVE  NeverRan'
  BY <1>t, <1>17
     DEF SegmentSucceeds, NeverRan, RefusedPath, Success
<1>18. ASSUME NEW w \in Worker, SegmentFails(w)
      PROVE  NeverRan'
  BY <1>t, <1>18
     DEF SegmentFails, TryAttempt, NeverRan, RefusedPath, Success
<1>19. ASSUME NEW w \in Worker, CompleteSegment(w)
      PROVE  NeverRan'
  BY <1>t, <1>19
     DEF CompleteSegment, NeverRan, RefusedPath, Success
<1>20. ASSUME NEW w \in Worker, TallySegments(w)
      PROVE  NeverRan'
  BY <1>t, <1>20
     DEF TallySegments, NeverRan, RefusedPath, Success
<1>21. ASSUME NEW w \in Worker, UpdateProgress(w)
      PROVE  NeverRan'
  BY <1>t, <1>21
     DEF UpdateProgress, NextSegment, NeverRan, RefusedPath, Success
<1>22. ASSUME NEW w \in Worker, FinalizeJob(w)
      PROVE  NeverRan'
  BY <1>t, <1>22
     DEF FinalizeJob, SetVerdict, NeverRan, RefusedPath, Success
<1>23. ASSUME NEW w \in Worker, ReleaseGpu(w)
      PROVE  NeverRan'
  BY <1>t, <1>23
     DEF ReleaseGpu, FreeLease, NeverRan, RefusedPath, Success
<1>24. ASSUME NEW w \in Worker, Seal(w)
      PROVE  NeverRan'
  BY <1>t, <1>24
     DEF Seal, NeverRan, RefusedPath, Success
<1>25. ASSUME NEW w \in Worker, StoreManifest(w)
      PROVE  NeverRan'
  BY <1>t, <1>25
     DEF StoreManifest, NeverRan, RefusedPath, Success
<1>26. ASSUME NEW w \in Worker, ExposeManifest(w)
      PROVE  NeverRan'
  BY <1>t, <1>26
     DEF ExposeManifest, NeverRan, RefusedPath, Success
<1>27. ASSUME NEW w \in Worker, MaterializeArtifacts(w)
      PROVE  NeverRan'
  BY <1>t, <1>27
     DEF MaterializeArtifacts, NeverRan, RefusedPath, Success
<1>28. ASSUME NEW w \in Worker, Unseal(w)
      PROVE  NeverRan'
  BY <1>t, <1>28
     DEF Unseal, SetVerdict, NeverRan, RefusedPath, Success
<1>29. ASSUME NEW w \in Worker, ConsumeUsage(w)
      PROVE  NeverRan'
  <2>1. /\ step[w] = "bill" /\ inHand[w] \in Job
        /\ UNCHANGED <<status, leases, runs>>
        /\ \A j \in Job \ {inHand[w]} : charges'[j] = charges[j]
    BY <1>t, <1>29 DEF ConsumeUsage
  <2>2. inHand[w] \notin UnsupportedTier
    BY <2>1 DEF RefusedPath
  <2>3. UnsupportedTier \subseteq Job
    BY ConstantsAssumption
  <2>. QED
    BY <2>1, <2>2, <2>3 DEF NeverRan
<1>30. ASSUME NEW w \in Worker, Reconcile(w)
      PROVE  NeverRan'
  BY <1>t, <1>30
     DEF Reconcile, SetHolds, NeverRan, RefusedPath, Success
<1>31. ASSUME NEW w \in Worker, Rescue(w)
      PROVE  NeverRan'
  BY <1>t, <1>31
     DEF Rescue, SetVerdict, NeverRan, RefusedPath, Success
<1>32. ASSUME NEW w \in Worker, Rescued(w)
      PROVE  NeverRan'
  BY <1>t, <1>32
     DEF Rescued, SetHolds, NeverRan, RefusedPath, Success
<1>33. ASSUME NEW w \in Worker, Notify(w)
      PROVE  NeverRan'
  BY <1>t, <1>33
     DEF Notify, NeverRan, RefusedPath, Success
<1>34. ASSUME NEW w \in Worker, CancelJob(w)
      PROVE  NeverRan'
  BY <1>t, <1>34
     DEF CancelJob, NeverRan, RefusedPath, Success
<1>35. ASSUME NEW w \in Worker, AnnounceCancellation(w)
      PROVE  NeverRan'
  BY <1>t, <1>35
     DEF AnnounceCancellation, NeverRan, RefusedPath, Success
<1>36. ASSUME NEW w \in Worker, HandleException(w)
      PROVE  NeverRan'
  BY <1>t, <1>36
     DEF HandleException, NeverRan, RefusedPath, Success
<1>37. ASSUME NEW w \in Worker, ReportFailure(w)
      PROVE  NeverRan'
  BY <1>t, <1>37
     DEF ReportFailure, NeverRan, RefusedPath, Success
<1>38. ASSUME NEW w \in Worker, Release(w)
      PROVE  NeverRan'
  <2>1. CASE holds[w]
    <3>1. inHand[w] \notin UnsupportedTier
      BY <1>38, <2>1 DEF Release, RefusedPath
    <3>2. FreeLease(inHand[w])
      BY <1>38, <2>1 DEF Release
    <3>. QED
      BY <1>t, <1>38, <3>1, <3>2 DEF Release, FreeLease, NeverRan
  <2>2. CASE ~holds[w]
    <3>1. UNCHANGED leases
      BY <1>38, <2>2 DEF Release
    <3>. QED
      BY <1>38, <3>1 DEF Release, NeverRan
  <2>. QED
    BY <2>1, <2>2
<1>39. ASSUME NEW w \in Worker, Crash(w)
      PROVE  NeverRan'
  BY <1>t, <1>39
     DEF Crash, Forget, NeverRan, RefusedPath, Success
<1>40. ASSUME NEW w \in Worker, Raise(w)
      PROVE  NeverRan'
  BY <1>t, <1>40
     DEF Raise, Handler, Fault, NeverRan, RefusedPath, Success
<1>41. ASSUME NEW w \in Worker, RaiseAfterRelease(w)
      PROVE  NeverRan'
  BY <1>t, <1>41
     DEF RaiseAfterRelease, Fault, FreeLease, NeverRan, RefusedPath, Success
<1>42. ASSUME NEW w \in Worker, RaiseInFinally(w)
      PROVE  NeverRan'
  BY <1>t, <1>42
     DEF RaiseInFinally, Fault, HandBack, Forget, NeverRan, RefusedPath, Success
<1>43. CASE UNCHANGED vars
  BY <1>43 DEF vars, NeverRan, RefusedPath, Success
<1>. QED
  BY <1>1, <1>2, <1>3, <1>4, <1>5, <1>6, <1>7, <1>8, <1>9, <1>10, <1>11, <1>12, <1>13,
      <1>14, <1>15, <1>16, <1>17, <1>18, <1>19, <1>20, <1>21, <1>22, <1>23, <1>24, <1>25,
      <1>26, <1>27, <1>28, <1>29, <1>30, <1>31, <1>32, <1>33, <1>34, <1>35, <1>36, <1>37,
      <1>38, <1>39, <1>40, <1>41, <1>42, <1>43
     DEF Next, Api, WorkerStep, ProcessJob, ProcessSegment, Finalize


\* A job on an unknown plan tier never runs, charges or succeeds, however often it is
\* delivered and wherever exceptions and crashes fall.
THEOREM UnsupportedRefused == Spec => []UnsupportedNeverRuns
<1>1. Init => RefusedPath /\ NeverRan
  BY ConstantsAssumption DEF Init, RefusedPath, NeverRan, Success
<1>2. TypeOK /\ RefusedPath /\ NeverRan /\ [Next]_vars => (RefusedPath /\ NeverRan)'
  BY RefusedStep, NeverRanStep
<1>3. NeverRan => UnsupportedNeverRuns
  BY DEF NeverRan, UnsupportedNeverRuns
<1>. QED
  BY <1>1, <1>2, <1>3, TypeCorrect, PTL DEF Spec
=============================================================================
