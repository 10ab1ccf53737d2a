---------------------- MODULE ConfiguredPreview_proofs ----------------------
(***************************************************************************)
(* Proofs about the previews, for any number of versions, tabs and clients *)
(* and any bounds.                                                         *)
(*                                                                         *)
(* Of PreviewLaunch, with any number of clients: its types; that a         *)
(* launched preview was published, a published one approved; and that what *)
(* is published has a job as long as the reference to it stands.  For one  *)
(* client: that a launch broken off can be repeated, and, undisturbed,     *)
(* publishes once and leaves a job that has ended alone.                   *)
(*                                                                         *)
(* Of ConfiguredPreview: every behaviour is one of PreviewLaunch, whose    *)
(* theorems therefore hold of it; a saved configuration rests on the       *)
(* detection that was asked for; the settings of the user survive the      *)
(* saves that do not overlap them; and a preview shows the configuration   *)
(* it is named after.                                                      *)
(***************************************************************************)
EXTENDS ConfiguredPreview, TLAPS

\* The sets of statuses and of steps are always expanded.
USE DEF Reviews, Launches, Jobs, Step

\* The steps of a launch after its load.
LaunchSteps == {"claim", "reload", "create", "upsert", "segments", "revert", "bind", "publish",
                "confirm"}

\* A request past its load is about a preview that exists.
AboutPreview == \A c \in Client : step[c] \notin {"idle", "persist"} => version[c] \in previews

\* A review is in progress only towards one of the reviews, and a preview that reads
\* approved was approved once.
ApprovedOnce == \A v \in Version : review[v] = "approved" => v \in approved

\* A launch past its load is about a preview that was approved once.
LaunchingApproved == \A c \in Client : step[c] \in LaunchSteps => version[c] \in approved

\* A launch about to confirm has published.
ConfirmingPublished == \A c \in Client : step[c] = "confirm" => published[version[c]] > 0

TypeInv == TypeOK /\ AboutPreview
ApprovalInv == ApprovedOnce /\ LaunchingApproved /\ PublishedWasApproved
PublicationInv == ConfirmingPublished /\ LaunchedIsPublished

-----------------------------------------------------------------------------
(* Types.                                                                  *)

\* Init establishes the types.
LEMMA TypeInit == ASSUME Init PROVE TypeInv
  BY ConstantsAssumption DEF Init, TypeInv, TypeOK, AboutPreview, Version

\* No step leaves the types: a request past its load is about an existing preview,
\* so a reference to a job is only ever set on one.
LEMMA TypeStep ==
    ASSUME TypeInv, [Next]_vars
    PROVE  TypeInv'
<1> USE ConstantsAssumption DEF TypeInv, TypeOK, AboutPreview, At, Go, rows, runtime,
        locals, environment, history
<1>1. CASE SaveConfiguration
  BY <1>1 DEF SaveConfiguration
<1>2. ASSUME NEW v \in Version, Expire(v) PROVE TypeInv'
  BY <1>2 DEF Expire
<1>3. ASSUME NEW v \in Version, ReadExpired(v) PROVE TypeInv'
  BY <1>3 DEF ReadExpired, Unbind, ClearBound
<1>4. ASSUME NEW v \in Version, WorkerTakes(v) PROVE TypeInv'
  <2>1. messages[v] \in Nat /\ messages[v] - 1 \in Nat  BY <1>4 DEF WorkerTakes
  <2>2. messages' \in [Version -> Nat]  BY <1>4, <2>1 DEF WorkerTakes
  <2>3. CASE job[v] = "absent"  BY <1>4, <2>2, <2>3 DEF WorkerTakes
  <2>4. CASE job[v] # "absent"
    <3>1. job' \in [Version -> Jobs]  BY <1>4, <2>4 DEF WorkerTakes
    <3>2. working[v] \in Nat /\ working[v] + 1 \in Nat  OBVIOUS
    <3>3. working' \in [Version -> Nat]  BY <1>4, <2>4, <3>2 DEF WorkerTakes
    <3> QED  BY <1>4, <2>2, <2>4, <3>1, <3>3 DEF WorkerTakes
  <2> QED  BY <2>3, <2>4
<1>5. ASSUME NEW v \in Version, WorkerEnds(v) PROVE TypeInv'
  BY <1>5 DEF WorkerEnds
<1>6. ASSUME NEW c \in Client, CreateLoad(c) PROVE TypeInv'
  <2>1. /\ version' = [version EXCEPT ![c] = saved] /\ step' = [step EXCEPT ![c] = "persist"]
        /\ UNCHANGED <<saved, previews, expired, review, launch, runtime, wanted, won, existed,
                       environment, published, approved>>
    BY <1>6 DEF CreateLoad
  <2>2. bound' \subseteq bound /\ cleared' \subseteq cleared \cup bound
    BY <1>6 DEF CreateLoad, Unbind, ClearBound
  <2>3. saved \in Version  BY <1>6 DEF CreateLoad, Version
  <2>4. version' \in [Client -> Version] /\ step' \in [Client -> Step]  BY <2>1, <2>3
  <2>5. AboutPreview'
    <3>1. step'[c] = "persist" /\ \A p \in Client \ {c} : step'[p] = step[p] /\ version'[p] = version[p]
      BY <2>1
    <3> QED  BY <2>1, <3>1
  <2> HIDE DEF AboutPreview
  <2>6. TypeOK'  BY <2>1, <2>2, <2>4
  <2> QED  BY <2>5, <2>6
<1>7. ASSUME NEW c \in Client, NEW v \in Version, LaunchLoad(c, v) PROVE TypeInv'
  <2>1. BeginLaunch(c, v) /\ v \in previews  BY <1>7 DEF LaunchLoad, BeginLaunch, Mutable
  <2>2. step' \in [Client -> Step] /\ step'[c] \in {"claim", "create"}
    <3>1. CASE launch[v] = "not_launched"  BY <2>1, <3>1 DEF BeginLaunch
    <3>2. CASE launch[v] # "not_launched"  BY <2>1, <3>2 DEF BeginLaunch
    <3> QED  BY <3>1, <3>2
  <2>3. version' = [version EXCEPT ![c] = v] /\ version' \in [Client -> Version]
    BY <2>1 DEF BeginLaunch
  <2>4. won' \in [Client -> BOOLEAN]  BY <2>1 DEF BeginLaunch
  <2>5. AboutPreview'
    <3>1. previews' = previews /\ \A p \in Client \ {c} : step'[p] = step[p] /\ version'[p] = version[p]
      BY <2>1 DEF BeginLaunch
    <3>2. version'[c] = v  BY <2>3
    <3> QED  BY <2>1, <3>1, <3>2
  <2>6. UNCHANGED <<saved, rows, runtime, wanted, existed, environment, history>>
    BY <2>1 DEF BeginLaunch
  <2> HIDE DEF AboutPreview
  <2>7. TypeOK'  BY <2>2, <2>3, <2>4, <2>6
  <2> QED  BY <2>5, <2>7
<1>8. ASSUME NEW c \in Client, NEW v \in Version, NEW outcome \in {"approved", "rejected"},
            ReviewLoad(c, v, outcome) PROVE TypeInv'
  BY <1>8 DEF ReviewLoad, BeginReview, Mutable
<1>9. ASSUME NEW c \in Client, Persist(c) PROVE TypeInv'
  BY <1>9 DEF Persist, ClearBound
<1>10. ASSUME NEW c \in Client, ReviewWrite(c) PROVE TypeInv'
  BY <1>10 DEF ReviewWrite, Unbind, ClearBound
<1>11. ASSUME NEW c \in Client, Claim(c) PROVE TypeInv'
  <2>1. version[c] \in Version  OBVIOUS
  <2>2. At(c, "claim") /\ UNCHANGED <<saved, previews, expired, review, bound, runtime, version,
                                     wanted, existed, environment, history>>
    BY <1>11 DEF Claim
  <2>3. CASE launch[version[c]] = "not_launched"
    <3>1. /\ launch' = [launch EXCEPT ![version[c]] = "launch_pending"]
          /\ won' = [won EXCEPT ![c] = TRUE] /\ step' = [step EXCEPT ![c] = "create"]
      BY <1>11, <2>3 DEF Claim
    <3>2. launch' \in [Version -> Launches]  BY <2>1, <3>1
    <3>3. won' \in [Client -> BOOLEAN]  BY <3>1
    <3>4. step' \in [Client -> Step]  BY <3>1
    <3>5. AboutPreview'  BY <2>2, <3>1
    <3> QED  BY <2>2, <3>2, <3>3, <3>4, <3>5
  <2>4. CASE launch[version[c]] # "not_launched"
    <3>1. step' = [step EXCEPT ![c] = "reload"] /\ UNCHANGED <<launch, won>>
      BY <1>11, <2>4 DEF Claim
    <3>2. step' \in [Client -> Step]  BY <3>1
    <3>3. AboutPreview'  BY <2>2, <3>1
    <3> QED  BY <2>2, <3>1, <3>2, <3>3
  <2> QED  BY <2>3, <2>4
<1>12. ASSUME NEW c \in Client, Reload(c) PROVE TypeInv'
  BY <1>12 DEF Reload, Unbind, ClearBound, Mutable
<1>13. ASSUME NEW c \in Client, CreateJob(c) PROVE TypeInv'
  BY <1>13 DEF CreateJob
<1>14. ASSUME NEW c \in Client, LookForJob(c) PROVE TypeInv'
  BY <1>14 DEF LookForJob
<1>15. ASSUME NEW c \in Client, StoreSegments(c) PROVE TypeInv'
  BY <1>15 DEF StoreSegments
<1>16. ASSUME NEW c \in Client, Revert(c) PROVE TypeInv'
  BY <1>16 DEF Revert, ClearBound
<1>17. ASSUME NEW c \in Client, Bind(c) PROVE TypeInv'
  <2>1. version[c] \in Version /\ version[c] \in previews  BY <1>17 DEF Bind
  <2>2. step' \in [Client -> Step]  BY <1>17 DEF Bind
  <2>3. launch' \in [Version -> Launches]
    BY <1>17, <2>1 DEF Bind
  <2>4. bound' \subseteq previews  BY <1>17, <2>1 DEF Bind
  <2>5. AboutPreview'  BY <1>17, <2>1 DEF Bind
  <2> QED  BY <1>17, <2>2, <2>3, <2>4, <2>5 DEF Bind
<1>18. ASSUME NEW c \in Client, Publish(c) PROVE TypeInv'
  <2>1. version[c] \in Version  OBVIOUS
  <2>2. messages' \in [Version -> Nat] /\ published' \in [Version -> Nat]
    BY <1>18, <2>1 DEF Publish
  <2> QED  BY <1>18, <2>1, <2>2 DEF Publish
<1>19. ASSUME NEW c \in Client, Confirm(c) PROVE TypeInv'
  <2>1. version[c] \in Version /\ version[c] \in previews  BY <1>19 DEF Confirm
  <2>2. step' \in [Client -> Step]  BY <1>19 DEF Confirm
  <2>3. launch' \in [Version -> Launches]
    BY <1>19, <2>1 DEF Confirm
  <2>4. bound' \subseteq previews  BY <1>19, <2>1 DEF Confirm
  <2>5. AboutPreview'  BY <1>19, <2>1 DEF Confirm
  <2> QED  BY <1>19, <2>2, <2>3, <2>4, <2>5 DEF Confirm
<1>20. ASSUME NEW c \in Client, SegmentsFail(c) PROVE TypeInv'
  BY <1>20 DEF SegmentsFail
<1>21. ASSUME NEW c \in Client, Refused(c) PROVE TypeInv'
  BY <1>21 DEF Refused
<1>22. ASSUME NEW c \in Client, Die(c) PROVE TypeInv'
  BY <1>22 DEF Die
<1>23. CASE UNCHANGED vars
  BY <1>23 DEF vars
<1> HIDE DEF TypeInv, TypeOK, AboutPreview, At, Go, rows, runtime,
        locals, environment, history
<1>25. QED
  BY <1>1, <1>2, <1>3, <1>4, <1>5, <1>6, <1>7, <1>8, <1>9, <1>10, <1>11, <1>12,
     <1>13, <1>14, <1>15, <1>16, <1>17, <1>18, <1>19, <1>20, <1>21, <1>22, <1>23
  DEF Next, Request, Continue, Fault

\* Rows and locals of the requests always have their types.
THEOREM TypeCorrect == Spec => []TypeOK
<1>1. Init => TypeInv  BY TypeInit
<1>2. TypeInv /\ [Next]_vars => TypeInv'  BY TypeStep
<1>3. TypeInv => TypeOK  BY DEF TypeInv
<1> QED  BY <1>1, <1>2, <1>3, PTL DEF Spec

\* The strengthened invariant, for the theorems below.
LEMMA TypeInvariant == Spec => []TypeInv
<1>1. Init => TypeInv  BY TypeInit
<1>2. TypeInv /\ [Next]_vars => TypeInv'  BY TypeStep
<1> QED  BY <1>1, <1>2, PTL DEF Spec

-----------------------------------------------------------------------------
(* A published preview was approved.                                       *)

\* Nothing is approved, launching or published at first.
LEMMA ApprovalInit == ASSUME Init PROVE ApprovalInv
  BY DEF Init, ApprovalInv, ApprovedOnce, LaunchingApproved, PublishedWasApproved, LaunchSteps

\* The load is the one place a launch starts, and it finds the preview approved; approved
\* only grows, and no step moves a launch to another preview.
LEMMA ApprovalStep ==
    ASSUME TypeInv, ApprovalInv, [Next]_vars
    PROVE  ApprovalInv'
<1> USE ConstantsAssumption DEF TypeInv, TypeOK, AboutPreview, ApprovalInv, ApprovedOnce, LaunchingApproved,
        PublishedWasApproved, LaunchSteps, At, Go, rows, runtime, locals, environment,
        history
<1>1. CASE SaveConfiguration
  BY <1>1 DEF SaveConfiguration
<1>2. ASSUME NEW v \in Version, Expire(v) PROVE ApprovalInv'
  BY <1>2 DEF Expire
<1>3. ASSUME NEW v \in Version, ReadExpired(v) PROVE ApprovalInv'
  BY <1>3 DEF ReadExpired
<1>4. ASSUME NEW v \in Version, WorkerTakes(v) PROVE ApprovalInv'
  BY <1>4 DEF WorkerTakes
<1>5. ASSUME NEW v \in Version, WorkerEnds(v) PROVE ApprovalInv'
  BY <1>5 DEF WorkerEnds
<1>6. ASSUME NEW c \in Client, CreateLoad(c) PROVE ApprovalInv'
  BY <1>6 DEF CreateLoad
<1>7. ASSUME NEW c \in Client, NEW v \in Version, LaunchLoad(c, v) PROVE ApprovalInv'
  BY <1>7 DEF LaunchLoad, BeginLaunch
<1>8. ASSUME NEW c \in Client, NEW v \in Version, NEW outcome \in {"approved", "rejected"},
            ReviewLoad(c, v, outcome) PROVE ApprovalInv'
  BY <1>8 DEF ReviewLoad, BeginReview
<1>9. ASSUME NEW c \in Client, Persist(c) PROVE ApprovalInv'
  BY <1>9 DEF Persist
<1>10. ASSUME NEW c \in Client, ReviewWrite(c) PROVE ApprovalInv'
  BY <1>10 DEF ReviewWrite
<1>11. ASSUME NEW c \in Client, Claim(c) PROVE ApprovalInv'
  BY <1>11 DEF Claim
<1>12. ASSUME NEW c \in Client, Reload(c) PROVE ApprovalInv'
  BY <1>12 DEF Reload
<1>13. ASSUME NEW c \in Client, CreateJob(c) PROVE ApprovalInv'
  BY <1>13 DEF CreateJob
<1>14. ASSUME NEW c \in Client, LookForJob(c) PROVE ApprovalInv'
  BY <1>14 DEF LookForJob
<1>15. ASSUME NEW c \in Client, StoreSegments(c) PROVE ApprovalInv'
  BY <1>15 DEF StoreSegments
<1>16. ASSUME NEW c \in Client, Revert(c) PROVE ApprovalInv'
  BY <1>16 DEF Revert
<1>17. ASSUME NEW c \in Client, Bind(c) PROVE ApprovalInv'
  BY <1>17 DEF Bind
<1>18. ASSUME NEW c \in Client, Publish(c) PROVE ApprovalInv'
  BY <1>18 DEF Publish
<1>19. ASSUME NEW c \in Client, Confirm(c) PROVE ApprovalInv'
  BY <1>19 DEF Confirm
<1>20. ASSUME NEW c \in Client, SegmentsFail(c) PROVE ApprovalInv'
  BY <1>20 DEF SegmentsFail
<1>21. ASSUME NEW c \in Client, Refused(c) PROVE ApprovalInv'
  BY <1>21 DEF Refused
<1>22. ASSUME NEW c \in Client, Die(c) PROVE ApprovalInv'
  BY <1>22 DEF Die
<1>23. CASE UNCHANGED vars
  BY <1>23 DEF vars
<1> HIDE DEF TypeInv, TypeOK, AboutPreview, ApprovalInv, ApprovedOnce, LaunchingApproved,
        PublishedWasApproved, LaunchSteps, At, Go, rows, runtime, locals, environment,
        history
<1>25. QED
  BY <1>1, <1>2, <1>3, <1>4, <1>5, <1>6, <1>7, <1>8, <1>9, <1>10, <1>11, <1>12,
     <1>13, <1>14, <1>15, <1>16, <1>17, <1>18, <1>19, <1>20, <1>21, <1>22, <1>23
  DEF Next, Request, Continue, Fault

\* The invariant of approvals.
LEMMA ApprovalInvariant == Spec => []ApprovalInv
<1>1. Init => ApprovalInv  BY ApprovalInit
<1>2. TypeInv /\ ApprovalInv /\ [Next]_vars => ApprovalInv'  BY ApprovalStep
<1> QED  BY <1>1, <1>2, TypeInvariant, PTL DEF Spec

\* No job is dispatched for a configuration that was never approved, on any path of
\* launch_preview and however requests overlap or die.
THEOREM PublishedApproved == Spec => []PublishedWasApproved
<1>1. ApprovalInv => PublishedWasApproved  BY DEF ApprovalInv
<1> QED  BY <1>1, ApprovalInvariant, PTL

-----------------------------------------------------------------------------
(* A launched preview was published.                                       *)

\* Nothing is launched at first.
LEMMA PublicationInit == ASSUME Init PROVE PublicationInv
  BY DEF Init, PublicationInv, ConfirmingPublished, LaunchedIsPublished

\* Only Confirm writes launched, and a request reaches it by publishing.
LEMMA PublicationStep ==
    ASSUME TypeInv, PublicationInv, [Next]_vars
    PROVE  PublicationInv'
<1> USE ConstantsAssumption DEF TypeInv, TypeOK, AboutPreview, PublicationInv, ConfirmingPublished,
        LaunchedIsPublished, At, Go, rows, runtime, locals, environment, history
<1>1. CASE SaveConfiguration
  BY <1>1 DEF SaveConfiguration
<1>2. ASSUME NEW v \in Version, Expire(v) PROVE PublicationInv'
  BY <1>2 DEF Expire
<1>3. ASSUME NEW v \in Version, ReadExpired(v) PROVE PublicationInv'
  BY <1>3 DEF ReadExpired
<1>4. ASSUME NEW v \in Version, WorkerTakes(v) PROVE PublicationInv'
  BY <1>4 DEF WorkerTakes
<1>5. ASSUME NEW v \in Version, WorkerEnds(v) PROVE PublicationInv'
  BY <1>5 DEF WorkerEnds
<1>6. ASSUME NEW c \in Client, CreateLoad(c) PROVE PublicationInv'
  BY <1>6 DEF CreateLoad
<1>7. ASSUME NEW c \in Client, NEW v \in Version, LaunchLoad(c, v) PROVE PublicationInv'
  BY <1>7 DEF LaunchLoad, BeginLaunch
<1>8. ASSUME NEW c \in Client, NEW v \in Version, NEW outcome \in {"approved", "rejected"},
            ReviewLoad(c, v, outcome) PROVE PublicationInv'
  BY <1>8 DEF ReviewLoad, BeginReview
<1>9. ASSUME NEW c \in Client, Persist(c) PROVE PublicationInv'
  BY <1>9 DEF Persist
<1>10. ASSUME NEW c \in Client, ReviewWrite(c) PROVE PublicationInv'
  BY <1>10 DEF ReviewWrite
<1>11. ASSUME NEW c \in Client, Claim(c) PROVE PublicationInv'
  BY <1>11 DEF Claim
<1>12. ASSUME NEW c \in Client, Reload(c) PROVE PublicationInv'
  BY <1>12 DEF Reload, Mutable
<1>13. ASSUME NEW c \in Client, CreateJob(c) PROVE PublicationInv'
  BY <1>13 DEF CreateJob
<1>14. ASSUME NEW c \in Client, LookForJob(c) PROVE PublicationInv'
  BY <1>14 DEF LookForJob
<1>15. ASSUME NEW c \in Client, StoreSegments(c) PROVE PublicationInv'
  BY <1>15 DEF StoreSegments
<1>16. ASSUME NEW c \in Client, Revert(c) PROVE PublicationInv'
  BY <1>16 DEF Revert
<1>17. ASSUME NEW c \in Client, Bind(c) PROVE PublicationInv'
  BY <1>17 DEF Bind
<1>18. ASSUME NEW c \in Client, Publish(c) PROVE PublicationInv'
  BY <1>18 DEF Publish
<1>19. ASSUME NEW c \in Client, Confirm(c) PROVE PublicationInv'
  BY <1>19 DEF Confirm
<1>20. ASSUME NEW c \in Client, SegmentsFail(c) PROVE PublicationInv'
  BY <1>20 DEF SegmentsFail
<1>21. ASSUME NEW c \in Client, Refused(c) PROVE PublicationInv'
  BY <1>21 DEF Refused
<1>22. ASSUME NEW c \in Client, Die(c) PROVE PublicationInv'
  BY <1>22 DEF Die
<1>23. CASE UNCHANGED vars
  BY <1>23 DEF vars
<1> HIDE DEF TypeInv, TypeOK, AboutPreview, PublicationInv, ConfirmingPublished,
        LaunchedIsPublished, At, Go, rows, runtime, locals, environment, history
<1>25. QED
  BY <1>1, <1>2, <1>3, <1>4, <1>5, <1>6, <1>7, <1>8, <1>9, <1>10, <1>11, <1>12,
     <1>13, <1>14, <1>15, <1>16, <1>17, <1>18, <1>19, <1>20, <1>21, <1>22, <1>23
  DEF Next, Request, Continue, Fault

\* A preview that says launched was handed to the dispatcher, however requests overlap,
\* die, revert their claims or recreate the preview.
THEOREM LaunchedPublished == Spec => []LaunchedIsPublished
<1>1. Init => PublicationInv  BY PublicationInit
<1>2. TypeInv /\ PublicationInv /\ [Next]_vars => PublicationInv'  BY PublicationStep
<1>3. PublicationInv => LaunchedIsPublished  BY DEF PublicationInv
<1> QED  BY <1>1, <1>2, <1>3, TypeInvariant, PTL DEF Spec

-----------------------------------------------------------------------------
(* A dispatched job has its row while nothing clears the reference to it.  *)

\* launched_job_id refers to a row.
BoundHasJob == \A v \in bound : job[v] # "absent"

\* A launch about to publish has bound its job, and one that was dispatched has: the
\* reference is there, or was cleared.
PublishingBound == \A c \in Client : step[c] = "publish" => version[c] \in bound \cup cleared
DispatchedBound == \A v \in Version : messages[v] > 0 => v \in bound \cup cleared

ReferenceInv == BoundHasJob /\ PublishingBound /\ DispatchedBound

\* Nothing is bound, publishing or dispatched at first.
LEMMA ReferenceInit == ASSUME Init PROVE ReferenceInv
  BY DEF Init, ReferenceInv, BoundHasJob, PublishingBound, DispatchedBound

\* Bind refuses an absent job, and only the failure of another launch's segments removes a
\* row, which the reference forbids; a reference that goes is counted as cleared.
LEMMA ReferenceStep ==
    ASSUME TypeInv, ReferenceInv, [Next]_vars
    PROVE  ReferenceInv'
<1> USE ConstantsAssumption DEF TypeInv, TypeOK, AboutPreview, ReferenceInv, BoundHasJob, PublishingBound,
        DispatchedBound, At, Go, rows, runtime, locals, environment,
        history
<1>1. CASE SaveConfiguration
  BY <1>1 DEF SaveConfiguration
<1>2. ASSUME NEW v \in Version, Expire(v) PROVE ReferenceInv'
  BY <1>2 DEF Expire
<1>3. ASSUME NEW v \in Version, ReadExpired(v) PROVE ReferenceInv'
  BY <1>3 DEF ReadExpired, Unbind, ClearBound
<1>4. ASSUME NEW v \in Version, WorkerTakes(v) PROVE ReferenceInv'
  BY <1>4 DEF WorkerTakes
<1>5. ASSUME NEW v \in Version, WorkerEnds(v) PROVE ReferenceInv'
  BY <1>5 DEF WorkerEnds
<1>6. ASSUME NEW c \in Client, CreateLoad(c) PROVE ReferenceInv'
  BY <1>6 DEF CreateLoad, Unbind, ClearBound
<1>7. ASSUME NEW c \in Client, NEW v \in Version, LaunchLoad(c, v) PROVE ReferenceInv'
  BY <1>7 DEF LaunchLoad, BeginLaunch, Mutable
<1>8. ASSUME NEW c \in Client, NEW v \in Version, NEW outcome \in {"approved", "rejected"},
            ReviewLoad(c, v, outcome) PROVE ReferenceInv'
  BY <1>8 DEF ReviewLoad, BeginReview, Mutable
<1>9. ASSUME NEW c \in Client, Persist(c) PROVE ReferenceInv'
  BY <1>9 DEF Persist, ClearBound
<1>10. ASSUME NEW c \in Client, ReviewWrite(c) PROVE ReferenceInv'
  BY <1>10 DEF ReviewWrite, Unbind, ClearBound
<1>11. ASSUME NEW c \in Client, Claim(c) PROVE ReferenceInv'
  BY <1>11 DEF Claim
<1>12. ASSUME NEW c \in Client, Reload(c) PROVE ReferenceInv'
  BY <1>12 DEF Reload, Unbind, ClearBound, Mutable
<1>13. ASSUME NEW c \in Client, LookForJob(c) PROVE ReferenceInv'
  BY <1>13 DEF LookForJob
<1>14. ASSUME NEW c \in Client, CreateJob(c) PROVE ReferenceInv'
  BY <1>14 DEF CreateJob
<1>15. ASSUME NEW c \in Client, StoreSegments(c) PROVE ReferenceInv'
  BY <1>15 DEF StoreSegments
<1>16. ASSUME NEW c \in Client, Revert(c) PROVE ReferenceInv'
  BY <1>16 DEF Revert, ClearBound
<1>17. ASSUME NEW c \in Client, Bind(c) PROVE ReferenceInv'
  BY <1>17 DEF Bind
<1>18. ASSUME NEW c \in Client, Publish(c) PROVE ReferenceInv'
  BY <1>18 DEF Publish
<1>19. ASSUME NEW c \in Client, Confirm(c) PROVE ReferenceInv'
  BY <1>19 DEF Confirm
<1>20. ASSUME NEW c \in Client, SegmentsFail(c) PROVE ReferenceInv'
  BY <1>20 DEF SegmentsFail
<1>21. ASSUME NEW c \in Client, Refused(c) PROVE ReferenceInv'
  BY <1>21 DEF Refused
<1>22. ASSUME NEW c \in Client, Die(c) PROVE ReferenceInv'
  BY <1>22 DEF Die
<1>23. CASE UNCHANGED vars
  BY <1>23 DEF vars
<1> HIDE DEF TypeInv, TypeOK, AboutPreview, ReferenceInv, BoundHasJob, PublishingBound,
        DispatchedBound, At, Go, rows, runtime, locals, environment,
        history
<1>24. QED
  BY <1>1, <1>2, <1>3, <1>4, <1>5, <1>6, <1>7, <1>8, <1>9, <1>10, <1>11, <1>12, <1>13, <1>14,
     <1>15, <1>16, <1>17, <1>18, <1>19, <1>20, <1>21, <1>22, <1>23
  DEF Next, Request, Continue, Fault

\* A worker finds the row of the job it is sent, for any number of clients and whatever dies,
\* fails or expires, unless the reference to the row was cleared.
THEOREM DispatchedJobExists == Spec => []PublishedJobExists
<1>1. Init => ReferenceInv  BY ReferenceInit
<1>2. TypeInv /\ ReferenceInv /\ [Next]_vars => ReferenceInv'  BY ReferenceStep
<1>3. ReferenceInv => PublishedJobExists
  BY DEF ReferenceInv, BoundHasJob, DispatchedBound, PublishedJobExists
<1> QED  BY <1>1, <1>2, <1>3, TypeInvariant, PTL DEF Spec

-----------------------------------------------------------------------------
(* What holds for one client at a time, and no more for two.               *)

\* The user has one request in progress.
OneClient == \A c, d \in Client : c = d

\* A review in progress is of a preview that is not being launched.
ReviewingEarly == \A c \in Client : step[c] = "review" => launch[version[c]] = "not_launched"

\* A launch past its load is of a preview that reads approved.
LaunchingStands == \A c \in Client : step[c] \in LaunchSteps => review[version[c]] = "approved"

RetryInv == OneClient /\ ReviewingEarly /\ LaunchingStands /\ PendingIsRetryable

\* Nothing is reviewed or launched at first.
LEMMA RetryInit == ASSUME OneClient, Init PROVE RetryInv
  BY DEF Init, RetryInv, ReviewingEarly, LaunchingStands, PendingIsRetryable, LaunchSteps

\* The load of a launch finds the preview approved and that of a review finds it not
\* launched; the one client does nothing else until the request is over.
LEMMA RetryStep ==
    ASSUME TypeInv, RetryInv, [Next]_vars
    PROVE  RetryInv'
<1> USE ConstantsAssumption DEF TypeInv, TypeOK, AboutPreview, RetryInv, ReviewingEarly, LaunchingStands,
        PendingIsRetryable, LaunchSteps, OneClient, At, Go, rows, runtime, locals, environment,
        history
<1>1. CASE SaveConfiguration
  BY <1>1 DEF SaveConfiguration
<1>2. ASSUME NEW v \in Version, Expire(v) PROVE RetryInv'
  BY <1>2 DEF Expire
<1>3. ASSUME NEW v \in Version, ReadExpired(v) PROVE RetryInv'
  BY <1>3 DEF ReadExpired, Unbind, ClearBound
<1>4. ASSUME NEW v \in Version, WorkerTakes(v) PROVE RetryInv'
  BY <1>4 DEF WorkerTakes
<1>5. ASSUME NEW v \in Version, WorkerEnds(v) PROVE RetryInv'
  BY <1>5 DEF WorkerEnds
<1>6. ASSUME NEW c \in Client, CreateLoad(c) PROVE RetryInv'
  BY <1>6 DEF CreateLoad, Unbind, ClearBound
<1>7. ASSUME NEW c \in Client, NEW v \in Version, LaunchLoad(c, v) PROVE RetryInv'
  BY <1>7 DEF LaunchLoad, BeginLaunch, Mutable
<1>8. ASSUME NEW c \in Client, NEW v \in Version, NEW outcome \in {"approved", "rejected"},
            ReviewLoad(c, v, outcome) PROVE RetryInv'
  BY <1>8 DEF ReviewLoad, BeginReview, Mutable
<1>9. ASSUME NEW c \in Client, Persist(c) PROVE RetryInv'
  BY <1>9 DEF Persist, ClearBound
<1>10. ASSUME NEW c \in Client, ReviewWrite(c) PROVE RetryInv'
  BY <1>10 DEF ReviewWrite, Unbind, ClearBound
<1>11. ASSUME NEW c \in Client, Claim(c) PROVE RetryInv'
  BY <1>11 DEF Claim
<1>12. ASSUME NEW c \in Client, Reload(c) PROVE RetryInv'
  BY <1>12 DEF Reload, Unbind, ClearBound, Mutable
<1>13. ASSUME NEW c \in Client, LookForJob(c) PROVE RetryInv'
  BY <1>13 DEF LookForJob
<1>14. ASSUME NEW c \in Client, CreateJob(c) PROVE RetryInv'
  BY <1>14 DEF CreateJob
<1>15. ASSUME NEW c \in Client, StoreSegments(c) PROVE RetryInv'
  BY <1>15 DEF StoreSegments
<1>16. ASSUME NEW c \in Client, Revert(c) PROVE RetryInv'
  BY <1>16 DEF Revert, ClearBound
<1>17. ASSUME NEW c \in Client, Bind(c) PROVE RetryInv'
  BY <1>17 DEF Bind
<1>18. ASSUME NEW c \in Client, Publish(c) PROVE RetryInv'
  BY <1>18 DEF Publish
<1>19. ASSUME NEW c \in Client, Confirm(c) PROVE RetryInv'
  BY <1>19 DEF Confirm
<1>20. ASSUME NEW c \in Client, SegmentsFail(c) PROVE RetryInv'
  BY <1>20 DEF SegmentsFail
<1>21. ASSUME NEW c \in Client, Refused(c) PROVE RetryInv'
  BY <1>21 DEF Refused
<1>22. ASSUME NEW c \in Client, Die(c) PROVE RetryInv'
  BY <1>22 DEF Die
<1>23. CASE UNCHANGED vars
  BY <1>23 DEF vars
<1> HIDE DEF TypeInv, TypeOK, AboutPreview, RetryInv, ReviewingEarly, LaunchingStands,
        PendingIsRetryable, LaunchSteps, OneClient, At, Go, rows, runtime, locals, environment,
        history
<1>24. QED
  BY <1>1, <1>2, <1>3, <1>4, <1>5, <1>6, <1>7, <1>8, <1>9, <1>10, <1>11, <1>12, <1>13, <1>14,
     <1>15, <1>16, <1>17, <1>18, <1>19, <1>20, <1>21, <1>22, <1>23
  DEF Next, Request, Continue, Fault

\* A launch that stopped half-way can be taken up again: no request of the one client rejects
\* the preview meanwhile, however its requests die and whatever expires.
THEOREM PendingStaysApproved == OneClient /\ Spec => []PendingIsRetryable
<1>1. OneClient /\ Init => RetryInv  BY RetryInit
<1>2. TypeInv /\ RetryInv /\ [Next]_vars => RetryInv'  BY RetryStep
<1>3. RetryInv => PendingIsRetryable  BY DEF RetryInv
<1> QED  BY <1>1, <1>2, <1>3, TypeInvariant, PTL DEF Spec

\* The confirmation does not fail after the message is sent, and previews do not expire.
NoLateFault == "confirm" \notin FaultPoints
NothingExpires == MaxExpiries = 0
Undisturbed == OneClient /\ NoLateFault /\ NothingExpires

\* A preview is made once.
MadeOnce ==
    /\ expired = {}
    /\ \A c \in Client : step[c] = "persist" => version[c] \notin previews

\* A launch that has not published is the first one, and has its job until it ends.
FirstLaunch ==
    /\ \A c \in Client : step[c] \in LaunchSteps \ {"confirm"} => published[version[c]] = 0
    /\ \A c \in Client : step[c] \in {"publish", "confirm"} => job[version[c]] # "absent"

\* A preview whose job was published is launched, or about to be.
PublishedSettles ==
    \A v \in Version : published[v] > 0 =>
        launch[v] = "launched" \/ \E c \in Client : step[c] = "confirm" /\ version[c] = v

\* A job is queued for, held by or left by a worker only after it was published.
RunIsPublished ==
    \A v \in Version : \/ messages[v] > 0
                       \/ working[v] > 0
                       \/ job[v] \in {"processing", "ended"}
                       => published[v] > 0

OnceInv ==
    Undisturbed /\ MadeOnce /\ FirstLaunch /\ PublishedSettles /\ RunIsPublished /\ PublishedOnce

\* Nothing is published at first.
LEMMA OnceInit == ASSUME Undisturbed, Init PROVE OnceInv
  BY DEF Init, OnceInv, MadeOnce, FirstLaunch, PublishedSettles, RunIsPublished, PublishedOnce,
         LaunchSteps

\* A launch is begun of a preview that is not launched, which was then never published; it
\* publishes once, and its confirmation finds the job and marks the preview.
LEMMA OnceStep ==
    ASSUME TypeInv, ApprovalInv, OnceInv, [Next]_vars
    PROVE  OnceInv'
<1> USE ConstantsAssumption DEF TypeInv, TypeOK, AboutPreview, OnceInv, MadeOnce, FirstLaunch,
        PublishedSettles, RunIsPublished, PublishedOnce, LaunchSteps, OneClient, NoLateFault,
        NothingExpires, Undisturbed, At, Go,
        rows, runtime, locals, environment, history
<1>1. CASE SaveConfiguration
  BY <1>1 DEF SaveConfiguration
<1>2. ASSUME NEW v \in Version, Expire(v) PROVE OnceInv'
  BY <1>2 DEF Expire
<1>3. ASSUME NEW v \in Version, ReadExpired(v) PROVE OnceInv'
  BY <1>3 DEF ReadExpired, Unbind, ClearBound
<1>4. ASSUME NEW v \in Version, WorkerTakes(v) PROVE OnceInv'
  BY <1>4 DEF WorkerTakes
<1>5. ASSUME NEW v \in Version, WorkerEnds(v) PROVE OnceInv'
  BY <1>5 DEF WorkerEnds
<1>6. ASSUME NEW c \in Client, CreateLoad(c) PROVE OnceInv'
  BY <1>6 DEF CreateLoad, Unbind, ClearBound
<1>7. ASSUME NEW c \in Client, NEW v \in Version, LaunchLoad(c, v) PROVE OnceInv'
  BY <1>7 DEF LaunchLoad, BeginLaunch, Mutable
<1>8. ASSUME NEW c \in Client, NEW v \in Version, NEW outcome \in {"approved", "rejected"},
            ReviewLoad(c, v, outcome) PROVE OnceInv'
  BY <1>8 DEF ReviewLoad, BeginReview, Mutable
<1>9. ASSUME NEW c \in Client, Persist(c) PROVE OnceInv'
  BY <1>9 DEF Persist, ClearBound, ApprovalInv, PublishedWasApproved
<1>10. ASSUME NEW c \in Client, ReviewWrite(c) PROVE OnceInv'
  BY <1>10 DEF ReviewWrite, Unbind, ClearBound
<1>11. ASSUME NEW c \in Client, Claim(c) PROVE OnceInv'
  BY <1>11 DEF Claim
<1>12. ASSUME NEW c \in Client, Reload(c) PROVE OnceInv'
  BY <1>12 DEF Reload, Unbind, ClearBound, Mutable
<1>13. ASSUME NEW c \in Client, LookForJob(c) PROVE OnceInv'
  BY <1>13 DEF LookForJob
<1>14. ASSUME NEW c \in Client, CreateJob(c) PROVE OnceInv'
  BY <1>14 DEF CreateJob
<1>15. ASSUME NEW c \in Client, StoreSegments(c) PROVE OnceInv'
  BY <1>15 DEF StoreSegments
<1>16. ASSUME NEW c \in Client, Revert(c) PROVE OnceInv'
  BY <1>16 DEF Revert, ClearBound
<1>17. ASSUME NEW c \in Client, Bind(c) PROVE OnceInv'
  BY <1>17 DEF Bind
<1>18. ASSUME NEW c \in Client, Publish(c) PROVE OnceInv'
  BY <1>18 DEF Publish
<1>19. ASSUME NEW c \in Client, Confirm(c) PROVE OnceInv'
  BY <1>19 DEF Confirm
<1>20. ASSUME NEW c \in Client, SegmentsFail(c) PROVE OnceInv'
  BY <1>20 DEF SegmentsFail
<1>21. ASSUME NEW c \in Client, Refused(c) PROVE OnceInv'
  BY <1>21 DEF Refused
<1>22. ASSUME NEW c \in Client, Die(c) PROVE OnceInv'
  BY <1>22 DEF Die
<1>23. CASE UNCHANGED vars
  BY <1>23 DEF vars
<1> HIDE DEF TypeInv, TypeOK, AboutPreview, OnceInv, MadeOnce, FirstLaunch,
        PublishedSettles, RunIsPublished, PublishedOnce, LaunchSteps, OneClient, NoLateFault,
        NothingExpires, Undisturbed, At, Go,
        rows, runtime, locals, environment, history
<1>24. QED
  BY <1>1, <1>2, <1>3, <1>4, <1>5, <1>6, <1>7, <1>8, <1>9, <1>10, <1>11, <1>12, <1>13, <1>14,
     <1>15, <1>16, <1>17, <1>18, <1>19, <1>20, <1>21, <1>22, <1>23
  DEF Next, Request, Continue, Fault

\* The invariant of undisturbed launches.
LEMMA OnceInvariant == Undisturbed /\ Spec => [](TypeInv /\ OnceInv)
<1>1. Undisturbed /\ Init => OnceInv  BY OnceInit
<1>2. TypeInv /\ ApprovalInv /\ OnceInv /\ [Next]_vars => OnceInv'  BY OnceStep
<1> QED  BY <1>1, <1>2, TypeInvariant, ApprovalInvariant, PTL DEF Spec

\* However often the one client launches a preview, and wherever its launches die before the
\* message is sent, its job is dispatched once.
THEOREM DispatchedOnce == Undisturbed /\ Spec => []PublishedOnce
<1>1. OnceInv => PublishedOnce  BY DEF OnceInv
<1> QED  BY <1>1, OnceInvariant, PTL

\* Nor does a launch that is repeated put a job that has run back into the queue.
THEOREM FinishedJobStays == Undisturbed /\ Spec => FinishedJobKept
<1>1. ASSUME TypeInv, OnceInv, [Next]_vars
      PROVE  [\A v \in Version : job[v] = "ended" => job'[v] # "queued"]_job
  <2>1. CASE \E c \in Client : CreateJob(c)
    <3>1. PICK c \in Client : CreateJob(c)  BY <2>1
    <3>2. published[version[c]] = 0 /\ version[c] \in Version
      BY <1>1, <3>1 DEF CreateJob, At, OnceInv, FirstLaunch, LaunchSteps, TypeInv, TypeOK
    <3>3. job[version[c]] # "ended"  BY <1>1, <3>2 DEF OnceInv, RunIsPublished
    <3>4. job' = [job EXCEPT ![version[c]] = "queued"]  BY <3>1 DEF CreateJob
    <3> QED  BY <1>1, <3>2, <3>3, <3>4 DEF TypeInv, TypeOK
  <2>2. CASE ~\E c \in Client : CreateJob(c)
    <3> DEFINE NoneQueued == \A v \in Version : job'[v] = job[v] \/ job'[v] # "queued"
    <3>1. NoneQueued
      <4> USE <1>1 DEF TypeInv, TypeOK, runtime
      <4>1. ASSUME NEW v \in Version, WorkerTakes(v) \/ WorkerEnds(v) PROVE NoneQueued
        BY <4>1 DEF WorkerTakes, WorkerEnds
      <4>2. ASSUME NEW c \in Client, SegmentsFail(c) PROVE NoneQueued
        BY <4>2 DEF SegmentsFail
      <4>3. ASSUME NEW v \in Version, Expire(v) \/ ReadExpired(v) PROVE job' = job
        BY <4>3 DEF Expire, ReadExpired
      <4>4. ASSUME NEW c \in Client, Request(c) PROVE job' = job
        BY <4>4 DEF Request, CreateLoad, LaunchLoad, BeginLaunch, ReviewLoad, BeginReview
      <4>5. ASSUME NEW c \in Client, Continue(c) PROVE job' = job
        BY <2>2, <4>5 DEF Continue, Persist, ReviewWrite, Claim, Reload, LookForJob, StoreSegments,
                          Revert, Bind, Publish, Confirm
      <4>6. ASSUME NEW c \in Client, Refused(c) \/ Die(c) PROVE job' = job
        BY <4>6 DEF Refused, Die
      <4>7. CASE SaveConfiguration \/ UNCHANGED vars
        BY <4>7 DEF SaveConfiguration, vars
      <4> QED  BY <4>1, <4>2, <4>3, <4>4, <4>5, <4>6, <4>7 DEF Next, Fault
    <3> QED  BY <1>1, <3>1
  <2> QED  BY <2>1, <2>2
<1> QED  BY <1>1, OnceInvariant, PTL DEF Spec, FinishedJobKept

-----------------------------------------------------------------------------
(* The composition.                                                        *)

\* The tuples of UNCHANGED are always expanded.
USE DEF rows, runtime, locals, environment, history, vars, sessionRow, callLocals,
        configurationVars, eraVars, previewVars, Doing, Then

-----------------------------------------------------------------------------
(* The previews of the composition are those of PreviewLaunch.             *)

\* Every step of the composition is a step of the previews, or leaves them alone.
LEMMA ComposedStep == ASSUME [ComposedNext]_composedVars PROVE [Next]_vars
<1>1. ASSUME NEW t \in Tab, Configure(t) PROVE Next
  BY <1>1 DEF Configure, Next
<1>2. ASSUME NEW t \in Tab, Configuring(t) PROVE UNCHANGED vars
  BY <1>2 DEF Configuring
<1>3. ASSUME NEW c \in Client, BeginPreview(c) \/ StorePreview(c) \/ Launching(c) PROVE Next
  BY <1>3 DEF BeginPreview, StorePreview, Launching, Next, Request, Continue
<1>4. ASSUME NEW v \in Version, Around(v) PROVE Next
  BY <1>4 DEF Around, Next
<1>5. ASSUME NEW a \in Analyst, Detecting(a) PROVE UNCHANGED vars
  BY <1>5 DEF Detecting
<1>6. CASE UNCHANGED composedVars
  BY <1>6 DEF composedVars
<1> QED  BY <1>1, <1>2, <1>3, <1>4, <1>5, <1>6 DEF ComposedNext

\* With the configuration calls of any number of tabs beside them, the requests about previews
\* do nothing that they would not do alone.
THEOREM ComposedImplements == ComposedSpec => Spec
<1>1. ComposedInit => Init
  BY DEF ComposedInit
<1> QED  BY <1>1, ComposedStep, PTL DEF ComposedSpec, Spec

\* No job is dispatched for a configuration whose preview nobody approved, whatever is saved
\* and detected meanwhile.
THEOREM ComposedApproved == ComposedSpec => []PublishedWasApproved
  BY ComposedImplements, PublishedApproved, PTL

\* Nor does it change what a launch promises one client whose confirmations do not fail and
\* whose previews do not expire: one dispatch, no finished job queued again, and a launch
\* left half-way that can be repeated.
THEOREM ComposedLaunches ==
    Undisturbed /\ ComposedSpec => [](PublishedOnce /\ PendingIsRetryable) /\ FinishedJobKept
<1>1. Undisturbed => OneClient  BY DEF Undisturbed
<1> QED
  BY <1>1, ComposedImplements, DispatchedOnce, PendingStaysApproved, FinishedJobStays, PTL

-----------------------------------------------------------------------------
(* The calls: which of them writes what.                                   *)

\* The locals of the calls belong to the tabs.
TabLocals == DOMAIN doing = Tab /\ DOMAIN asked = Tab /\ DOMAIN read = Tab /\ DOMAIN found = Tab

\* What a detection is asked for, and what a detection may be overridden on.
Sound(d, r) ==
    /\ d.duration = r.duration /\ d.override = r.override
    /\ d.override # NoOverride => ~d.sure

\* The stored detection overrides only one in doubt ...
DetectionSound == detection.override # NoOverride => ~detection.sure

\* ... and a call is about to keep or to save a detection for its own payload.
FoundSound == \A t \in Tab : doing[t] \in {"keep", "write"} => Sound(found[t], asked[t])

ConfigInv == TabLocals /\ DetectionSound /\ FoundSound /\ ConfiguredAsAsked

\* An upload begins without a configuration.
LEMMA ConfigInit == ASSUME ConfigurationInit PROVE ConfigInv
  BY ConfigurationAssumption
     DEF ConfigurationInit, ConfigInv, TabLocals, DetectionSound, FoundSound, ConfiguredAsAsked,
         NoDetection, NoConfig

\* A call that is over has no locals to speak of.
LEMMA AnsweredKeeps ==
    ASSUME ConfigInv, NEW t \in Tab, Forget(t), UNCHANGED config, DetectionSound'
    PROVE  ConfigInv'
  BY DEF ConfigInv, TabLocals, FoundSound, ConfiguredAsAsked, Forget

\* What HaveProfile does with a call, by what was asked for.
LEMMA HaveProfileDoes ==
    ASSUME NEW t \in Tab, NEW row, HaveProfile(t, row)
    PROVE  \/ Answered(t)
           \/ Then(t, "patch") /\ UNCHANGED <<callLocals, crossed>>
           \/ /\ Then(t, "session") /\ read' = [read EXCEPT ![t] = row]
              /\ UNCHANGED <<asked, found, crossed>>
<1>1. CASE asked[t].op = "look"
  BY <1>1 DEF HaveProfile
<1>2. CASE asked[t].op = "patch"
  BY <1>2 DEF HaveProfile
<1>3. CASE asked[t].op # "look" /\ asked[t].op # "patch"
  BY <1>3 DEF HaveProfile
<1> QED  BY <1>1, <1>2, <1>3

\* What LoadSession does with a call, by the session it reads.
LEMMA LoadSessionDoes ==
    ASSUME NEW t \in Tab, LoadSession(t)
    PROVE  \/ Answered(t)
           \/ /\ Suits(detection, asked[t])
              /\ found' = [found EXCEPT ![t] = detection] /\ Then(t, "write")
              /\ UNCHANGED <<asked, read, crossed>>
           \/ Then(t, "classify") /\ UNCHANGED <<callLocals, crossed>>
<1>1. CASE asked[t].op = "save" /\ ~asked[t].persona /\ ~read[t].fidelity
  BY <1>1 DEF LoadSession
<1>2. CASE asked[t].op = "save" /\ (asked[t].persona \/ read[t].fidelity) /\ Suits(detection, asked[t])
  BY <1>2 DEF LoadSession
<1>3. CASE /\ ~(asked[t].op = "save" /\ ~asked[t].persona /\ ~read[t].fidelity)
           /\ ~(asked[t].op = "save" /\ (asked[t].persona \/ read[t].fidelity) /\ Suits(detection, asked[t]))
  BY <1>3 DEF LoadSession
<1> QED  BY <1>1, <1>2, <1>3

\* A configuration is written with a detection for its payload, found stored or made for it.
LEMMA ConfigStep ==
    ASSUME ConfigInv, [ComposedNext]_composedVars
    PROVE  ConfigInv'
<1> USE DEF ConfigInv, TabLocals, DetectionSound, FoundSound, ConfiguredAsAsked
<1>1. ASSUME NEW t \in Tab, WriteConfiguration(t) PROVE ConfigInv'
  <2>1. Sound(found[t], asked[t]) /\ Supported(found[t])
    BY <1>1 DEF WriteConfiguration
  <2>2. /\ detection' = found[t] /\ doing' = [doing EXCEPT ![t] = "prefer"]
        /\ config' = [duration |-> asked[t].duration, override |-> asked[t].override,
                      detection |-> found[t]]
        /\ UNCHANGED <<asked, read, found>>
    BY <1>1 DEF WriteConfiguration, LaunchConfig
  <2>3. Supported(config'.detection)
    BY <2>1, <2>2
  <2>4. ConfiguredAsAsked'
    BY <2>1, <2>2, <2>3 DEF Sound, Supported, MediumOf
  <2> QED  BY <2>1, <2>2, <2>4 DEF Sound
<1>2. ASSUME NEW t \in Tab, NEW request, Ask(t, request) PROVE ConfigInv'
  BY <1>2 DEF Ask
<1>3. ASSUME NEW t \in Tab, SelectProfile(t) \/ InsertProfile(t) PROVE ConfigInv'
  <2>1. UNCHANGED <<detection, config>>
    BY <1>3 DEF SelectProfile, InsertProfile
  <2>2. \/ Answered(t)
        \/ /\ \E s \in {"insert", "patch", "session"} : Then(t, s)
           /\ UNCHANGED <<asked, found>> /\ DOMAIN read' = Tab
    BY <1>3, HaveProfileDoes DEF SelectProfile, InsertProfile
  <2> QED  BY <2>1, <2>2, AnsweredKeeps DEF Answered
<1>4. ASSUME NEW t \in Tab, PatchProfile(t) PROVE ConfigInv'
  BY <1>4 DEF PatchProfile
<1>5. ASSUME NEW t \in Tab, LoadSession(t) PROVE ConfigInv'
  <2>1. UNCHANGED <<detection, config>>
    BY <1>5 DEF LoadSession
  <2>2. CASE Answered(t)
    BY <2>1, <2>2, AnsweredKeeps DEF Answered
  <2>3. CASE Suits(detection, asked[t]) /\ found' = [found EXCEPT ![t] = detection] /\ Then(t, "write")
                /\ UNCHANGED <<asked, read>>
    BY <2>1, <2>3 DEF Suits, Sound
  <2>4. CASE Then(t, "classify") /\ UNCHANGED callLocals
    BY <2>1, <2>4
  <2> QED  BY <1>5, <2>2, <2>3, <2>4, LoadSessionDoes
<1>6. ASSUME NEW t \in Tab, Classify(t) PROVE ConfigInv'
  <2>1. UNCHANGED <<detection, config>>
    BY <1>6 DEF Classify
  <2>2. CASE Answered(t)
    BY <2>1, <2>2, AnsweredKeeps DEF Answered
  <2>3. CASE ~Answered(t)
    <3>1. PICK d \in Analyses : /\ asked[t].override # NoOverride => Overridable(d)
                                /\ found' = [found EXCEPT ![t] = Snapshot(d, asked[t])]
                                /\ Then(t, "keep") /\ UNCHANGED <<asked, read>>
      BY <1>6, <2>3 DEF Classify
    <3>2. Sound(Snapshot(d, asked[t]), asked[t])
      BY <3>1 DEF Sound, Snapshot, Overridable
    <3> QED  BY <2>1, <3>1, <3>2
  <2> QED  BY <2>2, <2>3
<1>7. ASSUME NEW t \in Tab, KeepDetection(t) PROVE ConfigInv'
  <2>1. UNCHANGED config /\ detection' = found[t] /\ Sound(found[t], asked[t])
    BY <1>7 DEF KeepDetection
  <2>2. DetectionSound'
    BY <2>1 DEF Sound
  <2>3. Forget(t) \/ (Then(t, "write") /\ UNCHANGED callLocals)
    BY <1>7 DEF KeepDetection, Answered
  <2> QED  BY <2>1, <2>2, <2>3, AnsweredKeeps
<1>8. ASSUME NEW t \in Tab, RefuseMedium(t) \/ RefuseSave(t) \/ FailCall(t) \/ UpdatePreferences(t)
      PROVE  ConfigInv'
  <2>1. UNCHANGED <<detection, config>> /\ Forget(t)
    BY <1>8 DEF RefuseMedium, RefuseSave, FailCall, UpdatePreferences, Answered
  <2> QED  BY <2>1, AnsweredKeeps
<1>9. CASE UNCHANGED configurationVars
  BY <1>9
<1>10. ASSUME NEW t \in Tab, Configuring(t) PROVE ConfigInv'
  BY <1>2, <1>3, <1>4, <1>5, <1>6, <1>7, <1>8, <1>10 DEF Configuring, AskWithin, CallStep
<1>11. ASSUME NEW c \in Client, BeginPreview(c) \/ StorePreview(c) \/ Launching(c) PROVE ConfigInv'
  BY <1>9, <1>11 DEF BeginPreview, StorePreview, Launching
<1>12. ASSUME NEW v \in Version, Around(v) PROVE ConfigInv'
  BY <1>9, <1>12 DEF Around
<1>13. ASSUME NEW a \in Analyst, Detecting(a) PROVE ConfigInv'
  BY <1>9, <1>13 DEF Detecting
<1>14. CASE UNCHANGED composedVars
  BY <1>9, <1>14 DEF composedVars
<1> QED  BY <1>1, <1>10, <1>11, <1>12, <1>13, <1>14 DEF ComposedNext, Configure

\* A saved configuration rests on a detection for its own duration and override, however the
\* calls of other tabs replace the stored one.
THEOREM ConfiguredSoundly == ComposedSpec => []ConfiguredAsAsked
<1>1. ComposedInit => ConfigInv
  BY ConfigInit DEF ComposedInit
<1>2. ConfigInv => ConfiguredAsAsked
  BY DEF ConfigInv
<1> QED  BY <1>1, <1>2, ConfigStep, PTL DEF ComposedSpec

-----------------------------------------------------------------------------
(* The preferences.                                                        *)

\* A row of preferences that was never patched has none of PATCH /v1/users/me, a call past the
\* profile's steps has found or made the row.
ProfileRow ==
    /\ ~profile.exists => profile.other = 0
    /\ \A t \in Tab : doing[t] \notin {"idle", "profile", "insert"} => profile.exists

\* A save that nothing has crossed has read what was patched last.
ReadsCurrent == \A t \in Reading : read[t].exists /\ (t \notin crossed => read[t].other = patched)

ProfileTypes == profile \in [exists: BOOLEAN, fidelity: BOOLEAN, other: Nat]

ReadTypes == read \in [Tab -> [exists: BOOLEAN, fidelity: BOOLEAN, other: Nat]]

PreferenceInv ==
    /\ TabLocals /\ calls \in Nat /\ ProfileTypes /\ ReadTypes
    /\ ProfileRow /\ ReadsCurrent /\ PreferencesKept

\* It begins without a profile.
LEMMA PreferenceInit == ASSUME ConfigurationInit PROVE PreferenceInv
  BY DEF ConfigurationInit, PreferenceInv, TabLocals, ProfileTypes, ReadTypes, ProfileRow, ReadsCurrent,
         PreferencesKept, Reading, NoProfile

\* The profile that is missing is typed.
LEMMA NoProfileTyped == NoProfile \in [exists: BOOLEAN, fidelity: BOOLEAN, other: Nat]
  BY DEF NoProfile

\* Calls that leave the profile and the patches alone may end, go on without it, or read it.
LEMMA PreferenceQuiet ==
    ASSUME PreferenceInv, TabLocals', NEW t \in Tab,
           UNCHANGED <<profile, patched>>, calls' \in Nat,
           \/ Answered(t)
           \/ /\ \E s : /\ Then(t, s) /\ UNCHANGED <<read, crossed>>
                        /\ s \in {"profile", "insert", "patch"} \/ t \in Reading
                        /\ s \in {"profile", "insert"} \/ profile.exists
           \/ /\ Then(t, "session") /\ profile.exists
              /\ read' = [read EXCEPT ![t] = profile] /\ UNCHANGED crossed
    PROVE  PreferenceInv'
<1> USE DEF PreferenceInv, TabLocals, ProfileTypes, ReadTypes, PreferencesKept
<1>1. ReadTypes'
  <2>1. read' = read \/ read' = [read EXCEPT ![t] = NoProfile] \/ read' = [read EXCEPT ![t] = profile]
    BY DEF Answered, Forget
  <2> QED  BY <2>1, NoProfileTyped
<1>2. ProfileRow'
  BY DEF ProfileRow, Answered, Forget, Reading
<1>3. \A u \in Tab \ {t} : /\ doing'[u] = doing[u] /\ read'[u] = read[u]
                           /\ u \in crossed' <=> u \in crossed
  BY DEF Answered, Forget
<1>4. t \in Reading' => read'[t].exists /\ (t \notin crossed' => read'[t].other = patched)
  BY DEF Answered, Forget, Reading, ReadsCurrent
<1>5. ReadsCurrent'
  BY <1>3, <1>4 DEF ReadsCurrent, Reading
<1> QED  BY <1>1, <1>2, <1>5

\* A save that was crossed takes the user's settings back and says so; one that was not keeps them.
LEMMA PreferenceStep ==
    ASSUME PreferenceInv, TabLocals', [ComposedNext]_composedVars
    PROVE  PreferenceInv'
<1>1. ASSUME NEW t \in Tab, WriteConfiguration(t) PROVE PreferenceInv'
  BY <1>1, PreferenceQuiet DEF WriteConfiguration, PreferenceInv, ProfileRow, Reading
<1>2. ASSUME NEW t \in Tab, NEW request, Ask(t, request) PROVE PreferenceInv'
  <2>1. UNCHANGED <<profile, patched, read, crossed>> /\ Then(t, "profile") /\ calls' = calls + 1
    BY <1>2 DEF Ask
  <2>2. calls' \in Nat
    BY <2>1 DEF PreferenceInv
  <2>3. \E s : /\ Then(t, s) /\ UNCHANGED <<read, crossed>>
               /\ s \in {"profile", "insert", "patch"} /\ s \in {"profile", "insert"}
    BY <2>1
  <2> QED  BY <2>1, <2>2, <2>3, PreferenceQuiet
<1>3. ASSUME NEW t \in Tab, SelectProfile(t) PROVE PreferenceInv'
  <2>1. UNCHANGED <<profile, patched, calls>> /\ calls \in Nat
    BY <1>3 DEF SelectProfile, PreferenceInv
  <2>2. CASE profile.exists
    <3>1. HaveProfile(t, profile)
      BY <1>3, <2>2 DEF SelectProfile
    <3> QED  BY <2>1, <2>2, <3>1, HaveProfileDoes, PreferenceQuiet
  <2>3. CASE ~profile.exists
    <3>1. Then(t, "insert") /\ UNCHANGED <<read, crossed>>
      BY <1>3, <2>3 DEF SelectProfile
    <3> QED  BY <2>1, <3>1, PreferenceQuiet
  <2> QED  BY <2>2, <2>3
<1>4. ASSUME NEW t \in Tab, InsertProfile(t) PROVE PreferenceInv'
  <2>1. UNCHANGED <<patched, calls>> /\ calls \in Nat
    BY <1>4 DEF InsertProfile, PreferenceInv
  <2>2. CASE profile.exists
    BY <1>4, <2>1, <2>2, PreferenceQuiet DEF InsertProfile
  <2>3. CASE ~profile.exists
    <3>1. profile' = NewProfile /\ HaveProfile(t, NewProfile)
      BY <1>4, <2>3 DEF InsertProfile
    <3>2. /\ NewProfile \in [exists: BOOLEAN, fidelity: BOOLEAN, other: Nat]
          /\ NewProfile.exists /\ NewProfile.other = 0
      BY DEF NewProfile, NoProfile
    <3>3. \A u \in Tab : doing[u] \in {"idle", "profile", "insert"}
      BY <2>3 DEF PreferenceInv, ProfileRow
    <3>4. patched = 0
      BY <2>3 DEF PreferenceInv, ProfileRow, PreferencesKept
    <3>5. \/ Forget(t)
          \/ Then(t, "patch") /\ UNCHANGED read
          \/ Then(t, "session") /\ read' = [read EXCEPT ![t] = NewProfile]
      BY <3>1, HaveProfileDoes DEF Answered
    <3>6. ReadTypes'
      <4>1. \/ read' = read \/ read' = [read EXCEPT ![t] = NoProfile]
            \/ read' = [read EXCEPT ![t] = NewProfile]
        BY <3>5 DEF Forget
      <4> QED  BY <3>2, <4>1, NoProfileTyped DEF PreferenceInv, ReadTypes
    <3>7. \A u \in Tab : /\ doing'[u] \in {"idle", "profile", "insert", "patch", "session"}
                         /\ doing'[u] = "session" => u = t /\ read'[u] = NewProfile
      BY <3>3, <3>5 DEF PreferenceInv, TabLocals, ReadTypes, Forget
    <3>8. ProfileTypes' /\ PreferencesKept' /\ ProfileRow'
      BY <2>1, <3>1, <3>2, <3>4 DEF ProfileTypes, PreferencesKept, ProfileRow
    <3>9. ReadsCurrent'
      BY <2>1, <3>2, <3>4, <3>7 DEF ReadsCurrent, Reading
    <3> QED  BY <2>1, <3>6, <3>8, <3>9 DEF PreferenceInv
  <2> QED  BY <2>2, <2>3
<1>5. ASSUME NEW t \in Tab, PatchProfile(t) PROVE PreferenceInv'
  <2>1. /\ profile' = [profile EXCEPT !.fidelity = FALSE, !.other = calls] /\ patched' = calls
        /\ doing[t] = "patch" /\ doing' = [doing EXCEPT ![t] = "idle"]
        /\ crossed' = crossed \cup Reading /\ UNCHANGED <<read, calls>>
    BY <1>5 DEF PatchProfile
  <2>2. profile.exists
    BY <2>1 DEF PreferenceInv, ProfileRow
  <2>3. ProfileTypes' /\ profile'.exists /\ profile'.other = calls
    BY <2>1, <2>2 DEF PreferenceInv, ProfileTypes
  <2>4. Reading' \subseteq Reading
    BY <2>1 DEF Reading, PreferenceInv, TabLocals
  <2>5. ReadsCurrent'
    BY <2>1, <2>4 DEF PreferenceInv, ReadsCurrent
  <2> QED  BY <2>1, <2>3, <2>5 DEF PreferenceInv, ReadTypes, ProfileRow, PreferencesKept
<1>6. ASSUME NEW t \in Tab, LoadSession(t) PROVE PreferenceInv'
  <2>1. UNCHANGED <<profile, patched, calls>> /\ t \in Reading
    BY <1>6 DEF LoadSession, Reading
  <2>2. profile.exists
    BY <1>6 DEF LoadSession, PreferenceInv, ProfileRow
  <2>3. Answered(t) \/ \E s : Then(t, s) /\ UNCHANGED <<read, crossed>>
    BY <1>6, LoadSessionDoes
  <2> QED  BY <2>1, <2>2, <2>3, PreferenceQuiet DEF PreferenceInv
<1>7. ASSUME NEW t \in Tab, Classify(t) \/ KeepDetection(t) PROVE PreferenceInv'
  <2>1. UNCHANGED <<profile, patched, calls>> /\ t \in Reading
    BY <1>7 DEF Classify, KeepDetection, Reading
  <2>2. profile.exists
    BY <1>7 DEF Classify, KeepDetection, PreferenceInv, ProfileRow
  <2>3. Answered(t) \/ \E s : Then(t, s) /\ UNCHANGED <<read, crossed>>
    BY <1>7 DEF Classify, KeepDetection
  <2> QED  BY <2>1, <2>2, <2>3, PreferenceQuiet DEF PreferenceInv
<1>8. ASSUME NEW t \in Tab, RefuseMedium(t) \/ RefuseSave(t) \/ FailCall(t) PROVE PreferenceInv'
  BY <1>8, PreferenceQuiet DEF RefuseMedium, RefuseSave, FailCall, PreferenceInv
<1>9. ASSUME NEW t \in Tab, UpdatePreferences(t) PROVE PreferenceInv'
  <2>1. /\ doing[t] = "prefer" /\ Forget(t) /\ UNCHANGED calls
        /\ profile' = [read[t] EXCEPT !.fidelity = TRUE]
    BY <1>9 DEF UpdatePreferences, Merged
  <2>2. t \in Reading /\ read[t].exists /\ read[t] \in [exists: BOOLEAN, fidelity: BOOLEAN, other: Nat]
    BY <2>1 DEF PreferenceInv, ReadsCurrent, ReadTypes, Reading
  <2>3. ProfileTypes' /\ profile'.exists /\ profile'.other = read[t].other
    BY <2>1, <2>2 DEF ProfileTypes
  <2>4. ReadTypes'
    BY <2>1 DEF PreferenceInv, ReadTypes, Forget, NoProfile
  <2>5. Reading' \subseteq Reading \ {t} /\ \A u \in Tab \ {t} : read'[u] = read[u]
    BY <2>1 DEF Reading, Forget, PreferenceInv, TabLocals
  <2>6. CASE t \in crossed
    <3>1. patched' = read[t].other /\ crossed' = (crossed \cup Reading) \ {t}
      BY <1>9, <2>6 DEF UpdatePreferences
    <3>2. ReadsCurrent'
      BY <2>5, <3>1 DEF PreferenceInv, ReadsCurrent, Reading
    <3> QED  BY <2>1, <2>3, <2>4, <3>1, <3>2 DEF PreferenceInv, ProfileRow, PreferencesKept
  <2>7. CASE t \notin crossed
    <3>1. UNCHANGED <<patched, crossed>>
      BY <1>9, <2>7 DEF UpdatePreferences
    <3>2. read[t].other = patched
      BY <2>2, <2>7 DEF PreferenceInv, ReadsCurrent
    <3>3. ReadsCurrent'
      BY <2>5, <3>1 DEF PreferenceInv, ReadsCurrent, Reading
    <3> QED  BY <2>1, <2>3, <2>4, <3>1, <3>2, <3>3 DEF PreferenceInv, ProfileRow, PreferencesKept
  <2> QED  BY <2>6, <2>7
<1>10. CASE UNCHANGED configurationVars
  BY <1>10 DEF PreferenceInv, TabLocals, ProfileTypes, ReadTypes, ProfileRow, ReadsCurrent, PreferencesKept,
               Reading
<1>11. ASSUME NEW t \in Tab, Configuring(t) PROVE PreferenceInv'
  BY <1>2, <1>3, <1>4, <1>5, <1>6, <1>7, <1>8, <1>9, <1>11 DEF Configuring, AskWithin, CallStep
<1>12. ASSUME NEW c \in Client, BeginPreview(c) \/ StorePreview(c) \/ Launching(c) PROVE PreferenceInv'
  BY <1>10, <1>12 DEF BeginPreview, StorePreview, Launching
<1>13. ASSUME NEW v \in Version, Around(v) PROVE PreferenceInv'
  BY <1>10, <1>13 DEF Around
<1>14. ASSUME NEW a \in Analyst, Detecting(a) PROVE PreferenceInv'
  BY <1>10, <1>14 DEF Detecting
<1>15. CASE UNCHANGED composedVars
  BY <1>10, <1>15 DEF composedVars
<1> QED  BY <1>1, <1>11, <1>12, <1>13, <1>14, <1>15 DEF ComposedNext, Configure

\* What the user has set last is kept by every save that did not overlap it, whatever saves do.
THEOREM PreferencesSurvive == ComposedSpec => []PreferencesKept
<1>1. ComposedInit => ConfigInv /\ PreferenceInv
  BY ConfigInit, PreferenceInit DEF ComposedInit
<1>2. ConfigInv /\ PreferenceInv /\ [ComposedNext]_composedVars => (ConfigInv /\ PreferenceInv)'
  BY ConfigStep, PreferenceStep DEF ConfigInv
<1>3. PreferenceInv => PreferencesKept
  BY DEF PreferenceInv
<1> QED  BY <1>1, <1>2, <1>3, PTL DEF ComposedSpec

-----------------------------------------------------------------------------
(* A preview and its configuration.                                        *)

\* The histories and locals of the composition belong to its versions and clients.
PreviewLocals == DOMAIN made = Version /\ DOMAIN taken = Client /\ DOMAIN shown = Version

\* The upload session holds the configuration saved last, and what is older is not written again.
SavedLast == saved > 0 => config = made[saved]
UpToSaved ==
    /\ \A v \in previews : v <= saved
    /\ \A c \in Client : step[c] = "persist" => version[c] <= saved

\* create_preview is about to store what was saved with the configured_at of the preview.
TakenOfItsConfiguration ==
    \A c \in Client : step[c] = "persist" =>
       taken[c] = [config |-> made[version[c]], frames |-> Selected(made[version[c]])]

ShownInv ==
    PreviewLocals /\ SavedLast /\ UpToSaved /\ TakenOfItsConfiguration /\ PreviewOfItsConfiguration

\* Frames taken from a preview with the same content are those this configuration would select.
LEMMA FramesAreSelected ==
    ASSUME PreviewOfItsConfiguration, NEW cfg, NEW frames \in FramesFor(cfg)
    PROVE  frames = Selected(cfg)
<1>1. CASE Reusable(cfg) = {}
  BY <1>1 DEF FramesFor
<1>2. CASE Reusable(cfg) # {}
  <2>1. PICK v \in Reusable(cfg) : frames = shown[v].frames
    BY <1>2 DEF FramesFor
  <2>2. v \in previews /\ Content(shown[v].config) = Content(cfg)
    BY <2>1 DEF Reusable
  <2>3. shown[v].config.duration = cfg.duration
    BY <2>2 DEF Content
  <2>4. shown[v] = [config |-> made[v], frames |-> Selected(made[v])]
    BY <2>2 DEF PreviewOfItsConfiguration
  <2> QED  BY <2>1, <2>3, <2>4 DEF Selected
<1> QED  BY <1>1, <1>2

\* Outside the composition's own steps the configuration stays, and no request comes to store
\* a preview.
LEMMA ShownElsewhere ==
    ASSUME TypeInv, ShownInv, UNCHANGED <<saved, previews, config, made, taken, shown>>,
           \A c \in Client : step'[c] = "persist" => step[c] = "persist" /\ version'[c] = version[c]
    PROVE  ShownInv'
  BY DEF ShownInv, PreviewLocals, SavedLast, UpToSaved, TakenOfItsConfiguration, PreviewOfItsConfiguration,
         Selected

\* The calls write the configuration in Configure alone.
LEMMA ConfiguringLeaves == ASSUME NEW t \in Tab, Configuring(t) PROVE UNCHANGED config
<1>1. ASSUME NEW request, Ask(t, request) PROVE UNCHANGED config
  BY <1>1 DEF Ask
<1>2. CASE SelectProfile(t) \/ InsertProfile(t) \/ PatchProfile(t) \/ UpdatePreferences(t)
  BY <1>2 DEF SelectProfile, InsertProfile, PatchProfile, UpdatePreferences
<1>3. CASE LoadSession(t) \/ Classify(t) \/ KeepDetection(t)
  BY <1>3 DEF LoadSession, Classify, KeepDetection
<1>4. CASE RefuseMedium(t) \/ RefuseSave(t) \/ FailCall(t)
  BY <1>4 DEF RefuseMedium, RefuseSave, FailCall
<1> QED  BY <1>1, <1>2, <1>3, <1>4 DEF Configuring, AskWithin, CallStep

\* A save names its configuration anew, create_preview takes what was saved last, and stores it.
LEMMA ShownStep ==
    ASSUME TypeInv, TypeInv', ShownInv, [ComposedNext]_composedVars
    PROVE  ShownInv'
<1> USE ConstantsAssumption DEF At, Go
<1>0. saved \in Nat /\ step \in [Client -> Step] /\ version \in [Client -> Version] /\ previews \subseteq Version
  BY DEF TypeInv, TypeOK
<1>1. ASSUME NEW t \in Tab, Configure(t) PROVE ShownInv'
  <2>1. /\ saved' = saved + 1 /\ saved < MaxVersions /\ made' = [made EXCEPT ![saved'] = config']
        /\ UNCHANGED <<previews, step, version, taken, shown>>
    BY <1>1 DEF Configure, SaveConfiguration
  <2>2. saved' \in Version
    BY <1>0, <2>1 DEF Version
  <2>3. PreviewLocals' /\ SavedLast'
    BY <2>1, <2>2 DEF ShownInv, PreviewLocals, SavedLast
  <2>4. \A v \in Version : v <= saved => made'[v] = made[v]
    BY <1>0, <2>1 DEF ShownInv, PreviewLocals, Version
  <2>5. UpToSaved'
    BY <1>0, <2>1 DEF ShownInv, UpToSaved, Version
  <2>6. TakenOfItsConfiguration'
    BY <1>0, <2>1, <2>4 DEF ShownInv, UpToSaved, TakenOfItsConfiguration, Selected
  <2>7. PreviewOfItsConfiguration'
    BY <1>0, <2>1, <2>4 DEF ShownInv, UpToSaved, PreviewOfItsConfiguration, Selected
  <2> QED  BY <2>3, <2>5, <2>6, <2>7 DEF ShownInv
<1>2. ASSUME NEW c \in Client, BeginPreview(c) PROVE ShownInv'
  <2>1. /\ saved > 0 /\ version' = [version EXCEPT ![c] = saved] /\ step' = [step EXCEPT ![c] = "persist"]
        /\ UNCHANGED <<saved, previews, config, made, shown>>
    BY <1>2 DEF BeginPreview, CreateLoad
  <2>2. PICK frames \in FramesFor(config) :
           taken' = [taken EXCEPT ![c] = [config |-> config, frames |-> frames]]
    BY <1>2 DEF BeginPreview
  <2>3. frames = Selected(config)
    BY FramesAreSelected DEF ShownInv
  <2>4. config = made[saved]
    BY <2>1 DEF ShownInv, SavedLast
  <2>5. taken'[c] = [config |-> made[saved], frames |-> Selected(made[saved])]
    BY <2>2, <2>3, <2>4 DEF ShownInv, PreviewLocals
  <2>6. version'[c] = saved /\ \A d \in Client \ {c} :
           step'[d] = step[d] /\ version'[d] = version[d] /\ taken'[d] = taken[d]
    BY <1>0, <2>1, <2>2 DEF ShownInv, PreviewLocals
  <2>7. PreviewLocals' /\ SavedLast' /\ PreviewOfItsConfiguration'
    BY <2>1, <2>2 DEF ShownInv, PreviewLocals, SavedLast, PreviewOfItsConfiguration
  <2>8. UpToSaved'
    BY <1>0, <2>1, <2>6 DEF ShownInv, UpToSaved
  <2>9. TakenOfItsConfiguration'
    BY <2>1, <2>5, <2>6 DEF ShownInv, TakenOfItsConfiguration
  <2> QED  BY <2>7, <2>8, <2>9 DEF ShownInv
<1>3. ASSUME NEW c \in Client, StorePreview(c) PROVE ShownInv'
  <2>1. /\ step[c] = "persist" /\ step' = [step EXCEPT ![c] = "idle"]
        /\ previews' = previews \cup {version[c]} /\ shown' = [shown EXCEPT ![version[c]] = taken[c]]
        /\ UNCHANGED <<saved, version, config, made, taken>>
    BY <1>3 DEF StorePreview, Persist
  <2>2. version[c] \in Version /\ version[c] <= saved
    BY <1>0, <2>1 DEF ShownInv, UpToSaved
  <2>3. taken[c] = [config |-> made[version[c]], frames |-> Selected(made[version[c]])]
    BY <2>1 DEF ShownInv, TakenOfItsConfiguration
  <2>4. PreviewLocals' /\ SavedLast'
    BY <2>1 DEF ShownInv, PreviewLocals, SavedLast
  <2>5. UpToSaved' /\ TakenOfItsConfiguration'
    BY <1>0, <2>1, <2>2 DEF ShownInv, UpToSaved, TakenOfItsConfiguration, Selected
  <2>6. PreviewOfItsConfiguration'
    BY <1>0, <2>1, <2>2, <2>3 DEF ShownInv, PreviewLocals, PreviewOfItsConfiguration, Selected
  <2> QED  BY <2>4, <2>5, <2>6 DEF ShownInv
<1>4. ASSUME NEW c \in Client, Launching(c) PROVE ShownInv'
  <2>1. UNCHANGED <<config, made, taken, shown>>
    BY <1>4 DEF Launching
  <2>2. /\ UNCHANGED <<saved, previews>>
        /\ \A d \in Client : step'[d] = "persist" => step[d] = "persist" /\ version'[d] = version[d]
    <3>1. ASSUME NEW v \in Version, LaunchLoad(c, v) PROVE <2>2!1 /\ <2>2!2
      BY <1>0, <3>1 DEF LaunchLoad, BeginLaunch
    <3>2. ASSUME NEW v \in Version, NEW outcome, ReviewLoad(c, v, outcome) PROVE <2>2!1 /\ <2>2!2
      BY <1>0, <3>2 DEF ReviewLoad, BeginReview
    <3>3. CASE step[c] # "persist" /\ Continue(c)
      BY <1>0, <3>3 DEF Continue, Persist, ReviewWrite, Claim, Reload, CreateJob, LookForJob,
                       StoreSegments, Revert, Bind, Publish, Confirm
    <3>4. CASE Fault(c)
      BY <1>0, <3>4 DEF Fault, SegmentsFail, Refused, Die
    <3> QED  BY <1>4, <3>1, <3>2, <3>3, <3>4 DEF Launching
  <2> QED  BY <2>1, <2>2, ShownElsewhere
<1>5. ASSUME NEW v \in Version, Around(v) PROVE ShownInv'
  <2>1. UNCHANGED <<saved, previews, step, version, config, made, taken, shown>>
    BY <1>5 DEF Around, Expire, ReadExpired, WorkerTakes, WorkerEnds
  <2> QED  BY <2>1, ShownElsewhere
<1>6. ASSUME NEW t \in Tab, Configuring(t) PROVE ShownInv'
  <2>1. UNCHANGED <<saved, previews, step, version, config, made, taken, shown>>
    BY <1>6, ConfiguringLeaves DEF Configuring
  <2> QED  BY <2>1, ShownElsewhere
<1>7. ASSUME NEW a \in Analyst, Detecting(a) PROVE ShownInv'
  <2>1. UNCHANGED <<saved, previews, step, version, config, made, taken, shown>>
    BY <1>7 DEF Detecting
  <2> QED  BY <2>1, ShownElsewhere
<1>8. CASE UNCHANGED composedVars
  <2>1. UNCHANGED <<saved, previews, step, version, config, made, taken, shown>>
    BY <1>8 DEF composedVars
  <2> QED  BY <2>1, ShownElsewhere
<1> QED  BY <1>1, <1>2, <1>3, <1>4, <1>5, <1>6, <1>7, <1>8 DEF ComposedNext

\* A preview shows, and its launch runs, the configuration it is named after with frames selected
\* for it, whichever saves come between create_preview's reading and its writing.
THEOREM PreviewShowsItsConfiguration == ComposedSpec => []PreviewOfItsConfiguration
<1>1. ComposedInit => TypeInv /\ ShownInv
  <2>1. ComposedInit => TypeInv
    BY TypeInit DEF ComposedInit
  <2>2. ComposedInit => ShownInv
    BY DEF ComposedInit, Init, ShownInv, PreviewLocals, SavedLast, UpToSaved, TakenOfItsConfiguration,
           PreviewOfItsConfiguration
  <2> QED  BY <2>1, <2>2
<1>2. TypeInv /\ ShownInv /\ [ComposedNext]_composedVars => (TypeInv /\ ShownInv)'
  BY ComposedStep, TypeStep, ShownStep
<1>3. ShownInv => PreviewOfItsConfiguration
  BY DEF ShownInv
<1> QED  BY <1>1, <1>2, <1>3, PTL DEF ComposedSpec

-----------------------------------------------------------------------------
(* POST /v1/detect-era.                                                    *)

Sources == {"system", "user_override"}
EraRow == [era : Era \cup {Unknown}, source : Sources]

\* A row of the classifiers is among the first n.
SystemAmong(n) == \E j \in 1..n : eraRows[j].source = "system"

EraInv ==
    /\ EraTypeOK
    /\ \A a \in Analyst : analysing[a] = "override" =>
          eraWanted[a] \in Era /\ SystemAmong(Len(eraRows))
    /\ \A i \in 1..Len(eraRows) : eraRows[i].source = "user_override" => SystemAmong(i - 1)

\* What the classifiers may say, and show of it.
LEMMA ClassifiedEras ==
    /\ Fallback \in Classifications
    /\ \A c \in Classifications : Shown(c).era \in Era \cup {Unknown}
<1>1. Fallback \in Classifications
  BY DEF Classifications
<1>2. Fallback.era \in Era
  BY EraAssumption DEF Fallback, Hint, Era, Unknown
<1>3. \A a \in Answers : Normalized(a).era \in Era \cup {Unknown}
  BY DEF Normalized, Canonical
<1>4. \A c \in Classifications : c.era \in Era \cup {Unknown}
  BY <1>2, <1>3 DEF Classifications
<1> QED  BY <1>1, <1>4 DEF Shown

\* A row that is added leaves the ones before it, and what is among them.
LEMMA RowsGrow ==
    ASSUME EraInv, NEW row \in EraRow, eraRows' = Append(eraRows, row),
           row.source = "user_override" => SystemAmong(Len(eraRows))
    PROVE  /\ eraRows' \in Seq(EraRow) /\ Len(eraRows') = Len(eraRows) + 1
           /\ SystemAmong(Len(eraRows)) => SystemAmong(Len(eraRows))'
           /\ row.source = "system" => SystemAmong(Len(eraRows))'
           /\ \A i \in 1..Len(eraRows') : eraRows'[i].source = "user_override" => SystemAmong(i - 1)'
<1>1. eraRows \in Seq(EraRow)
  BY DEF EraInv, EraTypeOK, EraRow, Sources
<1>2. /\ eraRows' \in Seq(EraRow) /\ Len(eraRows') = Len(eraRows) + 1 /\ Len(eraRows) \in Nat
      /\ \A i \in 1..Len(eraRows) : eraRows'[i] = eraRows[i]
      /\ eraRows'[Len(eraRows) + 1] = row
  BY <1>1
<1>3. \A n \in 0..Len(eraRows) : SystemAmong(n) => SystemAmong(n)'
  BY <1>2 DEF SystemAmong
<1>4. SystemAmong(Len(eraRows)) => SystemAmong(Len(eraRows))'
  BY <1>2 DEF SystemAmong
<1>5. row.source = "system" => SystemAmong(Len(eraRows))'
  BY <1>2 DEF SystemAmong
<1>6. ASSUME NEW i \in 1..Len(eraRows'), eraRows'[i].source = "user_override"
      PROVE  SystemAmong(i - 1)'
  <2>1. CASE i = Len(eraRows) + 1
    BY <1>2, <1>3, <1>6, <2>1
  <2>2. CASE i \in 1..Len(eraRows)
    BY <1>2, <1>3, <1>6, <2>2 DEF EraInv
  <2> QED  BY <1>2, <2>1, <2>2
<1> QED  BY <1>2, <1>4, <1>5, <1>6

\* The rows of POST /v1/detect-era begin empty.
LEMMA EraInvInit == ASSUME EraInit PROVE EraInv
  BY ClassifiedEras DEF EraInit, EraInv, EraTypeOK

\* An override is stored after what the classifiers said.
LEMMA EraInvStep == ASSUME EraInv, [ComposedNext]_composedVars PROVE EraInv'
<1> USE DEF EraGo, EraForget
<1>1. ASSUME NEW a \in Analyst, NEW override \in Era \cup {NoOverride}, EraAsk(a, override) PROVE EraInv'
  BY <1>1 DEF EraAsk, EraInv, EraTypeOK, SystemAmong
<1>2. ASSUME NEW a \in Analyst, SaveJob(a) PROVE EraInv'
  BY <1>2 DEF SaveJob, EraInv, EraTypeOK, SystemAmong
<1>3. ASSUME NEW a \in Analyst, ClassifyJob(a) PROVE EraInv'
  BY <1>3 DEF ClassifyJob, EraInv, EraTypeOK, SystemAmong
<1>4. ASSUME NEW a \in Analyst, PersistSystem(a) PROVE EraInv'
  <2> DEFINE row == [era |-> Shown(eraFound[a]).era, source |-> "system"]
  <2>1. row \in EraRow
    BY ClassifiedEras DEF EraInv, EraTypeOK, EraRow, Sources
  <2>2. eraRows' = Append(eraRows, row) /\ UNCHANGED <<eraJob, eraCalls>>
    BY <1>4 DEF PersistSystem, SaveDetection
  <2>3. /\ eraRows' \in Seq(EraRow) /\ SystemAmong(Len(eraRows))'
        /\ \A i \in 1..Len(eraRows') : eraRows'[i].source = "user_override" => SystemAmong(i - 1)'
    BY <2>1, <2>2, RowsGrow
  <2>4. \/ UNCHANGED <<eraWanted, eraFound>> /\ analysing' = [analysing EXCEPT ![a] = "override"]
           /\ eraWanted[a] # NoOverride
        \/ EraForget(a)
    BY <1>4 DEF PersistSystem
  <2>5. EraTypeOK'
    BY <2>2, <2>3, <2>4, ClassifiedEras DEF EraInv, EraTypeOK, EraRow, Sources
  <2>6. \A b \in Analyst : analysing'[b] = "override" => eraWanted'[b] \in Era
    BY <2>4 DEF EraInv, EraTypeOK
  <2> QED  BY <2>3, <2>5, <2>6 DEF EraInv
<1>5. ASSUME NEW a \in Analyst, PersistOverride(a) PROVE EraInv'
  <2> DEFINE row == [era |-> eraWanted[a], source |-> "user_override"]
  <2>1. row \in EraRow /\ SystemAmong(Len(eraRows))
    BY <1>5 DEF PersistOverride, EraInv, EraRow, Sources
  <2>2. eraRows' = Append(eraRows, row) /\ EraForget(a) /\ UNCHANGED <<eraJob, eraCalls>>
    BY <1>5 DEF PersistOverride, SaveDetection
  <2>3. /\ eraRows' \in Seq(EraRow) /\ SystemAmong(Len(eraRows))'
        /\ \A i \in 1..Len(eraRows') : eraRows'[i].source = "user_override" => SystemAmong(i - 1)'
    BY <2>1, <2>2, RowsGrow
  <2>4. EraTypeOK'
    BY <2>2, <2>3, ClassifiedEras DEF EraInv, EraTypeOK, EraRow, Sources
  <2>5. \A b \in Analyst : analysing'[b] = "override" => eraWanted'[b] \in Era
    BY <2>2 DEF EraInv, EraTypeOK
  <2> QED  BY <2>3, <2>4, <2>5 DEF EraInv
<1>6. CASE UNCHANGED eraVars
  BY <1>6 DEF EraInv, EraTypeOK, SystemAmong
<1>7. ASSUME NEW a \in Analyst, Detecting(a) PROVE EraInv'
  BY <1>1, <1>2, <1>3, <1>4, <1>5, <1>7 DEF Detecting, EraStep
<1>8. ASSUME NEW t \in Tab, Configure(t) \/ Configuring(t) PROVE EraInv'
  BY <1>6, <1>8 DEF Configure, Configuring
<1>9. ASSUME NEW c \in Client, BeginPreview(c) \/ StorePreview(c) \/ Launching(c) PROVE EraInv'
  BY <1>6, <1>9 DEF BeginPreview, StorePreview, Launching
<1>10. ASSUME NEW v \in Version, Around(v) PROVE EraInv'
  BY <1>6, <1>10 DEF Around
<1>11. CASE UNCHANGED composedVars
  BY <1>6, <1>11 DEF composedVars
<1> QED  BY <1>7, <1>8, <1>9, <1>10, <1>11 DEF ComposedNext

\* What the classifiers said is kept before the user's choice: no override is the first row.
THEOREM OverrideFollowsSystem ==
    ComposedSpec => [](\A i \in 1..Len(eraRows) : eraRows[i].source = "user_override" => SystemAmong(i - 1))
<1>1. ComposedInit => EraInv
  BY EraInvInit DEF ComposedInit
<1>2. EraInv => \A i \in 1..Len(eraRows) : eraRows[i].source = "user_override" => SystemAmong(i - 1)
  BY DEF EraInv
<1> QED  BY <1>1, <1>2, EraInvStep, PTL DEF ComposedSpec
=============================================================================
