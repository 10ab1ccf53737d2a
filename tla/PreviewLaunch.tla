---------------------------- MODULE PreviewLaunch ----------------------------
(***************************************************************************)
(* Preview sessions and their launch: app/services/preview_generation.py   *)
(* over the preview and job rows of db/phase2_store.py.                    *)
(*                                                                         *)
(* A saved configuration has one preview (its id is derived from the       *)
(* upload and configured_at) and a launched preview has one job (its id is *)
(* derived from the preview).  Requests of the user's clients create,      *)
(* review and launch previews; each of their reads and writes is a step of *)
(* its own, so that requests overlap, fail in the middle and are repeated. *)
(***************************************************************************)
EXTENDS Naturals

CONSTANTS
    Client,        \* browser tabs of the owner: each has one request in progress
    MaxVersions,   \* bound: configurations saved for the upload
    Supabase,      \* TRUE: Supabase repositories; FALSE: in-memory ones
    FaultPoints,   \* the steps at which a request may die
    MaxFaults,     \* bound: requests that die
    MaxExpiries,   \* bound: previews that outlive their retention
    MaxPublishes   \* bound: no launch is requested after so many publications

Version == 1..MaxVersions

Reviews == {"pending", "approved", "rejected"}
Launches == {"not_launched", "launch_pending", "launched"}
Jobs == {"absent", "queued", "processing", "ended"}
Step == {"idle", "persist", "review", "claim", "reload", "create", "upsert", "segments",
         "revert", "bind", "publish", "confirm"}

ASSUME ConstantsAssumption ==
    /\ MaxVersions \in Nat \ {0}
    /\ Supabase \in BOOLEAN
    /\ FaultPoints \subseteq Step \ {"idle"}
    /\ MaxFaults \in Nat /\ MaxExpiries \in Nat /\ MaxPublishes \in Nat

VARIABLES
    saved,       \* the configuration the upload session holds, 0 before the first
    previews,    \* versions with a preview_sessions row
    expired,     \* versions whose preview is past expires_at
    review,      \* review_status
    launch,      \* launch_status
    bound,       \* versions whose launched_job_id is set
    job,         \* the media_jobs row derived from the preview
    messages,    \* undelivered dispatch messages
    working,     \* deliveries a worker is processing
    step,        \* where the request of a client stands; its other locals are:
    version,     \*   the preview the request is about
    wanted,      \*   the review asked for
    won,         \*   claim_won
    existed,     \*   existing_job_rows is not empty
    faults, expiries,     \* what the environment has used of its bounds
    published, approved,  \* history: publications; versions that were once approved;
    cleared               \*   versions whose launched_job_id was once set and then cleared

rows == <<previews, expired, review, launch, bound>>
runtime == <<job, messages, working>>
locals == <<version, wanted, won, existed>>
environment == <<faults, expiries>>
history == <<published, approved, cleared>>
vars == <<saved, rows, runtime, step, locals, environment, history>>

Init ==
    /\ saved = 0
    /\ previews = {} /\ expired = {} /\ bound = {}
    /\ review = [v \in Version |-> "pending"]
    /\ launch = [v \in Version |-> "not_launched"]
    /\ job = [v \in Version |-> "absent"]
    /\ messages = [v \in Version |-> 0]
    /\ working = [v \in Version |-> 0]
    /\ step = [c \in Client |-> "idle"]
    /\ version = [c \in Client |-> 1]
    /\ wanted = [c \in Client |-> "pending"]
    /\ won = [c \in Client |-> FALSE]
    /\ existed = [c \in Client |-> FALSE]
    /\ faults = 0 /\ expiries = 0
    /\ published = [v \in Version |-> 0]
    /\ approved = {} /\ cleared = {}

Go(c, s) == step' = [step EXCEPT ![c] = s]
At(c, s) == step[c] = s

\* The preview _load_mutable_preview returns instead of raising 410 or 409.
Mutable(v) == v \in previews \ expired /\ v = saved

\* launched_job_id becomes null.
ClearBound(some) ==
    /\ bound' = bound \ some
    /\ cleared' = cleared \cup (bound \cap some)

\* Every update_preview of the Supabase repository sends its nullable columns, so a
\* patch that does not name launched_job_id clears it.
Unbind(some) == ClearBound(IF Supabase THEN some ELSE {})

-----------------------------------------------------------------------------
(* The configuration, the clock and the worker.                            *)

\* Each saved configuration has a configured_at of its own.
SaveConfiguration ==
    /\ saved < MaxVersions
    /\ saved' = saved + 1
    /\ UNCHANGED <<rows, runtime, step, locals, environment, history>>

\* expires_at passes.
Expire(v) ==
    /\ v \in previews \ expired
    /\ expiries < MaxExpiries
    /\ expiries' = expiries + 1
    /\ expired' = expired \cup {v}
    /\ UNCHANGED <<saved, previews, review, launch, bound, runtime, step, locals, faults, history>>

\* process_job takes the job whatever its status; a missing row is acknowledged.
WorkerTakes(v) ==
    /\ messages[v] > 0
    /\ messages' = [messages EXCEPT ![v] = @ - 1]
    /\ IF job[v] = "absent"
       THEN UNCHANGED <<job, working>>
       ELSE /\ job' = [job EXCEPT ![v] = "processing"]
            /\ working' = [working EXCEPT ![v] = @ + 1]
    /\ UNCHANGED <<saved, rows, step, locals, environment, history>>

WorkerEnds(v) ==
    /\ working[v] > 0
    /\ working' = [working EXCEPT ![v] = @ - 1]
    /\ job' = [job EXCEPT ![v] = IF @ = "absent" THEN @ ELSE "ended"]
    /\ UNCHANGED <<saved, rows, messages, step, locals, environment, history>>

-----------------------------------------------------------------------------
(* create_preview, get_preview and review_preview.                         *)

\* Mutant of CreateLoad: an active preview is made anew.
CreateLoadAlways(c) ==
    /\ At(c, "idle") /\ saved > 0
    /\ version' = [version EXCEPT ![c] = saved]
    /\ Go(c, "persist")
    /\ UNCHANGED <<saved, rows, runtime, wanted, won, existed, environment, history>>

\* An active preview of the saved configuration is returned as it is.  Otherwise its
\* expired row, and that of a preview with the same content, are marked deleted.
CreateLoad(c) ==
    /\ At(c, "idle") /\ saved > 0
    /\ saved \notin previews \ expired
    /\ \E reusable \in Version : Unbind({saved, reusable} \cap expired)
    /\ version' = [version EXCEPT ![c] = saved]
    /\ Go(c, "persist")
    /\ UNCHANGED <<saved, previews, expired, review, launch, runtime, wanted, won, existed,
                   environment, published, approved>>

\* The row is upserted: review and launch start again.
Persist(c) ==
    LET v == version[c] IN
    /\ At(c, "persist")
    /\ previews' = previews \cup {v}
    /\ expired' = expired \ {v}
    /\ ClearBound({v})
    /\ review' = [review EXCEPT ![v] = "pending"]
    /\ launch' = [launch EXCEPT ![v] = "not_launched"]
    /\ Go(c, "idle")
    /\ UNCHANGED <<saved, runtime, locals, environment, published, approved>>

\* Reading, reviewing or launching an expired preview marks it deleted and answers 410.
ReadExpired(v) ==
    /\ v \in expired
    /\ Unbind({v})
    /\ UNCHANGED <<saved, previews, expired, review, launch, runtime, step, locals,
                   environment, published, approved>>

BeginReview(c, v, outcome) ==
    /\ At(c, "idle") /\ Mutable(v)
    /\ review[v] # outcome
    /\ version' = [version EXCEPT ![c] = v]
    /\ wanted' = [wanted EXCEPT ![c] = outcome]
    /\ Go(c, "review")
    /\ UNCHANGED <<saved, rows, runtime, won, existed, environment, history>>

\* Mutant of ReviewLoad: no look at launch_status.
ReviewLoadAnytime(c, v, outcome) == BeginReview(c, v, outcome)

ReviewLoad(c, v, outcome) == launch[v] = "not_launched" /\ BeginReview(c, v, outcome)

\* The review is written whatever the row holds by now.
ReviewWrite(c) ==
    LET v == version[c] IN
    /\ At(c, "review")
    /\ review' = [review EXCEPT ![v] = wanted[c]]
    /\ Unbind({v})
    /\ approved' = IF wanted[c] = "approved" THEN approved \cup {v} ELSE approved
    /\ Go(c, "idle")
    /\ UNCHANGED <<saved, previews, expired, launch, runtime, locals, environment, published>>

-----------------------------------------------------------------------------
(* launch_preview: load, claim, create the job, bind, publish, confirm.    *)

BeginLaunch(c, v) ==
    /\ At(c, "idle") /\ Mutable(v)
    /\ published[v] < MaxPublishes
    /\ version' = [version EXCEPT ![c] = v]
    /\ won' = [won EXCEPT ![c] = FALSE]
    /\ Go(c, IF launch[v] = "not_launched" THEN "claim" ELSE "create")
    /\ UNCHANGED <<saved, rows, runtime, wanted, existed, environment, history>>

\* Mutants of LaunchLoad: a launched preview goes through the launch again; the review is
\* not looked at; a pending launch is refused like a launched one.
LaunchLoadAgain(c, v) == review[v] = "approved" /\ BeginLaunch(c, v)
LaunchLoadUnapproved(c, v) == launch[v] # "launched" /\ BeginLaunch(c, v)
LaunchLoadOnce(c, v) ==
    launch[v] = "not_launched" /\ review[v] = "approved" /\ BeginLaunch(c, v)

\* A launched preview is answered with its job, one that is not approved with 409; a
\* pending launch is taken up again without a claim.
LaunchLoad(c, v) ==
    launch[v] # "launched" /\ review[v] = "approved" /\ BeginLaunch(c, v)

\* claim_launch: a compare-and-set of launch_status alone.
Claim(c) ==
    LET v == version[c] IN
    /\ At(c, "claim")
    /\ IF launch[v] = "not_launched"
       THEN /\ launch' = [launch EXCEPT ![v] = "launch_pending"]
            /\ won' = [won EXCEPT ![c] = TRUE]
            /\ Go(c, "create")
       ELSE /\ Go(c, "reload")
            /\ UNCHANGED <<launch, won>>
    /\ UNCHANGED <<saved, previews, expired, review, bound, runtime, version, wanted, existed,
                   environment, history>>

\* A lost claim loads the preview again and goes on unless it is launched by now.
Reload(c) ==
    LET v == version[c] IN
    /\ At(c, "reload")
    /\ Go(c, IF Mutable(v) /\ launch[v] # "launched" THEN "create" ELSE "idle")
    /\ Unbind({v} \cap expired)
    /\ UNCHANGED <<saved, previews, expired, review, launch, runtime, locals, environment,
                   published, approved>>

\* Supabase: create_job looks for the row first.
LookForJob(c) ==
    /\ Supabase
    /\ At(c, "create")
    /\ existed' = [existed EXCEPT ![c] = job[version[c]] # "absent"]
    /\ Go(c, "upsert")
    /\ UNCHANGED <<saved, rows, runtime, version, wanted, won, environment, history>>

\* The row is stored as queued, whatever it was before: in memory along with its segments, by
\* Supabase before them.
CreateJob(c) ==
    /\ At(c, IF Supabase THEN "upsert" ELSE "create")
    /\ job' = [job EXCEPT ![version[c]] = "queued"]
    /\ Go(c, IF Supabase THEN "segments" ELSE "bind")
    /\ UNCHANGED <<saved, rows, messages, working, locals, environment, history>>

\* A segment refers to its job: without the row the request ends with an error.
StoreSegments(c) ==
    /\ At(c, "segments")
    /\ Go(c, IF job[version[c]] = "absent" THEN "idle" ELSE "bind")
    /\ UNCHANGED <<saved, rows, runtime, locals, environment, history>>

\* Mutant of SegmentsFail: launched_job_id without its reference to media_jobs.
SegmentsFailUnreferenced(c) ==
    LET v == version[c] IN
    /\ At(c, "segments") /\ "segments" \in FaultPoints
    /\ faults < MaxFaults
    /\ faults' = faults + 1
    /\ job' = [job EXCEPT ![v] = IF existed[c] THEN @ ELSE "absent"]
    /\ Go(c, "idle")
    /\ UNCHANGED <<saved, rows, messages, working, locals, expiries, history>>

\* A row the request found new is deleted again, unless a preview refers to it.
SegmentsFail(c) ==
    LET v == version[c] IN
    /\ At(c, "segments") /\ "segments" \in FaultPoints
    /\ faults < MaxFaults
    /\ faults' = faults + 1
    /\ job' = [job EXCEPT ![v] = IF existed[c] \/ v \in bound THEN @ ELSE "absent"]
    /\ Go(c, "idle")
    /\ UNCHANGED <<saved, rows, messages, working, locals, expiries, history>>

\* create_job refuses (overage, pricing, schema) before it writes anything.
Refused(c) ==
    /\ At(c, "create") /\ "create" \in FaultPoints
    /\ faults < MaxFaults
    /\ faults' = faults + 1
    /\ Go(c, IF won[c] THEN "revert" ELSE "idle")
    /\ UNCHANGED <<saved, rows, runtime, locals, expiries, history>>

\* The winner of the claim gives it back.
Revert(c) ==
    LET v == version[c] IN
    /\ At(c, "revert")
    /\ launch' = [launch EXCEPT ![v] = "not_launched"]
    /\ ClearBound({v})
    /\ Go(c, "idle")
    /\ UNCHANGED <<saved, previews, expired, review, runtime, locals, environment,
                   published, approved>>

\* Mutant of Bind: launched before the message is published.
BindLaunches(c) ==
    LET v == version[c] IN
    /\ At(c, "bind")
    /\ launch' = [launch EXCEPT ![v] = "launched"]
    /\ bound' = bound \cup {v}
    /\ Go(c, "publish")
    /\ UNCHANGED <<saved, previews, expired, review, runtime, locals, environment, history>>

\* The reference is refused when the job row is gone.
Bind(c) ==
    LET v == version[c] IN
    /\ At(c, "bind")
    /\ IF job[v] = "absent"
       THEN Go(c, "idle") /\ UNCHANGED <<launch, bound>>
       ELSE /\ launch' = [launch EXCEPT ![v] = "launch_pending"]
            /\ bound' = bound \cup {v}
            /\ Go(c, "publish")
    /\ UNCHANGED <<saved, previews, expired, review, runtime, locals, environment, history>>

Publish(c) ==
    LET v == version[c] IN
    /\ At(c, "publish")
    /\ messages' = [messages EXCEPT ![v] = @ + 1]
    /\ published' = [published EXCEPT ![v] = @ + 1]
    /\ Go(c, "confirm")
    /\ UNCHANGED <<saved, rows, job, working, locals, environment, approved, cleared>>

Confirm(c) ==
    LET v == version[c] IN
    /\ At(c, "confirm")
    /\ Go(c, "idle")
    /\ IF job[v] = "absent"
       THEN UNCHANGED <<launch, bound>>
       ELSE /\ launch' = [launch EXCEPT ![v] = "launched"]
            /\ bound' = bound \cup {v}
    /\ UNCHANGED <<saved, previews, expired, review, runtime, locals, environment, history>>

\* A repository call or publish_job raises, or the process dies, before the step takes
\* effect; at "confirm" that includes a publish_job that raises after it has sent.
Die(c) ==
    /\ step[c] \in FaultPoints \ {"segments"}
    /\ faults < MaxFaults
    /\ faults' = faults + 1
    /\ Go(c, "idle")
    /\ UNCHANGED <<saved, rows, runtime, locals, expiries, history>>

-----------------------------------------------------------------------------

\* The rest of a request, faults apart.
Continue(c) ==
    \/ Persist(c) \/ ReviewWrite(c) \/ Claim(c) \/ Reload(c)
    \/ LookForJob(c) \/ CreateJob(c) \/ StoreSegments(c)
    \/ Revert(c) \/ Bind(c) \/ Publish(c) \/ Confirm(c)

Request(c) ==
    \/ CreateLoad(c)
    \/ \E v \in Version : LaunchLoad(c, v)
    \/ \E v \in Version, outcome \in {"approved", "rejected"} : ReviewLoad(c, v, outcome)

Fault(c) == SegmentsFail(c) \/ Refused(c) \/ Die(c)

Next ==
    \/ SaveConfiguration
    \/ \E v \in Version : Expire(v) \/ ReadExpired(v) \/ WorkerTakes(v) \/ WorkerEnds(v)
    \/ \E c \in Client : Request(c) \/ Continue(c) \/ Fault(c)

Spec == Init /\ [][Next]_vars

\* A request in progress goes on, and a client repeats a launch that ended with
\* launch_dispatch_failed, as the error tells it to.
FairSpec ==
    /\ Spec
    /\ \A c \in Client : WF_vars(Continue(c))
    /\ \A c \in Client, v \in Version : WF_vars(LaunchLoad(c, v))
-----------------------------------------------------------------------------
(* Properties.                                                             *)

\* The rows and the locals of the requests stay within their types.
TypeOK ==
    /\ saved \in 0..MaxVersions
    /\ previews \subseteq Version /\ expired \subseteq previews /\ bound \subseteq previews
    /\ review \in [Version -> Reviews]
    /\ launch \in [Version -> Launches]
    /\ job \in [Version -> Jobs]
    /\ messages \in [Version -> Nat] /\ working \in [Version -> Nat]
    /\ step \in [Client -> Step]
    /\ version \in [Client -> Version]
    /\ wanted \in [Client -> Reviews]
    /\ won \in [Client -> BOOLEAN] /\ existed \in [Client -> BOOLEAN]
    /\ faults \in Nat /\ expiries \in Nat
    /\ published \in [Version -> Nat]
    /\ approved \subseteq previews /\ cleared \subseteq previews

\* A preview says launched only when its job was handed to the dispatcher: launch_preview
\* confirms after publish_job, whatever other requests do in between.
LaunchedIsPublished == \A v \in Version : launch[v] = "launched" => published[v] > 0

\* No job is dispatched for a configuration nobody approved a preview of, on none of the
\* paths of launch_preview (claim won, claim lost, pending launch taken up again).
PublishedWasApproved == \A v \in Version : published[v] > 0 => v \in approved

\* A dispatched job has a row: neither the clean-up of a failed create_job nor a lost claim
\* leaves the worker a message without a job, while nothing clears the reference that keeps
\* the row.  (Expiry, a revert and a review that overlaps the launch may clear it.)
PublishedJobExists ==
    \A v \in Version : messages[v] > 0 => job[v] # "absent" \/ v \in cleared

\* However often a preview is launched, one message is dispatched.
PublishedOnce == \A v \in Version : published[v] <= 1

\* A launch never puts a job that has run to its end back into the queue.
FinishedJobKept ==
    [][\A v \in Version : job[v] = "ended" => job'[v] # "queued"]_job

\* A launch that stopped at launch_pending can be taken up again: its preview is still
\* approved.  (It can be reviewed no more, so a rejected one would be stuck for ever.)
PendingIsRetryable ==
    \A v \in Version : launch[v] = "launch_pending" => review[v] = "approved"

\* A pending launch is not forgotten: with the client repeating the request it becomes
\* launched or is given back, or the preview expires or is superseded.
PendingSettles ==
    \A v \in Version : launch[v] = "launch_pending" ~>
        (launch[v] # "launch_pending" \/ ~Mutable(v))
=============================================================================
