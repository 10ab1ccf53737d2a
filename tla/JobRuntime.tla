----------------------------- MODULE JobRuntime -----------------------------
(***************************************************************************)
(* The asynchronous job runtime: app/services/job_runtime.py with the      *)
(* dispatch queue (job_dispatcher.py, internal_workers.py), job creation   *)
(* and cancellation (job_service.py) and the job rows they share           *)
(* (db/phase2_store.py).                                                   *)
(*                                                                         *)
(* A worker runs process_job once per delivered message.  Every write of a *)
(* row, with the reads it depends on, the allocation and release of a GPU, *)
(* each artifact stored and each usage charge is one step, so that a       *)
(* second delivery of the same message, a cancellation from the API, an    *)
(* exception or the death of the worker can fall between any two of them.  *)
(***************************************************************************)
EXTENDS Naturals, FiniteSets

CONSTANTS
    Job,              \* job ids
    Worker,           \* worker instances, finitely many: each has at most one message in hand
    SegmentCount,     \* segments of a job, as cut by build_segments
    MaxAttempts,      \* len(RETRY_BACKOFF_SECONDS)
    UnsupportedTier,  \* the jobs whose stored plan_tier _validate_plan_tier refuses
    AtomicCancel,     \* TRUE: in-memory repository; FALSE: Supabase (read, then update)
    FaultPoints,      \* the steps at which an exception may be raised
    MaxFaults,        \* bound: exceptions
    MaxCrashes,       \* bound: deaths of a worker
    MaxDuplicates     \* bound: messages the broker delivers once more than it needs to

Segment == 1..SegmentCount

Success == {"completed", "partial"}
Terminal == Success \cup {"failed", "cancelled"}
Status == Terminal \cup {"absent", "queued", "processing", "cancel_requested"}
SegmentStatus == {"queued", "processing", "completed", "failed"}
Event == Terminal \cup {"none", "started"}

\* Where a worker stands in process_job; the step named is the next one it takes.
ProcessingSteps == {"poll", "lookup", "attempt", "run", "complete", "tally", "progress"}
ManifestSteps == {"manifest", "expose", "deliver"}
FinalizeSteps == {"seal", "unseal", "bill", "reconcile"}
Step == ProcessingSteps \cup ManifestSteps \cup FinalizeSteps \cup
        {"idle", "load", "start", "allocate", "begin", "finalize", "freegpu", "rescue",
         "rescued", "notify", "cancel", "cancelled", "except", "report", "release"}

ASSUME ConstantsAssumption ==
    /\ Job # {}
    /\ SegmentCount \in Nat \ {0}
    /\ MaxAttempts \in Nat \ {0}
    /\ UnsupportedTier \subseteq Job
    /\ AtomicCancel \in BOOLEAN
    /\ FaultPoints \subseteq Step \ {"idle"}
    /\ MaxFaults \in Nat /\ MaxCrashes \in Nat /\ MaxDuplicates \in Nat

ASSUME WorkersAssumption == IsFiniteSet(Worker)

VARIABLES
    status,       \* media_jobs.status
    segments,     \* job_segments: status and attempt_count of each segment
    counts,       \* media_jobs.completed_segment_count and failed_segment_count
    cached,       \* segments whose output the segment cache holds
    manifests,    \* jobs with a stored transformation manifest
    artifacts,    \* jobs whose export packages and deletion proof are stored
    charges,      \* how often the billable minutes of a job were added to used_minutes
    leases,       \* busy GPU leases whose current_job_id is the job
    deadLetters,  \* _DEAD_LETTER_QUEUE, a list of each worker process
    lastEvent,    \* the last webhook event sent for a job
    messages,     \* undelivered dispatch messages of a job
    unpublished,  \* created jobs whose publish_job call has not returned
    cancelling,   \* Supabase cancellations between their read and their update
    step,         \* where each worker stands; the other locals of process_job are:
    inHand,       \*   the job of the message in hand
    snapshot,     \*   attempt_count of each segment when list_segments was called
    at,           \*   the segment of the loop
    attempt,      \*   the attempt of _process_segment
    tally,        \*   the counts _update_processing_progress has taken
    verdict,      \*   the status _finalize_job has decided on
    finalized,    \*   the status in the row its last update returned
    holds,        \*   gpu_allocated and not gpu_released
    nack,         \*   an exception is leaving process_job
    faults, crashes, duplicates,   \* what the environment has used of its bounds
    runs, lost, deliveries, cancelAccepted  \* history, read by properties only

rows == <<status, segments, counts>>
stores == <<cached, manifests, artifacts>>
effects == <<charges, leases, deadLetters, lastEvent>>
queue == <<messages, unpublished, cancelling>>
environment == <<faults, crashes, duplicates>>
history == <<runs, lost, deliveries, cancelAccepted>>
loop == <<snapshot, at, attempt, tally>>
ending == <<verdict, finalized, holds, nack>>
locals == <<inHand, loop, ending>>
vars == <<rows, stores, effects, queue, step, locals, environment, history>>

AnyJob == CHOOSE j \in Job : TRUE
NothingCounted == [completed |-> 0, failed |-> 0]

Busy(j) == {w \in Worker : step[w] # "idle" /\ inHand[w] = j}
Having(j, s) == {i \in Segment : segments[j][i].status = s}

\* A job nobody works on any more: no message, no worker, no API call in progress.
Settled(j) == /\ status[j] # "absent"
              /\ messages[j] = 0 /\ Busy(j) = {}
              /\ j \notin unpublished \cup cancelling

Init ==
    /\ status = [j \in Job |-> "absent"]
    /\ segments = [j \in Job |-> [i \in Segment |-> [status |-> "queued", attempt |-> 0]]]
    /\ counts = [j \in Job |-> NothingCounted]
    /\ cached = [j \in Job |-> {}]
    /\ manifests = {} /\ artifacts = {}
    /\ charges = [j \in Job |-> 0]
    /\ leases = [j \in Job |-> 0]
    /\ deadLetters = [w \in Worker |-> {}]
    /\ lastEvent = [j \in Job |-> "none"]
    /\ messages = [j \in Job |-> 0]
    /\ unpublished = {} /\ cancelling = {}
    /\ step = [w \in Worker |-> "idle"]
    /\ inHand = [w \in Worker |-> AnyJob]
    /\ snapshot = [w \in Worker |-> [i \in Segment |-> 0]]
    /\ at = [w \in Worker |-> 1]
    /\ attempt = [w \in Worker |-> 0]
    /\ tally = [w \in Worker |-> NothingCounted]
    /\ verdict = [w \in Worker |-> "failed"]
    /\ finalized = [w \in Worker |-> "failed"]
    /\ holds = [w \in Worker |-> FALSE]
    /\ nack = [w \in Worker |-> FALSE]
    /\ faults = 0 /\ crashes = 0 /\ duplicates = 0
    /\ runs = [j \in Job |-> [i \in Segment |-> 0]]
    /\ lost = [j \in Job |-> 0]
    /\ deliveries = [j \in Job |-> 0]
    /\ cancelAccepted = {}

-----------------------------------------------------------------------------
(* How the steps of process_job move its program counter and its locals.   *)

At(w, s) == step[w] = s
Go(w, s) == step' = [step EXCEPT ![w] = s]

SetHolds(w, s, allocated) ==
    /\ Go(w, s)
    /\ holds' = [holds EXCEPT ![w] = allocated]
    /\ UNCHANGED <<inHand, loop, verdict, finalized, nack>>

SetVerdict(w, s, outcome) ==
    /\ Go(w, s)
    /\ verdict' = [verdict EXCEPT ![w] = outcome]
    /\ finalized' = [finalized EXCEPT ![w] = outcome]
    /\ UNCHANGED <<inHand, loop, holds, nack>>

TryAttempt(w, n) ==
    /\ Go(w, "attempt")
    /\ attempt' = [attempt EXCEPT ![w] = n]
    /\ UNCHANGED <<inHand, snapshot, at, tally, ending>>

NextSegment(w) ==
    /\ Go(w, "poll")
    /\ at' = [at EXCEPT ![w] = @ + 1]
    /\ UNCHANGED <<inHand, snapshot, attempt, tally, ending>>

\* The worker is left without a message, as it was at first.
Forget(w) ==
    /\ Go(w, "idle")
    /\ inHand' = [inHand EXCEPT ![w] = AnyJob]
    /\ snapshot' = [snapshot EXCEPT ![w] = [i \in Segment |-> 0]]
    /\ at' = [at EXCEPT ![w] = 1]
    /\ attempt' = [attempt EXCEPT ![w] = 0]
    /\ tally' = [tally EXCEPT ![w] = NothingCounted]
    /\ verdict' = [verdict EXCEPT ![w] = "failed"]
    /\ finalized' = [finalized EXCEPT ![w] = "failed"]
    /\ holds' = [holds EXCEPT ![w] = FALSE]
    /\ nack' = [nack EXCEPT ![w] = FALSE]

-----------------------------------------------------------------------------
(* The API: job creation, publication and cancellation.                    *)

\* create_job stores the row and its segments; other jobs of the user with the
\* same source and configuration may already have filled the segment cache.
CreateJob(j) ==
    /\ status[j] = "absent"
    /\ status' = [status EXCEPT ![j] = "queued"]
    /\ \E warm \in SUBSET Segment : cached' = [cached EXCEPT ![j] = warm]
    /\ unpublished' = unpublished \cup {j}
    /\ UNCHANGED <<segments, counts, manifests, artifacts, effects, messages, cancelling,
                   step, locals, environment, history>>

PublishJob(j) ==
    /\ j \in unpublished
    /\ unpublished' = unpublished \ {j}
    /\ messages' = [messages EXCEPT ![j] = @ + 1]
    /\ UNCHANGED <<rows, stores, effects, cancelling, step, locals, environment, history>>

\* The dispatcher refuses the message: the caller gets an error, the row stays.
PublishFails(j) ==
    /\ j \in unpublished
    /\ faults < MaxFaults
    /\ faults' = faults + 1
    /\ unpublished' = unpublished \ {j}
    /\ UNCHANGED <<rows, stores, effects, messages, cancelling, step, locals, crashes, duplicates, history>>

\* _MemoryJobRepository.request_cancellation: test and update in one step.
RequestCancellation(j) ==
    /\ AtomicCancel
    /\ status[j] \notin Terminal \cup {"absent", "cancel_requested"}
    /\ status' = [status EXCEPT ![j] = "cancel_requested"]
    /\ cancelAccepted' = cancelAccepted \cup {j}
    /\ UNCHANGED <<segments, counts, stores, effects, queue, step, locals, environment,
                   runs, lost, deliveries>>

\* _SupabaseJobRepository.request_cancellation: the row is read first ...
ReadForCancellation(j) ==
    /\ ~AtomicCancel
    /\ status[j] \notin Terminal \cup {"absent"}
    /\ j \notin cancelling
    /\ cancelling' = cancelling \cup {j}
    /\ UNCHANGED <<rows, stores, effects, messages, unpublished, step, locals, environment, history>>

\* ... and updated by an UPDATE that does not look at the status again.
WriteCancellation(j) ==
    /\ j \in cancelling
    /\ cancelling' = cancelling \ {j}
    /\ status' = [status EXCEPT ![j] = "cancel_requested"]
    /\ cancelAccepted' = cancelAccepted \cup {j}
    /\ UNCHANGED <<segments, counts, stores, effects, messages, unpublished, step, locals, environment,
                   runs, lost, deliveries>>

-----------------------------------------------------------------------------
(* Delivery: run_worker_job (Pub/Sub push) or drain_job_queue.             *)

Deliver(w, j) ==
    /\ step[w] = "idle"
    /\ messages[j] > 0
    /\ messages' = [messages EXCEPT ![j] = @ - 1]
    /\ Go(w, "load")
    /\ inHand' = [inHand EXCEPT ![w] = j]
    /\ deliveries' = [deliveries EXCEPT ![j] = @ + 1]
    /\ UNCHANGED <<rows, stores, effects, unpublished, cancelling, loop, ending, environment,
                   runs, lost, cancelAccepted>>

\* An unacknowledged message is delivered again while the first delivery is still
\* being worked on, or after its acknowledgement was lost.
Duplicate(j) ==
    /\ deliveries[j] > 0
    /\ duplicates < MaxDuplicates
    /\ duplicates' = duplicates + 1
    /\ messages' = [messages EXCEPT ![j] = @ + 1]
    /\ UNCHANGED <<rows, stores, effects, unpublished, cancelling, step, locals, faults, crashes, history>>

\* The process dies: its locals and its dead-letter list are gone, the lease stays
\* busy, and the message, never acknowledged, comes back.
Crash(w) ==
    LET j == inHand[w] IN
    /\ step[w] # "idle"
    /\ crashes < MaxCrashes
    /\ crashes' = crashes + 1
    /\ Forget(w)
    /\ deadLetters' = [deadLetters EXCEPT ![w] = {}]
    /\ messages' = [messages EXCEPT ![j] = @ + 1]
    /\ lost' = [lost EXCEPT ![j] = @ + (IF holds[w] THEN 1 ELSE 0)]
    /\ UNCHANGED <<rows, stores, charges, leases, lastEvent, unpublished, cancelling,
                   faults, duplicates, runs, deliveries, cancelAccepted>>

-----------------------------------------------------------------------------
(* process_job up to the segment loop.                                     *)

\* Mutant of Load: a terminal job is taken for finished and acknowledged at once.
LoadSkipsTerminal(w) ==
    LET j == inHand[w] IN
    /\ At(w, "load")
    /\ Go(w, CASE status[j] \in Terminal -> "release"
               [] status[j] = "cancel_requested" -> "cancel"
               [] OTHER -> "start")
    /\ UNCHANGED <<rows, stores, effects, queue, environment, history, locals>>

\* Mutant of Load: plan_tier is taken as it was stored.
LoadTrustsTier(w) ==
    /\ At(w, "load")
    /\ Go(w, IF status[inHand[w]] = "cancel_requested" THEN "cancel" ELSE "start")
    /\ UNCHANGED <<rows, stores, effects, queue, environment, history, locals>>

\* get_job_for_worker and _validate_plan_tier; no test for a terminal status.
Load(w) ==
    LET j == inHand[w] IN
    /\ At(w, "load")
    /\ Go(w, CASE j \in UnsupportedTier -> "except"
               [] status[j] = "cancel_requested" /\ j \notin UnsupportedTier -> "cancel"
               [] OTHER -> "start")
    /\ UNCHANGED <<rows, stores, effects, queue, environment, history, locals>>

Start(w) ==
    /\ At(w, "start")
    /\ status' = [status EXCEPT ![inHand[w]] = "processing"]
    /\ Go(w, "allocate")
    /\ UNCHANGED <<segments, counts, stores, effects, queue, environment, history, locals>>

AllocateGpu(w) ==
    /\ At(w, "allocate")
    /\ leases' = [leases EXCEPT ![inHand[w]] = @ + 1]
    /\ SetHolds(w, "begin", TRUE)
    /\ UNCHANGED <<rows, stores, charges, deadLetters, lastEvent, queue, environment, history>>

\* STARTED is announced, then list_segments takes the snapshot the loop works from.
Begin(w) ==
    LET j == inHand[w] IN
    /\ At(w, "begin")
    /\ lastEvent' = [lastEvent EXCEPT ![j] = "started"]
    /\ snapshot' = [snapshot EXCEPT ![w] = [i \in Segment |-> segments[j][i].attempt]]
    /\ Go(w, "poll")
    /\ UNCHANGED <<rows, stores, charges, leases, deadLetters, queue, inHand, at, attempt, tally,
                   ending, environment, history>>

\* The head of the loop: the status is read again before each segment.
Poll(w) ==
    /\ At(w, "poll")
    /\ Go(w, CASE at[w] > SegmentCount -> "finalize"
               [] at[w] <= SegmentCount /\ status[inHand[w]] = "cancel_requested" -> "cancel"
               [] OTHER -> "lookup")
    /\ UNCHANGED <<rows, stores, effects, queue, environment, history, locals>>

-----------------------------------------------------------------------------
(* _process_segment.                                                       *)

WriteSegment(w, s, n) ==
    segments' = [segments EXCEPT ![inHand[w]][at[w]] = [status |-> s, attempt |-> n]]

\* Mutant of CacheHit: returns without _update_processing_progress.
CacheHitUncounted(w) ==
    /\ At(w, "lookup")
    /\ at[w] \in cached[inHand[w]]
    /\ WriteSegment(w, "completed", 1)
    /\ NextSegment(w)
    /\ UNCHANGED <<status, counts, stores, effects, queue, environment, history>>

CacheHit(w) ==
    LET seen == snapshot[w][at[w]] IN
    /\ At(w, "lookup")
    /\ at[w] \in cached[inHand[w]]
    /\ WriteSegment(w, "completed", IF seen = 0 THEN 1 ELSE seen)
    /\ Go(w, "tally")
    /\ UNCHANGED <<status, counts, stores, effects, queue, environment, history, locals>>

\* A miss, an expired entry or a degraded cache.  A snapshot whose attempts are used
\* up leaves range() empty: the segment is skipped as it stands.
CacheMiss(w) ==
    LET seen == snapshot[w][at[w]] IN
    /\ At(w, "lookup")
    /\ IF seen < MaxAttempts
       THEN TryAttempt(w, seen + 1)
       ELSE NextSegment(w)
    /\ UNCHANGED <<rows, stores, effects, queue, environment, history>>

StartAttempt(w) ==
    /\ At(w, "attempt")
    /\ WriteSegment(w, "processing", attempt[w])
    /\ runs' = [runs EXCEPT ![inHand[w]][at[w]] = @ + 1]
    /\ Go(w, "run")
    /\ UNCHANGED <<status, counts, stores, effects, queue, environment, lost, deliveries, cancelAccepted, locals>>

\* The output is rendered and proved reproducible; store_segment_cache keeps it
\* unless the cache is degraded.
SegmentSucceeds(w) ==
    LET j == inHand[w] IN
    /\ At(w, "run")
    /\ cached' \in {cached, [cached EXCEPT ![j] = @ \cup {at[w]}]}
    /\ Go(w, "complete")
    /\ UNCHANGED <<rows, manifests, artifacts, effects, queue, environment, history, locals>>

\* Mutant of SegmentFails: the last attempt is handled like the others.
SegmentNeverFails(w) ==
    LET n == attempt[w] IN
    /\ At(w, "run")
    /\ WriteSegment(w, "queued", n)
    /\ IF n < MaxAttempts THEN TryAttempt(w, n + 1) ELSE Go(w, "tally") /\ UNCHANGED locals
    /\ UNCHANGED <<status, counts, stores, effects, queue, environment, history>>

\* A processing or a reproducibility failure: queued for another attempt after the
\* backoff, failed after the last.  Transient and persistent errors are retried alike.
SegmentFails(w) ==
    LET n == attempt[w] IN
    /\ At(w, "run")
    /\ IF n < MaxAttempts
       THEN /\ WriteSegment(w, "queued", n)
            /\ TryAttempt(w, n + 1)
       ELSE /\ WriteSegment(w, "failed", n)
            /\ Go(w, "tally")
            /\ UNCHANGED locals
    /\ UNCHANGED <<status, counts, stores, effects, queue, environment, history>>

CompleteSegment(w) ==
    /\ At(w, "complete")
    /\ WriteSegment(w, "completed", attempt[w])
    /\ Go(w, "tally")
    /\ UNCHANGED <<status, counts, stores, effects, queue, environment, history, locals>>

\* _update_processing_progress counts the segments ...
TallySegments(w) ==
    LET j == inHand[w] IN
    /\ At(w, "tally")
    /\ tally' = [tally EXCEPT ![w] = [completed |-> Cardinality(Having(j, "completed")),
                                      failed |-> Cardinality(Having(j, "failed"))]]
    /\ Go(w, "progress")
    /\ UNCHANGED <<rows, stores, effects, queue, inHand, snapshot, at, attempt, ending,
                   environment, history>>

\* ... and writes the counts to the job row.
UpdateProgress(w) ==
    /\ At(w, "progress")
    /\ counts' = [counts EXCEPT ![inHand[w]] = tally[w]]
    /\ NextSegment(w)
    /\ UNCHANGED <<status, segments, stores, effects, queue, environment, history>>

-----------------------------------------------------------------------------
(* _finalize_job.                                                          *)

Verdict(j) ==
    CASE Having(j, "failed") = {} -> "completed"
      [] Having(j, "failed") # {} /\ Having(j, "completed") # {} -> "partial"
      [] OTHER -> "failed"

DeadLetter(w) == deadLetters' = [deadLetters EXCEPT ![w] = @ \cup {inHand[w]}]

FinalizeJob(w) ==
    LET j == inHand[w] IN
    /\ At(w, "finalize")
    /\ IF status[j] = "cancel_requested"
       THEN Go(w, "cancel") /\ UNCHANGED <<deadLetters, locals>>
       ELSE /\ SetVerdict(w, "freegpu", Verdict(j))
            /\ IF Verdict(j) = "failed" THEN DeadLetter(w) ELSE UNCHANGED deadLetters
    /\ UNCHANGED <<rows, stores, charges, leases, lastEvent, queue, environment, history>>

\* release_gpu frees the first lease found with this current_job_id, if any.
FreeLease(j) == leases' = [leases EXCEPT ![j] = IF @ = 0 THEN 0 ELSE @ - 1]

ReleaseGpu(w) ==
    /\ At(w, "freegpu")
    /\ FreeLease(inHand[w])
    /\ Go(w, "seal")
    /\ UNCHANGED <<rows, stores, charges, deadLetters, lastEvent, queue, environment, history, locals>>

\* The terminal status is written over whatever the row holds by now.
Seal(w) ==
    LET v == verdict[w] IN
    /\ At(w, "seal")
    /\ status' = [status EXCEPT ![inHand[w]] = v]
    /\ Go(w, IF v \in Success THEN "manifest" ELSE "bill")
    /\ UNCHANGED <<segments, counts, stores, effects, queue, environment, history, locals>>

StoreManifest(w) ==
    /\ At(w, "manifest")
    /\ manifests' = manifests \cup {inHand[w]}
    /\ Go(w, "expose")
    /\ UNCHANGED <<rows, cached, artifacts, effects, queue, environment, history, locals>>

\* manifest_available and the manifest's address are written to the job row, which
\* comes back with the status it has by now.
ExposeManifest(w) ==
    /\ At(w, "expose")
    /\ finalized' = [finalized EXCEPT ![w] = status[inHand[w]]]
    /\ Go(w, "deliver")
    /\ UNCHANGED <<rows, stores, effects, queue, inHand, loop, verdict, holds, nack,
                   environment, history>>

MaterializeArtifacts(w) ==
    /\ At(w, "deliver")
    /\ artifacts' = artifacts \cup {inHand[w]}
    /\ Go(w, "bill")
    /\ UNCHANGED <<rows, cached, manifests, effects, queue, environment, history, locals>>

\* Mutant of Unseal: the local status keeps the verdict the row has lost.
UnsealKeepsVerdict(w) ==
    /\ At(w, "unseal")
    /\ status' = [status EXCEPT ![inHand[w]] = "failed"]
    /\ Go(w, "bill")
    /\ UNCHANGED <<segments, counts, stores, effects, queue, environment, history, locals>>

\* The handlers of a manifest or delivery exception: the job is failed after all.
Unseal(w) ==
    /\ At(w, "unseal")
    /\ status' = [status EXCEPT ![inHand[w]] = "failed"]
    /\ SetVerdict(w, "bill", "failed")
    /\ UNCHANGED <<segments, counts, stores, effects, queue, environment, history>>

\* consume_minutes: the billable minutes for a success, 0 otherwise.
ConsumeUsage(w) ==
    /\ At(w, "bill")
    /\ charges' = [charges EXCEPT ![inHand[w]] =
                     IF verdict[w] \in Success THEN @ + 1 ELSE @]
    /\ Go(w, "reconcile")
    /\ UNCHANGED <<rows, stores, leases, deadLetters, lastEvent, queue, environment, history, locals>>

\* Mutant of Reconcile: _finalize_job does not report that the GPU was released.
ReconcileKeepsLease(w) ==
    /\ At(w, "reconcile")
    /\ Go(w, "notify")
    /\ UNCHANGED <<rows, stores, effects, queue, environment, history, locals>>

\* reconcile_estimate; _finalize_job returns (job, True).
Reconcile(w) ==
    /\ At(w, "reconcile")
    /\ SetHolds(w, "notify", FALSE)
    /\ UNCHANGED <<rows, stores, effects, queue, environment, history>>

\* The outer handler of _finalize_job: the job is failed, 0 minutes are consumed.
Rescue(w) ==
    /\ At(w, "rescue")
    /\ status' = [status EXCEPT ![inHand[w]] = "failed"]
    /\ SetVerdict(w, "rescued", "failed")
    /\ UNCHANGED <<segments, counts, stores, effects, queue, environment, history>>

\* Mutant of Rescued: the handler consumes the billable minutes too.
RescuedCharges(w) ==
    /\ At(w, "rescued")
    /\ charges' = [charges EXCEPT ![inHand[w]] = @ + 1]
    /\ SetHolds(w, "notify", FALSE)
    /\ UNCHANGED <<rows, stores, leases, deadLetters, lastEvent, queue, environment, history>>

Rescued(w) ==
    /\ At(w, "rescued")
    /\ SetHolds(w, "notify", FALSE)
    /\ UNCHANGED <<rows, stores, effects, queue, environment, history>>

-----------------------------------------------------------------------------
(* The ends of process_job.                                                *)

Announce(w, e) == lastEvent' = [lastEvent EXCEPT ![inHand[w]] = e]

\* The progress event and the webhook of the outcome; a webhook that cannot be
\* delivered in three attempts is given up without an exception.  There is no event
\* for a row another delivery or a cancellation has made active again: a KeyError.
Notify(w) ==
    /\ At(w, "notify")
    /\ IF finalized[w] \in Terminal
       THEN Announce(w, finalized[w]) /\ Go(w, "release")
       ELSE Go(w, "except") /\ UNCHANGED lastEvent
    /\ UNCHANGED <<rows, stores, charges, leases, deadLetters, queue, environment, history, locals>>

CancelJob(w) ==
    /\ At(w, "cancel")
    /\ status' = [status EXCEPT ![inHand[w]] = "cancelled"]
    /\ Go(w, "cancelled")
    /\ UNCHANGED <<segments, counts, stores, effects, queue, environment, history, locals>>

\* consume_minutes(0), progress and the CANCELLED webhook.
AnnounceCancellation(w) ==
    /\ At(w, "cancelled")
    /\ Announce(w, "cancelled")
    /\ Go(w, "release")
    /\ UNCHANGED <<rows, stores, charges, leases, deadLetters, queue, environment, history, locals>>

\* Mutant of HandleException: no FAILED webhook.
HandleExceptionSilently(w) ==
    /\ At(w, "except")
    /\ status' = [status EXCEPT ![inHand[w]] = "failed"]
    /\ DeadLetter(w)
    /\ Go(w, "release")
    /\ UNCHANGED <<segments, counts, stores, charges, leases, lastEvent, queue, environment, history, locals>>

\* The exception handler of process_job.
HandleException(w) ==
    /\ At(w, "except")
    /\ status' = [status EXCEPT ![inHand[w]] = "failed"]
    /\ DeadLetter(w)
    /\ Go(w, "report")
    /\ UNCHANGED <<segments, counts, stores, charges, leases, lastEvent, queue, environment, history, locals>>

\* consume_minutes(0), progress and the FAILED webhook.
ReportFailure(w) ==
    /\ At(w, "report")
    /\ Announce(w, "failed")
    /\ Go(w, "release")
    /\ UNCHANGED <<rows, stores, charges, leases, deadLetters, queue, environment, history, locals>>

\* Mutant of HandBack: an exception is swallowed and the message acknowledged.
HandBackAcks(w, returned) ==
    /\ Forget(w)
    /\ UNCHANGED messages

\* The message is acknowledged, or handed back when an exception left process_job.
HandBack(w, returned) ==
    /\ Forget(w)
    /\ IF returned THEN messages' = [messages EXCEPT ![inHand[w]] = @ + 1]
                   ELSE UNCHANGED messages

\* Mutant of Release: the lease is freed by _finalize_job alone.
ReleaseForgets(w) ==
    /\ At(w, "release")
    /\ HandBack(w, nack[w])
    /\ UNCHANGED <<rows, stores, effects, unpublished, cancelling, environment, history>>

\* The finally clause.
Release(w) ==
    /\ At(w, "release")
    /\ IF holds[w] THEN FreeLease(inHand[w]) ELSE UNCHANGED leases
    /\ HandBack(w, nack[w])
    /\ UNCHANGED <<rows, stores, charges, deadLetters, lastEvent, unpublished, cancelling,
                   environment, history>>

-----------------------------------------------------------------------------
(* Exceptions.                                                             *)

\* The handler control passes to when the step raises before it takes effect.
Handler(s) ==
    CASE s \in ManifestSteps -> "unseal"
      [] s \in FinalizeSteps -> "rescue"
      [] s \in {"load", "except", "report"} -> "release"
      [] OTHER -> "except"

Fault(w, s) ==
    /\ At(w, s) /\ s \in FaultPoints
    /\ faults < MaxFaults
    /\ faults' = faults + 1

\* The job is read before the try statement: an exception at "load", or inside the
\* handler itself, leaves process_job and returns the message.
Raise(w) ==
    LET s == step[w] IN
    /\ Fault(w, s) /\ s # "release"
    /\ Go(w, Handler(s))
    /\ nack' = [nack EXCEPT ![w] = (Handler(s) = "release")]
    /\ UNCHANGED <<rows, stores, effects, queue, inHand, loop, verdict, finalized, holds,
                   crashes, duplicates, history>>

\* release_gpu has freed the lease when its call of reconcile_gpu_pool raises.
RaiseAfterRelease(w) ==
    /\ Fault(w, "freegpu")
    /\ FreeLease(inHand[w])
    /\ Go(w, "except")
    /\ UNCHANGED <<rows, stores, charges, deadLetters, lastEvent, queue, crashes, duplicates, history, locals>>

\* release_gpu raises in the finally clause: the lease stays, the message returns.
RaiseInFinally(w) ==
    /\ Fault(w, "release") /\ holds[w]
    /\ HandBack(w, TRUE)
    /\ lost' = [lost EXCEPT ![inHand[w]] = @ + 1]
    /\ UNCHANGED <<rows, stores, effects, unpublished, cancelling, crashes, duplicates,
                   runs, deliveries, cancelAccepted>>

-----------------------------------------------------------------------------

ProcessSegment(w) ==
    \/ CacheHit(w) \/ CacheMiss(w) \/ StartAttempt(w) \/ SegmentSucceeds(w)
    \/ SegmentFails(w) \/ CompleteSegment(w) \/ TallySegments(w) \/ UpdateProgress(w)

Finalize(w) ==
    \/ FinalizeJob(w) \/ ReleaseGpu(w) \/ Seal(w) \/ StoreManifest(w) \/ ExposeManifest(w)
    \/ MaterializeArtifacts(w) \/ Unseal(w) \/ ConsumeUsage(w) \/ Reconcile(w)
    \/ Rescue(w) \/ Rescued(w)

\* One step of process_job, exceptions apart.
ProcessJob(w) ==
    \/ Load(w) \/ Start(w) \/ AllocateGpu(w) \/ Begin(w) \/ Poll(w)
    \/ ProcessSegment(w) \/ Finalize(w)
    \/ Notify(w) \/ CancelJob(w) \/ AnnounceCancellation(w)
    \/ HandleException(w) \/ ReportFailure(w) \/ Release(w)

Api(j) ==
    \/ CreateJob(j) \/ PublishJob(j) \/ PublishFails(j)
    \/ RequestCancellation(j) \/ ReadForCancellation(j) \/ WriteCancellation(j)

WorkerStep(w) == ProcessJob(w) \/ \E j \in Job : Deliver(w, j)

Next ==
    \/ \E j \in Job : Api(j) \/ Duplicate(j)
    \/ \E w \in Worker : WorkerStep(w) \/ Crash(w)
    \/ \E w \in Worker : Raise(w) \/ RaiseAfterRelease(w) \/ RaiseInFinally(w)

Spec == Init /\ [][Next]_vars

\* A worker runs its straight-line code to the end, and the broker delivers a
\* message until it is acknowledged; nothing obliges a client to publish or cancel.
FairSpec == Spec /\ \A w \in Worker : WF_vars(WorkerStep(w))
-----------------------------------------------------------------------------
(* Properties.                                                             *)

\* The rows, the queue and the locals of process_job stay within their types.
TypeOK ==
    /\ status \in [Job -> Status]
    /\ segments \in [Job -> [Segment -> [status: SegmentStatus, attempt: 0..MaxAttempts]]]
    /\ counts \in [Job -> [completed: 0..SegmentCount, failed: 0..SegmentCount]]
    /\ cached \in [Job -> SUBSET Segment]
    /\ manifests \subseteq Job /\ artifacts \subseteq Job
    /\ charges \in [Job -> Nat] /\ leases \in [Job -> Nat]
    /\ deadLetters \in [Worker -> SUBSET Job]
    /\ lastEvent \in [Job -> Event]
    /\ messages \in [Job -> Nat]
    /\ unpublished \subseteq Job /\ cancelling \subseteq Job
    /\ step \in [Worker -> Step]
    /\ inHand \in [Worker -> Job]
    /\ snapshot \in [Worker -> [Segment -> 0..MaxAttempts]]
    /\ at \in [Worker -> 1..(SegmentCount + 1)]
    /\ attempt \in [Worker -> 0..MaxAttempts]
    /\ tally \in [Worker -> [completed: 0..SegmentCount, failed: 0..SegmentCount]]
    /\ verdict \in [Worker -> Success \cup {"failed"}]
    /\ finalized \in [Worker -> Status]
    /\ holds \in [Worker -> BOOLEAN] /\ nack \in [Worker -> BOOLEAN]
    /\ faults \in Nat /\ crashes \in Nat /\ duplicates \in Nat
    /\ runs \in [Job -> [Segment -> Nat]]
    /\ lost \in [Job -> Nat] /\ deliveries \in [Job -> Nat]
    /\ cancelAccepted \subseteq Job

\* Minutes are charged only for a job whose manifest and export packages are stored,
\* whatever fails or is repeated between sealing the job and consuming its usage.
ChargeIsBacked == \A j \in Job : charges[j] > 0 => j \in manifests \cap artifacts

\* A delivery of the job's message charges at most once: consume_minutes runs once per
\* process_job, on whichever of its paths an exception or a cancellation takes it.
ChargedPerDelivery == \A j \in Job : charges[j] <= deliveries[j]

\* A job left completed or partial has been charged and its packages can be downloaded,
\* also when the worker that first sealed it died before it billed.
SuccessIsCharged ==
    \A j \in Job : Settled(j) /\ status[j] \in Success => charges[j] > 0 /\ j \in artifacts

\* No job that a worker has seen is abandoned in a status of a running job.
NoJobAbandoned == \A j \in Job : Settled(j) /\ deliveries[j] > 0 => status[j] \in Terminal

\* Of the leases busy for a job, no more are left than workers still hold or a crash or a
\* failed release has lost: every path out of process_job gives its lease back.
LeasesAccounted ==
    \A j \in Job : leases[j] <= Cardinality({w \in Busy(j) : holds[w]}) + lost[j]

\* A worker that processes segments has a busy lease of its own: no other delivery of the
\* same job, which releases by job id, frees it meanwhile.
LeaseHeldWhileProcessing ==
    \A j \in Job : Cardinality({w \in Busy(j) : step[w] \in ProcessingSteps}) <= leases[j]

\* The last webhook about a settled job tells the status it has.
OutcomeAnnounced ==
    \A j \in Job : Settled(j) /\ status[j] \in Terminal => lastEvent[j] = status[j]

\* A job whose stored plan tier is not one of the known plans takes no GPU, runs no
\* segment, charges nothing and never succeeds, however often it is delivered.
UnsupportedNeverRuns ==
    \A j \in UnsupportedTier :
        /\ leases[j] = 0 /\ charges[j] = 0
        /\ \A i \in Segment : runs[j][i] = 0
        /\ Settled(j) => status[j] \notin Success

\* A job left completed has the output of every segment.
CompletedIsWhole ==
    \A j \in Job : Settled(j) /\ status[j] = "completed" => Having(j, "completed") = Segment

\* The progress counters of a job left completed or partial agree with its segments and
\* leave none out, although finalization never writes them.
CountersExact ==
    \A j \in Job : Settled(j) /\ status[j] \in Success =>
        /\ counts[j] = [completed |-> Cardinality(Having(j, "completed")),
                        failed |-> Cardinality(Having(j, "failed"))]
        /\ counts[j].completed + counts[j].failed = SegmentCount

\* Only successful jobs are metered.
OnlySuccessIsMetered == \A j \in Job : Settled(j) /\ status[j] \notin Success => charges[j] = 0

\* A job is metered once.
MeteredOnce == \A j \in Job : charges[j] <= 1

\* Every failed job is in the dead-letter list of some worker, for manual review.
FailedIsDeadLettered ==
    \A j \in Job : Settled(j) /\ status[j] = "failed" => \E w \in Worker : j \in deadLetters[w]

\* A job whose cancellation was accepted ends cancelled.
CancellationHonoured ==
    \A j \in cancelAccepted : Settled(j) /\ deliveries[j] > 0 => status[j] = "cancelled"

\* A cancellation leaves a job that has already ended as it is.
CancelKeepsTerminal ==
    [][\A j \in Job : status[j] \in Terminal => status'[j] # "cancel_requested"]_status

\* A published job comes to rest in a terminal status, however its worker fails.
PublishedJobSettles ==
    \A j \in Job : messages[j] > 0 ~> (Settled(j) /\ status[j] \in Terminal)
-----------------------------------------------------------------------------
(* Refinement.                                                             *)

Lifecycle == INSTANCE JobLifecycle WITH Job <- Job, status <- status, charges <- charges

\* Delivered once, with exceptions only before the charge, the runtime keeps what the
\* API promises: every step is a move of the lifecycle or invisible to it.
ImplementsLifecycle == Lifecycle!Spec
=============================================================================
