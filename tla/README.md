# A verification project for ChronosRefine

ChronosRefine restores archival media. A user uploads a file in resumable parts, saves a
restoration configuration, reviews a preview of it, launches a job, and downloads the result
with a signed manifest; usage is metered per minute and billed through Stripe. The backend is
a FastAPI application (`app/`) over Supabase (Postgres behind PostgREST) or, in tests and
development, in-memory repositories with the same interface; a worker process consumes a
dispatch queue (Pub/Sub push, or an in-memory queue); a React client (`web/`) drives the API.

What is hard about this code is not a data structure. It is that every operation is a row of
single statements, each a request of its own to a database without transactions, made by
handlers that run in a thread pool and in several instances, retried by clients, brokers and
Stripe, and interrupted anywhere. The models therefore have one action per statement that
reads or writes shared state, and their properties are about what is left when the statements
of several handlers interleave, fail half-way or are repeated.

## The modules

| module | what it is |
|---|---|
| `JobRuntime` | the worker's `process_job`, the dispatch queue, job creation and cancellation |
| `JobLifecycle` | what the job API promises; `JobRuntime` is checked to implement it |
| `PreviewLaunch` | preview sessions, their review and their launch as jobs |
| `EraDetection` | the classifiers, what is shown of their answer, `POST /v1/detect-era` |
| `UploadConfiguration` | detecting for and saving the configuration of an upload; the user's profile |
| `ConfiguredPreview` | composition: previews made of the configurations saved meanwhile |
| `OutputDelivery` | manifest, deletion proof and packages of a job, their retention and reading |
| `GpuPool` | the leases of the warm pool: allocate, release, reconcile |
| `UsageLedger` | the usage row of a month: estimates, approvals, charges, the hard stop |
| `JobResources` | composition: what a job takes of the pool and of its user's month |
| `Jobs` | the set of jobs, shared by `GpuPool` and `UsageLedger` |
| `UploadSession` | one resumable upload: the web client, the API, the storage |
| `StripeWebhook` | Stripe's events, delivered until acknowledged, to several instances |
| `MC*` | the definitions the instances for TLC need |
| `JobOutcome_proofs` | theorems about what becomes of a job of `JobRuntime`, `JobLifecycle` among them |
| `ConfiguredPreview_proofs` | those about previews, alone (`PreviewLaunch`) and in the composition |
| `UsageLedger_proofs` | those about the usage, and about `JobResources` |
| `*_proofs` otherwise | the theorems of the module of that name, checked by TLAPS |

`tlc -config X.cfg M` runs a check; run `X` is `X.cfg`, and its module is in PROJECT.json.
`tlapm M_proofs.tla` checks the proofs.

## Inventory

The components, with their state, operations and interactions. "Correct" says which
properties make a component so; those that are checked are named.

**Job runtime** (`services/job_runtime.py`, `job_pipeline.py`, `job_worker.py`) — *state:*
`media_jobs` (status, counters, manifest address), `job_segments` (status, attempt_count), the GPU
lease it holds, an in-process dead-letter list, the progress and webhook events. *Operations:*
`process_job` loads the job, marks it processing, takes a GPU, processes each segment (cache lookup,
up to three attempts with backoff, progress), finalizes (release the GPU, seal the status, store and
expose the manifest, store the packages, consume the minutes, reconcile the estimate), announces the
outcome. *Hard:* an exception at any statement, each with a handler of its own; a crash; the same
message twice, also at the same time; a cancellation at any moment. *Correct:* charged for what was
delivered and once per delivery (`ChargeIsBacked`, `ChargedPerDelivery`, `SuccessIsCharged`), never
abandoned (`NoJobAbandoned`, `PublishedJobSettles`), leases given back and not taken from another
delivery (`LeasesAccounted`, `LeaseHeldWhileProcessing`), the last webhook true
(`OutcomeAnnounced`), results whole (`CompletedIsWhole`, `CountersExact`), refused jobs never run
(`UnsupportedNeverRuns`).

**Job API** (`services/job_service.py`, `api/jobs.py`) — creates the job row and its segments,
publishes the dispatch message, accepts cancellations; reads otherwise. *Hard:* the row exists
before the message does; Supabase cancels in two requests.

**Dispatch queue** (`services/job_dispatcher.py`, `api/internal_workers.py`) — messages,
delivered at least once; a push handler answers 5xx when `process_job` raises, and the message
comes back.

**Preview sessions** (`services/preview_generation.py`, `api/previews.py`) — *state:*
`preview_sessions` (review_status, launch_status, launched_job_id, expires_at). *Operations:*
create, read, review, launch. A launch claims the preview by compare-and-set, creates the job
under an id derived from the preview, binds it, publishes it, confirms. *Hard:* two tabs; a
launch that stopped in the middle is repeated, and the one that lost the claim goes on too.
*Correct:* `PublishedOnce`, `PublishedWasApproved`, `LaunchedIsPublished`,
`PublishedJobExists`, `PendingIsRetryable`, `PendingSettles`, `FinishedJobKept`,
`PreviewOfItsConfiguration`.

**Uploads** (`services/upload_service.py`, `api/uploads.py`, `web/src/lib/uploadHelpers.ts`) —
*state:* `upload_sessions` (status, address of the resumable session, completed_at),
`gcs_object_pointers`, the sessions and the object in cloud storage; the client's phase.
*Operations:* create, resume (probe, open a new session if the former expired), finalize
(probe, inspect, label, point, complete). *Hard:* a request whose response was lost runs on
beside the next one and writes by the row it read. *Correct:* `CompletedIsStored`,
`CompletedStays`, `OfferIsExact`, `InterruptionsRecover`.

**Stripe webhooks** (`services/stripe_webhook_service.py`, `api/webhooks.py`) — *state:*
`processed_stripe_events` (a claim per event), `billing_accounts`, `billing_audit_events`.
*Operations:* resolve the organisation, claim, patch the account, audit, mark processed or
failed. *Hard:* retries, overlapping deliveries, order, a crash between claim and mark.
*Correct:* `AuditedOnce`, `AckedIsProcessed`, `InvoicesKept`, `AllProcessed`.

**GPU pool** (`services/runtime_ops.py`, `api/ops.py`, `api/internal_workers.py`) — *state:*
`gpu_worker_leases`. *Operations:* allocate (reconcile, pick an idle warm lease or make a cold
one, take it, reconcile again), release (find, free or delete, reconcile), reconcile (list,
grow or shrink, list again, write every listed lease back), the last also by a scheduler.
*Hard:* lists that are stale when written back; a release that raises after it took effect and
is called again. *Correct:* `ColdIsOwn`, `LeasesMatchJobs`, `PoolSettles`.

**Usage and billing** (`services/billing_service.py`, `billing_management.py`, `api/users.py`) —
*state:* `user_usage_monthly`. *Operations:* every call reads the plan's limit, gets or creates
the row, and updates some columns with values computed from it: estimates, launches with the
hard stop, approvals of an overage, charges. *Hard:* jobs of one user side by side; the quota is
tested long before it is used; prices, contracts and the month change between the reads.
*Correct:* `UsedIsCharged`, `BudgetKept`.

**Cost estimation** (`services/cost_estimation.py`, `cost_ops.py`) — an estimate per launch and
its reconciliation after the job; otherwise arithmetic. **Pricebook** — the active revision, as
the limit of the plan in `UsageLedger`.

**Segment cache** (`services/runtime_ops.py`) — outputs by content; a degraded cache is a miss.

**Output delivery and manifests** (`services/output_delivery.py`, `transformation_manifest.py`,
`manifest_retention.py`, `data_classification.py`) — *state:* the objects in the bucket and
their labels, `job_manifests`, `job_deletion_proofs`, `job_export_packages`, the organisation's
retention settings. *Operations:* finalize and store a manifest (full, redacted), its row, its
deletion when nothing is retained, the proof, the packages, reads that find one expired.
*Hard:* every run of a job replaces the artifacts of the former one by one; policies change
between and the bucket deletes by age. *Correct:* `RetainedIsStored`, `DeletedIsGone`,
`DeliveredIsWhole`, `PackagesProved`, `DeletedWhenExpired`.

**Configuration** (`services/configuration_service.py`, `api/uploads.py`, `api/fidelity.py`,
`api/users.py`) — *state:* `detection_snapshot` and `launch_config` (with `configured_at`) of the
upload, the preferences of the user's profile. *Operations:* detect, save, `GET` and `PATCH
/v1/users/me`. *Hard:* a save reads the profile and the session, classifies, and patches both by
what it read, beside other tabs. *Correct:* `ConfiguredAsAsked`, `PreferencesKept`.

**Era detection** (`services/era_detection_service.py`, `era_classifier.py`,
`vertex_gemini.py`) — a classification, or the fallback's; rows per detection and override.

**Without state of interest** — quality and reproducibility metrics, authentication, rate
limits, observability, the HTTP layer, schema and infrastructure; the reasons are in
PROJECT.json.

*Who calls whom.* The client calls uploads, configuration, previews and jobs. A preview launch
calls job creation and publication; job creation asks cost estimation, which asks billing. The
queue delivers to the runtime, which calls the GPU pool, the cache, the manifests, output
delivery, billing and reconciliation. Stripe calls the webhooks, which write the accounts
billing reads. All of them share rows, none holds a lock on one.

## Plan

Modelled first was what costs a user money or a result. Everything planned has been done, with
proofs where the table of theorems in PROJECT.json says so:

1. `JobRuntime` with its abstract specification `JobLifecycle`.
2. `PreviewLaunch`. What it needs of a worker is that it takes any job delivered to it and ends
   it (`WorkerTakes`, `WorkerEnds`).
3. `UploadSession`, and 4. `StripeWebhook`.
5. `GpuPool` and `UsageLedger`, composed in `JobResources` along the life of a job. What one
   would like to promise, one job per lease and used minutes that are the charged ones, holds
   of the code only while certain calls do not overlap; the properties say which.
6. `OutputDelivery`: nothing is handed out that is not stored, nothing deleted before its time.
7. `EraDetection` and `UploadConfiguration`, composed with `PreviewLaunch` in
   `ConfiguredPreview`.

Every invariant and action property a run checks is proved as well. Left: the in-memory queue's
priority order as an abstract queue `JobRuntime`'s messages refine.

## JobRuntime

A worker holds at most one message. `step[w]` is the statement of `process_job` it is about to
execute, and the other locals of the function are the variables after it: the snapshot of
`list_segments` the loop works from, the index of the loop, the attempt, the counts
`_update_processing_progress` has taken, the status `_finalize_job` decided on, the status of
the row it returned, whether the GPU is still to be released.

| steps | code (`job_runtime.py`) |
|---|---|
| load, start, allocate, begin | `process_job` up to the loop: the row, the plan tier, PROCESSING, the lease, STARTED and the list of segments |
| poll | the head of the loop, where a cancellation is noticed |
| lookup, attempt, run, complete | `_process_segment` |
| tally, progress | `_update_processing_progress`: count, then write |
| finalize, freegpu, seal | `_finalize_job` up to the terminal status |
| manifest, expose, deliver | manifest stored, its address written, packages stored |
| bill, reconcile | `consume_minutes`, `reconcile_estimate` |
| unseal, rescue, rescued | the two levels of handlers of `_finalize_job` |
| notify, cancel, cancelled | the outcome, or the cancellation, announced |
| except, report, release | the handler and the `finally` clause of `process_job` |

`Raise` lets a statement raise before it takes effect and passes control to the handler the
code has at that place (`Handler`). Two more actions are for calls that raise after they took
effect: `release_gpu`, which frees the lease before its `reconcile_gpu_pool` raises, in
`_finalize_job` and in the `finally` clause. `Crash` takes the worker, its locals and its
dead-letter list, and the message returns. `Duplicate` delivers a message once more.

Abstracted: the content of segments, metrics, callouts, timings and URIs; the time between
attempts; transient and persistent failures, which the code retries alike; progress events,
which nothing reads back. The cache is the set of cached segments of a job, arbitrarily warm
at creation. `AtomicCancel` chooses the repository: in-memory tests and updates in one step,
Supabase in two requests.

| run | instance | shows |
|---|---|---|
| `JobFaults` | 1 job, 1 worker, 1 segment, 3 attempts; 1 exception at any step, 1 crash, 1 duplicate | charges, leases, webhooks and terminal statuses survive every combination; a published job comes to rest |
| `JobDeliveries` | 2 workers, 2 jobs, one of them on an unknown tier, 1 attempt; two-step cancellation (Supabase); 1 crash or cancellation, 1 duplicate | two deliveries of one job at once do not take each other's lease; a refused job never runs beside another one |
| `JobSingleDelivery` | 2 segments, 3 attempts; 1 exception before the charge | the runtime implements `JobLifecycle`; segments and counters of a finished job are exact |
| `JobMetering` | violation | a failed job keeps its charge (finding) |
| `JobCrashMidAttempt` | violation | a job completes without a segment (finding) |

*Why these bounds.* What a fault can do is decided by the statement it hits and by the
statements that follow, all of which one fault and one redelivery reach; each of the
exceptional paths ends in `release`, and a second fault starts from a state of the first. One
segment suffices where the loop only repeats itself; the runs about results have two, because
a verdict of `partial` needs one that succeeded beside one that failed. Jobs share nothing
but the workers, hence one job except where two kinds of job matter; there, a crash and a
cancellation do not come together (`OneDisturbance`), because it is the repeated delivery and
the two jobs beside it that the instance is for. Without a bound on crashes a message would
circulate for ever.

*Fairness.* `WF` of each worker's steps: straight-line code goes on, and the broker delivers an
unacknowledged message. Nothing is assumed of clients, who need neither publish nor cancel.

*Refinement.* `ImplementsLifecycle` maps `status` and `charges` to themselves. `JobLifecycle`
allows a success to be demoted to failed only while it is uncharged, one charge, and a
cancellation that the worker overwrites. It is stated for a job delivered once with exceptions
before its charge; the other runs show what each additional fault leaves of it.

*Proved in `JobRuntime_proofs`*, for all constants:

- `TypeCorrect`, which needs `IndexInLoop`: without it the loop index could leave its range.
- `ChargesBacked` (`ChargeIsBacked`), which needs `StoredSoFar`: on the success path the manifest is
  stored when the worker comes to expose it and the packages when it comes to bill, and each
  handler either leaves that path or drops the verdict; that stores are never emptied does the rest.
- `ChargedOncePerDelivery` (`ChargedPerDelivery`), from `ChargeBudget`: charges and the workers that
  may still charge (`ChargeAhead`) are together within the deliveries. A delivery adds one to both
  sides, `consume_minutes` turns a worker that may charge into a charge, and no handler leads back
  before it (`ChargePath`).
- `LeasesGivenBack` (`LeasesAccounted`), from `LeaseBudget`, which counts a worker only until
  `_finalize_job` has released its GPU, since `gpu_allocated` is forgotten later than the lease is
  freed, and from `AllocatesOnce`.
- `ProcessingKeepsLease` (`LeaseHeldWhileProcessing`), the converse, under `ReleasesOnce`: no
  exception between a release and the return of `_finalize_job`. There the handler releases by job
  id once more, and with two deliveries the second release takes the other one's lease (TLC finds
  it as soon as `freegpu` is a fault point with two workers). `LeaseFloor` says that each worker that
  may still release has a lease; `FloorPath` that no step but the allocation comes to hold one.
- `UnsupportedRefused` (`UnsupportedNeverRuns`), which needs `RefusedPath`: a worker with such a job
  in hand is at load, except, report or release and holds no lease.

*Proved in `JobOutcome_proofs`*: `Going` are the steps that keep a worker at its job, and `Alone`
says that such a step touches no other job and no other worker; each case is then about one row.

- `NoSuccessUncharged` (`SuccessIsCharged`), for all constants: whenever the row says completed or
  partial, the charge is made, or a message is there, or some worker is `Unbilled`: it will charge,
  take the status back or hand its message back (`OwedStays`).
- `NoneAbandoned` (`NoJobAbandoned`), for the in-memory repository (`AtomicCancel`): a delivered job
  without a terminal status has a message or an `Unfinished` worker. Over Supabase the write of a
  cancellation may fall after the end of the job, and the claim is false.
- `RuntimeImplementsLifecycle` (`ImplementsLifecycle`), for a job delivered once (`DeliveredOnce`: no
  crash, no duplicate, no exception that returns the message or comes after the charge), any
  number of jobs, workers and segments. `OneMessage` says that a job's message is unpublished,
  queued or in one hand; `RowAt` what its row holds at each step of that hand.
- `OutcomeTold` (`OutcomeAnnounced`), when no two workers have a job at once (`OneAtATime`: the
  broker repeats no message still being worked on, or there is one worker). With two, one announces
  while the other goes back to processing. `HandInv` says who has a job in hand, `Told` that the row
  has the outcome its worker is going to announce, and `Announced` that a terminal status is told
  already or a worker or a message is still to come.
- `CompletedIsComplete` (`CompletedIsWhole`) and `CountersAgree` (`CountersExact`), for a job run once
  (`RunsOnce`: no crash, no duplicate, no exception in the handler or the `finally` clause, which
  would return the message). A second run skips segments whose attempts are used up as they stand,
  *processing* included (the finding of `JobCrashMidAttempt`), and its counts may be those of the
  first run; so the hypothesis is what the code needs. `Course` says at each step how far the loop has
  come (`DoneTo`), that the counters are those of the segments when it is at its head (`Exact`), and
  what the verdict was decided on (`Whole`).

The invariants were model-checked before they were proved, with two workers where the runs have
one. That there are finitely many workers (`WorkersAssumption`) is needed to count them.

## PreviewLaunch

A saved configuration (a version) has one preview, whose id is derived from the upload and
`configured_at`, and a launched preview has one job, whose id is derived from the preview. The
variables are the columns the code decides by. A client has one request in progress;
`step[c]` is its next statement: persist (create), review, and for a launch claim, reload,
create (in memory) or create, upsert, segments (Supabase), revert, bind, publish, confirm.

The Supabase repository differs in three ways that matter: a job is stored in three requests and
deleted again when the last fails; `launched_job_id` refers to a job row, so that the deletion can
be refused; and every update sends all nullable columns, which clears the reference (`Unbind`;
`cleared`, a history variable, has the versions it happened to). The worker is reduced to taking and
ending jobs. Abstracted: metrics, the selection of frames but for what it is made for, and the
storage of the frames.

Where configurations come from is `ConfiguredPreview`. `EraDetection` has the classification as
a set of possible results: `Answers` is what the external model may say, `Normalized` what is
made of it, `Fallback` the deterministic classifier, `Shown` the answer with its rounded
confidence (`edge` is one of 0.695 to 0.70, which is below the threshold and rounds to it). A call
in `UploadConfiguration` is a browser tab's `doing[t]`: profile, insert, patch (`PATCH
/v1/users/me`), session, classify, keep, write, prefer. `Configure` writes `launch_config` and
`configured_at` and lets `PreviewLaunch` save its next version; `BeginPreview` reads the
configuration at `create_preview`'s begin and selects frames or reuses those of a preview with the
same content; `StorePreview` makes the row of what was read. `POST /v1/detect-era` is a neighbour
that shares the classifiers and writes rows of its own.

| run | instance | shows |
|---|---|---|
| `PreviewSession` | the composition: 1 client, 2 tabs, 2 configurations, 3 calls, previews in memory; 2 requests die before they dispatch, 1 call fails | one message per preview, no finished job queued again, pending launches retryable and settled; configurations for what was asked, previews of their configuration, preferences kept |
| `PreviewTwoTabs` | 2 clients, Supabase; 2 faults at any step, confirmation included, 1 expiry | a launched preview was dispatched, a dispatched one approved, and no message is without a job unless the reference to it was cleared |
| `PreviewPublishedTwice` | violation | two clients dispatch one job twice (finding) |

*Bounds.* Two clients are enough for a claim to be lost; a third only loses it too. (Clearing the
reference is different: two clients do it by an expiry only, with three TLC also finds a review that
overlaps two launches, which is why `PublishedJobExists` excepts what was cleared, however it was;
the theorem covers any number.) Two configurations are enough for one to be superseded.
`MaxPublishes` stops launches after so many messages, without which the messages of one preview
would be unbounded. Two durations and an override make a stored detection that answers a save and
one that does not; three calls are a save, one between its steps and one after. `Apart` (in
`PreviewSession`) keeps the whole variety of calls to states without a preview, and `POST
/v1/detect-era`, which shares nothing, to states without either; beside previews one tab saves with
the plainest detection. No step of a preview changes a variable of the configuration, so the
constraint takes no step from a pending launch and `PendingSettles` is checked to the end. The tabs'
repositories are Supabase's in this instance, the previews' the in-memory ones; `PreviewTwoTabs` has
Supabase's previews.

*Fairness.* A request goes on once begun, and the client repeats a launch that answered
`launch_dispatch_failed`, as that answer tells it to. The latter is an assumption about a user,
and only `PendingSettles` uses it.

*Proved* (`ConfiguredPreview_proofs`): `TypeCorrect`; `PublishedApproved`, by the invariant that a preview that reads
approved, and one that a launch is past its load for, was approved once; `LaunchedPublished`,
by the invariant that a launch about to confirm has published. No assumption about interleaving
is needed for either: they hold although the claim does not look at the review. `DispatchedJobExists`
(`PublishedJobExists`), for any number of clients too, by `ReferenceInv`: a reference leads to a row, a
launch about to publish is bound, and so is what was dispatched, unless the reference was cleared;
only the failure of another launch's segments removes a row, and a reference forbids it.

What a launch promises about retries is proved for one client (`OneClient`), because two break it
(What the code does not keep): `PendingStaysApproved` (`PendingIsRetryable`), by `RetryInv`, that a
review under way is of a preview not yet launched and a launch past its load of one that reads
approved; and, without expiry and without a failure after the message is sent (`Undisturbed`),
`DispatchedOnce` (`PublishedOnce`) and `FinishedJobStays` (`FinishedJobKept`), by `OnceInv`: a launch
before its publication is of a preview never published, what was published reads launched or is
about to be confirmed, and no worker has a job that was not published. Requests may die at any step
before. `ComposedLaunches` carries the three over to the composition, whatever the tabs do.

The same module shows, for all constants and any number of tabs, clients and analysts:
`ComposedImplements`, that every step of the composition is a step of `PreviewLaunch` or a stutter,
so that its theorems carry over (`ComposedApproved`); `ConfiguredSoundly`, by the invariant that what
a call is about to keep or write is a detection for its own payload, sound as to the override
(`FoundSound`), and so is the stored one (`DetectionSound`), which a save may take without
classifying; `PreferencesSurvive`, by what a save that nothing crossed has read; and
`PreviewShowsItsConfiguration`, by the invariant that what `create_preview` took is what was made
with the version it is for, with frames of the same duration, and that content determines the
duration, so that reused frames fit. `OverrideFollowsSystem` is about the rows of `POST
/v1/detect-era`, which no run's property is about: before each override of a user there is a row
with what the classifiers said, because a call that is about to store one has stored the other.

## UploadSession

The client's flow (`executeUploadFlow`) is `phase`, with the request it waits for. A request
occupies a slot; when its response is lost the client hears an error and goes on, while the
request keeps its slot and its locals (the row it has read, the offset probed, the address it
answers). Steps of requests: open, insert (create); load, probe, reopen, patch (resume); check,
verify, mark, inspect, label, point, complete (finalize). Sessions of the storage are numbered
in the order they were opened, have received some bytes and may expire; an object may appear
later than its last byte.

The error paths are the code's: a finalize answered 409 is an interruption to the client, which
asks once more where the upload stands; a lost or failing resume in that recovery leaves it
paused, for the user to resume; any other error ends the flow as failed.

Abstracted: bytes to parts an interruption can fall between; name, type and checksum; the
refusals of malformed requests (400), which change nothing; an answer 308 to a last byte is the
late object.

`UploadSession` (three request slots, size 2, five sessions, 2 interruptions, 2 lost responses,
1 expiry, 1 fault) shows all four properties. Three slots let a request and two that lost their
listener run beside each other; size 2 has an offset that is neither 0 nor the size; five
sessions are all that one expiry, one fault and three requests can open, so that this bound never
blocks a request (with six TLC finds the same states). `CompletedStays` is what two requests that
wrote by old rows would break. The instance with size 3, two expiries and two faults
over two slots passes too.

*Fairness.* `WF` of every request's steps (the server answers) and of the client's (the code
goes on, and a user who began an upload presses Resume). `InterruptionsRecover` says that with
connections lost only while bytes are sent the upload gets done.

*Proved*: `TypeCorrect`, with who knows a session of an upload that exists; `CompletedStored`, by
what each later step of a finalization finds done; and `CompletedIsFinal`, the action property.
The last has the longest argument: a request that patches `uploading` has read either `pending`
or `uploading`. One that read `uploading` does not patch the status. One that read `pending` is
the client's first resume, while whose client waits no finalization is under way, or whose
client has given up (`PendingAlone`); a client that has got as far as sending leaves no such
request behind (`StartedSays`); and completed_at is set only with the status (`RowDone`), so
that `_mark_upload_in_progress` finds nothing to patch. `OffersExact` (`OfferIsExact`) rests on the
same account of who waits for whom, and on what a resume has in its locals: the session is the one
it has read until it opens its own, and the offset it is about to answer is what the session holds
(`ProbeHolds`), since nobody sends while the client waits. The invariants held in TLC on the run's
instance before they were proved.

## StripeWebhook

One organisation; events numbered in the order Stripe created them, of a kind each. An instance
handles one delivery at a time, because the route is asynchronous and what it calls is not;
instances run side by side. Steps: resolve, claim, read, lookup, store, audit, mark or fail, answer.
A row's columns hold the events they come from, which is all that order and loss can be told by; the
account's list of invoices keeps the code's order, deduplication and limit (`Listed`; `Kept` is the
comprehension that drops the former items of an invoice, written by positions because the prover has
no definition of `SelectSeq`). `upsert_by_org` reads the row and sends it back whole (`Lookup`,
`Store`). The claim is an insert that does nothing on conflict and then an update of a row that
reads failed; one of the two takes effect, in one statement, so `Claim` is one step.

Stripe delivers an event again until it has seen a 200, also beside a delivery still handled
(`MaxOverlaps`). `Raise` is an exception of a repository: inside the try block it ends in
`mark_failed` and 503, outside it in an error that leaves the claim. `Crash` always leaves it.
`stranded` records the events whose claim was left behind, `raced` that an account was written
over a row changed since it was read; both are history for the properties.

`StripeWebhook` (two instances; a subscription that names the organisation and two invoices of its
customer; 1 exception, 1 crash, 1 overlap) shows `AuditedOnce` without conditions, and
`AckedIsProcessed`, `InvoicesKept` and `AllProcessed` up to the conditions they state. Three events
are one that binds the customer and two that need it and share a list; a second overlap or
crash only adds to the events excepted.

*Fairness.* `WF` of an instance's handling; `SF` of the delivery of each event, because Stripe
retries and an instance becomes free again and again without staying so.

*Proved*: `RecordedOnce`, by the invariant that a claim has one holder, who finds the event
claimed and audited exactly when about to mark it; `AcknowledgedProcessed`, by the invariant that
a claimed event has a holder or was left behind; and `InvoicesListed` (`InvoicesKept`), for any number
of events of each kind and of invoices. `InvoiceInv` says that the list of the account has each
invoice once and every one of which an event is processed, or audited and about to be, while nobody
has written over a changed row and the list has room. The lemmas under it are about the list:
`KeptExactly`, that `Kept` has the items at the given positions and no others, none lost or doubled;
and `ListedKeeps`, that listing an invoice anew loses no other unless the list is full.

## GpuPool, UsageLedger, JobResources

`GpuPool` has the lease rows as a set, and `gpu[p]` as the call of
the repository a party is about to make: depth, list, grow, shrink, relist, write (a
reconciliation, whose `caller` says where it returns to), pick, take, restore (`allocate_gpu`),
find, free (`release_gpu`). Parties are jobs and schedulers (`POST
/internal/ops/runtime/reconcile`). `PoolRaise` is an exception of the repository: `Restore` gives the
lease back when the second reconciliation of an allocation fails, a release that raises in
`_finalize_job` is called once more by the `finally` clause (`again`), and a lease that a failing
call has left as it was is that of a job in `astray`. The code takes rows in the order of
`created_at` (the first idle lease to take, the first idle ones to delete); the model takes any, which allows
all the code does and more, and no property depends on the order.

`UsageLedger` has one user's row per month. `place[c]` of a call is its next statement: price
(the plan's limit), select, insert, relimit (`get_or_create` by a user's call) or upsert (by a
worker's), write, decide. Each update writes the columns the code writes, computed from the row the
call has read (`Estimated`, `Consumed`, `Approved`). The month, the pricebook's revision and the
museum's contract change between any two statements. `raced`, `straddled` and `crowded` are history:
charges that overlapped, months that turned inside a call, jobs admitted while another was open.

`JobResources` is both along the life of a job: `Admit` decides and stores the job as queued,
`Charge` follows the release of the GPU.

`JobResources` (two jobs, one scheduler, one other call of the user; minimum of 1 warm instance,
threshold 2; two minutes a job, of a limit of 3 or 2; two months) shows that a cold instance is its
job's own and gone with it (`ColdIsOwn`), that leases and jobs match while the pool's calls do not
overlap (`LeasesMatchJobs`), that the pool comes back to its minimum (`PoolSettles`), that the used
minutes are the charged ones (`UsedIsCharged`) and exceed the budget a job was admitted under by the
jobs admitted beside another one at most (`BudgetKept`). *Bounds:* two disturbances in a behaviour,
both in the pool or both in the ledger (`Disturbances`): the components share no row, and what
disturbs one is no concern of the other. For the same reason calls of the two do not overlap
(`Apart`): the order of independent steps makes no difference. In the pool an overlap and an
exception do not come together; the proofs have no such bound. Two jobs are enough for a stale list
and for two charges that overlap; a limit below the two jobs' minutes makes the second a refused one.
The jobs' deliveries, attempts and failures are `JobRuntime`'s.

*Proved of the pool* (`GpuPool_proofs`, for any jobs, schedulers, sizes and bounds):

- `PoolTypeCorrect`, with the control flow: which reconciliation a party can be in (`Control`).
- `ColdInstances` (`ColdIsOwn`), however calls overlap and fail. Stale lists put rows back, so that
  what holds of the table must hold of every copy a call has (`Known`): a row names a job just when
  it is busy (`RowsMatch`), is warm or cold for good (`WarmthKept`), and names the job it was taken for
  (`NamedAlike`, `NamedTaken`). Lists are of warm rows (`ListsWarm`), so that a cold one is written
  by its job only: while the job holds it it is in the table (`ColdHeld`), once the job is over it is
  gone unless a call failed (`ColdGone`). `KnownStep` says once for all steps what a step may bring.
- `LeasesAreHeld` (`LeasesMatchJobs`). With no overlap one party at most is in a call (`OneCaller`) and
  what it has listed or picked is what the table has (`ListsCurrent`, `PickCurrent`); so a job that
  runs has its lease (`JobsHold`), and a busy lease the job it names, unless that is astray
  (`BusyMatched`).
- `PoolComesBack` (`PoolSettles`). Without failures (`Unfailing`) whoever leaves a call leaves the
  pool as it was asked for (`Reconciled`), and a release asks for a depth of 0 (`ReleaseDepth`). So
  whenever a job has ended and nobody is in a call (`Quiet`), the leases are the minimum.

*Proved of the ledger* (`UsageLedger_proofs`, for all constants):

- `LedgerTypeCorrect`, with who may launch and charge (`Roles`).
- `UsedIsWhatIsCharged` (`UsedIsCharged`): while no two charges have overlapped one worker at most
  stands before its write (`Alone`), and unless the month turned it has read the used minutes the row
  still has (`Fresh`); a month without a row has no charge (`Blank`), so that creating it loses none.
- `BudgetIsKept` (`BudgetKept`). `BudgetKept` is not inductive: it grants a crowded job its minutes
  when it is admitted, but the job may read the row, wait, and write on top of whatever it read. The
  invariant grants them when the job is settled (`Settled`, `Spent`): then the used minutes are within
  the budget (`Within`) and so is whatever a worker has read (`ReadFits`). A job that is admitted
  alone, of which there is one at most (`OneLone`), was tested against what it read before anyone
  else could charge; since then only crowded jobs have, each counted in `Spent`. So its minutes fit
  upon the used ones and upon all that any worker is about to add to (`LoneFits`), and its own
  charge needs nothing granted. `JobsInv` ties the estimate a job is admitted for to the minutes it
  is charged. `MinutesOf`, the sum of the minutes of some jobs, is the number of pairs of a job and
  one of its minutes, so that `MinutesGrow` and `MinutesAdd` follow from the library's facts about
  finite sets; a sum by recursion the prover could not unfold. The invariant held in TLC for two jobs
  and all disturbances before it was proved.

*Proved of the composition* (the same module): `ResourcesImplementPool` and `ResourcesImplementLedger`,
so that each of the above holds of `JobResources` too (`Resources*`); and `JobsInTurn`: a job about to
be admitted is not in the pool, so that `Enqueue` never holds an admission up, and a job is charged
only when its GPU has been released.

## OutputDelivery

One job, run once per delivery of its message. `step[d]` is where `_finalize_job` of a delivery
stands: policy; store, label, storeRedacted, labelRedacted, upsert (`finalize_manifest_payload` and the
row); delete, deleteRedacted, markDeleted or markFailed (nothing is retained); expose, proof; av1 and
h264 (the packages); charge; and the handlers unmanifested, unpackaged, rescue, handler. An artifact
is told apart by the delivery it is of: an object's name is drawn per run, a manifest carries its time,
a proof the hash of its manifest. An object has the days of its prefix, which is what the lifecycle
rules of the bucket delete by (`Lifecycle`), and whether it is labelled. `UpdateSettings` is the
museum's administrator, `Reader` a request that finds a package expired and marks it in a second
statement. Exceptions lead to the handler the code has at the step (`OnRaise`); a crash takes the
delivery and the message returns.

`OutputDelivery` (a museum's job, two deliveries, one reader; retention of 0 or 1 day or none; three
days; 1 exception, 1 crash, 1 duplicate, 1 change of settings) shows `RetainedIsStored`,
`PackagesProved` and `DeletedWhenExpired` of any overlap, `DeletedIsGone` and `DeliveredIsWhole` of
deliveries one after the other. Two deliveries are enough for one to replace, or to be overtaken by,
another; the third day is the one on which what was kept for one day is expired. A plan
other than the museum's has the policy of its tier, which is one of the policies of the museum.

*Proved* (`OutputDelivery_proofs`, for all constants): `TypeCorrect`, with the rows a delivery or a
reader relies on; `PackagesAreProved`; `DeletedAfterExpiry`; and `RetainedStored`, which has the
longest argument. Names are drawn per run, so that the row names no run that has not come to write
it (`NotYetOwn`), and the row's objects are deleted only when the row says so (`DeletesOwn`); each
step of a run has the objects of the steps before it, classified, unless a lifecycle rule is to
delete them, which it does no earlier than the row's expiry, because the row's time is counted from
the run and the object's age from when it was stored (`Timely`, `StoredSoFar`, `Retained`).
`MarkedIsGone` (`DeletedIsGone`) and `DeliveredWhole` (`DeliveredIsWhole`) are about runs one after
the other (`overlapped` is part of the properties): `CopiesSoFar` says which copies of a run there
are at each of its steps, so that a run that marks its manifest has deleted both; `Solo` that until
two runs overlap one is at work, and that the row, what is shown and the first package are its own
as far as it has come, so that when it charges all of them are of one run.

## Findings

- **A failed job keeps its charge** (`JobMetering`). Between `consume_minutes` and the end of
  `process_job` an exception fails the job; the handler consumes 0 further minutes and does not
  give back the ones charged. The requirements say only successful jobs are metered.
- **A job completes without a segment** (`JobCrashMidAttempt`). attempt_count is stored before
  an attempt and the result after it; a worker that dies in the last attempt leaves the segment
  processing with no attempt left, the redelivery skips it, and finalization looks for failed
  segments only.
- **A preview is dispatched twice** (`PreviewPublishedTwice`). The launch that loses the claim
  goes on to create, bind and publish the job the winner is publishing.

## What the code does not keep

Properties one might expect, which the models show the code not to keep under some fault. No
line of the repository promises them in so many words, or the finding above covers the
promise; they are listed so that a reader does not take the runs for more than they show.

- `MeteredOnce` (`JobFaults`): a redelivered message of a finished job is processed and charged
  anew; there is no test for a terminal status at load, and with one (see the mutant
  `LoadSkipsTerminal`) a crash between the seal and the charge would lose the charge.
- `FailedIsDeadLettered` (`JobFaults`): the inner handlers of `_finalize_job` fail a job without
  a dead letter, and the list dies with its process.
- `CancellationHonoured` (`JobFaults`, with no fault at all): a cancellation accepted after the
  last look at the status, or before PROCESSING is written, is overwritten.
- `CancelKeepsTerminal` (`JobDeliveries`): the two-step cancellation overwrites a terminal status;
  with no message left nothing moves the job again, which is why no liveness is checked with
  `AtomicCancel = FALSE`.
- `LeaseHeldWhileProcessing` with an exception inside `release_gpu` and two workers: the lease
  freed twice is the other delivery's.
- The outcome's event is looked up by the status of the row last returned
  (`job_runtime.py:256`): a row that another delivery or a cancellation has made active
  again is a KeyError, after the charge.
- A job whose `publish_job` failed stays queued for ever unless its creator is a preview launch,
  which is repeated.
- `FinishedJobKept` with two clients, with a fault at confirm, or with `MaxExpiries = 1` (the last
  loses `PublishedOnce` too): a launch repeated, or one of a preview made anew after it expired,
  resets a job that is running or finished, because the id of the job is the preview's.
- `PendingIsRetryable` with two clients: a preview reviewed between load and claim is
  launch_pending and rejected, beyond review and launch.
- `PublishedJobExists` without its exception, on Supabase (`PreviewTwoTabs`): marking an expired
  preview clears `launched_job_id`, and with it what protects the job row from a failed segment
  write. With three clients a review that overlaps the launches clears it without any expiry.
- Uploads: two resumes of one expired session may leave the row with another address than the
  client's; the client then sends everything, is refused with 409 and has to resume again. A PUT
  to an expired session ends the flow as failed, although a resume would open a new one. A
  client that finalizes without ever resuming, which the web client never does, could race a
  first resume that takes its completed row back: `CompletedStays` is about the web client.
- Stripe: a claim left behind (`stripe_webhook_service.py:100`, `:136`, `:144`) is answered as a
  duplicate ever after; if it is the subscription's that binds the customer, the invoices fail
  for ever. A duplicate is acknowledged while the claim's holder may still fail. Two instances
  that upsert the account at once lose one's columns. Subscription events overwrite newer
  state, and `last_synced_at` goes back, when they arrive out of order.

- Attempts: two deliveries beside each other both count from the attempts they have read, and
  together exceed the budget of a segment.
- GPU pool: calls that overlap take the same idle lease, or write a lease back that was released or
  deleted meanwhile (`LeasesMatchJobs` and `PoolSettles` without `overlaps = 0`).
- Usage: of two charges that overlap one is lost (`UsedIsCharged` without `raced`); a call that reads
  the old month's row writes its columns to the new month's, or fails. An approval of kind
  `single_job` lapses but leaves its approved minutes, which the budget still counts. `_cancel_job`
  does not name the organisation, so that it sets a museum's limit back to the pricebook's. A new
  limit leaves the alerts of the old one.
- Output: a crash between a stored object and its row leaves the object without a row; with a
  retention of 0 days for ever, because no lifecycle rule applies to it. A deletion left pending or
  failed is never tried again (`get_retention_delete_record_for_worker` has no caller). The job's row
  says `manifest_available` of a manifest deleted at once. A request that found a package expired
  may mark the one of a newer run. Deliveries that overlap leave a manifest of one run with
  packages of another.
- Configuration: a `PATCH` of the profile between a save's reading and its last step is lost
  (`PreferencesKept` says what is kept). Two first calls of a user that overlap both insert a profile,
  and one fails. `docs/specs/chronosrefine_functional_requirements.md:278` wants an override at any
  confidence, `chronosrefine_design_requirements.md:114` below 0.70, which is what uploads do; so
  when the provider has failed, or the confidence is between 0.695 and 0.70, the answer asks for a
  manual confirmation and an override is refused. `POST /v1/detect-era` at any job id upserts
  its row as queued.

To reproduce one, put the property in the cfg of the run named, with the constants named.

## Proved, checked, and neither

Proved for all values of the constants: the theorems in PROJECT.json, from the named assumptions of
the modules alone (`ConstantsAssumption`, `LedgerAssumption`, `DeliveryAssumption`,
`WorkersAssumption`, `NoneIsNoRow` and the like, which say that bounds are numbers and that a model
value for "none" is no row); TLC evaluates each assumption in the runs. Only model-checked: all
liveness: fairness and ENABLED are out of TLAPS's reach. Every invariant and action property of a
passing run is stated by a theorem. The mutants in PROJECT.json are plausible bugs, one at least for every property of a passing run; each
makes its property fail.

`CHECK_DEADLOCK FALSE` is in every cfg, because the systems do stop: when every bound is used up,
every job settled, every upload done, every event acknowledged.

## Not modelled

- *Components without state of interest*, with the reasons in PROJECT.json: the Stripe client,
  quality, reproducibility and uncertainty, authentication (every row the models have belongs to one
  user or organisation), rate limits and log settings, observability with its incidents and
  objectives, the HTTP layer, schema, infrastructure and scripts.
- *The order of the in-memory queue:* which message comes next is nondeterministic, which includes
  every order.
- *Arithmetic:* costs, metrics, scene detection, the selection of frames, hashes and signatures.
- *A worker that dies inside a call of the pool or the ledger:* `JobRuntime` has the crash, with
  leases and charges as numbers; `GpuPool` and `UsageLedger` have exceptions only.
- *The billing summary and the portal*, which ask Stripe and change nothing here.
- *Wording:* messages, logs, formatting of answers, malformed requests.
