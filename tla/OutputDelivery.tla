--------------------------- MODULE OutputDelivery ---------------------------
(***************************************************************************)
(* What a finished job leaves behind: _finalize_job of job_runtime.py over  *)
(* the manifest (transformation_manifest.py, manifest_retention.py,         *)
(* data_classification.py), the deletion proof and the export packages      *)
(* (output_delivery.py), and the API that hands them out.                   *)
(*                                                                         *)
(* A job is run once per delivery of its message: process_job asks for no   *)
(* particular status, so that a delivery finds the artifacts of those       *)
(* before it and replaces them one by one.  An artifact is told apart by    *)
(* the delivery that made it: the manifest carries the time of the run, its *)
(* objects have a name of their own, and the proof the hash of the          *)
(* manifest.  Exceptions and crashes fall between any two of the writes, a  *)
(* museum changes its retention settings, and the bucket deletes by age.    *)
(***************************************************************************)
EXTENDS Naturals, FiniteSets

CONSTANTS
    None,            \* the None of the code: no setting, no row, no end of the retention
    Delivery,        \* the deliveries of the job's message
    Reader,          \* requests for the job's export packages
    Museum,          \* whether the job's plan is the museum's
    TierDays,        \* _TIER_DEFAULT_RETENTION_DAYS of the plan
    Days,            \* the days a museum may choose, besides None; 0 is "at once"
    PackageDays,     \* max_retention_days_for_plan
    MaxClock,        \* bound: days that pass
    MaxFaults,       \* bound: exceptions
    MaxCrashes,      \* bound: crashes of a worker
    MaxDuplicates,   \* bound: messages the queue delivers once more
    MaxSettings      \* bound: changes of the retention settings

ASSUME DeliveryAssumption ==
    /\ None \notin Delivery \cup Nat \cup {"av1", "h264", "pending", "failed", "deleted"}
    /\ Museum \in BOOLEAN
    /\ TierDays \in Nat \cup {None}
    /\ Days \subseteq Nat
    /\ PackageDays \in Nat
    /\ MaxClock \in Nat /\ MaxFaults \in Nat /\ MaxCrashes \in Nat
    /\ MaxDuplicates \in Nat /\ MaxSettings \in Nat

Variant == {"av1", "h264"}
Copy == {"full", "redacted"}

Policy == [days : Days \cup {TierDays, None}, redact : BOOLEAN]
DefaultPolicy == [days |-> TierDays, redact |-> FALSE]

\* An object of the bucket: its prefix is the class of its days, its basename drawn per run.
Object == [name : Delivery, copy : Copy, days : Days \cup {TierDays, None}, since : Nat,
           labelled : BOOLEAN]

ManifestRow == [of : Delivery, name : Delivery, expires : Nat \cup {None}, redact : BOOLEAN,
                deletion : {None, "pending", "failed", "deleted"}]

Package == [of : Delivery, until : Nat, deleted : BOOLEAN]

ASSUME NoneIsNoRow == None \notin ManifestRow \cup Package

\* Where a delivery stands; in "charge" the usage is charged and the costs are reconciled.
Step == {"idle", "run", "policy", "store", "label", "storeRedacted", "labelRedacted", "upsert",
         "delete", "deleteRedacted", "markFailed", "markDeleted", "expose", "proof", "av1", "h264",
         "unmanifested", "unpackaged", "charge", "rescue", "handler", "over"}

VARIABLES
    status,      \* media_jobs.status; "completed" stands for partial, too
    shown,       \* the manifest columns of the job row
    manifest,    \* job_manifests: the row of the job
    objects,     \* the manifests in the bucket
    proofs,      \* job_deletion_proofs
    packages,    \* job_export_packages: the row of each variant
    setting,     \* org_data_retention_settings: the row of the organisation
    clock,       \* days
    messages,    \* messages of the job in the queue
    step,        \* where each delivery stands; its locals are:
    policy,      \*   retention_policy
    at,          \*   generated_at
    asking,      \* the variant a reader has found to be expired
    faults, crashes, duplicates, settings,  \* what the environment has used of its bounds
    overlapped,  \* history: two deliveries were at work at once
    lapsed       \* history: variants replaced after their package had expired

artifacts == <<manifest, objects, proofs, packages>>
outputRows == <<status, shown, artifacts>>
deliveryLocals == <<policy, at>>
outputBounds == <<faults, crashes, duplicates, settings>>
vars == <<outputRows, setting, clock, messages, step, deliveryLocals, asking, outputBounds,
          overlapped, lapsed>>

Init ==
    /\ status = "queued" /\ shown = None
    /\ manifest = None /\ objects = {} /\ proofs = {}
    /\ packages = [x \in Variant |-> None]
    /\ setting = None /\ clock = 0 /\ messages = 1
    /\ step = [d \in Delivery |-> "idle"]
    /\ policy = [d \in Delivery |-> DefaultPolicy]
    /\ at = [d \in Delivery |-> 0]
    /\ asking = [r \in Reader |-> None]
    /\ faults = 0 /\ crashes = 0 /\ duplicates = 0 /\ settings = 0
    /\ overlapped = FALSE /\ lapsed = {}

At(d, s) == step[d] = s
Go(d, s) == step' = [step EXCEPT ![d] = s]
InProgress(d) == step[d] \notin {"idle", "over"}

-----------------------------------------------------------------------------
(* The run of a delivery, up to the terminal status.                       *)

\* The message is taken and the job set to processing, whatever its status.
Start(d) ==
    /\ At(d, "idle") /\ messages > 0
    /\ messages' = messages - 1
    /\ status' = "processing"
    /\ overlapped' = (overlapped \/ \E e \in Delivery : InProgress(e))
    /\ Go(d, "run")
    /\ UNCHANGED <<shown, artifacts, setting, clock, deliveryLocals, asking, outputBounds, lapsed>>

\* The terminal status of the run; a failed job gets no artifacts.
Seal(d) ==
    /\ At(d, "run")
    /\ \E verdict \in {"completed", "failed"} :
          /\ status' = verdict
          /\ Go(d, IF verdict = "completed" THEN "policy" ELSE "charge")
    /\ at' = [at EXCEPT ![d] = clock]
    /\ UNCHANGED <<shown, artifacts, setting, clock, messages, policy, asking, outputBounds,
                   overlapped, lapsed>>

-----------------------------------------------------------------------------
(* The manifest.                                                           *)

\* The default of the tier, unless a museum has made its own setting.
ResolvePolicy(d) ==
    /\ At(d, "policy")
    /\ policy' = [policy EXCEPT ![d] = IF Museum /\ setting # None THEN setting ELSE DefaultPolicy]
    /\ Go(d, "store")
    /\ UNCHANGED <<outputRows, setting, clock, messages, at, asking, outputBounds, overlapped, lapsed>>

\* Mutant of Basename: the objects are named after the job.
BasenameOfJob(d) == CHOOSE e \in Delivery : TRUE

\* object_basename: drawn anew in each run.
Basename(d) == d

Others(name, copy) == {o \in objects : o.name # name \/ o.copy # copy}

\* An upload replaces the object of that name, its metadata included.
Put(d, copy) ==
    objects' = Others(Basename(d), copy)
                  \cup {[name |-> Basename(d), copy |-> copy, days |-> policy[d].days,
                         since |-> clock, labelled |-> FALSE]}

\* patch_object_metadata: the classification becomes metadata of the object, if that is there.
Label(d, copy) ==
    objects' = {IF o.name = Basename(d) /\ o.copy = copy THEN [o EXCEPT !.labelled = TRUE] ELSE o :
                o \in objects}

OnManifest == UNCHANGED <<status, shown, proofs, packages, setting, clock, messages,
                          deliveryLocals, asking, outputBounds, overlapped, lapsed>>

Store(d) ==
    /\ At(d, "store")
    /\ Put(d, "full")
    /\ Go(d, "label")
    /\ UNCHANGED manifest /\ OnManifest

Classify(d) ==
    /\ At(d, "label")
    /\ Label(d, "full")
    /\ Go(d, IF policy[d].redact THEN "storeRedacted" ELSE "upsert")
    /\ UNCHANGED manifest /\ OnManifest

StoreRedacted(d) ==
    /\ At(d, "storeRedacted")
    /\ Put(d, "redacted")
    /\ Go(d, "labelRedacted")
    /\ UNCHANGED manifest /\ OnManifest

ClassifyRedacted(d) ==
    /\ At(d, "labelRedacted")
    /\ Label(d, "redacted")
    /\ Go(d, "upsert")
    /\ UNCHANGED manifest /\ OnManifest

\* The one row of the job is replaced; days of 0 ask for the deletion of the objects.
UpsertManifest(d) ==
    /\ At(d, "upsert")
    /\ LET days == policy[d].days
       IN  /\ manifest' = [of |-> d, name |-> Basename(d),
                           expires |-> IF days = None THEN None ELSE at[d] + days,
                           redact |-> policy[d].redact,
                           deletion |-> IF days = 0 THEN "pending" ELSE None]
           /\ Go(d, IF days = 0 THEN "delete" ELSE "expose")
    /\ UNCHANGED objects /\ OnManifest

DeleteObject(d) ==
    /\ At(d, "delete")
    /\ objects' = Others(Basename(d), "full")
    /\ Go(d, IF policy[d].redact THEN "deleteRedacted" ELSE "markDeleted")
    /\ UNCHANGED manifest /\ OnManifest

DeleteRedacted(d) ==
    /\ At(d, "deleteRedacted")
    /\ objects' = Others(Basename(d), "redacted")
    /\ Go(d, "markDeleted")
    /\ UNCHANGED manifest /\ OnManifest

\* The row is found by the job alone: in an overlap it may be of another delivery.
Mark(d, from, outcome, next) ==
    /\ At(d, from)
    /\ manifest' = [manifest EXCEPT !.deletion = outcome]
    /\ Go(d, next)
    /\ UNCHANGED objects /\ OnManifest

MarkDeleted(d) == Mark(d, "markDeleted", "deleted", "expose")
MarkFailed(d) == Mark(d, "markFailed", "failed", "unmanifested")

\* The job row names the manifest.  The packages are skipped if it has meanwhile another status.
Expose(d) ==
    /\ At(d, "expose")
    /\ shown' = d
    /\ Go(d, IF status = "completed" THEN "proof" ELSE "charge")
    /\ UNCHANGED <<status, artifacts, setting, clock, messages, deliveryLocals, asking, outputBounds,
                   overlapped, lapsed>>

-----------------------------------------------------------------------------
(* The proof and the packages.                                             *)

\* Mutant of Prove: the proof is built and not stored.
ProveUnstored(d) == UNCHANGED proofs

\* The proof is found by the hash of the manifest: the one of another run stays.
Prove(d) == proofs' = proofs \cup {d}

\* materialize_delivery_artifacts begins, at a time of its own.
PersistProof(d) ==
    /\ At(d, "proof")
    /\ Prove(d)
    /\ at' = [at EXCEPT ![d] = clock]
    /\ Go(d, "av1")
    /\ UNCHANGED <<status, shown, manifest, objects, packages, setting, clock, messages, policy,
                   asking, outputBounds, overlapped, lapsed>>

\* The package of a variant is replaced, a deleted one included.
UpsertPackage(d, x) ==
    /\ At(d, x)
    /\ packages' = [packages EXCEPT ![x] = [of |-> d, until |-> at[d] + PackageDays, deleted |-> FALSE]]
    /\ lapsed' = IF packages[x] # None /\ packages[x].until < clock THEN lapsed \cup {x} ELSE lapsed
    /\ Go(d, IF x = "av1" THEN "h264" ELSE "charge")
    /\ UNCHANGED <<status, shown, manifest, objects, proofs, setting, clock, messages,
                   deliveryLocals, asking, outputBounds, overlapped>>

-----------------------------------------------------------------------------
(* The end of a run.                                                       *)

\* The nested handlers fail the job and go on to its charge.
FailJob(d) ==
    /\ step[d] \in {"unmanifested", "unpackaged", "rescue", "handler"}
    /\ status' = "failed"
    /\ Go(d, IF step[d] \in {"rescue", "handler"} THEN "over" ELSE "charge")
    /\ UNCHANGED <<shown, artifacts, setting, clock, messages, deliveryLocals, asking, outputBounds,
                   overlapped, lapsed>>

Charge(d) ==
    /\ At(d, "charge")
    /\ Go(d, "over")
    /\ UNCHANGED <<outputRows, setting, clock, messages, deliveryLocals, asking, outputBounds,
                   overlapped, lapsed>>

\* Mutant of OnRaise: a deletion that fails counts as done.
OnRaiseDeletes(s) ==
    CASE s \in {"delete", "deleteRedacted"} -> {"markDeleted"}
      [] s \in {"proof", "av1", "h264"} -> {"unpackaged"}
      [] s \in {"unmanifested", "unpackaged", "charge"} -> {"rescue"}
      [] s = "run" -> {"rescue", "handler"}
      [] s = "rescue" -> {"handler"}
      [] OTHER -> {"unmanifested"}

\* Mutant of OnRaise: packages that cannot be made are left out.
OnRaiseSkips(s) ==
    CASE s \in {"delete", "deleteRedacted"} -> {"markFailed"}
      [] s \in {"proof", "av1", "h264"} -> {"charge"}
      [] s \in {"unmanifested", "unpackaged", "charge"} -> {"rescue"}
      [] s = "run" -> {"rescue", "handler"}
      [] s = "rescue" -> {"handler"}
      [] OTHER -> {"unmanifested"}

\* The handler an exception is caught by.
OnRaise(s) ==
    CASE s \in {"delete", "deleteRedacted"} -> {"markFailed"}
      [] s \in {"proof", "av1", "h264"} -> {"unpackaged"}
      [] s \in {"unmanifested", "unpackaged", "charge"} -> {"rescue"}
      [] s = "run" -> {"rescue", "handler"}
      [] s = "rescue" -> {"handler"}
      [] OTHER -> {"unmanifested"}

\* The database, the bucket or the pricing fails; an exception of the last handler hands the
\* message back.
Raise(d) ==
    /\ InProgress(d)
    /\ faults < MaxFaults
    /\ faults' = faults + 1
    /\ IF At(d, "handler")
       THEN Go(d, "over") /\ messages' = messages + 1
       ELSE (\E s \in OnRaise(step[d]) : Go(d, s)) /\ UNCHANGED messages
    /\ UNCHANGED <<outputRows, setting, clock, deliveryLocals, asking, crashes, duplicates, settings,
                   overlapped, lapsed>>

\* The worker is gone; the message it has not acknowledged is delivered once more.
Crash(d) ==
    /\ InProgress(d)
    /\ crashes < MaxCrashes
    /\ crashes' = crashes + 1
    /\ Go(d, "over")
    /\ messages' = messages + 1
    /\ UNCHANGED <<outputRows, setting, clock, deliveryLocals, asking, faults, duplicates, settings,
                   overlapped, lapsed>>

-----------------------------------------------------------------------------
(* The requests.                                                           *)

\* What GET manifest hands out: a row neither deleted, nor about to be, nor expired.
Served ==
    /\ manifest # None /\ manifest.deletion = None
    /\ manifest.expires = None \/ manifest.expires > clock

\* Mutant of Expired: a package expires at the time it is available until.
ExpiredEarly(package) == package.until <= clock

Expired(package) == package.until < clock

\* GET export of a delivered job: an expired package is still to be marked, any other is answered
\* as it is, with a link that ends with it.
ReadPackage(r, x) ==
    /\ asking[r] = None
    /\ status = "completed"
    /\ packages[x] # None /\ ~packages[x].deleted
    /\ Expired(packages[x])
    /\ asking' = [asking EXCEPT ![r] = x]
    /\ UNCHANGED <<outputRows, setting, clock, messages, step, deliveryLocals, outputBounds,
                   overlapped, lapsed>>

\* The package is found by job and variant.
ExpirePackage(r) ==
    /\ asking[r] # None
    /\ packages' = [packages EXCEPT ![asking[r]].deleted = TRUE]
    /\ asking' = [asking EXCEPT ![r] = None]
    /\ UNCHANGED <<status, shown, manifest, objects, proofs, setting, clock, messages, step,
                   deliveryLocals, outputBounds, overlapped, lapsed>>

\* PATCH retention settings, of a museum alone.
UpdateSettings ==
    /\ Museum
    /\ settings < MaxSettings
    /\ settings' = settings + 1
    /\ \E days \in Days \cup {None}, redact \in BOOLEAN :
          setting' = [days |-> days, redact |-> redact]
    /\ UNCHANGED <<outputRows, clock, messages, step, deliveryLocals, asking, faults, crashes,
                   duplicates, overlapped, lapsed>>

-----------------------------------------------------------------------------
(* The queue, the bucket and the time.                                     *)

Duplicate ==
    /\ duplicates < MaxDuplicates
    /\ duplicates' = duplicates + 1
    /\ messages' = messages + 1
    /\ UNCHANGED <<outputRows, setting, clock, step, deliveryLocals, asking, faults, crashes,
                   settings, overlapped, lapsed>>

\* The lifecycle rules: objects under the prefix of a class with days go when they are as old.
Overdue(o) == o.days # None /\ o.days # 0 /\ o.since + o.days <= clock

Lifecycle ==
    /\ \E o \in objects : Overdue(o) /\ objects' = objects \ {o}
    /\ UNCHANGED <<manifest, step>> /\ OnManifest

PassDay ==
    /\ clock < MaxClock
    /\ clock' = clock + 1
    /\ UNCHANGED <<outputRows, setting, messages, step, deliveryLocals, asking, outputBounds,
                   overlapped, lapsed>>

-----------------------------------------------------------------------------

FinalizeManifest(d) ==
    \/ ResolvePolicy(d) \/ Store(d) \/ Classify(d) \/ StoreRedacted(d) \/ ClassifyRedacted(d)
    \/ UpsertManifest(d) \/ DeleteObject(d) \/ DeleteRedacted(d) \/ MarkDeleted(d) \/ MarkFailed(d)

Next ==
    \/ \E d \in Delivery :
          \/ Start(d) \/ Seal(d) \/ FinalizeManifest(d) \/ Expose(d) \/ PersistProof(d)
          \/ \E x \in Variant : UpsertPackage(d, x)
          \/ FailJob(d) \/ Charge(d) \/ Raise(d) \/ Crash(d)
    \/ \E r \in Reader : ExpirePackage(r) \/ \E x \in Variant : ReadPackage(r, x)
    \/ UpdateSettings \/ Duplicate \/ Lifecycle \/ PassDay

Spec == Init /\ [][Next]_vars

-----------------------------------------------------------------------------
(* Properties.                                                             *)

\* Rows, objects and locals stay within their types.
TypeOK ==
    /\ status \in {"queued", "processing", "completed", "failed"}
    /\ shown \in Delivery \cup {None}
    /\ manifest \in ManifestRow \cup {None}
    /\ objects \subseteq Object
    /\ proofs \subseteq Delivery
    /\ packages \in [Variant -> Package \cup {None}]
    /\ setting \in [days : Days \cup {None}, redact : BOOLEAN] \cup {None}
    /\ clock \in Nat /\ messages \in Nat
    /\ step \in [Delivery -> Step]
    /\ policy \in [Delivery -> Policy]
    /\ at \in [Delivery -> Nat]
    /\ asking \in [Reader -> Variant \cup {None}]
    /\ faults \in Nat /\ crashes \in Nat /\ duplicates \in Nat /\ settings \in Nat
    /\ overlapped \in BOOLEAN /\ lapsed \subseteq Variant

\* A manifest that GET manifest hands out has its object in the bucket, classified, and the
\* redacted one too if there is one: however the deliveries overlap, where they break off, what
\* the settings become and when the lifecycle rules run.
RetainedIsStored ==
    Served =>
       \A copy \in IF manifest.redact THEN Copy ELSE {"full"} :
          \E o \in objects : o.name = manifest.name /\ o.copy = copy /\ o.labelled

\* A manifest marked as deleted has left nothing in the bucket, as long as no two deliveries are
\* at work at once.
DeletedIsGone ==
    manifest # None =>
       \/ manifest.deletion # "deleted"
       \/ overlapped
       \/ \A o \in objects : o.name # manifest.name

\* The queue is empty and no delivery at work.
Settled == messages = 0 /\ \A d \in Delivery : ~InProgress(d)

\* A job that has come to rest as delivered shows the manifest of its row, and has both packages
\* and the proof of the same run: however often it was run before, and wherever those runs broke
\* off, unless two overlapped.
DeliveredIsWhole ==
    Settled /\ status = "completed" /\ ~overlapped =>
       /\ shown \in proofs
       /\ manifest # None /\ manifest.of = shown
       /\ \A x \in Variant : packages[x] # None /\ packages[x].of = shown

\* The deletion proof that a package names can be fetched, although runs replace packages and
\* proofs side by side.
PackagesProved == \A x \in Variant : packages[x] # None => packages[x].of \in proofs

\* A package is marked as deleted after its time only, unless the request that found it expired
\* was overtaken by the package of a new run.
DeletedWhenExpired ==
    \A x \in Variant :
       packages[x] # None /\ packages[x].deleted => packages[x].until < clock \/ x \in lapsed
=============================================================================
