---------------------------- MODULE EraDetection ----------------------------
(***************************************************************************)
(* Era detection: app/services/era_detection_service.py over the two       *)
(* classifiers (vertex_gemini.py, era_classifier.py) and the rows          *)
(* POST /v1/detect-era leaves behind (db/phase2_store.py).                 *)
(*                                                                         *)
(* The eras of the catalog are told apart by what the rest of the code     *)
(* asks of them: whether their capture medium is one of early photography, *)
(* which a plan with 1080p processing does not include.  A confidence is   *)
(* high (0.70 or more), low, or at the edge: below 0.70 but rounded to it. *)
(***************************************************************************)
EXTENDS Naturals, Sequences

CONSTANTS
    Named,      \* the era of the medium the file's names and MIME type name, or Unknown
    Image,      \* by its MIME type or extension the file is an image
    Mystery,    \* the name of the file says "mystery"
    Analyst,    \* callers of POST /v1/detect-era, about one job id of their own
    MaxEraCalls \* bound: calls of POST /v1/detect-era

Era == {"early", "later"}
Confidence == {"low", "edge", "high"}
Unknown == "unknown"
NoOverride == "none"

ASSUME EraAssumption ==
    /\ Named \in Era \cup {Unknown} /\ Image \in BOOLEAN /\ Mystery \in BOOLEAN
    /\ MaxEraCalls \in Nat

VARIABLES
    eraJob,     \* the media_jobs row of the job: absent or queued
    eraRows,    \* its era_detections, in the order of created_at
    analysing,  \* where each call stands; its other locals are:
    eraWanted,  \*   manual_override_era
    eraFound,   \*   the classification
    eraCalls    \* calls so far

eraVars == <<eraJob, eraRows, analysing, eraWanted, eraFound, eraCalls>>

-----------------------------------------------------------------------------
(* Classification.                                                         *)

\* The medium of the default profile: images are taken for prints, videos for tapes or film.
Hint ==
    CASE Named \in Era -> Named
      [] Named = Unknown /\ Image -> "early"
      [] Named = Unknown /\ ~Image -> "later"

\* canonicalize_era_label: a label of the catalog or an alias of one.
Canonical(label) == IF label \in Era THEN label ELSE Unknown

\* What VertexGeminiEraClassifier may answer: a label, known or not, its confidence, the
\* first of its candidates that has a known label, and whether they name the label itself.
Answers == {a \in [label: Era \cup {"other"}, confidence: Confidence, first: Era \cup {Unknown},
                 listed: BOOLEAN] :
              a.listed => a.label \in Era /\ a.first \in Era}

\* The deterministic classifier: the medium the file's names suggest, confident but for a mystery.
Fallback ==
    [era |-> Hint, confidence |-> IF Mystery THEN "low" ELSE "high", first |-> Hint, failed |-> TRUE]

\* The label itself comes first unless it is among the candidates; the fallback's follow.
ReviewCandidate(a) ==
    CASE a.label \in Era /\ ~a.listed -> a.label
      [] ~(a.label \in Era /\ ~a.listed) /\ a.first \in Era -> a.first
      [] OTHER -> Hint

\* An unsupported label counts as a failure of the provider.
Normalized(a) ==
    [era |-> Canonical(a.label), confidence |-> a.confidence, first |-> ReviewCandidate(a),
     failed |-> Canonical(a.label) = Unknown]

\* _classify: the primary classifier, and the fallback when it raises or is unreachable.
Classifications == {Normalized(a) : a \in Answers} \cup {Fallback}

\* What is shown of a classification: no era, but candidates to review, when the provider
\* failed or its confidence is below 0.70; the confidence itself is rounded to two decimals.
Shown(c) ==
    LET doubtful == c.failed \/ c.confidence # "high" IN
    [era |-> IF doubtful THEN Unknown ELSE c.era,
     first |-> IF doubtful THEN c.first ELSE Unknown,
     sure |-> c.confidence # "low", confirm |-> doubtful]

\* analyze_media: the detection for an upload; the caller overrides it, if at all.
Analyses == {Shown(c) : c \in Classifications}

\* _capture_medium_for_detection: by the era, else by the first candidate, else by the file.
MediumOf(d) ==
    CASE d.era \in Era -> d.era
      [] d.era \notin Era /\ d.first \in Era -> d.first
      [] OTHER -> Hint

-----------------------------------------------------------------------------
(* POST /v1/detect-era.                                                    *)

EraInit ==
    /\ eraJob = "absent" /\ eraRows = <<>>
    /\ analysing = [a \in Analyst |-> "idle"]
    /\ eraWanted = [a \in Analyst |-> NoOverride]
    /\ eraFound = [a \in Analyst |-> Fallback]
    /\ eraCalls = 0

EraGo(a, s) == analysing' = [analysing EXCEPT ![a] = s]

\* The locals of a call that is over.
EraForget(a) ==
    /\ EraGo(a, "idle")
    /\ eraWanted' = [eraWanted EXCEPT ![a] = NoOverride]
    /\ eraFound' = [eraFound EXCEPT ![a] = Fallback]

\* The profile is valid, the override supported and the month not exhausted.
EraAsk(a, override) ==
    /\ analysing[a] = "idle"
    /\ eraCalls < MaxEraCalls
    /\ eraCalls' = eraCalls + 1
    /\ eraWanted' = [eraWanted EXCEPT ![a] = override]
    /\ EraGo(a, "job")
    /\ UNCHANGED <<eraJob, eraRows, eraFound>>

\* save_job upserts the row of the job as queued; no message is dispatched for it.
SaveJob(a) ==
    /\ analysing[a] = "job"
    /\ eraJob' = "queued"
    /\ EraGo(a, "classify")
    /\ UNCHANGED <<eraRows, eraWanted, eraFound, eraCalls>>

ClassifyJob(a) ==
    /\ analysing[a] = "classify"
    /\ \E c \in Classifications : eraFound' = [eraFound EXCEPT ![a] = c]
    /\ EraGo(a, "system")
    /\ UNCHANGED <<eraJob, eraRows, eraWanted, eraCalls>>

\* save_detection inserts a row.
SaveDetection(era, source) == eraRows' = Append(eraRows, [era |-> era, source |-> source])

\* What the classifiers say is kept first, also when it is about to be overridden ...
PersistSystem(a) ==
    /\ analysing[a] = "system"
    /\ SaveDetection(Shown(eraFound[a]).era, "system")
    /\ IF eraWanted[a] = NoOverride
       THEN EraForget(a)
       ELSE EraGo(a, "override") /\ UNCHANGED <<eraWanted, eraFound>>
    /\ UNCHANGED <<eraJob, eraCalls>>

\* ... and the user's choice after it, at any confidence.
PersistOverride(a) ==
    /\ analysing[a] = "override"
    /\ SaveDetection(eraWanted[a], "user_override")
    /\ EraForget(a)
    /\ UNCHANGED <<eraJob, eraCalls>>

EraStep(a) ==
    \/ \E override \in Era \cup {NoOverride} : EraAsk(a, override)
    \/ SaveJob(a) \/ ClassifyJob(a) \/ PersistSystem(a) \/ PersistOverride(a)

-----------------------------------------------------------------------------

EraTypeOK ==
    /\ eraJob \in {"absent", "queued"}
    /\ eraRows \in Seq([era: Era \cup {Unknown}, source: {"system", "user_override"}])
    /\ analysing \in [Analyst -> {"idle", "job", "classify", "system", "override"}]
    /\ eraWanted \in [Analyst -> Era \cup {NoOverride}]
    /\ eraFound \in [Analyst -> Classifications]
    /\ eraCalls \in Nat
=============================================================================
