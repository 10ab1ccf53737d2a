-------------------------- MODULE ConfiguredPreview --------------------------
(***************************************************************************)
(* An upload's configuration and the previews made of it: the calls of     *)
(* UploadConfiguration and the requests of PreviewLaunch over one          *)
(* upload_sessions row.  The one patch that writes launch_config also      *)
(* writes configured_at, and a preview is derived from what create_preview *)
(* reads of the two at its beginning.                                      *)
(*                                                                         *)
(* POST /v1/detect-era is a neighbour: it shares the classifiers and       *)
(* nothing else.                                                           *)
(***************************************************************************)
EXTENDS PreviewLaunch, UploadConfiguration, FiniteSets

CONSTANT Requests   \* the payloads of the calls

ASSUME RequestsAssumption == Requests \subseteq Asking

VARIABLES
    made,    \* history: launch_config as it was written with each configured_at
    taken,   \* what create_preview has read and selected, for each client
    shown    \* job_payload_preview and keyframes of the preview row

previewVars == <<made, taken, shown>>
composedVars == <<vars, configurationVars, eraVars, previewVars>>

\* Frames are told apart by the duration they were selected for.
NoFrames == [config |-> NoConfig, frames |-> 0]

ComposedInit ==
    /\ Init /\ ConfigurationInit /\ EraInit
    /\ made = [v \in Version |-> NoConfig]
    /\ taken = [c \in Client |-> NoFrames]
    /\ shown = [v \in Version |-> NoFrames]

-----------------------------------------------------------------------------
(* The configuration.                                                      *)

\* launch_config and configured_at are written together.
Configure(t) ==
    /\ WriteConfiguration(t)
    /\ SaveConfiguration
    /\ made' = [made EXCEPT ![saved'] = config']
    /\ UNCHANGED <<eraVars, taken, shown>>

\* A save is asked for while there is a version left for it.
Saves == {t \in Tab : doing[t] # "idle" /\ asked[t].op = "save"}

AskWithin(t, request) ==
    /\ request.op = "save" => saved + Cardinality(Saves) < MaxVersions
    /\ Ask(t, request)

Configuring(t) ==
    /\ \/ \E r \in Requests \cup {Looking, Patching} : AskWithin(t, r)
       \/ CallStep(t) \/ RefuseSave(t) \/ FailCall(t)
    /\ UNCHANGED <<vars, eraVars, previewVars>>

-----------------------------------------------------------------------------
(* The previews.                                                           *)

\* _select_keyframes: scenes of the duration, or evenly spread over it.
Selected(cfg) == cfg.duration

\* Mutant of Content: the checksum of the upload alone.
ContentOfUpload(cfg) == <<>>

\* _preview_configuration_cache_payload: the payload without configured_at and the id of
\* the detection.
Content(cfg) ==
    LET d == cfg.detection IN <<cfg.duration, d.era, d.sure, d.confirm, cfg.override # NoOverride, MediumOf(d)>>

\* get_reusable_preview: active previews with the same content, of this or an earlier save.
Reusable(cfg) == {v \in previews \ expired : Content(shown[v].config) = Content(cfg)}

FramesFor(cfg) ==
    IF Reusable(cfg) = {} THEN {Selected(cfg)} ELSE {shown[v].frames : v \in Reusable(cfg)}

BeginPreview(c) ==
    /\ CreateLoad(c)
    /\ \E frames \in FramesFor(config) :
         taken' = [taken EXCEPT ![c] = [config |-> config, frames |-> frames]]
    /\ UNCHANGED <<configurationVars, eraVars, made, shown>>

\* Mutant of StorePreview: launch_config is read again when the row is made.
StoreCurrent(c) ==
    /\ Persist(c)
    /\ shown' = [shown EXCEPT ![version[c]] = [taken[c] EXCEPT !.config = config]]
    /\ UNCHANGED <<configurationVars, eraVars, made, taken>>

\* What create_preview began with becomes the row, frames included.
StorePreview(c) ==
    /\ Persist(c)
    /\ shown' = [shown EXCEPT ![version[c]] = taken[c]]
    /\ UNCHANGED <<configurationVars, eraVars, made, taken>>

\* The steps of the other requests, of the clock and of the worker.
Launching(c) ==
    /\ \/ \E v \in Version : LaunchLoad(c, v)
       \/ \E v \in Version, outcome \in {"approved", "rejected"} : ReviewLoad(c, v, outcome)
       \/ ~At(c, "persist") /\ Continue(c)
       \/ Fault(c)
    /\ UNCHANGED <<configurationVars, eraVars, previewVars>>

Around(v) ==
    /\ Expire(v) \/ ReadExpired(v) \/ WorkerTakes(v) \/ WorkerEnds(v)
    /\ UNCHANGED <<configurationVars, eraVars, previewVars>>

\* Neighbours: a call of POST /v1/detect-era.
Detecting(a) == EraStep(a) /\ UNCHANGED <<vars, configurationVars, previewVars>>

-----------------------------------------------------------------------------

ComposedNext ==
    \/ \E t \in Tab : Configure(t) \/ Configuring(t)
    \/ \E c \in Client : BeginPreview(c) \/ StorePreview(c) \/ Launching(c)
    \/ \E v \in Version : Around(v)
    \/ \E a \in Analyst : Detecting(a)

ComposedSpec == ComposedInit /\ [][ComposedNext]_composedVars

\* The fairness of PreviewLaunch: a request in progress goes on, and the client repeats a
\* launch that ended with launch_dispatch_failed.
Proceeding(c) ==
    \/ StorePreview(c)
    \/ ~At(c, "persist") /\ Continue(c) /\ UNCHANGED <<configurationVars, eraVars, previewVars>>

Relaunching(c, v) == LaunchLoad(c, v) /\ UNCHANGED <<configurationVars, eraVars, previewVars>>

FairComposedSpec ==
    /\ ComposedSpec
    /\ \A c \in Client : WF_composedVars(Proceeding(c))
    /\ \A c \in Client, v \in Version : WF_composedVars(Relaunching(c, v))

-----------------------------------------------------------------------------

\* A preview shows, and its launch dispatches, the configuration saved with the
\* configured_at it is named after, with frames selected for it: also when another save
\* came between the reading of create_preview and its writing, and when the frames are
\* those of another preview.
PreviewOfItsConfiguration ==
    \A v \in previews : shown[v] = [config |-> made[v], frames |-> Selected(made[v])]
=============================================================================
