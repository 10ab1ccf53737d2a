------------------------- MODULE UploadConfiguration -------------------------
(***************************************************************************)
(* The configuration of a completed upload: configuration_service.py       *)
(* (upload-scoped detection and saving), the columns of upload_sessions it *)
(* patches, and the user's profile it shares with PATCH /v1/users/me.      *)
(*                                                                         *)
(* Each call of a browser tab reads the profile, the session and, unless   *)
(* the stored detection answers the same question, the classifiers; then   *)
(* it patches the session, once or twice, and the profile.  Each of these  *)
(* reads and writes is a step.                                             *)
(***************************************************************************)
EXTENDS EraDetection

CONSTANTS
    Tab,           \* browser tabs of the owner: each has one call in progress
    Durations,     \* values of estimated_duration_seconds
    Capped,        \* the plan processes at 1080p: no early photography
    MaxCalls,      \* bound: calls
    MaxCallFaults  \* bound: calls that fail

ASSUME ConfigurationAssumption ==
    /\ Durations # {} /\ Durations \subseteq Nat \ {0}
    /\ Capped \in BOOLEAN
    /\ MaxCalls \in Nat /\ MaxCallFaults \in Nat

AnyDuration == CHOOSE n \in Durations : TRUE

\* A call, with the parts of its payload that are compared or kept.  An override comes with
\* a reason, which is compared, kept and required along with it.
Asking == [op: {"detect", "save"}, duration: Durations, override: Era \cup {NoOverride}, persona: BOOLEAN]
Looking == [op |-> "look", duration |-> AnyDuration, override |-> NoOverride, persona |-> FALSE]
Patching == [op |-> "patch", duration |-> AnyDuration, override |-> NoOverride, persona |-> FALSE]

NoDetection == [era |-> Unknown, first |-> Unknown, sure |-> FALSE, confirm |-> FALSE,
                duration |-> 0, override |-> NoOverride]
NoConfig == [duration |-> 0, override |-> NoOverride, detection |-> NoDetection]

\* preferences: whether fidelity_configuration is among them, and what PATCH /v1/users/me
\* has set, by the number of the call; a row that is missing has neither.
NoProfile == [exists |-> FALSE, fidelity |-> FALSE, other |-> 0]
NewProfile == [NoProfile EXCEPT !.exists = TRUE]

VARIABLES
    profile,     \* user_profiles
    detection,   \* upload_sessions.detection_snapshot
    config,      \* upload_sessions.launch_config
    doing,       \* where the call of a tab stands; its other locals are:
    asked,       \*   the payload
    read,        \*   the profile get_or_create returned
    found,       \*   detection_snapshot
    calls, callFaults,  \* what has been used of the bounds
    patched,     \* history: what PATCH /v1/users/me set last
    crossed      \* history: tabs whose save read a profile that is no longer the user's

sessionRow == <<detection, config>>
callLocals == <<asked, read, found>>
configurationVars == <<profile, sessionRow, doing, callLocals, calls, callFaults, patched, crossed>>

ConfigurationInit ==
    /\ profile = NoProfile
    /\ detection = NoDetection /\ config = NoConfig
    /\ doing = [t \in Tab |-> "idle"]
    /\ asked = [t \in Tab |-> Patching]
    /\ read = [t \in Tab |-> NoProfile]
    /\ found = [t \in Tab |-> NoDetection]
    /\ calls = 0 /\ callFaults = 0
    /\ patched = 0 /\ crossed = {}

Doing(t, s) == doing[t] = s
Then(t, s) == doing' = [doing EXCEPT ![t] = s]

\* The locals of a call that is over.
Forget(t) ==
    /\ Then(t, "idle")
    /\ asked' = [asked EXCEPT ![t] = Patching]
    /\ read' = [read EXCEPT ![t] = NoProfile]
    /\ found' = [found EXCEPT ![t] = NoDetection]

\* The call has answered.
Answered(t) == Forget(t) /\ crossed' = crossed \ {t}

Ask(t, request) ==
    /\ Doing(t, "idle")
    /\ calls < MaxCalls
    /\ calls' = calls + 1
    /\ asked' = [asked EXCEPT ![t] = request]
    /\ Then(t, "profile")
    /\ UNCHANGED <<profile, sessionRow, read, found, callFaults, patched, crossed>>

-----------------------------------------------------------------------------
(* The profile.                                                            *)

\* get_or_create returned the row: GET /v1/users/me and GET /v1/fidelity-tiers answer with
\* it, a patch needs nothing of it.
HaveProfile(t, row) ==
    CASE asked[t].op = "look" -> Answered(t)
      [] asked[t].op = "patch" -> Then(t, "patch") /\ UNCHANGED <<callLocals, crossed>>
      [] OTHER -> /\ Then(t, "session")
                  /\ read' = [read EXCEPT ![t] = row]
                  /\ UNCHANGED <<asked, found, crossed>>

SelectProfile(t) ==
    /\ Doing(t, "profile")
    /\ IF profile.exists
       THEN HaveProfile(t, profile)
       ELSE Then(t, "insert") /\ UNCHANGED <<callLocals, crossed>>
    /\ UNCHANGED <<profile, sessionRow, calls, callFaults, patched>>

\* The row another call has inserted meanwhile is a conflict: the call fails.
InsertProfile(t) ==
    /\ Doing(t, "insert")
    /\ IF profile.exists
       THEN Answered(t) /\ UNCHANGED profile
       ELSE /\ profile' = NewProfile
            /\ HaveProfile(t, NewProfile)
    /\ UNCHANGED <<sessionRow, calls, callFaults, patched>>

\* The saves in progress that have read the profile.
Reading == {t \in Tab : doing[t] \in {"session", "classify", "keep", "write", "prefer"}}

\* PATCH /v1/users/me replaces the preferences by those the client sends.
PatchProfile(t) ==
    /\ Doing(t, "patch")
    /\ profile' = [profile EXCEPT !.fidelity = FALSE, !.other = calls]
    /\ patched' = calls
    /\ Then(t, "idle")
    /\ crossed' = crossed \cup Reading
    /\ UNCHANGED <<sessionRow, callLocals, calls, callFaults>>

-----------------------------------------------------------------------------
(* The detection.                                                          *)

\* Mutant of Suits: the override is not compared.
SuitsDuration(stored, request) == stored.duration = request.duration

\* _stored_detection_matches_request.
Suits(stored, request) ==
    stored.duration = request.duration /\ stored.override = request.override

\* A save without a persona, given or preferred, is refused; one the stored detection answers
\* goes on with what it has read.
LoadSession(t) ==
    LET r == asked[t] IN
    /\ Doing(t, "session")
    /\ CASE r.op = "save" /\ ~r.persona /\ ~read[t].fidelity -> Answered(t)
         [] r.op = "save" /\ (r.persona \/ read[t].fidelity) /\ Suits(detection, r) ->
              /\ found' = [found EXCEPT ![t] = detection]
              /\ Then(t, "write")
              /\ UNCHANGED <<asked, read, crossed>>
         [] OTHER -> Then(t, "classify") /\ UNCHANGED <<callLocals, crossed>>
    /\ UNCHANGED <<profile, sessionRow, calls, callFaults, patched>>

\* The tier or the grain preset is none of the plan's.
RefuseSave(t) ==
    /\ Doing(t, "session") /\ asked[t].op = "save"
    /\ Answered(t)
    /\ UNCHANGED <<profile, sessionRow, calls, callFaults, patched>>

\* _build_detection_snapshot, after the override if there is one.
Snapshot(d, r) ==
    LET overridden == r.override # NoOverride IN
    [era |-> IF overridden THEN r.override ELSE d.era, first |-> d.first, sure |-> d.sure,
     confirm |-> ~overridden /\ d.confirm, duration |-> r.duration, override |-> r.override]

\* Mutant of Overridable: the doubt of the provider counts, its confidence does not.
OverridableInDoubt(d) == d.confirm

\* An override is for detections whose rounded confidence is below 0.70.
Overridable(d) == ~d.sure

\* _detect_and_persist as far as its refusals.
Classify(t) ==
    LET r == asked[t] IN
    /\ Doing(t, "classify")
    /\ \E d \in Analyses :
         IF r.override # NoOverride /\ ~Overridable(d)
         THEN Answered(t)
         ELSE /\ found' = [found EXCEPT ![t] = Snapshot(d, r)]
              /\ Then(t, "keep")
              /\ UNCHANGED <<asked, read, crossed>>
    /\ UNCHANGED <<profile, sessionRow, calls, callFaults, patched>>

\* The session is patched and, for a save, read again: the fields read do not change.
KeepDetection(t) ==
    /\ Doing(t, "keep")
    /\ detection' = found[t]
    /\ IF asked[t].op = "detect"
       THEN Answered(t)
       ELSE Then(t, "write") /\ UNCHANGED <<callLocals, crossed>>
    /\ UNCHANGED <<profile, config, calls, callFaults, patched>>

-----------------------------------------------------------------------------
(* The configuration.                                                      *)

\* _ensure_plan_supports_capture_medium.
Supported(d) == ~(Capped /\ MediumOf(d) = "early")

RefuseMedium(t) ==
    /\ Doing(t, "write") /\ ~Supported(found[t])
    /\ Answered(t)
    /\ UNCHANGED <<profile, sessionRow, calls, callFaults, patched>>

\* Mutant of LaunchConfig: the detection is the row's, as the session was read again.
LaunchConfigOfRow(t) ==
    [duration |-> asked[t].duration, override |-> asked[t].override, detection |-> detection]

LaunchConfig(t) ==
    [duration |-> asked[t].duration, override |-> asked[t].override, detection |-> found[t]]

\* Detection, configuration and configured_at are one patch.
WriteConfiguration(t) ==
    /\ Doing(t, "write") /\ Supported(found[t])
    /\ detection' = found[t]
    /\ config' = LaunchConfig(t)
    /\ Then(t, "prefer")
    /\ UNCHANGED <<profile, callLocals, calls, callFaults, patched, crossed>>

\* Mutant of Merged: the preferences are the fidelity configuration alone.
MergedAlone(row) == [NewProfile EXCEPT !.fidelity = TRUE]

\* _merge_fidelity_preferences: into the preferences as they were read.
Merged(row) == [row EXCEPT !.fidelity = TRUE]

UpdatePreferences(t) ==
    /\ Doing(t, "prefer")
    /\ profile' = Merged(read[t])
    /\ IF t \in crossed
       THEN /\ patched' = read[t].other
            /\ crossed' = (crossed \cup Reading) \ {t}
       ELSE /\ crossed' = crossed
            /\ UNCHANGED patched
    /\ Forget(t)
    /\ UNCHANGED <<sessionRow, calls, callFaults>>

\* An exception ends the call; that of the last step is logged and the call succeeds.
FailCall(t) ==
    /\ doing[t] # "idle"
    /\ callFaults < MaxCallFaults
    /\ callFaults' = callFaults + 1
    /\ Answered(t)
    /\ UNCHANGED <<profile, sessionRow, calls, patched>>

CallStep(t) ==
    \/ SelectProfile(t) \/ InsertProfile(t) \/ PatchProfile(t) \/ LoadSession(t)
    \/ Classify(t) \/ KeepDetection(t) \/ RefuseMedium(t) \/ UpdatePreferences(t)

-----------------------------------------------------------------------------
(* Properties.                                                             *)

ConfigurationTypeOK ==
    /\ profile \in [exists: BOOLEAN, fidelity: BOOLEAN, other: Nat]
    /\ doing \in [Tab -> {"idle", "profile", "insert", "patch", "session", "classify", "keep", "write", "prefer"}]
    /\ asked \in [Tab -> Asking \cup {Looking, Patching}]
    /\ read \in [Tab -> [exists: BOOLEAN, fidelity: BOOLEAN, other: Nat]]
    /\ calls \in Nat /\ callFaults \in Nat /\ patched \in Nat
    /\ crossed \subseteq Tab

\* The saved configuration rests on a detection for the duration and the override that were
\* saved, whichever other calls replaced the stored one meanwhile; it overrides only a
\* detection of less than 0.70, and on a capped plan it is not of an early medium.
ConfiguredAsAsked ==
    LET d == config.detection IN
    /\ config.duration = d.duration /\ config.override = d.override
    /\ config.override # NoOverride => ~d.sure
    /\ config # NoConfig => Supported(d)

\* What PATCH /v1/users/me set last is kept by every save that did not overlap it.
PreferencesKept == profile.other = patched
=============================================================================
