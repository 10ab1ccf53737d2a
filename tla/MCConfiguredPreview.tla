------------------------- MODULE MCConfiguredPreview -------------------------
\* Instances of ConfiguredPreview for TLC.
EXTENDS ConfiguredPreview, TLC

CONSTANTS c1, t1, t2, a1, a2

\* The steps at which a request that dies has dispatched nothing.
BeforeDispatch == Step \ {"idle", "confirm"}

OneAndTwo == {1, 2}

\* Detections and saves of two durations, and an override, which comes with one of them.
SomeRequests ==
    [op: {"save"}, duration: {1, 2}, override: {NoOverride}, persona: {TRUE}] \cup
    [op: {"detect"}, duration: {1}, override: {NoOverride}, persona: {FALSE}] \cup
    [op: {"save"}, duration: {1}, override: Era, persona: {FALSE}]

\* Requests about previews happen beside saves of one tab with the plainest detection; the
\* calls of other tabs, overrides and failing calls, where no preview is; and
\* POST /v1/detect-era where there is neither.
NoPreviews == previews = {} /\ \A c \in Client : step[c] = "idle"
Plain(d) == d = NoDetection \/ (d.era = "later" /\ d.sure /\ d.override = NoOverride)
PlainCalls ==
    /\ callFaults = 0 /\ patched = 0
    /\ Plain(detection)
    /\ \A t \in Tab : doing[t] # "idle" => t = t1 /\ asked[t].op = "save" /\ Plain(found[t])

Apart ==
    \/ NoPreviews /\ (calls = 0 \/ eraCalls = 0)
    \/ PlainCalls /\ eraCalls = 0
=============================================================================
