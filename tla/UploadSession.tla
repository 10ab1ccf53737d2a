---------------------------- MODULE UploadSession ----------------------------
(***************************************************************************)
(* One resumable upload: the web client's flow (web/src/lib/               *)
(* uploadHelpers.ts), the requests it makes of app/services/               *)
(* upload_service.py, the upload row and object pointer of                 *)
(* db/phase2_store.py, and the resumable sessions of cloud storage.        *)
(*                                                                         *)
(* The client gives up on a response that does not arrive, but the request *)
(* goes on in the server: a request of the client's next steps then runs   *)
(* beside it, on the same row.  Each read or write of the row and each     *)
(* call of the storage is a step of its own.                               *)
(***************************************************************************)
EXTENDS Naturals

CONSTANTS
    Request,            \* slots for requests in progress in the server
    NoRequest,          \* what the client waits for when it waits for none
    Size,               \* size_bytes, in parts an interruption can fall between
    MaxSessions,        \* bound: resumable sessions opened
    MaxInterruptions,   \* bound: connections lost while bytes are sent
    MaxLosses,          \* bound: responses that do not arrive
    MaxExpiries,        \* bound: resumable sessions that expire
    MaxFaults           \* bound: requests that end in an error, objects that appear late

ASSUME ConstantsAssumption ==
    /\ NoRequest \notin Request
    /\ Size \in Nat \ {0} /\ MaxSessions \in Nat \ {0}
    /\ MaxInterruptions \in Nat /\ MaxLosses \in Nat
    /\ MaxExpiries \in Nat /\ MaxFaults \in Nat

Session == 1..MaxSessions
NoSession == 0

Statuses == {"absent", "pending", "uploading", "completed"}
Row == [status: Statuses, url: 0..MaxSessions, completedAt: BOOLEAN]
NoRow == [status |-> "absent", url |-> NoSession, completedAt |-> FALSE]

\* Where a request of create_upload, resume_upload or finalize_upload stands.
ResumeSteps == {"load", "probe", "reopen", "patch"}
FinalizeSteps == {"check", "verify", "mark", "inspect", "label", "point", "complete"}
Step == {"idle", "open", "insert"} \cup ResumeSteps \cup FinalizeSteps

\* Where executeUploadFlow stands; in a calling phase it makes a request.
FirstStep == [creating |-> "open", resuming |-> "load", finalizing |-> "check",
              recovering |-> "load", closing |-> "check"]
Phase == DOMAIN FirstStep \cup {"new", "sending", "paused", "done", "failed"}

VARIABLES
    row,         \* upload_sessions
    pointer,     \* gcs_object_pointers holds the upload
    opened,      \* resumable sessions opened so far: they are numbered in that order
    received,    \* bytes a session has received
    expired,     \* sessions that answer 404 or 410
    object,      \* the object is in the bucket
    labelled,    \* its classification metadata is set
    step,        \* where the request in a slot stands; its locals are:
    loaded,      \*   the row it has read
    offset,      \*   next_byte_offset of its probe
    fresh,       \*   resumable_session_url: the one read or the one it has opened
    phase,       \* where the client's flow stands; its locals are:
    awaiting,    \*   the request it waits for
    url,         \*   resumable_session_url of activeSession
    from,        \*   the offset it sends from
    interruptions, losses, expiries, faults   \* what the environment has used of its bounds

storage == <<opened, received, expired, object, labelled>>
request == <<loaded, offset, fresh>>
client == <<phase, awaiting, url, from>>
environment == <<interruptions, losses, expiries, faults>>
vars == <<row, pointer, storage, step, request, client, environment>>

Init ==
    /\ row = NoRow /\ pointer = FALSE
    /\ opened = 0
    /\ received = [n \in Session |-> 0]
    /\ expired = {} /\ object = FALSE /\ labelled = FALSE
    /\ step = [q \in Request |-> "idle"]
    /\ loaded = [q \in Request |-> NoRow]
    /\ offset = [q \in Request |-> 0]
    /\ fresh = [q \in Request |-> NoSession]
    /\ phase = "new" /\ awaiting = NoRequest
    /\ url = NoSession /\ from = 0
    /\ interruptions = 0 /\ losses = 0 /\ expiries = 0 /\ faults = 0

At(q, s) == step[q] = s
Go(q, s) == step' = [step EXCEPT ![q] = s]

-----------------------------------------------------------------------------
(* What the client does with the answer to a request.                      *)

\* An error ends the flow as failed, except that a resume after an interruption may be
\* tried again by the user.
HearError ==
    /\ phase' = IF phase = "recovering" THEN "paused" ELSE "failed"
    /\ UNCHANGED <<url, from>>

\* finalizeUpload throws UploadInterruptedError on 409: the flow asks where the upload
\* stands, once; a second refusal is final.
HearConflict ==
    /\ phase' = IF phase = "finalizing" THEN "recovering" ELSE "failed"
    /\ UNCHANGED <<url, from>>

Hear(session, next, complete) ==
    \/ /\ phase = "creating"
       /\ phase' = "resuming" /\ url' = session
       /\ UNCHANGED from
    \/ /\ phase \in {"resuming", "recovering"}
       /\ phase' = CASE phase = "resuming" /\ complete -> "finalizing"
                     [] phase = "resuming" /\ ~complete -> "sending"
                     [] phase = "recovering" /\ complete -> "closing"
                     [] phase = "recovering" /\ ~complete -> "paused"
       /\ url' = session /\ from' = next
    \/ /\ phase \in {"finalizing", "closing"}
       /\ phase' = "done"
       /\ UNCHANGED <<url, from>>

\* The request ends; its locals go with it.
EndRequest(q) ==
    /\ Go(q, "idle")
    /\ loaded' = [loaded EXCEPT ![q] = NoRow]
    /\ offset' = [offset EXCEPT ![q] = 0]
    /\ fresh' = [fresh EXCEPT ![q] = NoSession]
    /\ awaiting' = IF awaiting = q THEN NoRequest ELSE awaiting

Answer(q, session, next, complete) ==
    /\ EndRequest(q)
    /\ IF awaiting = q THEN Hear(session, next, complete) ELSE UNCHANGED <<phase, url, from>>

Refuse(q) ==
    /\ EndRequest(q)
    /\ IF awaiting = q THEN HearError ELSE UNCHANGED <<phase, url, from>>

Conflict(q) ==
    /\ EndRequest(q)
    /\ IF awaiting = q THEN HearConflict ELSE UNCHANGED <<phase, url, from>>

-----------------------------------------------------------------------------
(* Cloud storage.                                                          *)

OpenSession ==
    /\ opened < MaxSessions
    /\ opened' = opened + 1
    /\ UNCHANGED <<received, expired, object, labelled>>

\* probe_resumable_session: 308 with the bytes received, or 200 once all are there.
CommittedOffset(n) == received[n]
UploadComplete(n) == n \notin expired /\ received[n] = Size

Expire(n) ==
    /\ n \in 1..opened \ expired
    /\ expiries < MaxExpiries
    /\ expiries' = expiries + 1
    /\ expired' = expired \cup {n}
    /\ UNCHANGED <<row, pointer, opened, received, object, labelled, step, request, client,
                   interruptions, losses, faults>>

\* An object whose bytes are all there appears late.
Appear ==
    /\ ~object
    /\ \E n \in Session : received[n] = Size
    /\ object' = TRUE
    /\ UNCHANGED <<row, pointer, opened, received, expired, labelled, step, request, client, environment>>

-----------------------------------------------------------------------------
(* create_upload.                                                          *)

Open(q) ==
    /\ At(q, "open")
    /\ OpenSession
    /\ fresh' = [fresh EXCEPT ![q] = opened + 1]
    /\ Go(q, "insert")
    /\ UNCHANGED <<row, pointer, loaded, offset, client, environment>>

Insert(q) ==
    /\ At(q, "insert")
    /\ row' = [status |-> "pending", url |-> fresh[q], completedAt |-> FALSE]
    /\ Answer(q, fresh[q], 0, FALSE)
    /\ UNCHANGED <<pointer, storage, environment>>

-----------------------------------------------------------------------------
(* resume_upload.                                                          *)

Load(q) ==
    /\ At(q, "load")
    /\ IF row.status = "completed"
       THEN Answer(q, row.url, Size, TRUE)
       ELSE /\ loaded' = [loaded EXCEPT ![q] = row]
            /\ fresh' = [fresh EXCEPT ![q] = row.url]
            /\ Go(q, "probe")
            /\ UNCHANGED <<offset, client>>
    /\ UNCHANGED <<row, pointer, storage, environment>>

Probe(q) ==
    LET n == loaded[q].url IN
    /\ At(q, "probe")
    /\ IF n \in expired
       THEN Go(q, "reopen") /\ UNCHANGED offset
       ELSE /\ offset' = [offset EXCEPT ![q] = CommittedOffset(n)]
            /\ Go(q, "patch")
    /\ UNCHANGED <<row, pointer, storage, loaded, fresh, client, environment>>

\* Mutant of Reopen: the new session is sent to from where the former one ended.
ReopenAtOffset(q) ==
    /\ At(q, "reopen")
    /\ OpenSession
    /\ fresh' = [fresh EXCEPT ![q] = opened + 1]
    /\ offset' = [offset EXCEPT ![q] = CommittedOffset(loaded[q].url)]
    /\ Go(q, "patch")
    /\ UNCHANGED <<row, pointer, loaded, client, environment>>

\* A session opened anew starts at offset 0.
Reopen(q) ==
    /\ At(q, "reopen")
    /\ OpenSession
    /\ fresh' = [fresh EXCEPT ![q] = opened + 1]
    /\ offset' = [offset EXCEPT ![q] = 0]
    /\ Go(q, "patch")
    /\ UNCHANGED <<row, pointer, loaded, client, environment>>

\* Mutant of Patch: the status is patched whatever it was when the row was read.
PatchAlways(q) ==
    /\ At(q, "patch")
    /\ row' = [row EXCEPT !.status = "uploading", !.url = fresh[q]]
    /\ Answer(q, fresh[q], offset[q], offset[q] = Size)
    /\ UNCHANGED <<pointer, storage, environment>>

\* Only what differs from the row read is patched; with nothing to patch the row read is
\* the answer, otherwise the row as it is after the patch.
Patch(q) ==
    LET status == IF loaded[q].status = "uploading" THEN row.status ELSE "uploading"
        session == IF fresh[q] = loaded[q].url THEN row.url ELSE fresh[q]
        patched == loaded[q].status # "uploading" \/ fresh[q] # loaded[q].url
    IN
    /\ At(q, "patch")
    /\ row' = [row EXCEPT !.status = status, !.url = session]
    /\ Answer(q, IF patched THEN session ELSE loaded[q].url, offset[q], offset[q] = Size)
    /\ UNCHANGED <<pointer, storage, environment>>

-----------------------------------------------------------------------------
(* finalize_upload.                                                        *)

Check(q) ==
    /\ At(q, "check")
    /\ IF row.status = "completed"
       THEN Answer(q, row.url, Size, TRUE)
       ELSE /\ loaded' = [loaded EXCEPT ![q] = row]
            /\ Go(q, "verify")
            /\ UNCHANGED <<offset, fresh, client>>
    /\ UNCHANGED <<row, pointer, storage, environment>>

Verify(q) ==
    /\ At(q, "verify")
    /\ Go(q, IF UploadComplete(loaded[q].url) THEN "inspect" ELSE "mark")
    /\ UNCHANGED <<row, pointer, storage, request, client, environment>>

\* _mark_upload_in_progress, by the row that was read; the request is refused with 409.
Mark(q) ==
    /\ At(q, "mark")
    /\ row' = IF loaded[q].status = "uploading" /\ ~loaded[q].completedAt THEN row
              ELSE [row EXCEPT !.status = "uploading", !.completedAt = FALSE]
    /\ Conflict(q)
    /\ UNCHANGED <<pointer, storage, environment>>

\* Mutant of Inspect: the answer of the probe is trusted.
InspectNothing(q) ==
    /\ At(q, "inspect")
    /\ Go(q, "label")
    /\ UNCHANGED <<row, pointer, storage, request, client, environment>>

Inspect(q) ==
    /\ At(q, "inspect")
    /\ Go(q, IF object THEN "label" ELSE "mark")
    /\ UNCHANGED <<row, pointer, storage, request, client, environment>>

Label(q) ==
    /\ At(q, "label")
    /\ labelled' = TRUE
    /\ Go(q, "point")
    /\ UNCHANGED <<row, pointer, opened, received, expired, object, request, client, environment>>

Point(q) ==
    /\ At(q, "point")
    /\ pointer' = TRUE
    /\ Go(q, "complete")
    /\ UNCHANGED <<row, storage, request, client, environment>>

Complete(q) ==
    /\ At(q, "complete")
    /\ row' = [row EXCEPT !.status = "completed", !.completedAt = TRUE]
    /\ Answer(q, row.url, Size, TRUE)
    /\ UNCHANGED <<pointer, storage, environment>>

\* The storage or a repository raises: the request ends in an error.
Fail(q) ==
    /\ ~At(q, "idle")
    /\ faults < MaxFaults
    /\ faults' = faults + 1
    /\ Refuse(q)
    /\ UNCHANGED <<row, pointer, storage, interruptions, losses, expiries>>

-----------------------------------------------------------------------------
(* The client: executeUploadFlow.                                          *)

Begin ==
    /\ phase = "new"
    /\ phase' = "creating"
    /\ UNCHANGED <<row, pointer, storage, step, request, awaiting, url, from, environment>>

Call(q) ==
    /\ phase \in DOMAIN FirstStep /\ awaiting = NoRequest
    /\ At(q, "idle")
    /\ Go(q, FirstStep[phase])
    /\ awaiting' = q
    /\ UNCHANGED <<row, pointer, storage, request, phase, url, from, environment>>

\* fetch fails: the request goes on without anybody waiting for it.
LoseResponse ==
    /\ awaiting # NoRequest
    /\ losses < MaxLosses
    /\ losses' = losses + 1
    /\ awaiting' = NoRequest
    /\ HearError
    /\ UNCHANGED <<row, pointer, storage, step, request, interruptions, expiries, faults>>

\* The session takes bytes only where the former ones end.
Accepts(n) == n \notin expired /\ from <= received[n]

Store(bytes) ==
    /\ received' = [received EXCEPT ![url] = bytes]
    /\ UNCHANGED <<opened, expired, labelled>>

SendAll ==
    /\ phase = "sending" /\ Accepts(url)
    /\ Store(Size)
    /\ object' = TRUE
    /\ phase' = "finalizing"
    /\ UNCHANGED <<row, pointer, step, request, awaiting, url, from, environment>>

\* Mutant of Interrupt: the interruption is an error like any other.
InterruptFails ==
    /\ phase = "sending" /\ Accepts(url)
    /\ interruptions < MaxInterruptions
    /\ interruptions' = interruptions + 1
    /\ \E bytes \in received[url]..Size : Store(bytes) /\ object' = (object \/ bytes = Size)
    /\ phase' = "failed"
    /\ UNCHANGED <<row, pointer, step, request, awaiting, url, from, losses, expiries, faults>>

\* The connection breaks, or the session answers 308: UploadInterruptedError.
Interrupt ==
    /\ phase = "sending"
    /\ interruptions < MaxInterruptions
    /\ interruptions' = interruptions + 1
    /\ \E bytes \in IF Accepts(url) THEN received[url]..Size ELSE {received[url]} :
          /\ Store(bytes)
          /\ \/ /\ object' = (object \/ bytes = Size)
                /\ UNCHANGED faults
             \/ /\ bytes = Size /\ ~object /\ faults < MaxFaults
                /\ faults' = faults + 1
                /\ UNCHANGED object
    /\ phase' = "recovering"
    /\ UNCHANGED <<row, pointer, step, request, awaiting, url, from, losses, expiries>>

\* An expired session answers 404, one asked to skip bytes refuses them.
SendRefused ==
    /\ phase = "sending" /\ ~Accepts(url)
    /\ phase' = "failed"
    /\ UNCHANGED <<row, pointer, storage, step, request, awaiting, url, from, environment>>

\* The user presses Resume.
Resume ==
    /\ phase = "paused"
    /\ phase' = "resuming"
    /\ UNCHANGED <<row, pointer, storage, step, request, awaiting, url, from, environment>>

-----------------------------------------------------------------------------

Serve(q) ==
    \/ Open(q) \/ Insert(q)
    \/ Load(q) \/ Probe(q) \/ Reopen(q) \/ Patch(q)
    \/ Check(q) \/ Verify(q) \/ Mark(q) \/ Inspect(q) \/ Label(q) \/ Point(q) \/ Complete(q)

ClientStep == (\E q \in Request : Call(q)) \/ SendAll \/ SendRefused \/ Resume

Next ==
    \/ \E q \in Request : Serve(q) \/ Fail(q)
    \/ Begin \/ ClientStep \/ LoseResponse \/ Interrupt
    \/ Appear \/ \E n \in Session : Expire(n)

Spec == Init /\ [][Next]_vars

\* The server answers what it is asked, and a user who began an upload goes on with it.
FairSpec ==
    /\ Spec
    /\ \A q \in Request : WF_vars(Serve(q))
    /\ WF_vars(ClientStep)
-----------------------------------------------------------------------------
(* Properties.                                                             *)

\* The row, the sessions and the locals of requests and client stay within their types.
TypeOK ==
    /\ row \in Row
    /\ pointer \in BOOLEAN /\ object \in BOOLEAN /\ labelled \in BOOLEAN
    /\ opened \in 0..MaxSessions
    /\ received \in [Session -> 0..Size]
    /\ expired \subseteq Session
    /\ step \in [Request -> Step]
    /\ loaded \in [Request -> Row]
    /\ offset \in [Request -> 0..Size]
    /\ fresh \in [Request -> 0..MaxSessions]
    /\ phase \in Phase
    /\ awaiting \in Request \cup {NoRequest}
    /\ url \in 0..MaxSessions /\ from \in 0..Size
    /\ interruptions \in Nat /\ losses \in Nat /\ expiries \in Nat /\ faults \in Nat

\* An upload the rest of the system takes for completed has its object in the bucket,
\* classified, and a pointer to it: finalize_upload checks before it writes, and no request
\* left behind by a lost response completes the row another way.
CompletedIsStored == row.status = "completed" => object /\ labelled /\ pointer

\* A completed upload stays completed: of the requests still in progress, begun when the
\* row said something else, none takes it back.
CompletedStays == [][row.status = "completed" => row'.status = "completed"]_row

\* The client sends exactly the bytes its session is missing: the offset and the address a
\* resume answers belong together, although requests before it may have opened other ones.
OfferIsExact ==
    phase = "sending" /\ url \notin expired => from = received[url]

\* However often the connection is lost while bytes are sent, the upload gets done, unless
\* a session expired, a response was lost or a request failed as well.
InterruptionsRecover ==
    phase = "creating" ~> (phase = "done" \/ losses + expiries + faults > 0)
=============================================================================
