------------------------ MODULE UploadSession_proofs ------------------------
(***************************************************************************)
(* Proofs about UploadSession, for any number of requests in progress, any *)
(* size and any bounds: its types; that an upload that reads completed is  *)
(* stored, classified and pointed to, and stays completed; and that the    *)
(* client sends from where its session ends.                               *)
(***************************************************************************)
EXTENDS UploadSession, TLAPS

\* The sets of statuses and steps are always expanded.
USE DEF Statuses, Row, NoRow, NoSession, ResumeSteps, FinalizeSteps, Step

Created == row.status # "absent"

\* An upload that exists has a session.
RowKnown == Created => row.url \in Session

\* A request that resumes or finalizes does so on an upload that exists, and holds the
\* sessions its next steps use.
RequestKnows ==
    \A q \in Request :
       /\ step[q] \in ResumeSteps \cup FinalizeSteps => Created
       /\ step[q] \in {"insert", "probe", "reopen", "patch"} => fresh[q] \in Session
       /\ step[q] \in {"probe", "reopen", "patch"} => loaded[q].url \in Session

\* Once its upload is created the client knows a session of it.
ClientKnows ==
    phase \in {"resuming", "sending", "finalizing", "recovering", "closing", "paused"} =>
       Created /\ url \in Session

TypeInv == TypeOK /\ RowKnown /\ RequestKnows /\ ClientKnows

\* A finalization past the inspection of the object, its labelling or its pointer finds
\* that part of the work done.
FinalizeHasDone ==
    \A q \in Request :
       /\ step[q] \in {"label", "point", "complete"} => object
       /\ step[q] \in {"point", "complete"} => labelled
       /\ step[q] = "complete" => pointer

StoredInv == FinalizeHasDone /\ CompletedIsStored

-----------------------------------------------------------------------------
(* Types.                                                                  *)

\* The phases the client's flow can be in.
LEMMA PhaseIs == Phase = {"creating", "resuming", "finalizing", "recovering", "closing",
                          "new", "sending", "paused", "done", "failed"}
<1>1. DOMAIN FirstStep = {"creating", "resuming", "finalizing", "recovering", "closing"}
  BY DEF FirstStep
<1> QED  BY <1>1 DEF Phase

\* Init establishes the types.
LEMMA TypeInit == ASSUME Init PROVE TypeInv
<1> USE ConstantsAssumption DEF Init, Session
<1>1. row \in Row /\ received \in [Session -> 0..Size] /\ phase \in Phase  BY PhaseIs
<1>2. /\ step \in [Request -> Step] /\ loaded \in [Request -> Row]
      /\ offset \in [Request -> 0..Size] /\ fresh \in [Request -> 0..MaxSessions]
  OBVIOUS
<1>3. pointer \in BOOLEAN /\ object \in BOOLEAN /\ labelled \in BOOLEAN
  OBVIOUS
<1>4. /\ opened \in 0..MaxSessions /\ expired \subseteq Session
      /\ awaiting \in Request \cup {NoRequest} /\ url \in 0..MaxSessions /\ from \in 0..Size
      /\ interruptions \in Nat /\ losses \in Nat /\ expiries \in Nat /\ faults \in Nat
  OBVIOUS
<1>5. RowKnown /\ RequestKnows /\ ClientKnows
  BY DEF RowKnown, RequestKnows, ClientKnows, Created
<1> QED  BY <1>1, <1>2, <1>3, <1>4, <1>5 DEF TypeInv, TypeOK

\* The end of a request leaves the locals of the requests typed.
LEMMA EndRequestTypes ==
    ASSUME TypeInv, NEW q \in Request, EndRequest(q)
    PROVE  /\ step' \in [Request -> Step] /\ loaded' \in [Request -> Row]
           /\ offset' \in [Request -> 0..Size] /\ fresh' \in [Request -> 0..MaxSessions]
           /\ awaiting' \in Request \cup {NoRequest}
           /\ \A p \in Request : step'[p] # "idle" =>
                 /\ p # q /\ step'[p] = step[p]
                 /\ fresh'[p] = fresh[p] /\ loaded'[p] = loaded[p]
  BY ConstantsAssumption DEF TypeInv, TypeOK, EndRequest, Go, At

\* What a request that ends with a session of an existing upload leaves.
LEMMA AnswerTypes ==
    ASSUME TypeInv, NEW q \in Request, NEW session \in Session, NEW next \in 0..Size,
           NEW complete \in BOOLEAN, Answer(q, session, next, complete),
           row' \in Row, row'.url \in Session, row'.status # "absent",
           UNCHANGED <<pointer, storage, environment>>
    PROVE  TypeInv'
<1> USE DEF TypeInv, TypeOK, storage, environment
<1>1. EndRequest(q)  BY DEF Answer
<1>2. /\ phase' \in Phase /\ url' \in 0..MaxSessions /\ from' \in 0..Size
      /\ ClientKnows'
  <2>1. CASE awaiting = q
    <3>1. Hear(session, next, complete)  BY <2>1 DEF Answer
    <3>2. CASE phase = "creating"
      <4>1. phase' = "resuming" /\ url' = session /\ from' = from  BY <3>1, <3>2 DEF Hear
      <4>2. url' \in Session /\ url' \in 0..MaxSessions  BY <4>1, ConstantsAssumption DEF Session
      <4> QED  BY <4>1, <4>2, PhaseIs DEF ClientKnows, Created
    <3>3. CASE phase \in {"resuming", "recovering"}
      <4>1. url' = session /\ from' = next
            /\ phase' \in {"finalizing", "sending", "closing", "paused"}
        BY <3>1, <3>3 DEF Hear
      <4> QED  BY <4>1, ConstantsAssumption, PhaseIs DEF ClientKnows, Created, Session
    <3>4. CASE phase \in {"finalizing", "closing"}
      BY <3>1, <3>4, PhaseIs DEF Hear, ClientKnows
    <3> QED  BY <3>1, <3>2, <3>3, <3>4 DEF Hear
  <2>2. CASE awaiting # q
    BY <2>2, ConstantsAssumption DEF Answer, ClientKnows, Created, Session
  <2> QED  BY <2>1, <2>2
<1>3. RequestKnows'
  BY <1>1, EndRequestTypes DEF RequestKnows, Created
<1>4. RowKnown'  BY DEF RowKnown
<1> QED  BY <1>1, <1>2, <1>3, <1>4, EndRequestTypes

\* What a request that ends in an error leaves; next is what its client does.
LEMMA RefusalTypes ==
    ASSUME TypeInv, NEW q \in Request, EndRequest(q),
           UNCHANGED <<url, from>>, phase' \in {phase, "failed"} \cup
              (IF phase \in {"finalizing", "recovering"} THEN {"recovering", "paused"} ELSE {}),
           row' \in Row, Created => Created' /\ row'.url \in Session,
           Created' => row'.url \in Session,
           UNCHANGED <<pointer, storage>>,
           interruptions' \in Nat, losses' \in Nat, expiries' \in Nat, faults' \in Nat
    PROVE  TypeInv'
<1> USE DEF TypeInv, TypeOK, storage
<1>1. phase' \in Phase /\ ClientKnows'  BY PhaseIs DEF ClientKnows
<1>2. RequestKnows'
  BY EndRequestTypes DEF RequestKnows
<1>3. RowKnown'  BY DEF RowKnown
<1> QED  BY <1>1, <1>2, <1>3, EndRequestTypes

\* No step leaves the types: a request knows a session before it probes one or patches
\* the row with one, and the client knows one before it sends to it.
LEMMA TypeStep ==
    ASSUME TypeInv, [Next]_vars
    PROVE  TypeInv'
<1> USE ConstantsAssumption
    DEF TypeInv, TypeOK, RowKnown, RequestKnows, ClientKnows, Created, At, Go,
        storage, request, client, environment
<1>1. ASSUME NEW q \in Request, Open(q) PROVE TypeInv'
  <2>1. /\ opened' = opened + 1 /\ opened < MaxSessions
        /\ fresh' = [fresh EXCEPT ![q] = opened + 1]
        /\ step' = [step EXCEPT ![q] = "insert"]
        /\ UNCHANGED <<row, pointer, received, expired, object, labelled, loaded, offset,
                       client, environment>>
    BY <1>1 DEF Open, OpenSession
  <2>2. opened + 1 \in Session /\ opened + 1 \in 0..MaxSessions  BY <2>1 DEF Session
  <2>3. opened' \in 0..MaxSessions /\ fresh' \in [Request -> 0..MaxSessions]  BY <2>1, <2>2
  <2>4. step' \in [Request -> Step]  BY <2>1
  <2>5. RequestKnows'
    <3>1. step'[q] = "insert" /\ fresh'[q] \in Session  BY <2>1, <2>2
    <3>2. \A p \in Request \ {q} :
             step'[p] = step[p] /\ fresh'[p] = fresh[p] /\ loaded'[p] = loaded[p]
      BY <2>1
    <3> QED  BY <2>1, <3>1, <3>2
  <2> QED  BY <2>1, <2>3, <2>4, <2>5
<1>2. ASSUME NEW q \in Request, Insert(q) PROVE TypeInv'
  <2>1. fresh[q] \in Session /\ 0 \in 0..Size /\ FALSE \in BOOLEAN  BY <1>2 DEF Insert
  <2>2. row' \in Row /\ row'.url \in Session /\ row'.status # "absent"
    BY <1>2, <2>1 DEF Insert, Session
  <2>3. Answer(q, fresh[q], 0, FALSE) /\ UNCHANGED <<pointer, storage, environment>>
    BY <1>2 DEF Insert
  <2> QED  BY <2>1, <2>2, <2>3, AnswerTypes
<1>3. ASSUME NEW q \in Request, Load(q) \/ Check(q) PROVE TypeInv'
  <2>1. step[q] \in {"load", "check"} /\ UNCHANGED <<row, pointer, storage, environment>>
    BY <1>3 DEF Load, Check
  <2>2. row.url \in Session /\ row.status # "absent"  BY <2>1
  <2>3. Size \in 0..Size /\ TRUE \in BOOLEAN  OBVIOUS
  <2>4. CASE row.status = "completed"
    <3>1. Answer(q, row.url, Size, TRUE) /\ UNCHANGED <<pointer, storage, environment>>
      BY <1>3, <2>4 DEF Load, Check
    <3>2. row' \in Row /\ row'.url \in Session /\ row'.status # "absent"  BY <2>1, <2>2
    <3> QED  BY <2>1, <2>2, <2>3, <3>1, <3>2, AnswerTypes
  <2>5. CASE row.status # "completed"
    <3>1. /\ loaded' \in [Request -> Row] /\ UNCHANGED <<offset, client>>
      BY <1>3, <2>5 DEF Load, Check
    <3>2. fresh' \in [Request -> 0..MaxSessions]
      <4>1. CASE Load(q)  BY <4>1, <2>5 DEF Load
      <4>2. CASE Check(q)  BY <4>2, <2>5 DEF Check
      <4> QED  BY <1>3, <4>1, <4>2
    <3>3. step' \in [Request -> Step]
      BY <1>3, <2>5 DEF Load, Check
    <3>4. RequestKnows'
      <4>1. CASE Load(q)
        <5>1. fresh'[q] = row.url /\ loaded'[q] = row  BY <4>1, <2>1, <2>5 DEF Load
        <5>2. \A p \in Request \ {q} :
                 step'[p] = step[p] /\ fresh'[p] = fresh[p] /\ loaded'[p] = loaded[p]
          BY <4>1, <2>1, <2>5 DEF Load
        <5> QED  BY <2>1, <2>2, <5>1, <5>2
      <4>2. CASE Check(q)
        <5>1. loaded'[q] = row /\ step'[q] = "verify" /\ fresh' = fresh
          BY <4>2, <2>1, <2>5 DEF Check
        <5>2. \A p \in Request \ {q} : step'[p] = step[p] /\ loaded'[p] = loaded[p]
          BY <4>2, <2>1, <2>5 DEF Check
        <5> QED  BY <2>1, <2>2, <5>1, <5>2
      <4> QED  BY <1>3, <4>1, <4>2
    <3> QED  BY <2>1, <3>1, <3>2, <3>3, <3>4
  <2> QED  BY <2>4, <2>5
<1>4. ASSUME NEW q \in Request, Probe(q) PROVE TypeInv'
  <2>1. /\ UNCHANGED <<row, pointer, storage, loaded, fresh, client, environment>>
        /\ step[q] = "probe" /\ loaded[q].url \in Session
    BY <1>4 DEF Probe
  <2>2. /\ step' \in [Request -> Step] /\ offset' \in [Request -> 0..Size]
        /\ \A p \in Request \ {q} : step'[p] = step[p]
        /\ step'[q] \in {"reopen", "patch"}
    <3>1. CASE loaded[q].url \in expired  BY <1>4, <3>1 DEF Probe
    <3>2. CASE loaded[q].url \notin expired
      <4>1. received[loaded[q].url] \in 0..Size  BY <2>1
      <4>2. /\ offset' = [offset EXCEPT ![q] = received[loaded[q].url]]
            /\ step' = [step EXCEPT ![q] = "patch"]
        BY <1>4, <3>2 DEF Probe, CommittedOffset
      <4> QED  BY <4>1, <4>2
    <3> QED  BY <3>1, <3>2
  <2>3. RequestKnows'  BY <2>1, <2>2
  <2> QED  BY <2>1, <2>2, <2>3
<1>5. ASSUME NEW q \in Request, Reopen(q) PROVE TypeInv'
  <2>1. /\ opened' \in 1..MaxSessions
        /\ fresh' = [fresh EXCEPT ![q] = opened'] /\ offset' = [offset EXCEPT ![q] = 0]
        /\ step' = [step EXCEPT ![q] = "patch"]
        /\ UNCHANGED <<row, pointer, received, expired, object, labelled, loaded, client, environment>>
    BY <1>5 DEF Reopen, OpenSession
  <2>2. Created /\ loaded[q].url \in Session  BY <1>5 DEF Reopen
  <2>3. RequestKnows'  BY <2>1, <2>2 DEF Session
  <2>4. ClientKnows' /\ RowKnown'  BY <2>1
  <2> QED  BY <2>1, <2>3, <2>4
<1>6. ASSUME NEW q \in Request, Patch(q) PROVE TypeInv'
  <2>1. fresh[q] \in Session /\ loaded[q].url \in Session /\ row.url \in Session
        /\ offset[q] \in 0..Size /\ row.status # "absent"
    BY <1>6 DEF Patch
  <2>2. /\ row' \in Row /\ row'.url \in Session /\ row'.status # "absent"
        /\ UNCHANGED <<pointer, storage, environment>>
    BY <1>6, <2>1 DEF Patch
  <2>3. PICK session \in Session, complete \in BOOLEAN :
           Answer(q, session, offset[q], complete)
    BY <1>6, <2>1 DEF Patch
  <2> QED  BY <2>1, <2>2, <2>3, AnswerTypes
<1>7. ASSUME NEW q \in Request, Verify(q) \/ Inspect(q) PROVE TypeInv'
  <2>1. /\ UNCHANGED <<row, pointer, storage, request, client, environment>>
        /\ step[q] \in {"verify", "inspect"}
    BY <1>7 DEF Verify, Inspect
  <2>2. \E s \in {"inspect", "mark", "label"} : step' = [step EXCEPT ![q] = s]
    BY <1>7 DEF Verify, Inspect
  <2>3. step' \in [Request -> Step] /\ step'[q] \in {"inspect", "mark", "label"}
        /\ \A p \in Request \ {q} : step'[p] = step[p]
    BY <2>2
  <2>4. RequestKnows'  BY <2>1, <2>3
  <2> QED  BY <2>1, <2>3, <2>4
<1>8. ASSUME NEW q \in Request, Mark(q) PROVE TypeInv'
  <2>1. /\ EndRequest(q) /\ UNCHANGED <<url, from>> /\ UNCHANGED <<pointer, storage>>
        /\ phase' \in {phase, "failed"} \cup
              (IF phase \in {"finalizing", "recovering"} THEN {"recovering", "paused"} ELSE {})
    BY <1>8 DEF Mark, Conflict, HearConflict
  <2>2. row' \in Row /\ row'.status # "absent" /\ row'.url \in Session
    BY <1>8 DEF Mark
  <2>3. interruptions' \in Nat /\ losses' \in Nat /\ expiries' \in Nat /\ faults' \in Nat
    BY <1>8 DEF Mark
  <2> QED  BY <2>1, <2>2, <2>3, RefusalTypes
<1>9. ASSUME NEW q \in Request, Label(q) \/ Point(q) PROVE TypeInv'
  <2>1. /\ UNCHANGED <<row, opened, received, expired, object, request, client, environment>>
        /\ step[q] \in {"label", "point"}
        /\ labelled' \in BOOLEAN /\ pointer' \in BOOLEAN
    BY <1>9 DEF Label, Point
  <2>2. \E s \in {"point", "complete"} : step' = [step EXCEPT ![q] = s]
    BY <1>9 DEF Label, Point
  <2>3. step' \in [Request -> Step] /\ step'[q] \in {"point", "complete"}
        /\ \A p \in Request \ {q} : step'[p] = step[p]
    BY <2>2
  <2>4. RequestKnows'  BY <2>1, <2>3
  <2> QED  BY <2>1, <2>3, <2>4
<1>10. ASSUME NEW q \in Request, Complete(q) PROVE TypeInv'
  <2>1. row.url \in Session /\ row.status # "absent" /\ Size \in 0..Size /\ TRUE \in BOOLEAN
    BY <1>10 DEF Complete
  <2>2. row' \in Row /\ row'.url \in Session /\ row'.status # "absent"
    BY <1>10, <2>1 DEF Complete
  <2>3. Answer(q, row.url, Size, TRUE) /\ UNCHANGED <<pointer, storage, environment>>
    BY <1>10 DEF Complete
  <2> QED  BY <2>1, <2>2, <2>3, AnswerTypes
<1>11. ASSUME NEW q \in Request, Fail(q) PROVE TypeInv'
  <2>1. /\ EndRequest(q) /\ UNCHANGED <<url, from>> /\ UNCHANGED <<pointer, storage>>
        /\ phase' \in {phase, "failed"} \cup
              (IF phase \in {"finalizing", "recovering"} THEN {"recovering", "paused"} ELSE {})
    BY <1>11 DEF Fail, Refuse, HearError
  <2>2. /\ row' \in Row /\ UNCHANGED row
        /\ interruptions' \in Nat /\ losses' \in Nat /\ expiries' \in Nat /\ faults' \in Nat
    BY <1>11 DEF Fail
  <2> QED  BY <2>1, <2>2, RefusalTypes
<1>12. CASE Begin \/ Resume
  BY <1>12, PhaseIs DEF Begin, Resume
<1>13. ASSUME NEW q \in Request, Call(q) PROVE TypeInv'
  <2>1. /\ FirstStep[phase] \in Step
        /\ FirstStep[phase] \in {"open", "load", "check"}
        /\ FirstStep[phase] \in {"load", "check"} => Created
    BY <1>13 DEF Call, FirstStep
  <2> QED  BY <1>13, <2>1 DEF Call
<1>14. CASE LoseResponse
  BY <1>14, PhaseIs DEF LoseResponse, HearError
<1>15. CASE SendAll
  BY <1>15, PhaseIs DEF SendAll, Store
<1>16. CASE Interrupt
  <2>1. url \in Session /\ received[url] \in 0..Size  BY <1>16 DEF Interrupt
  <2>2. PICK bytes \in IF Accepts(url) THEN received[url]..Size ELSE {received[url]} :
           /\ Store(bytes)
           /\ object' \in {object, object \/ bytes = Size} /\ faults' \in {faults, faults + 1}
    BY <1>16 DEF Interrupt
  <2>3. bytes \in 0..Size /\ faults' \in Nat /\ object' \in BOOLEAN
    <3>1. bytes \in 0..Size  BY <2>1, <2>2
    <3>2. faults' \in Nat  BY <2>2
    <3>3. object' \in BOOLEAN  BY <2>2
    <3> QED  BY <3>1, <3>2, <3>3
  <2>4. received' \in [Session -> 0..Size]  BY <2>2, <2>3 DEF Store
  <2> QED  BY <1>16, <2>2, <2>3, <2>4, PhaseIs DEF Interrupt, Store
<1>17. CASE SendRefused
  BY <1>17, PhaseIs DEF SendRefused
<1>18. CASE Appear
  BY <1>18 DEF Appear
<1>19. ASSUME NEW n \in Session, Expire(n) PROVE TypeInv'
  BY <1>19 DEF Expire
<1>20. CASE UNCHANGED vars
  BY <1>20 DEF vars
<1> QED
  BY <1>1, <1>2, <1>3, <1>4, <1>5, <1>6, <1>7, <1>8, <1>9, <1>10, <1>11, <1>12, <1>13, <1>14,
     <1>15, <1>16, <1>17, <1>18, <1>19, <1>20
  DEF Next, Serve, ClientStep

\* The types are an invariant, whatever the bounds.
THEOREM TypeCorrect == Spec => []TypeOK
<1>1. Spec => []TypeInv
  BY TypeInit, TypeStep, PTL DEF Spec
<1> QED  BY <1>1, PTL DEF TypeInv

-----------------------------------------------------------------------------
(* A completed upload is stored.                                           *)

\* Init establishes what completed uploads and finalizations rely on.
LEMMA StoredInit == ASSUME Init PROVE StoredInv
  BY DEF Init, StoredInv, FinalizeHasDone, CompletedIsStored

\* No step takes back the object, its metadata or its pointer, and only a finalization
\* that has all three completes the row.
LEMMA StoredStep ==
    ASSUME TypeInv, StoredInv, [Next]_vars
    PROVE  StoredInv'
<1> USE DEF TypeInv, TypeOK, StoredInv, FinalizeHasDone, CompletedIsStored, At, Go,
        storage, request, environment
<1>1. ASSUME NEW q \in Request,
             Open(q) \/ Probe(q) \/ Reopen(q) \/ Verify(q) \/ Inspect(q) \/ Label(q) \/ Point(q)
      PROVE StoredInv'
  BY <1>1 DEF Open, Probe, Reopen, OpenSession, Verify, Inspect, Label, Point
<1>2. ASSUME NEW q \in Request, Insert(q) \/ Patch(q) \/ Complete(q) PROVE StoredInv'
  <2>1. EndRequest(q) /\ UNCHANGED <<pointer, object, labelled>>
    BY <1>2 DEF Insert, Patch, Complete, Answer
  <2>2. row'.status = "completed" => row.status = "completed" \/ step[q] = "complete"
    <3>1. CASE Insert(q)  BY <3>1 DEF Insert
    <3>2. CASE Patch(q)  BY <3>2 DEF Patch
    <3>3. CASE Complete(q)  BY <3>3 DEF Complete
    <3> QED  BY <1>2, <3>1, <3>2, <3>3
  <2> QED  BY <2>1, <2>2 DEF EndRequest
<1>3. ASSUME NEW q \in Request, Mark(q) \/ Fail(q) PROVE StoredInv'
  <2>1. EndRequest(q) /\ UNCHANGED <<pointer, object, labelled>>
    BY <1>3 DEF Mark, Conflict, Fail, Refuse
  <2>2. row'.status = "completed" => row.status = "completed"
    BY <1>3 DEF Mark, Fail
  <2> QED  BY <2>1, <2>2 DEF EndRequest
<1>4. ASSUME NEW q \in Request, Load(q) \/ Check(q) PROVE StoredInv'
  <2>1. UNCHANGED <<row, pointer, object, labelled>>
    BY <1>4 DEF Load, Check
  <2>2. \A p \in Request : step'[p] \in {"label", "point", "complete"} => step'[p] = step[p]
    BY <1>4 DEF Load, Check, Answer, EndRequest
  <2> QED  BY <2>1, <2>2
<1>5. ASSUME NEW q \in Request, Call(q) PROVE StoredInv'
  <2>1. FirstStep[phase] \in {"open", "load", "check"}  BY <1>5 DEF Call, FirstStep
  <2> QED  BY <1>5, <2>1 DEF Call
<1>6. CASE Begin \/ LoseResponse \/ SendAll \/ SendRefused \/ Resume \/ Appear
  BY <1>6 DEF Begin, LoseResponse, SendAll, Store, SendRefused, Resume, Appear
<1>7. CASE Interrupt
  <2>1. (object => object') /\ UNCHANGED <<row, pointer, labelled, step>>
    BY <1>7 DEF Interrupt, Store
  <2> QED  BY <2>1
<1>8. ASSUME NEW n \in Session, Expire(n) PROVE StoredInv'
  BY <1>8 DEF Expire
<1>9. CASE UNCHANGED vars
  BY <1>9 DEF vars
<1> QED
  BY <1>1, <1>2, <1>3, <1>4, <1>5, <1>6, <1>7, <1>8, <1>9 DEF Next, Serve, ClientStep

\* An upload that reads completed is in the bucket, classified and pointed to, however many
\* requests run on beside each other.
THEOREM CompletedStored == Spec => []CompletedIsStored
<1>1. Spec => [](TypeInv /\ StoredInv)
  <2>1. Init => TypeInv /\ StoredInv  BY TypeInit, StoredInit
  <2>2. TypeInv /\ StoredInv /\ [Next]_vars => (TypeInv /\ StoredInv)'
    BY TypeStep, StoredStep
  <2> QED  BY <2>1, <2>2, PTL DEF Spec
<1> QED  BY <1>1, PTL DEF StoredInv
-----------------------------------------------------------------------------
(* A completed upload stays completed.                                     *)

\* The steps of a request that holds the row it has read.
PastLoad == {"probe", "reopen", "patch", "verify", "mark", "inspect", "label", "point",
             "complete"}

\* A request that read the row before anything was sent, or is about to.
PendingLoader(q) == step[q] \in PastLoad /\ loaded[q].status = "pending"
Early(q) == PendingLoader(q) \/ (step[q] = "load" /\ row.status = "pending")

Begun == row.status \in {"uploading", "completed"}

\* Before its creation is answered nothing is known of the upload.
FreshAlone ==
    /\ phase = "new" => awaiting = NoRequest
    /\ phase \in {"new", "creating"} /\ awaiting = NoRequest =>
          row.status = "absent" /\ \A q \in Request : step[q] = "idle"

\* The request that creates the upload is the only one.
CreatorAlone ==
    \A q \in Request : step[q] \in {"open", "insert"} =>
       /\ row.status = "absent" /\ phase \in {"creating", "failed"}
       /\ \A p \in Request \ {q} : step[p] = "idle"

\* completed_at is set with the status and goes with it.
RowDone == row.completedAt => row.status = "completed"

\* What a request has read of the row, and what that says of the row now.
LoadedSays ==
    \A q \in Request :
       /\ step[q] \in PastLoad => loaded[q].status \in {"pending", "uploading"}
                                  /\ ~loaded[q].completedAt
       /\ step[q] \in PastLoad /\ loaded[q].status = "uploading" => Begun
       /\ step[q] \in FinalizeSteps => Begun

\* A request that read the pending row is the client's first resume, or the client has
\* given up: no finalization runs beside it, and none has completed the row.
PendingAlone ==
    \A q \in Request : Early(q) =>
       /\ (phase = "resuming" /\ awaiting = q) \/ phase = "failed"
       /\ row.status # "completed"
       /\ \A p \in Request : step[p] \notin FinalizeSteps

\* A client that has got as far as sending has a row that says so, and no request that
\* read it earlier is left.
StartedSays ==
    phase \in {"sending", "finalizing", "recovering", "closing", "paused"} =>
       Begun /\ \A q \in Request : ~PendingLoader(q)

StayInv == FreshAlone /\ CreatorAlone /\ RowDone /\ LoadedSays /\ PendingAlone /\ StartedSays

\* What the end of a request does to the client's flow.
PhaseMoves(q) ==
    IF awaiting # q THEN phase' = phase
    ELSE \/ phase = "creating" /\ phase' = "resuming"
         \/ /\ phase \in {"resuming", "recovering", "finalizing"}
            /\ phase' \in {"sending", "finalizing", "recovering", "closing", "paused"}
            /\ Begun'
         \/ phase \in {"finalizing", "closing"} /\ phase' = "done"
         \/ phase' = "failed"

\* Init establishes what keeps a completed upload completed.
LEMMA StayInit == ASSUME Init PROVE StayInv
  BY DEF Init, StayInv, FreshAlone, CreatorAlone, RowDone, LoadedSays, PendingAlone,
         StartedSays, Early, PendingLoader, PastLoad

\* An answer moves the client's flow as PhaseMoves says, if the row has begun.
LEMMA AnswerMoves ==
    ASSUME NEW q \in Request, NEW session, NEW next, NEW complete \in BOOLEAN,
           Answer(q, session, next, complete), phase # "creating" => Begun'
    PROVE  EndRequest(q) /\ PhaseMoves(q)
  BY DEF Answer, Hear, PhaseMoves

\* The end of a request that resumes or finalizes an upload leaves StayInv.
LEMMA EndStays ==
    ASSUME TypeInv, StayInv, NEW q \in Request,
           step[q] \in ResumeSteps \cup FinalizeSteps, EndRequest(q), PhaseMoves(q),
           row'.completedAt => row'.status = "completed",
           row'.status # "absent", Begun => Begun',
           row'.status = "completed" => row.status = "completed" \/ step[q] \in FinalizeSteps
    PROVE  StayInv'
<1> USE DEF Begun
<1>1. \A p \in Request : step'[p] # "idle" =>
         p # q /\ step'[p] = step[p] /\ loaded'[p] = loaded[p]
  BY EndRequestTypes
<1>2. /\ awaiting' = IF awaiting = q THEN NoRequest ELSE awaiting
      /\ row.status \in {"pending", "uploading", "completed"}
      /\ row'.status \in {"pending", "uploading", "completed"} \/ ~Begun
      /\ row'.status = "pending" => ~Begun
      /\ q # NoRequest
  BY ConstantsAssumption DEF EndRequest, TypeInv, TypeOK, RequestKnows, Created
<1>3. FreshAlone'
  BY <1>2 DEF StayInv, FreshAlone, PhaseMoves
<1>4. CreatorAlone'
  BY <1>1, <1>2 DEF StayInv, CreatorAlone
<1>5. RowDone'
  BY DEF RowDone
<1>6. LoadedSays'
  BY <1>1 DEF StayInv, LoadedSays, PastLoad
<1>7. \A p \in Request : Early(p)' => Early(p) /\ p # q
  BY <1>1, <1>2 DEF Early, PendingLoader, PastLoad
<1>8. PendingAlone'
  <2> SUFFICES ASSUME NEW p \in Request, Early(p)'
               PROVE  /\ (phase' = "resuming" /\ awaiting' = p) \/ phase' = "failed"
                      /\ row'.status # "completed"
                      /\ \A r \in Request : step'[r] \notin FinalizeSteps
    BY DEF PendingAlone
  <2>1. Early(p) /\ p # q  BY <1>7
  <2>2. /\ (phase = "resuming" /\ awaiting = p) \/ phase = "failed"
        /\ row.status # "completed"
        /\ \A r \in Request : step[r] \notin FinalizeSteps
    BY <2>1 DEF StayInv, PendingAlone
  <2>3. (phase' = "resuming" /\ awaiting' = p) \/ phase' = "failed"
    BY <1>2, <2>1, <2>2 DEF PhaseMoves
  <2>4. \A r \in Request : step'[r] \notin FinalizeSteps
    BY <1>1, <2>2
  <2> QED  BY <2>2, <2>3, <2>4
<1>9. StartedSays'
  <2> SUFFICES ASSUME phase' \in {"sending", "finalizing", "recovering", "closing", "paused"}
               PROVE  Begun' /\ \A p \in Request : ~PendingLoader(p)'
    BY DEF StartedSays
  <2>1. Begun'
    BY DEF PhaseMoves, StayInv, StartedSays
  <2>2. ASSUME NEW p \in Request, PendingLoader(p)' PROVE FALSE
    <3>1. PendingLoader(p) /\ Early(p) /\ p # q
      BY <2>2, <1>1 DEF PendingLoader, PastLoad, Early
    <3>2. (phase = "resuming" /\ awaiting = p) \/ phase = "failed"
      BY <3>1 DEF StayInv, PendingAlone
    <3> QED  BY <3>1, <3>2 DEF PhaseMoves
  <2> QED  BY <2>1, <2>2
<1> QED  BY <1>3, <1>4, <1>5, <1>6, <1>8, <1>9 DEF StayInv

\* No step breaks StayInv.
LEMMA StayStep ==
    ASSUME TypeInv, StayInv, [Next]_vars
    PROVE  StayInv'
<1> USE ConstantsAssumption
    DEF At, Go, PastLoad, storage, request, client, environment
<1>1. ASSUME NEW q \in Request, Open(q) PROVE StayInv'
  BY <1>1 DEF Open, TypeInv, TypeOK, StayInv, FreshAlone, CreatorAlone, RowDone, LoadedSays,
              PendingAlone, StartedSays, Early, PendingLoader, Begun
<1>2. ASSUME NEW q \in Request, Insert(q) PROVE StayInv'
  <2>1. /\ \A p \in Request \ {q} : step[p] = "idle"
        /\ phase \in {"creating", "failed"}
    BY <1>2 DEF Insert, StayInv, CreatorAlone
  <2>2. EndRequest(q) /\ row'.status = "pending" /\ ~row'.completedAt
    BY <1>2 DEF Insert, Answer
  <2>3. \A p \in Request : step'[p] = "idle"
    BY <2>1, <2>2, EndRequestTypes
  <2>4. phase' \in {"resuming", "failed"} \/ (phase' = "creating" /\ awaiting' # NoRequest)
    BY <1>2, <2>1, <2>2 DEF Insert, Answer, Hear, EndRequest, StayInv, FreshAlone
  <2> QED
    BY <2>2, <2>3, <2>4
    DEF StayInv, FreshAlone, CreatorAlone, RowDone, LoadedSays, PendingAlone, StartedSays,
        Early, PendingLoader
<1>3. ASSUME NEW q \in Request, Load(q) PROVE StayInv'
  <2>1. UNCHANGED row /\ step[q] = "load" /\ Created
    BY <1>3 DEF Load, TypeInv, RequestKnows
  <2>2. CASE row.status = "completed"
    <3>1. EndRequest(q) /\ PhaseMoves(q)
      BY <1>3, <2>1, <2>2, AnswerMoves DEF Load, Begun
    <3> QED
      BY <2>1, <2>2, <3>1, EndStays DEF Begun, Created, StayInv, RowDone
  <2>3. CASE row.status # "completed"
    <3>1. /\ loaded' = [loaded EXCEPT ![q] = row] /\ step' = [step EXCEPT ![q] = "probe"]
          /\ UNCHANGED <<row, phase, awaiting>>
      BY <1>3, <2>3 DEF Load
    <3>2. row.status \in {"pending", "uploading"} /\ ~row.completedAt
      BY <2>1, <2>3 DEF TypeInv, TypeOK, Created, StayInv, RowDone
    <3>3. FreshAlone' /\ CreatorAlone' /\ RowDone'
      BY <2>1, <3>1, <3>2 DEF TypeInv, TypeOK, StayInv, FreshAlone, CreatorAlone, RowDone
    <3>4. LoadedSays'
      BY <2>1, <3>1, <3>2 DEF TypeInv, TypeOK, StayInv, LoadedSays, Begun
    <3>5. \A p \in Request : Early(p)' => Early(p)
      BY <2>1, <3>1, <3>2 DEF TypeInv, TypeOK, Early, PendingLoader
    <3>6. PendingAlone'
      BY <2>1, <3>1, <3>5 DEF TypeInv, TypeOK, StayInv, PendingAlone
    <3>7. StartedSays'
      <4>1. CASE row.status = "uploading"
        BY <2>1, <3>1, <4>1 DEF TypeInv, TypeOK, StayInv, StartedSays, PendingLoader, Begun
      <4>2. CASE row.status = "pending"
        BY <2>1, <3>1, <4>2 DEF StayInv, StartedSays, Begun
      <4> QED  BY <3>2, <4>1, <4>2
    <3> QED  BY <3>3, <3>4, <3>6, <3>7 DEF StayInv
  <2> QED  BY <2>2, <2>3
<1>4. ASSUME NEW q \in Request, Check(q) PROVE StayInv'
  <2>1. UNCHANGED row /\ step[q] = "check" /\ Begun
    BY <1>4 DEF Check, StayInv, LoadedSays
  <2>2. CASE row.status = "completed"
    <3>1. EndRequest(q) /\ PhaseMoves(q)
      BY <1>4, <2>1, <2>2, AnswerMoves DEF Check, Begun
    <3> QED
      BY <2>1, <2>2, <3>1, EndStays DEF Begun, StayInv, RowDone
  <2>3. CASE row.status # "completed"
    <3>1. /\ loaded' = [loaded EXCEPT ![q] = row] /\ step' = [step EXCEPT ![q] = "verify"]
          /\ UNCHANGED <<row, phase, awaiting>>
      BY <1>4, <2>3 DEF Check
    <3>2. row.status = "uploading" /\ ~row.completedAt
      BY <2>1, <2>3 DEF StayInv, RowDone, Begun
    <3>3. \A p \in Request : Early(p)' => Early(p)
      BY <2>1, <3>1, <3>2 DEF TypeInv, TypeOK, Early, PendingLoader
    <3>4. FreshAlone' /\ CreatorAlone' /\ RowDone'
      BY <2>1, <3>1, <3>2 DEF TypeInv, TypeOK, StayInv, FreshAlone, CreatorAlone, RowDone
    <3>5. LoadedSays'
      BY <2>1, <3>1, <3>2 DEF TypeInv, TypeOK, StayInv, LoadedSays, Begun
    <3>6. PendingAlone'
      BY <2>1, <3>1, <3>3 DEF TypeInv, TypeOK, StayInv, PendingAlone
    <3>7. StartedSays'
      BY <2>1, <3>1, <3>2 DEF TypeInv, TypeOK, StayInv, StartedSays, PendingLoader, Begun
    <3> QED  BY <3>4, <3>5, <3>6, <3>7 DEF StayInv
  <2> QED  BY <2>2, <2>3
<1>5. ASSUME NEW q \in Request, NEW s \in PastLoad,
             step[q] \in PastLoad, step' = [step EXCEPT ![q] = s],
             s \in FinalizeSteps <=> step[q] \in FinalizeSteps,
             UNCHANGED <<row, loaded, phase, awaiting>>
      PROVE  StayInv'
  <2>1. \A p \in Request :
           /\ step'[p] \in PastLoad <=> step[p] \in PastLoad
           /\ step'[p] \in FinalizeSteps <=> step[p] \in FinalizeSteps
           /\ step'[p] \notin PastLoad => step'[p] = step[p]
           /\ step'[p] = "idle" <=> step[p] = "idle"
    BY <1>5 DEF TypeInv, TypeOK
  <2>2. \A p \in Request : (Early(p)' <=> Early(p)) /\ (PendingLoader(p)' <=> PendingLoader(p))
    BY <1>5, <2>1 DEF Early, PendingLoader
  <2>3. FreshAlone' /\ CreatorAlone' /\ RowDone'
    BY <1>5, <2>1 DEF StayInv, FreshAlone, CreatorAlone, RowDone
  <2>4. LoadedSays'
    BY <1>5, <2>1 DEF StayInv, LoadedSays, Begun
  <2>5. PendingAlone' /\ StartedSays'
    BY <1>5, <2>1, <2>2 DEF StayInv, PendingAlone, StartedSays, Begun
  <2> QED  BY <2>3, <2>4, <2>5 DEF StayInv
<1>6. ASSUME NEW q \in Request,
             Probe(q) \/ Reopen(q) \/ Verify(q) \/ Inspect(q) \/ Label(q) \/ Point(q)
      PROVE  StayInv'
  <2>1. PICK s \in PastLoad :
           /\ step[q] \in PastLoad /\ step' = [step EXCEPT ![q] = s]
           /\ s \in FinalizeSteps <=> step[q] \in FinalizeSteps
           /\ UNCHANGED <<row, loaded, phase, awaiting>>
    BY <1>6 DEF Probe, Reopen, Verify, Inspect, Label, Point
  <2> QED  BY <1>5, <2>1
<1>7. ASSUME NEW q \in Request, Patch(q) PROVE StayInv'
  <2>1. step[q] = "patch" /\ Created /\ loaded[q].status \in {"pending", "uploading"}
    BY <1>7 DEF Patch, TypeInv, RequestKnows, StayInv, LoadedSays
  <2>2. PICK status, session :
           /\ status = IF loaded[q].status = "uploading" THEN row.status ELSE "uploading"
           /\ row' = [row EXCEPT !.status = status, !.url = session]
    BY <1>7 DEF Patch
  <2>3. row'.status = status /\ row'.completedAt = row.completedAt
    BY <2>2 DEF TypeInv, TypeOK
  <2>4. loaded[q].status = "uploading" => Begun
    BY <2>1 DEF StayInv, LoadedSays
  <2>5. loaded[q].status = "pending" => row.status # "completed"
    BY <2>1 DEF StayInv, PendingAlone, Early, PendingLoader
  <2>6. row'.status \in {"uploading", "completed"}
    BY <2>1, <2>2, <2>3, <2>4 DEF Begun
  <2>7. Begun'  BY <2>6 DEF Begun
  <2>8. EndRequest(q) /\ PhaseMoves(q)
    <3>1. PICK answered : Answer(q, answered, offset[q], offset[q] = Size)
      BY <1>7 DEF Patch
    <3>2. (offset[q] = Size) \in BOOLEAN  OBVIOUS
    <3> QED  BY <2>7, <3>1, <3>2, AnswerMoves
  <2>9. row'.completedAt => row'.status = "completed"
    BY <2>1, <2>2, <2>3, <2>5 DEF StayInv, RowDone
  <2>10. row'.status = "completed" => row.status = "completed"
    BY <2>1, <2>2, <2>3
  <2> QED
    BY <2>1, <2>6, <2>7, <2>8, <2>9, <2>10, EndStays
<1>8. ASSUME NEW q \in Request, Mark(q) PROVE StayInv'
  <2>1. step[q] = "mark" /\ Begun  BY <1>8 DEF Mark, StayInv, LoadedSays
  <2>2. UNCHANGED row
    BY <1>8, <2>1 DEF Mark, StayInv, LoadedSays, PendingAlone, Early, PendingLoader
  <2>3. EndRequest(q) /\ PhaseMoves(q)
    BY <1>8, <2>1, <2>2 DEF Mark, Conflict, HearConflict, PhaseMoves, Begun
  <2> QED
    BY <2>1, <2>2, <2>3, EndStays DEF Begun, StayInv, RowDone
<1>9. ASSUME NEW q \in Request, Complete(q) PROVE StayInv'
  <2>1. step[q] = "complete" /\ row'.status = "completed"
    BY <1>9 DEF Complete, TypeInv, TypeOK
  <2>2. EndRequest(q) /\ PhaseMoves(q)
    BY <1>9, <2>1, AnswerMoves DEF Complete, Begun
  <2> QED
    BY <2>1, <2>2, EndStays DEF Begun
<1>10. ASSUME NEW q \in Request, Fail(q) PROVE StayInv'
  <2>1. step[q] # "idle" /\ UNCHANGED row /\ EndRequest(q)  BY <1>10 DEF Fail, Refuse
  <2>2. PhaseMoves(q)
    BY <1>10, <2>1 DEF Fail, Refuse, HearError, PhaseMoves, StayInv, StartedSays, Begun
  <2>3. CASE step[q] \in ResumeSteps \cup FinalizeSteps
    BY <2>1, <2>2, <2>3, EndStays
    DEF Begun, StayInv, RowDone, TypeInv, TypeOK, RequestKnows, Created
  <2>4. CASE step[q] \in {"open", "insert"}
    <3>1. /\ \A p \in Request : step'[p] = "idle"
          /\ row.status = "absent" /\ phase \in {"creating", "failed"}
      BY <2>1, <2>4, EndRequestTypes DEF StayInv, CreatorAlone
    <3>2. phase' \in {"creating", "failed"}
      BY <1>10, <3>1 DEF Fail, Refuse, HearError
    <3> QED
      BY <2>1, <3>1, <3>2
      DEF StayInv, FreshAlone, CreatorAlone, RowDone, LoadedSays, PendingAlone, StartedSays,
          Early, PendingLoader
  <2> QED  BY <2>1, <2>3, <2>4 DEF TypeInv, TypeOK
<1>11. CASE Begin
  BY <1>11
  DEF Begin, StayInv, FreshAlone, CreatorAlone, RowDone, LoadedSays, PendingAlone, StartedSays,
      Early, PendingLoader, Begun
<1>12. ASSUME NEW q \in Request, Call(q) PROVE StayInv'
  <2>1. /\ phase \in {"creating", "resuming", "finalizing", "recovering", "closing"}
        /\ awaiting = NoRequest /\ awaiting' = q /\ step[q] = "idle"
        /\ step' = [step EXCEPT ![q] = FirstStep[phase]] /\ UNCHANGED <<row, loaded, phase>>
        /\ phase = "creating" => FirstStep[phase] = "open"
        /\ phase \in {"resuming", "recovering"} => FirstStep[phase] = "load"
        /\ phase \in {"finalizing", "closing"} => FirstStep[phase] = "check"
    BY <1>12 DEF Call, FirstStep
  <2>2. \A p \in Request : PendingLoader(p)' <=> PendingLoader(p)
    BY <2>1 DEF PendingLoader, TypeInv, TypeOK
  <2>3. \A p \in Request : ~Early(p)
    BY <2>1 DEF StayInv, PendingAlone
  <2>4. FreshAlone' /\ RowDone'
    BY <2>1 DEF StayInv, FreshAlone, RowDone
  <2>5. CreatorAlone'
    BY <2>1 DEF StayInv, FreshAlone, CreatorAlone, TypeInv, TypeOK, ClientKnows, Created
  <2>6. LoadedSays'
    BY <2>1 DEF StayInv, LoadedSays, StartedSays, Begun, TypeInv, TypeOK
  <2>7. PendingAlone'
    <3> SUFFICES ASSUME NEW p \in Request, Early(p)'
                 PROVE  /\ phase = "resuming" /\ q = p
                        /\ row.status # "completed"
                        /\ \A r \in Request : step'[r] \notin FinalizeSteps
      BY <2>1 DEF PendingAlone
    <3>1. p = q /\ step'[p] = "load" /\ row.status = "pending"
      BY <2>1, <2>2, <2>3 DEF Early, TypeInv, TypeOK
    <3>2. phase = "resuming"
      BY <2>1, <3>1 DEF StayInv, StartedSays, Begun, TypeInv, TypeOK
    <3>3. \A r \in Request : step[r] \notin FinalizeSteps
      BY <3>1 DEF StayInv, LoadedSays, Begun
    <3> QED  BY <2>1, <3>1, <3>2, <3>3 DEF TypeInv, TypeOK
  <2>8. StartedSays'
    BY <2>1, <2>2 DEF StayInv, StartedSays, Begun
  <2> QED  BY <2>4, <2>5, <2>6, <2>7, <2>8 DEF StayInv
<1>13. CASE LoseResponse \/ SendAll \/ Interrupt \/ SendRefused \/ Resume
  <2>1. UNCHANGED <<row, step, loaded>>
    BY <1>13 DEF LoseResponse, SendAll, Interrupt, SendRefused, Resume
  <2>2. \/ phase' = "failed"
        \/ /\ phase \in {"sending", "paused", "recovering"}
           /\ phase' \in {"finalizing", "recovering", "paused", "resuming"}
    BY <1>13 DEF LoseResponse, HearError, SendAll, Interrupt, SendRefused, Resume
  <2>3. phase \notin {"new", "creating"} \/ phase' = "failed"
    BY <2>2
  <2>4. \A p \in Request : (Early(p)' <=> Early(p)) /\ (PendingLoader(p)' <=> PendingLoader(p))
    BY <2>1 DEF Early, PendingLoader
  <2>5. FreshAlone' /\ RowDone' /\ LoadedSays'
    BY <2>1, <2>2 DEF StayInv, FreshAlone, RowDone, LoadedSays, Begun
  <2>6. CreatorAlone'
    BY <2>1, <2>2
    DEF StayInv, CreatorAlone
  <2>7. PendingAlone'
    BY <2>1, <2>2, <2>4 DEF StayInv, PendingAlone
  <2>8. StartedSays'
    BY <2>1, <2>2, <2>4 DEF StayInv, StartedSays, Begun
  <2> QED  BY <2>5, <2>6, <2>7, <2>8 DEF StayInv
<1>14. CASE Appear \/ (\E n \in Session : Expire(n)) \/ UNCHANGED vars
  <2>1. UNCHANGED <<row, step, loaded, phase, awaiting>>
    BY <1>14 DEF Appear, Expire, vars
  <2> QED
    BY <2>1
    DEF StayInv, FreshAlone, CreatorAlone, RowDone, LoadedSays, PendingAlone, StartedSays,
        Early, PendingLoader, Begun
<1> QED
  BY <1>1, <1>2, <1>3, <1>4, <1>6, <1>7, <1>8, <1>9, <1>10, <1>11, <1>12, <1>13, <1>14
  DEF Next, Serve, ClientStep

\* Of the requests in progress, whenever they began, none takes a completed upload back.
THEOREM CompletedIsFinal == Spec => CompletedStays
<1>1. ASSUME TypeInv, StayInv, [Next]_vars, row.status = "completed"
      PROVE  row'.status = "completed"
  <2>1. \A q \in Request : ~Insert(q)
    BY <1>1 DEF Insert, At, StayInv, CreatorAlone
  <2>2. ASSUME NEW q \in Request, Patch(q) PROVE row'.status = "completed"
    <3>1. loaded[q].status = "uploading"
      BY <1>1, <2>2
      DEF Patch, At, StayInv, LoadedSays, PendingAlone, Early, PendingLoader, PastLoad
    <3> QED  BY <1>1, <2>2, <3>1 DEF Patch, TypeInv, TypeOK
  <2>3. ASSUME NEW q \in Request, Mark(q) PROVE row'.status = "completed"
    BY <1>1, <2>3
    DEF Mark, At, StayInv, LoadedSays, PendingAlone, Early, PendingLoader, PastLoad
  <2>4. ASSUME NEW q \in Request, Complete(q) PROVE row'.status = "completed"
    BY <1>1, <2>4 DEF Complete, TypeInv, TypeOK
  <2>5. ASSUME NEW q \in Request,
               Open(q) \/ Load(q) \/ Probe(q) \/ Reopen(q) \/ Check(q) \/ Verify(q)
               \/ Inspect(q) \/ Label(q) \/ Point(q) \/ Fail(q) \/ Call(q)
        PROVE  UNCHANGED row
    BY <2>5 DEF Open, Load, Probe, Reopen, Check, Verify, Inspect, Label, Point, Fail, Call
  <2>6. CASE Begin \/ LoseResponse \/ SendAll \/ Interrupt \/ SendRefused \/ Resume \/ Appear
             \/ (\E n \in Session : Expire(n)) \/ UNCHANGED vars
    <3>1. UNCHANGED row
      BY <2>6 DEF Begin, LoseResponse, SendAll, Interrupt, SendRefused, Resume, Appear,
                  Expire, vars
    <3> QED  BY <1>1, <3>1
  <2> QED
    BY <1>1, <2>1, <2>2, <2>3, <2>4, <2>5, <2>6 DEF Next, Serve, ClientStep
<1>2. Spec => [](TypeInv /\ StayInv)
  <2>1. Init => TypeInv /\ StayInv  BY TypeInit, StayInit
  <2>2. TypeInv /\ StayInv /\ [Next]_vars => (TypeInv /\ StayInv)'
    BY TypeStep, StayStep
  <2> QED  BY <2>1, <2>2, PTL DEF Spec
<1>3. TypeInv /\ StayInv /\ [Next]_vars =>
         [row.status = "completed" => row'.status = "completed"]_row
  BY <1>1
<1> QED  BY <1>2, <1>3, PTL DEF Spec, CompletedStays

-----------------------------------------------------------------------------
(* The client sends what its session is missing.                           *)

\* What is known as a session was opened, and one not opened yet holds nothing.
SessionsKnown ==
    /\ row.url <= opened /\ url <= opened
    /\ \A q \in Request : loaded[q].url <= opened /\ fresh[q] <= opened
NewSessionsEmpty == \A n \in Session : n > opened => received[n] = 0

SessionInv == SessionsKnown /\ NewSessionsEmpty

\* A client that waits for an answer does not send.
WaitingCalls ==
    awaiting # NoRequest =>
       phase \in {"creating", "resuming", "finalizing", "recovering", "closing"}

\* The client's first resume, which reads the row as pending, has no other request beside
\* it, and the session it has read stays the row's.
FirstAlone ==
    /\ phase = "resuming" /\ row.status = "pending" /\ awaiting = NoRequest =>
          \A p \in Request : step[p] = "idle"
    /\ \A q \in Request : Early(q) /\ awaiting = q =>
          /\ PendingLoader(q) => loaded[q].url = row.url
          /\ \A p \in Request \ {q} : step[p] = "idle"

\* The offset a resume is about to answer is what the session holds.
ProbeHolds ==
    \A q \in Request : awaiting = q /\ step[q] = "patch" =>
       fresh[q] \in expired \/ offset[q] = received[fresh[q]]

\* Until a resume opens a session of its own it has the one it has read.
ProbesItsOwn ==
    \A q \in Request : step[q] \in {"probe", "reopen"} => fresh[q] = loaded[q].url

FlowInv == WaitingCalls /\ FirstAlone
OfferInv == ProbeHolds /\ ProbesItsOwn /\ OfferIsExact

\* What an answer does to the client's flow.
LEMMA AnswerOffers ==
    ASSUME NEW q \in Request, NEW session, NEW next, NEW complete \in BOOLEAN,
           Answer(q, session, next, complete)
    PROVE  \/ UNCHANGED <<phase, url, from>> /\ awaiting # q
           \/ /\ awaiting = q /\ phase = "creating" /\ phase' = "resuming"
              /\ url' = session /\ from' = from
           \/ /\ awaiting = q /\ phase \in {"resuming", "recovering"}
              /\ phase' \in {"finalizing", "sending", "closing", "paused"}
              /\ phase' = "sending" => phase = "resuming" /\ ~complete
              /\ url' = session /\ from' = next
           \/ /\ awaiting = q /\ phase \in {"finalizing", "closing"} /\ phase' = "done"
              /\ UNCHANGED <<url, from>>
  BY DEF Answer, Hear

\* Nothing is known and nothing received at first.
LEMMA OfferInit == ASSUME Init PROVE SessionInv /\ FlowInv /\ OfferInv
<1>1. SessionsKnown
  BY ConstantsAssumption DEF Init, SessionsKnown
<1>2. NewSessionsEmpty
  BY DEF Init, NewSessionsEmpty
<1> QED
  BY <1>1, <1>2 DEF Init, SessionInv, FlowInv, OfferInv, WaitingCalls, FirstAlone, ProbeHolds,
                    ProbesItsOwn, OfferIsExact, Early, PendingLoader, PastLoad

\* A session is known from when it is opened, and receives what is sent to it by then.
LEMMA SessionStep ==
    ASSUME TypeInv, SessionInv, [Next]_vars
    PROVE  SessionInv'
<1> USE ConstantsAssumption DEF TypeInv, TypeOK, SessionInv, SessionsKnown, NewSessionsEmpty, At,
        Go, storage, request, client, environment, Session
<1>1. ASSUME NEW q \in Request, Open(q) \/ Reopen(q) PROVE SessionInv'
  <2>1. opened' = opened + 1 /\ fresh' = [fresh EXCEPT ![q] = opened + 1]
        /\ UNCHANGED <<row, url, received, loaded>>
    BY <1>1 DEF Open, Reopen, OpenSession
  <2>2. row.url \in Nat /\ url \in Nat /\ opened \in Nat
        /\ \A p \in Request : loaded[p].url \in Nat /\ fresh[p] \in Nat
    OBVIOUS
  <2> QED  BY <2>1, <2>2
<1>2. ASSUME NEW q \in Request, EndRequest(q), row'.url <= opened, url' <= opened,
             UNCHANGED <<opened, received>>
      PROVE  SessionInv'
  <2>1. loaded' = [loaded EXCEPT ![q] = NoRow] /\ fresh' = [fresh EXCEPT ![q] = NoSession]
    BY <1>2 DEF EndRequest
  <2> QED  BY <1>2, <2>1
<1>3. ASSUME NEW q \in Request, NEW session, NEW next, NEW complete \in BOOLEAN,
             Answer(q, session, next, complete), session <= opened, row'.url <= opened,
             UNCHANGED <<opened, received>>
      PROVE  SessionInv'
  <2>1. EndRequest(q)  BY <1>3 DEF Answer
  <2>2. url' \in {url, session}  BY <1>3, AnswerOffers
  <2> QED  BY <1>2, <1>3, <2>1, <2>2
<1>4. ASSUME NEW q \in Request, Insert(q) \/ Complete(q) PROVE SessionInv'
  <2>1. CASE Insert(q)
    <3>1. Answer(q, fresh[q], 0, FALSE) /\ row'.url = fresh[q] /\ UNCHANGED <<opened, received>>
      BY <2>1 DEF Insert
    <3> QED  BY <1>3, <3>1
  <2>2. CASE Complete(q)
    <3>1. Answer(q, row.url, Size, TRUE) /\ row'.url = row.url /\ UNCHANGED <<opened, received>>
      BY <2>2 DEF Complete
    <3> QED  BY <1>3, <3>1
  <2> QED  BY <1>4, <2>1, <2>2
<1>5. ASSUME NEW q \in Request, Load(q) \/ Check(q) PROVE SessionInv'
  <2>1. UNCHANGED <<row, opened, received>>  BY <1>5 DEF Load, Check
  <2>2. CASE row.status = "completed"
    <3>1. Answer(q, row.url, Size, TRUE)  BY <1>5, <2>2 DEF Load, Check
    <3> QED  BY <1>3, <2>1, <3>1
  <2>3. CASE row.status # "completed"
    <3>1. /\ loaded' = [loaded EXCEPT ![q] = row] /\ UNCHANGED url
          /\ fresh' = fresh \/ fresh' = [fresh EXCEPT ![q] = row.url]
      BY <1>5, <2>3 DEF Load, Check
    <3> QED  BY <2>1, <3>1
  <2> QED  BY <2>2, <2>3
<1>6. ASSUME NEW q \in Request, Patch(q) PROVE SessionInv'
  <2> DEFINE session == IF fresh[q] = loaded[q].url THEN row.url ELSE fresh[q]
  <2>1. row'.url = session /\ UNCHANGED <<opened, received>>  BY <1>6 DEF Patch
  <2>2. PICK answered \in {session, loaded[q].url} :
           Answer(q, answered, offset[q], offset[q] = Size)
    BY <1>6 DEF Patch
  <2>3. session <= opened /\ loaded[q].url <= opened  OBVIOUS
  <2>4. (offset[q] = Size) \in BOOLEAN  OBVIOUS
  <2> QED  BY <1>3, <2>1, <2>2, <2>3, <2>4
<1>7. ASSUME NEW q \in Request, Mark(q) \/ Fail(q) PROVE SessionInv'
  <2>1. EndRequest(q) /\ row'.url = row.url /\ UNCHANGED <<url, opened, received>>
    BY <1>7 DEF Mark, Conflict, HearConflict, Fail, Refuse, HearError
  <2> QED  BY <1>2, <2>1
<1>8. ASSUME NEW q \in Request,
             Probe(q) \/ Verify(q) \/ Inspect(q) \/ Label(q) \/ Point(q) \/ Call(q)
      PROVE  SessionInv'
  <2>1. UNCHANGED <<row, opened, received, loaded, fresh, url>>
    BY <1>8 DEF Probe, Verify, Inspect, Label, Point, Call
  <2> QED  BY <2>1
<1>9. CASE SendAll \/ Interrupt
  <2>1. PICK bytes \in 0..Size : received' = [received EXCEPT ![url] = bytes]
    BY <1>9 DEF SendAll, Interrupt, Store, ClientKnows
  <2>2. UNCHANGED <<row, opened, loaded, fresh, url>>
    BY <1>9 DEF SendAll, Interrupt, Store
  <2> QED  BY <2>1, <2>2
<1>10. CASE Begin \/ LoseResponse \/ SendRefused \/ Resume \/ Appear
            \/ (\E n \in Session : Expire(n)) \/ UNCHANGED vars
  <2>1. UNCHANGED <<row, opened, received, loaded, fresh, url>>
    BY <1>10 DEF Begin, LoseResponse, HearError, SendRefused, Resume, Appear, Expire, vars
  <2> QED  BY <2>1
<1> QED
  BY <1>1, <1>4, <1>5, <1>6, <1>7, <1>8, <1>9, <1>10 DEF Next, Serve, ClientStep

\* What the end of a request means to the client: nothing, if it waits for another one.
LEMMA EndQuiet ==
    ASSUME TypeInv, StayInv, FlowInv, NEW q \in Request, EndRequest(q), step[q] # "idle",
           awaiting # q => phase' = phase,
           phase' = "resuming" => phase = "creating" \/ awaiting # q,
           row'.status = "pending" =>
              row.status = "pending" /\ ~(phase = "creating" /\ phase' = "resuming")
    PROVE  FlowInv'
<1> USE ConstantsAssumption DEF TypeInv, TypeOK
<1>1. /\ awaiting' = IF awaiting = q THEN NoRequest ELSE awaiting
      /\ q # NoRequest
      /\ \A p \in Request : step'[p] # "idle" =>
            p # q /\ step'[p] = step[p] /\ loaded'[p] = loaded[p]
      /\ \A p \in Request : step[p] = "idle" => step'[p] = "idle"
      /\ step'[q] = "idle"
  BY EndRequestTypes DEF EndRequest, Go
<1>2. WaitingCalls'
  BY <1>1 DEF FlowInv, WaitingCalls
<1>3. ASSUME phase' = "resuming", row'.status = "pending", awaiting' = NoRequest
      PROVE  FALSE
  <2>1. phase = "resuming" /\ awaiting = NoRequest /\ row.status = "pending"
    BY <1>1, <1>3
  <2> QED  BY <2>1 DEF FlowInv, FirstAlone
<1>4. ASSUME NEW p \in Request, Early(p)', awaiting' = p PROVE FALSE
  <2>1. p # q /\ awaiting = p /\ step'[p] = step[p] /\ loaded'[p] = loaded[p]
    BY <1>1, <1>4 DEF Early, PendingLoader, PastLoad
  <2>2. Early(p)  BY <1>4, <2>1 DEF Early, PendingLoader
  <2> QED  BY <2>1, <2>2 DEF FlowInv, FirstAlone
<1> QED  BY <1>2, <1>3, <1>4 DEF FlowInv, FirstAlone

\* A request that goes on leaves the flow as it is, and a first resume alone.
LEMMA GoQuiet ==
    ASSUME TypeInv, FlowInv, NEW q \in Request, NEW s, step' = [step EXCEPT ![q] = s],
           step[q] # "idle", UNCHANGED <<row, phase, awaiting>>,
           \A p \in Request \ {q} : loaded'[p] = loaded[p],
           Early(q)' => Early(q), PendingLoader(q)' => loaded'[q].url = row.url
    PROVE  FlowInv'
<1> USE DEF TypeInv, TypeOK
<1>1. WaitingCalls'  BY DEF FlowInv, WaitingCalls
<1>2. ~(phase = "resuming" /\ row.status = "pending" /\ awaiting = NoRequest)
  BY DEF FlowInv, FirstAlone
<1>3. ASSUME NEW p \in Request, Early(p)', awaiting = p
      PROVE  /\ PendingLoader(p)' => loaded'[p].url = row.url
             /\ \A r \in Request \ {p} : step'[r] = "idle"
  <2>1. CASE p = q  BY <1>3, <2>1 DEF FlowInv, FirstAlone
  <2>2. CASE p # q
    <3>1. Early(p)  BY <1>3, <2>2 DEF Early, PendingLoader
    <3> QED  BY <1>3, <2>2, <3>1 DEF FlowInv, FirstAlone
  <2> QED  BY <2>1, <2>2
<1> QED  BY <1>1, <1>2, <1>3 DEF FlowInv, FirstAlone

\* No step disturbs the first resume: the client asks for nothing else before it is answered,
\* and gives the flow up when the answer is lost.
LEMMA FlowStep ==
    ASSUME TypeInv, StayInv, FlowInv, [Next]_vars
    PROVE  FlowInv'
<1> USE ConstantsAssumption DEF At, Go, storage, request, client, environment
<1>1. ASSUME NEW q \in Request, Insert(q) PROVE FlowInv'
  <2>1. /\ \A p \in Request \ {q} : step[p] = "idle"
        /\ phase \in {"creating", "failed"}
    BY <1>1 DEF Insert, StayInv, CreatorAlone
  <2>2. EndRequest(q)  BY <1>1 DEF Insert, Answer
  <2>3. \A p \in Request : step'[p] = "idle"
    BY <2>1, <2>2, EndRequestTypes
  <2>4. awaiting' = (IF awaiting = q THEN NoRequest ELSE awaiting)
        /\ (awaiting # q => phase' = phase)
    BY <1>1, <2>2 DEF Insert, Answer, EndRequest
  <2>5. WaitingCalls'  BY <2>4 DEF FlowInv, WaitingCalls
  <2> QED  BY <2>3, <2>5 DEF FlowInv, FirstAlone, Early, PendingLoader, PastLoad
<1>2. ASSUME NEW q \in Request, NEW session, NEW next, NEW complete \in BOOLEAN,
             Answer(q, session, next, complete), step[q] # "idle", row'.status # "pending"
      PROVE  FlowInv'
  <2>1. EndRequest(q) /\ (awaiting # q => phase' = phase)
        /\ (phase' = "resuming" => phase = "creating" \/ awaiting # q)
    BY <1>2, AnswerOffers DEF Answer
  <2> QED  BY <1>2, <2>1, EndQuiet
<1>3. ASSUME NEW q \in Request, Load(q) \/ Check(q) PROVE FlowInv'
  <2>1. UNCHANGED row /\ step[q] \in {"load", "check"}  BY <1>3 DEF Load, Check
  <2>2. CASE row.status = "completed"
    <3>1. Answer(q, row.url, Size, TRUE)  BY <1>3, <2>2 DEF Load, Check
    <3> QED  BY <1>2, <2>1, <2>2, <3>1
  <2>3. CASE row.status # "completed" /\ Load(q)
    <3>1. /\ loaded' = [loaded EXCEPT ![q] = row] /\ step' = [step EXCEPT ![q] = "probe"]
          /\ UNCHANGED <<phase, awaiting>>
      BY <2>3 DEF Load
    <3>2. loaded'[q] = row /\ step[q] = "load"  BY <2>3, <3>1 DEF TypeInv, TypeOK, Load
    <3>3. Early(q)' => Early(q)  BY <2>1, <3>1, <3>2 DEF Early, PendingLoader, TypeInv, TypeOK
    <3> QED  BY <2>1, <3>1, <3>2, <3>3, GoQuiet DEF TypeInv, TypeOK
  <2>4. CASE row.status # "completed" /\ Check(q)
    <3>1. /\ loaded' = [loaded EXCEPT ![q] = row] /\ step' = [step EXCEPT ![q] = "verify"]
          /\ UNCHANGED <<phase, awaiting>>
      BY <2>4 DEF Check
    <3>2. loaded'[q] = row /\ Begun
      BY <2>4, <3>1 DEF TypeInv, TypeOK, Check, StayInv, LoadedSays
    <3>3. ~Early(q)'
      BY <2>1, <3>1, <3>2 DEF Early, PendingLoader, TypeInv, TypeOK, Begun
    <3> QED  BY <2>1, <3>1, <3>2, <3>3, GoQuiet DEF TypeInv, TypeOK, Early
  <2> QED  BY <1>3, <2>2, <2>3, <2>4
<1>4. ASSUME NEW q \in Request, Patch(q) PROVE FlowInv'
  <2>1. step[q] = "patch" /\ loaded[q].status \in {"pending", "uploading"}
        /\ (loaded[q].status = "uploading" => Begun)
    BY <1>4 DEF Patch, StayInv, LoadedSays, PastLoad
  <2>2. PICK answered : Answer(q, answered, offset[q], offset[q] = Size)
    BY <1>4 DEF Patch
  <2>3. row'.status # "pending"
    BY <1>4, <2>1 DEF Patch, Begun, TypeInv, TypeOK
  <2>4. (offset[q] = Size) \in BOOLEAN  OBVIOUS
  <2> QED  BY <1>2, <2>1, <2>2, <2>3, <2>4
<1>5. ASSUME NEW q \in Request, Complete(q) PROVE FlowInv'
  <2>1. Answer(q, row.url, Size, TRUE) /\ step[q] = "complete" /\ row'.status = "completed"
    BY <1>5 DEF Complete, TypeInv, TypeOK
  <2> QED  BY <1>2, <2>1
<1>6. ASSUME NEW q \in Request, Mark(q) \/ Fail(q) PROVE FlowInv'
  <2>1. EndRequest(q) /\ step[q] # "idle" /\ (awaiting # q => phase' = phase)
    BY <1>6 DEF Mark, Conflict, Fail, Refuse
  <2>2. phase' # "resuming" \/ awaiting # q
    BY <1>6 DEF Mark, Conflict, HearConflict, Fail, Refuse, HearError
  <2>3. row'.status = "pending" => row.status = "pending"
    BY <1>6 DEF Mark, Fail, TypeInv, TypeOK
  <2> QED  BY <2>1, <2>2, <2>3, EndQuiet
<1>7. ASSUME NEW q \in Request,
             Open(q) \/ Probe(q) \/ Reopen(q) \/ Verify(q) \/ Inspect(q) \/ Label(q) \/ Point(q)
      PROVE  FlowInv'
  <2>1. PICK s \in {"insert"} \cup PastLoad :
           step' = [step EXCEPT ![q] = s] /\ (s \in PastLoad => step[q] \in PastLoad)
    BY <1>7 DEF Open, Probe, Reopen, Verify, Inspect, Label, Point, PastLoad
  <2>2. UNCHANGED <<row, loaded, phase, awaiting>> /\ step[q] # "idle"
    BY <1>7 DEF Open, Probe, Reopen, Verify, Inspect, Label, Point
  <2>3. (Early(q)' => Early(q)) /\ (PendingLoader(q)' => PendingLoader(q))
    BY <2>1, <2>2 DEF Early, PendingLoader, PastLoad, TypeInv, TypeOK
  <2>4. CASE awaiting = q
    <3>1. PendingLoader(q)' => loaded'[q].url = row.url
      BY <2>2, <2>3, <2>4 DEF FlowInv, FirstAlone, Early
    <3> QED  BY <2>1, <2>2, <2>3, <3>1, GoQuiet
  <2>5. CASE awaiting # q
    <3>1. WaitingCalls'  BY <2>2 DEF FlowInv, WaitingCalls
    <3>2. ~(phase = "resuming" /\ row.status = "pending" /\ awaiting = NoRequest)
      BY <2>2 DEF FlowInv, FirstAlone
    <3>3. ASSUME NEW p \in Request, Early(p)', awaiting = p PROVE FALSE
      <4>1. p # q /\ Early(p)
        BY <2>1, <2>2, <2>5, <3>3 DEF Early, PendingLoader, TypeInv, TypeOK
      <4> QED  BY <2>2, <3>3, <4>1 DEF FlowInv, FirstAlone
    <3> QED  BY <2>2, <3>1, <3>2, <3>3 DEF FlowInv, FirstAlone
  <2> QED  BY <2>4, <2>5
<1>8. ASSUME NEW q \in Request, Call(q) PROVE FlowInv'
  <2>1. /\ phase \in {"creating", "resuming", "finalizing", "recovering", "closing"}
        /\ awaiting = NoRequest /\ awaiting' = q /\ step[q] = "idle"
        /\ step' = [step EXCEPT ![q] = FirstStep[phase]] /\ UNCHANGED <<row, loaded, phase>>
        /\ FirstStep[phase] \in {"open", "load", "check"}
        /\ FirstStep[phase] = "load" => phase \in {"resuming", "recovering"}
    BY <1>8 DEF Call, FirstStep
  <2>2. WaitingCalls'  BY <2>1 DEF WaitingCalls
  <2>3. q # NoRequest  OBVIOUS
  <2>4. ASSUME Early(q)'
        PROVE  ~PendingLoader(q)' /\ \A p \in Request \ {q} : step'[p] = "idle"
    <3>1. FirstStep[phase] = "load" /\ row.status = "pending" /\ ~PendingLoader(q)'
      BY <2>1, <2>4 DEF Early, PendingLoader, PastLoad, TypeInv, TypeOK
    <3>2. phase = "resuming"
      BY <2>1, <3>1 DEF StayInv, StartedSays, Begun
    <3> QED  BY <2>1, <3>1, <3>2 DEF FlowInv, FirstAlone
  <2> QED  BY <2>1, <2>2, <2>3, <2>4 DEF FlowInv, FirstAlone
<1>9. CASE LoseResponse \/ SendAll \/ Interrupt \/ SendRefused \/ Resume \/ Begin
  <2>1. UNCHANGED <<row, step, loaded>> /\ awaiting' \in {NoRequest, awaiting}
    BY <1>9 DEF LoseResponse, SendAll, Interrupt, SendRefused, Resume, Begin
  <2>2. awaiting' = NoRequest
    BY <1>9, <2>1 DEF LoseResponse, SendAll, Interrupt, SendRefused, Resume, Begin, FlowInv, WaitingCalls
  <2>3. phase' = "resuming" => phase = "paused"
    BY <1>9 DEF LoseResponse, HearError, SendAll, Interrupt, SendRefused, Resume, Begin
  <2>4. phase = "paused" => row.status # "pending"
    BY DEF StayInv, StartedSays, Begun
  <2> QED  BY <2>1, <2>2, <2>3, <2>4 DEF FlowInv, WaitingCalls, FirstAlone
<1>10. CASE Appear \/ (\E n \in Session : Expire(n)) \/ UNCHANGED vars
  <2>1. UNCHANGED <<row, step, loaded, phase, awaiting>>
    BY <1>10 DEF Appear, Expire, vars
  <2> QED  BY <2>1 DEF FlowInv, WaitingCalls, FirstAlone, Early, PendingLoader
<1> QED
  BY <1>1, <1>3, <1>4, <1>5, <1>6, <1>7, <1>8, <1>9, <1>10 DEF Next, Serve, ClientStep

\* The end of a request whose answer does not have the client send leaves the offers.
LEMMA EndOffers ==
    ASSUME TypeInv, OfferInv, NEW q \in Request, EndRequest(q),
           phase' = "sending" => UNCHANGED <<phase, url, from>>,
           UNCHANGED <<received, expired>>
    PROVE  OfferInv'
<1>1. OfferIsExact'  BY DEF OfferInv, OfferIsExact
<1>2. /\ \A p \in Request : step'[p] # "idle" =>
            /\ p # q /\ step'[p] = step[p]
            /\ fresh'[p] = fresh[p] /\ loaded'[p] = loaded[p] /\ offset'[p] = offset[p]
      /\ \A p \in Request : awaiting' = p => awaiting = p
  BY ConstantsAssumption, EndRequestTypes DEF EndRequest, TypeInv, TypeOK
<1>3. ProbesItsOwn'  BY <1>2 DEF OfferInv, ProbesItsOwn
<1>4. ProbeHolds'  BY <1>2 DEF OfferInv, ProbeHolds
<1> QED  BY <1>1, <1>3, <1>4 DEF OfferInv

\* Bytes are received only while the client sends, and the answer it begins to send by
\* names the session that was probed, or one opened since.
LEMMA OfferStep ==
    ASSUME TypeInv, StayInv, SessionInv, FlowInv, OfferInv, [Next]_vars
    PROVE  OfferInv'
<1> USE ConstantsAssumption DEF At, Go, storage, request, client, environment
<1>1. ASSUME NEW q \in Request, NEW session, NEW next,
             Answer(q, session, next, TRUE), UNCHANGED <<received, expired>>
      PROVE  OfferInv'
  BY <1>1, AnswerOffers, EndOffers DEF Answer
<1>2. ASSUME NEW q \in Request, Insert(q) PROVE OfferInv'
  <2>1. phase \in {"creating", "failed"}  BY <1>2 DEF Insert, StayInv, CreatorAlone
  <2>2. Answer(q, fresh[q], 0, FALSE) /\ UNCHANGED <<received, expired>>  BY <1>2 DEF Insert
  <2> QED  BY <2>1, <2>2, AnswerOffers, EndOffers DEF Answer
<1>3. ASSUME NEW q \in Request, Load(q) PROVE OfferInv'
  <2>1. CASE row.status = "completed"
    BY <1>1, <1>3, <2>1 DEF Load
  <2>2. CASE row.status # "completed"
    <3>1. /\ loaded' = [loaded EXCEPT ![q] = row] /\ fresh' = [fresh EXCEPT ![q] = row.url]
          /\ step' = [step EXCEPT ![q] = "probe"]
          /\ UNCHANGED <<offset, client, received, expired>>
      BY <1>3, <2>2 DEF Load
    <3> QED
      BY <3>1 DEF TypeInv, TypeOK, OfferInv, ProbeHolds, ProbesItsOwn, OfferIsExact
  <2> QED  BY <2>1, <2>2
<1>4. ASSUME NEW q \in Request, Check(q) PROVE OfferInv'
  <2>1. CASE row.status = "completed"
    BY <1>1, <1>4, <2>1 DEF Check
  <2>2. CASE row.status # "completed"
    <3>1. /\ loaded' = [loaded EXCEPT ![q] = row] /\ step' = [step EXCEPT ![q] = "verify"]
          /\ UNCHANGED <<offset, fresh, client, received, expired>>
      BY <1>4, <2>2 DEF Check
    <3> QED
      BY <3>1 DEF TypeInv, TypeOK, OfferInv, ProbeHolds, ProbesItsOwn, OfferIsExact
  <2> QED  BY <2>1, <2>2
<1>5. ASSUME NEW q \in Request, Probe(q) PROVE OfferInv'
  <2>1. /\ fresh[q] = loaded[q].url /\ UNCHANGED <<loaded, fresh, client, received, expired>>
    BY <1>5 DEF Probe, OfferInv, ProbesItsOwn
  <2>2. CASE loaded[q].url \in expired
    <3>1. step' = [step EXCEPT ![q] = "reopen"] /\ UNCHANGED offset
      BY <1>5, <2>2 DEF Probe
    <3> QED
      BY <2>1, <3>1 DEF TypeInv, TypeOK, OfferInv, ProbeHolds, ProbesItsOwn, OfferIsExact
  <2>3. CASE loaded[q].url \notin expired
    <3>1. /\ step' = [step EXCEPT ![q] = "patch"]
          /\ offset' = [offset EXCEPT ![q] = received[fresh[q]]]
      BY <1>5, <2>1, <2>3 DEF Probe, CommittedOffset
    <3> QED
      BY <2>1, <3>1 DEF TypeInv, TypeOK, OfferInv, ProbeHolds, ProbesItsOwn, OfferIsExact
  <2> QED  BY <2>2, <2>3
<1>6. ASSUME NEW q \in Request, Reopen(q) PROVE OfferInv'
  <2>1. /\ step' = [step EXCEPT ![q] = "patch"] /\ offset' = [offset EXCEPT ![q] = 0]
        /\ fresh' = [fresh EXCEPT ![q] = opened + 1]
        /\ UNCHANGED <<loaded, client, received, expired>>
    BY <1>6 DEF Reopen, OpenSession
  <2>2. received[opened + 1] = 0
    BY <1>6 DEF Reopen, OpenSession, TypeInv, TypeOK, SessionInv, NewSessionsEmpty, Session
  <2> QED
    BY <2>1, <2>2 DEF TypeInv, TypeOK, OfferInv, ProbeHolds, ProbesItsOwn, OfferIsExact
<1>7. ASSUME NEW q \in Request, Patch(q) PROVE OfferInv'
  <2> DEFINE session == IF fresh[q] = loaded[q].url THEN row.url ELSE fresh[q]
             patched == loaded[q].status # "uploading" \/ fresh[q] # loaded[q].url
             answered == IF patched THEN session ELSE loaded[q].url
  <2>1. /\ Answer(q, answered, offset[q], offset[q] = Size) /\ step[q] = "patch"
        /\ UNCHANGED <<received, expired>>
    BY <1>7 DEF Patch
  <2>2. (offset[q] = Size) \in BOOLEAN  OBVIOUS
  <2>3. CASE awaiting # q
    BY <2>1, <2>2, <2>3, AnswerOffers, EndOffers DEF Answer
  <2>4. CASE awaiting = q
    <3>1. answered = fresh[q]
      <4>1. loaded[q].status \in {"pending", "uploading"}
        BY <2>1 DEF StayInv, LoadedSays, PastLoad
      <4>2. loaded[q].status = "pending" => row.url = loaded[q].url
        BY <2>1, <2>4 DEF FlowInv, FirstAlone, Early, PendingLoader, PastLoad
      <4> QED  BY <4>1, <4>2
    <3>2. phase' = "sending" => UNCHANGED <<phase, url, from>> \/ (url' = fresh[q] /\ from' = offset[q])
      BY <2>1, <2>2, <3>1, AnswerOffers
    <3>3. fresh[q] \in expired \/ offset[q] = received[fresh[q]]
      BY <2>1, <2>4 DEF OfferInv, ProbeHolds
    <3>4. OfferIsExact'
      BY <2>1, <3>2, <3>3 DEF OfferInv, OfferIsExact
    <3>5. EndRequest(q)  BY <2>1 DEF Answer
    <3>6. /\ \A p \in Request : step'[p] # "idle" =>
                /\ p # q /\ step'[p] = step[p]
                /\ fresh'[p] = fresh[p] /\ loaded'[p] = loaded[p]
          /\ awaiting' = NoRequest
      BY <2>4, <3>5, EndRequestTypes DEF EndRequest
    <3>7. ProbesItsOwn'  BY <3>6 DEF OfferInv, ProbesItsOwn
    <3>8. ProbeHolds'  BY <3>6 DEF ProbeHolds
    <3> QED  BY <3>4, <3>7, <3>8 DEF OfferInv
  <2> QED  BY <2>3, <2>4
<1>8. ASSUME NEW q \in Request, Complete(q) PROVE OfferInv'
  BY <1>1, <1>8 DEF Complete
<1>9. ASSUME NEW q \in Request, Mark(q) \/ Fail(q) PROVE OfferInv'
  <2>1. EndRequest(q) /\ UNCHANGED <<received, expired>>
    BY <1>9 DEF Mark, Conflict, Fail, Refuse
  <2>2. UNCHANGED <<url, from>> /\ phase' \in {phase, "failed", "paused", "recovering"}
    BY <1>9 DEF Mark, Conflict, HearConflict, Fail, Refuse, HearError
  <2> QED  BY <2>1, <2>2, EndOffers
<1>10. ASSUME NEW q \in Request,
              Open(q) \/ Verify(q) \/ Inspect(q) \/ Label(q) \/ Point(q)
       PROVE  OfferInv'
  <2>1. PICK s \in {"insert", "inspect", "mark", "label", "point", "complete"} :
           step' = [step EXCEPT ![q] = s]
    BY <1>10 DEF Open, Verify, Inspect, Label, Point
  <2>2. /\ UNCHANGED <<loaded, offset, client, received, expired>>
        /\ \A p \in Request \ {q} : fresh'[p] = fresh[p]
    BY <1>10 DEF Open, OpenSession, Verify, Inspect, Label, Point, TypeInv, TypeOK
  <2> QED
    BY <2>1, <2>2 DEF TypeInv, TypeOK, OfferInv, ProbeHolds, ProbesItsOwn, OfferIsExact
<1>11. ASSUME NEW q \in Request, Call(q) PROVE OfferInv'
  <2>1. FirstStep[phase] \in {"open", "load", "check"} /\ phase # "sending"
    BY <1>11 DEF Call, FirstStep
  <2> QED
    BY <1>11, <2>1 DEF Call, TypeInv, TypeOK, OfferInv, ProbeHolds, ProbesItsOwn, OfferIsExact
<1>12. CASE SendAll \/ Interrupt
  <2>1. /\ phase = "sending" /\ phase' # "sending"
        /\ UNCHANGED <<step, request, awaiting>>
    BY <1>12 DEF SendAll, Interrupt
  <2>2. awaiting = NoRequest  BY <2>1 DEF FlowInv, WaitingCalls
  <2> QED  BY <2>1, <2>2 DEF OfferInv, ProbeHolds, ProbesItsOwn, OfferIsExact
<1>13. CASE Begin \/ LoseResponse \/ SendRefused \/ Resume
  <2>1. /\ phase' # "sending" /\ awaiting' \in {NoRequest, awaiting}
        /\ UNCHANGED <<step, request, received, expired>>
    BY <1>13 DEF Begin, LoseResponse, HearError, SendRefused, Resume
  <2> QED  BY <2>1 DEF OfferInv, ProbeHolds, ProbesItsOwn, OfferIsExact
<1>14. CASE Appear \/ (\E n \in Session : Expire(n)) \/ UNCHANGED vars
  <2>1. expired \subseteq expired' /\ UNCHANGED <<step, request, received, client>>
    BY <1>14 DEF Appear, Expire, vars
  <2> QED  BY <2>1 DEF OfferInv, ProbeHolds, ProbesItsOwn, OfferIsExact
<1> QED
  BY <1>2, <1>3, <1>4, <1>5, <1>6, <1>7, <1>8, <1>9, <1>10, <1>11, <1>12, <1>13, <1>14
  DEF Next, Serve, ClientStep

\* Whatever requests of earlier attempts are still in progress, and whatever sessions they
\* open, the client sends from where the session it sends to ends, unless it has expired.
THEOREM OffersExact == Spec => []OfferIsExact
<1> DEFINE Inv == TypeInv /\ StayInv /\ SessionInv /\ FlowInv /\ OfferInv
<1>1. Init => Inv  BY TypeInit, StayInit, OfferInit
<1>2. Inv /\ [Next]_vars => Inv'
  BY TypeStep, StayStep, SessionStep, FlowStep, OfferStep
<1>3. Inv => OfferIsExact  BY DEF OfferInv
<1> QED  BY <1>1, <1>2, <1>3, PTL DEF Spec
=============================================================================
