------------------------ MODULE StripeWebhook_proofs ------------------------
(***************************************************************************)
(* Proofs about StripeWebhook, for any number of instances and of events   *)
(* and any bounds: the effect of an event is recorded at most once; an     *)
(* acknowledged event has been processed unless its claim was left behind  *)
(* or two deliveries of it overlapped; and the account lists the invoices  *)
(* whose events were processed.                                            *)
(***************************************************************************)
EXTENDS StripeWebhook, FiniteSetTheorems, TLAPS

\* The sets of statuses and of steps are always expanded.
USE DEF Status, Processing, Step, None

\* The steps of an instance between its claim of an event and its mark.
Holding == Processing \cup {"mark", "fail"}

\* The part of the types that does not concern the account.
ControlTypes ==
    /\ status \in [Event -> Status] /\ audit \in [Event -> Nat]
    /\ step \in [Instance -> Step] /\ event \in [Instance -> Event \cup {None}]
    /\ acked \subseteq Event /\ stranded \subseteq Event
    /\ overlaps \in Nat

\* An instance that is not idle has a delivery.
BusyHasEvent ==
    \A i \in Instance : step[i] # "idle" => event[i] \in Event

\* The claim of an event is held by one instance.
OneHolder ==
    \A i, j \in Instance :
       step[i] \in Holding /\ step[j] \in Holding /\ event[i] = event[j] => i = j

\* The holder finds the event claimed, and recorded exactly when it is about to mark it.
HolderClaims ==
    \A i \in Instance : step[i] \in Holding =>
       /\ status[event[i]] = "claimed"
       /\ audit[event[i]] = IF step[i] = "mark" THEN 1 ELSE 0

\* An event that is to be claimed has left no record, a processed one exactly one.
RecordFollowsStatus ==
    \A e \in Event :
       /\ audit[e] <= 1
       /\ status[e] \in {"absent", "failed"} => audit[e] = 0
       /\ status[e] = "processed" => audit[e] = 1

ClaimInv == ControlTypes /\ BusyHasEvent /\ OneHolder /\ HolderClaims /\ RecordFollowsStatus

-----------------------------------------------------------------------------
(* The record of an event.                                                 *)

\* Init establishes the invariant of claims.
LEMMA ClaimInit == ASSUME Init PROVE ClaimInv
<1>1. ControlTypes
  BY ConstantsAssumption DEF Init, ControlTypes, Event
<1> QED
  BY <1>1 DEF Init, ClaimInv, BusyHasEvent, OneHolder, HolderClaims, RecordFollowsStatus, Holding

\* No step breaks it: an event is claimed when nobody holds it, recorded once by its holder,
\* and marked failed only before it was recorded.
LEMMA ClaimStep ==
    ASSUME ClaimInv, [Next]_vars
    PROVE  ClaimInv'
<1> USE ConstantsAssumption
    DEF ClaimInv, ControlTypes, BusyHasEvent, OneHolder, HolderClaims, RecordFollowsStatus,
        Holding, At, Go, rows, locals, environment
<1>1. ASSUME NEW i \in Instance, NEW e \in Event, Deliver(i, e) PROVE ClaimInv'
  BY <1>1 DEF Deliver
<1>2. ASSUME NEW i \in Instance, Resolve(i) \/ Read(i) \/ Lookup(i) PROVE ClaimInv'
  BY <1>2 DEF Resolve, Read, Lookup
<1>3. ASSUME NEW i \in Instance, Claim(i) PROVE ClaimInv'
  <2>1. event[i] \in Event /\ step[i] = "claim" /\ UNCHANGED <<event, audit, acked, stranded, overlaps>>
    BY <1>3 DEF Claim
  <2>2. CASE status[event[i]] \in {"absent", "failed"}
    <3>1. PICK s \in {"read", "fail"} : step' = [step EXCEPT ![i] = s]
      BY <1>3, <2>2 DEF Claim
    <3>2. status' = [status EXCEPT ![event[i]] = "claimed"]
      BY <1>3, <2>2 DEF Claim
    <3>3. \A j \in Instance : step[j] \in Holding => event[j] # event[i]
      BY <2>2
    <3>4. ControlTypes' /\ BusyHasEvent' /\ OneHolder'
      BY <2>1, <3>1, <3>2, <3>3
    <3>5. HolderClaims' /\ RecordFollowsStatus'
      BY <2>1, <2>2, <3>1, <3>2, <3>3
    <3> QED  BY <3>4, <3>5
  <2>3. CASE status[event[i]] \notin {"absent", "failed"}
    BY <1>3, <2>1, <2>3 DEF Claim
  <2> QED  BY <2>2, <2>3
<1>4. ASSUME NEW i \in Instance, Store(i) PROVE ClaimInv'
  BY <1>4 DEF Store
<1>5. ASSUME NEW i \in Instance, Audit(i) PROVE ClaimInv'
  <2>1. /\ event[i] \in Event /\ step[i] = "audit" /\ step' = [step EXCEPT ![i] = "mark"]
        /\ audit' = [audit EXCEPT ![event[i]] = @ + 1]
        /\ UNCHANGED <<status, event, acked, stranded, overlaps>>
    BY <1>5 DEF Audit
  <2>2. audit[event[i]] = 0 /\ status[event[i]] = "claimed"
    BY <2>1
  <2>3. audit' = [audit EXCEPT ![event[i]] = 1]
    BY <2>1, <2>2
  <2>4. ControlTypes' /\ BusyHasEvent' /\ OneHolder'
    BY <2>1, <2>3
  <2>5. HolderClaims'
    BY <2>1, <2>2, <2>3
  <2>6. RecordFollowsStatus'
    BY <2>1, <2>2, <2>3
  <2> QED  BY <2>4, <2>5, <2>6
<1>6. ASSUME NEW i \in Instance, Mark(i) PROVE ClaimInv'
  BY <1>6 DEF Mark
<1>7. ASSUME NEW i \in Instance, Fail(i) PROVE ClaimInv'
  BY <1>7 DEF Fail, End
<1>8. ASSUME NEW i \in Instance, Answer(i) PROVE ClaimInv'
  BY <1>8 DEF Answer, End
<1>9. ASSUME NEW i \in Instance, Raise(i) \/ Crash(i) PROVE ClaimInv'
  <2>1. UNCHANGED <<status, audit, acked, overlaps>> /\ stranded' \subseteq Event
    BY <1>9 DEF Raise, Crash, Strand
  <2>2. \/ UNCHANGED event /\ step[i] \in Processing /\ step' = [step EXCEPT ![i] = "fail"]
        \/ step' = [step EXCEPT ![i] = "idle"] /\ event' = [event EXCEPT ![i] = None]
    BY <1>9 DEF Raise, Crash, End
  <2> QED  BY <2>1, <2>2
<1>10. CASE UNCHANGED vars
  BY <1>10 DEF vars
<1> QED
  BY <1>1, <1>2, <1>3, <1>4, <1>5, <1>6, <1>7, <1>8, <1>9, <1>10 DEF Next, Handle

\* The effect of an event is recorded at most once, and before it reads processed, whatever
\* fails and however many instances handle its deliveries.
THEOREM RecordedOnce == Spec => []AuditedOnce
<1>1. Spec => []ClaimInv
  BY ClaimInit, ClaimStep, PTL DEF Spec
<1>2. ClaimInv => AuditedOnce
  BY DEF ClaimInv, RecordFollowsStatus, AuditedOnce
<1> QED  BY <1>1, <1>2, PTL

-----------------------------------------------------------------------------
(* What an acknowledgement means.                                          *)

\* Two instances handle the same event only after an overlapping delivery.
OverlapsCounted ==
    \A i, j \in Instance : i # j /\ step[i] # "idle" /\ step[j] # "idle" /\ event[i] = event[j] =>
       overlaps > 0

\* A claim is held, or was left behind.
ClaimedIsHeld ==
    \A e \in Event : status[e] = "claimed" =>
       e \in stranded \/ \E i \in Instance : step[i] \in Holding /\ event[i] = e

\* What an instance about to answer 200 knows of its event.
AnswerIsTrue ==
    \A i \in Instance : step[i] = "answer" =>
       status[event[i]] = "processed" \/ event[i] \in stranded \/ overlaps > 0

AckInv == OverlapsCounted /\ ClaimedIsHeld /\ AnswerIsTrue /\ AckedIsProcessed

\* Init establishes the invariant of acknowledgements.
LEMMA AckInit == ASSUME Init PROVE AckInv
  BY DEF Init, AckInv, OverlapsCounted, ClaimedIsHeld, AnswerIsTrue, AckedIsProcessed

\* No step breaks it: a delivery answered as a duplicate found the event processed, stranded,
\* or held by another delivery.
LEMMA AckStep ==
    ASSUME ClaimInv, AckInv, [Next]_vars
    PROVE  AckInv'
<1> USE DEF ClaimInv, ControlTypes, BusyHasEvent, AckInv, OverlapsCounted, ClaimedIsHeld,
            AnswerIsTrue, AckedIsProcessed, Holding, At, Go, rows, locals, environment
<1>1. ASSUME NEW i \in Instance, NEW e \in Event, Deliver(i, e) PROVE AckInv'
  <2>1. /\ step[i] = "idle" /\ step' = [step EXCEPT ![i] = "resolve"]
        /\ event' = [event EXCEPT ![i] = e] /\ UNCHANGED <<status, acked, stranded>>
        /\ (overlaps > 0 => overlaps' > 0)
        /\ (\E j \in Instance : event[j] = e) => overlaps' > 0
    BY <1>1 DEF Deliver
  <2>2. OverlapsCounted'
    BY <2>1
  <2>3. ClaimedIsHeld' /\ AnswerIsTrue' /\ AckedIsProcessed'
    BY <2>1
  <2> QED  BY <2>2, <2>3
<1>2. ASSUME NEW i \in Instance,
             Resolve(i) \/ Read(i) \/ Lookup(i) \/ Store(i) \/ Audit(i) PROVE AckInv'
  <2>1. /\ UNCHANGED <<status, event, acked, stranded, overlaps>> /\ step[i] # "idle"
        /\ \E s \in Step :
              /\ step' = [step EXCEPT ![i] = s]
              /\ s \notin {"answer", "idle"} /\ (step[i] \in Holding => s \in Holding)
    BY <1>2 DEF Resolve, Read, Lookup, Store, Audit
  <2> QED  BY <2>1
<1>3. ASSUME NEW i \in Instance, Claim(i) PROVE AckInv'
  <2>1. event[i] \in Event /\ step[i] = "claim" /\ UNCHANGED <<event, acked, stranded, overlaps>>
    BY <1>3 DEF Claim
  <2>2. CASE status[event[i]] \in {"absent", "failed"}
    <3>1. PICK s \in {"read", "fail"} : step' = [step EXCEPT ![i] = s]
      BY <1>3, <2>2 DEF Claim
    <3>2. status' = [status EXCEPT ![event[i]] = "claimed"]
      BY <1>3, <2>2 DEF Claim
    <3>3. OverlapsCounted' /\ AnswerIsTrue' /\ AckedIsProcessed'
      BY <2>1, <2>2, <3>1, <3>2
    <3>4. ClaimedIsHeld'
      BY <2>1, <3>1, <3>2
    <3> QED  BY <3>3, <3>4
  <2>3. CASE status[event[i]] \notin {"absent", "failed"}
    <3>1. step' = [step EXCEPT ![i] = "answer"] /\ UNCHANGED status
      BY <1>3, <2>3 DEF Claim
    <3>2. status[event[i]] = "processed" \/ event[i] \in stranded \/ overlaps > 0
      BY <2>1, <2>3
    <3>3. OverlapsCounted' /\ ClaimedIsHeld' /\ AckedIsProcessed'
      BY <2>1, <3>1
    <3>4. AnswerIsTrue'
      BY <2>1, <3>1, <3>2
    <3> QED  BY <3>3, <3>4
  <2> QED  BY <2>2, <2>3
<1>4. ASSUME NEW i \in Instance, Mark(i) PROVE AckInv'
  BY <1>4 DEF Mark
<1>5. ASSUME NEW i \in Instance, Fail(i) PROVE AckInv'
  <2>1. /\ event[i] \in Event /\ step[i] = "fail"
        /\ status' = [status EXCEPT ![event[i]] = "failed"]
        /\ step' = [step EXCEPT ![i] = "idle"] /\ event' = [event EXCEPT ![i] = None]
        /\ UNCHANGED <<acked, stranded, overlaps>>
    BY <1>5 DEF Fail, End
  <2>2. status[event[i]] = "claimed"
    BY <2>1 DEF HolderClaims
  <2>3. OverlapsCounted'
    BY <2>1
  <2>4. ClaimedIsHeld'
    BY <2>1
  <2>5. AnswerIsTrue' /\ AckedIsProcessed'
    BY <2>1, <2>2
  <2> QED  BY <2>3, <2>4, <2>5
<1>6. ASSUME NEW i \in Instance, Answer(i) PROVE AckInv'
  BY <1>6 DEF Answer, End
<1>7. ASSUME NEW i \in Instance, Raise(i) \/ Crash(i) PROVE AckInv'
  <2>1. UNCHANGED <<status, acked, overlaps>>
    BY <1>7 DEF Raise, Crash
  <2>2. CASE UNCHANGED <<event, stranded>> /\ step[i] \in Processing
             /\ step' = [step EXCEPT ![i] = "fail"]
    BY <2>1, <2>2
  <2>3. CASE /\ step' = [step EXCEPT ![i] = "idle"] /\ event' = [event EXCEPT ![i] = None]
             /\ stranded' = IF step[i] \in Holding THEN stranded \cup {event[i]} ELSE stranded
    <3>1. OverlapsCounted' /\ AnswerIsTrue' /\ AckedIsProcessed'
      BY <2>1, <2>3
    <3>2. ClaimedIsHeld'
      BY <2>1, <2>3
    <3> QED  BY <3>1, <3>2
  <2> QED  BY <1>7, <2>2, <2>3 DEF Raise, Crash, End, Strand
<1>8. CASE UNCHANGED vars
  BY <1>8 DEF vars
<1> QED
  BY <1>1, <1>2, <1>3, <1>4, <1>5, <1>6, <1>7, <1>8 DEF Next, Handle

\* An event Stripe stops delivering has been processed, unless a request was cut off between
\* its claim and its mark or two deliveries of it overlapped.
THEOREM AcknowledgedProcessed == Spec => []AckedIsProcessed
<1>1. Spec => [](ClaimInv /\ AckInv)
  <2>1. Init => ClaimInv /\ AckInv  BY ClaimInit, AckInit
  <2>2. ClaimInv /\ AckInv /\ [Next]_vars => (ClaimInv /\ AckInv)'
    BY ClaimStep, AckStep
  <2> QED  BY <2>1, <2>2, PTL DEF Spec
<1> QED  BY <1>1, PTL DEF AckInv

-----------------------------------------------------------------------------
(* The invoices of the account.                                            *)

\* The positions kept take the places from the first on, one each.
LEMMA PlacesAreExact ==
    ASSUME NEW positions \in SUBSET Nat, IsFiniteSet(positions)
    PROVE  /\ \A n \in positions : Place(positions, n) \in 1..Cardinality(positions)
           /\ \A n, k \in positions : Place(positions, n) = Place(positions, k) => n = k
           /\ \A m \in 1..Cardinality(positions) : \E n \in positions : Place(positions, n) = m
<1>. DEFINE UpTo(n) == {k \in positions : k <= n}
            size == Cardinality(positions)
<1>1. \A n : /\ IsFiniteSet(UpTo(n)) /\ Cardinality(UpTo(n)) \in Nat
             /\ Cardinality(UpTo(n)) <= size
  BY FS_Subset, FS_CardinalityType
<1>2. size \in Nat
  BY FS_CardinalityType
<1>3. ASSUME NEW n \in positions
      PROVE  Place(positions, n) \in 1..size
  <2>1. UpTo(n) # {}
    BY <1>3
  <2>2. Cardinality(UpTo(n)) # 0
    BY <1>1, <2>1, FS_EmptySet
  <2>. QED
    BY <1>1, <1>2, <2>2 DEF Place
<1>4. ASSUME NEW n \in positions, NEW k \in positions, n < k
      PROVE  Place(positions, n) < Place(positions, k)
  <2>1. UpTo(n) \in SUBSET UpTo(k) /\ k \in UpTo(k) /\ k \notin UpTo(n)
    <3>1. n \in Nat /\ k \in Nat /\ \A x \in positions : x \in Nat
      OBVIOUS
    <3>2. \A x \in positions : x <= n => x <= k
      BY <1>4, <3>1
    <3>3. k <= k /\ ~(k <= n)
      BY <1>4, <3>1
    <3>. QED
      BY <3>2, <3>3
  <2>2. Cardinality(UpTo(n)) <= Cardinality(UpTo(k)) /\ Cardinality(UpTo(n)) # Cardinality(UpTo(k))
    BY <1>1, <2>1, FS_Subset
  <2>. QED
    BY <1>1, <2>2 DEF Place
<1>5. \A n, k \in positions : Place(positions, n) = Place(positions, k) => n = k
  <2>1. \A n, k \in positions : n < k \/ k < n \/ n = k
    OBVIOUS
  <2>2. \A n \in positions : Place(positions, n) \in Int
    BY <1>3
  <2>. QED
    BY <1>4, <2>1, <2>2
<1>6. \A m \in 1..size : \E n \in positions : Place(positions, n) = m
  <2>. DEFINE place == [n \in positions |-> Place(positions, n)]
  <2>1. place \in Injection(positions, 1..size)
    BY <1>3, <1>5 DEF Injection, IsInjective
  <2>2. IsFiniteSet(1..size) /\ Cardinality(1..size) = size
    BY <1>2, FS_Interval
  <2>3. place \in Surjection(positions, 1..size)
    BY <2>1, <2>2, FS_Injection
  <2>. QED
    BY <2>3 DEF Surjection
<1>. QED
  BY <1>3, <1>5, <1>6

\* What is kept is in the list, at a position that is kept; nothing of it is lost or doubled.
LEMMA KeptExactly ==
    ASSUME NEW S, NEW list \in Seq(S), NEW positions \in SUBSET DOMAIN list,
           NEW kept, kept = Kept(list, positions)
    PROVE  /\ kept \in Seq(S) /\ Len(kept) = Cardinality(positions)
           /\ \A n \in positions : \E m \in DOMAIN kept : kept[m] = list[n]
           /\ \A m \in DOMAIN kept :
                AtPlace(positions, m) \in positions /\ kept[m] = list[AtPlace(positions, m)]
           /\ \A m, n \in DOMAIN kept : AtPlace(positions, m) = AtPlace(positions, n) => m = n
<1>. DEFINE size == Cardinality(positions)
<1>1. positions \in SUBSET Nat /\ IsFiniteSet(positions) /\ size \in Nat
  <2>1. DOMAIN list = 1..Len(list) /\ Len(list) \in Nat
    OBVIOUS
  <2>2. IsFiniteSet(1..Len(list))
    BY <2>1, FS_Interval
  <2>. QED
    BY <2>1, <2>2, FS_Subset, FS_CardinalityType
<1>2. \A m \in 1..size : AtPlace(positions, m) \in positions
                         /\ Place(positions, AtPlace(positions, m)) = m
  BY <1>1, PlacesAreExact, Zenon DEF AtPlace
<1>3. kept = [m \in 1..size |-> list[AtPlace(positions, m)]]
  BY DEF Kept
<1>4. \A n \in positions : Place(positions, n) \in 1..size
                          /\ AtPlace(positions, Place(positions, n)) = n
  <2>1. SUFFICES ASSUME NEW n \in positions
                 PROVE  Place(positions, n) \in 1..size
                        /\ AtPlace(positions, Place(positions, n)) = n
    OBVIOUS
  <2>2. Place(positions, n) \in 1..size
    BY <1>1, PlacesAreExact
  <2>3. PICK k \in positions : k = AtPlace(positions, Place(positions, n))
    BY <1>2, <2>2
  <2>4. Place(positions, k) = Place(positions, n)
    BY <1>2, <2>2, <2>3
  <2>5. k = n
    BY <1>1, <2>4, PlacesAreExact
  <2>. QED
    BY <2>2, <2>3, <2>5
<1>. HIDE DEF size
<1>5. kept \in Seq(S) /\ Len(kept) = size /\ DOMAIN kept = 1..size
  <2>1. \A m \in 1..size : list[AtPlace(positions, m)] \in S
    BY <1>2
  <2>. QED
    BY <1>1, <1>3, <2>1
<1>6. \A n \in positions : \E m \in DOMAIN kept : kept[m] = list[n]
  BY <1>3, <1>4, <1>5
<1>7. /\ \A m \in DOMAIN kept :
           AtPlace(positions, m) \in positions /\ kept[m] = list[AtPlace(positions, m)]
      /\ \A m, n \in DOMAIN kept : AtPlace(positions, m) = AtPlace(positions, n) => m = n
  BY <1>2, <1>3, <1>5
<1>. QED
  BY <1>5, <1>6, <1>7 DEF size

\* An account lists an invoice once.
Distinct(invoices) ==
    \A m, n \in DOMAIN invoices : InvoiceOf[invoices[m]] = InvoiceOf[invoices[n]] => m = n

Lists(invoices, e) == \E n \in DOMAIN invoices : InvoiceOf[invoices[n]] = InvoiceOf[e]

\* The patch of an invoice event lists its invoice, and drops another one only when there is no
\* room left; and once there is none, none comes back.
LEMMA ListedKeeps ==
    ASSUME NEW invoices \in Seq(Event), NEW e \in Event,
           Distinct(invoices), Len(invoices) <= RecentLimit,
           NEW listed, listed = Listed(invoices, e)
    PROVE  /\ listed \in Seq(Event) /\ Distinct(listed) /\ Len(listed) <= RecentLimit
           /\ Lists(listed, e)
           /\ Len(invoices) = RecentLimit => Len(listed) = RecentLimit
           /\ Len(listed) = RecentLimit
              \/ \A other \in Event : Lists(invoices, other) => Lists(listed, other)
<1>. DEFINE positions == {n \in DOMAIN invoices : InvoiceOf[invoices[n]] # InvoiceOf[e]}
            others == Kept(invoices, positions)
            all == <<e>> \o others
            length == IF Len(all) < RecentLimit THEN Len(all) ELSE RecentLimit
<1>l. Len(invoices) \in Nat /\ DOMAIN invoices = 1..Len(invoices) /\ RecentLimit \in Nat \ {0}
  BY ConstantsAssumption
<1>1. positions \in SUBSET DOMAIN invoices
  OBVIOUS
<1>p. \A n \in DOMAIN invoices : n \in positions <=> InvoiceOf[invoices[n]] # InvoiceOf[e]
  OBVIOUS
<1>a. listed = SubSeq(all, 1, length)
  BY DEF Listed
<1>o. others = Kept(invoices, positions)
  OBVIOUS
<1>. HIDE DEF positions, others
<1>2. /\ others \in Seq(Event) /\ Len(others) = Cardinality(positions)
      /\ \A n \in positions : \E m \in DOMAIN others : others[m] = invoices[n]
  BY <1>1, <1>o, KeptExactly
<1>3. /\ \A m \in DOMAIN others :
           AtPlace(positions, m) \in positions /\ others[m] = invoices[AtPlace(positions, m)]
      /\ \A m, n \in DOMAIN others : AtPlace(positions, m) = AtPlace(positions, n) => m = n
  BY <1>1, <1>o, KeptExactly
<1>4. Cardinality(positions) \in Nat /\ Cardinality(positions) <= Len(invoices)
      /\ Len(invoices) <= Cardinality(positions) + 1
  <2>1. IsFiniteSet(1..Len(invoices)) /\ Cardinality(1..Len(invoices)) = Len(invoices)
    <3>1. PICK n \in Nat : n = Len(invoices)
      BY <1>l
    <3>2. IsFiniteSet(1..n) /\ Cardinality(1..n) = n
      BY FS_Interval
    <3>. QED
      BY <3>1, <3>2
  <2>2. IsFiniteSet(positions) /\ Cardinality(positions) <= Len(invoices)
    BY <1>1, <1>l, <2>1, FS_Subset
  <2>3. Cardinality(positions) \in Nat
    BY <2>2, FS_CardinalityType
  <2>4. CASE positions = DOMAIN invoices
    BY <1>l, <2>1, <2>2, <2>3, <2>4
  <2>5. CASE positions # DOMAIN invoices
    <3>1. PICK p \in DOMAIN invoices : InvoiceOf[invoices[p]] = InvoiceOf[e]
      BY <1>1, <1>p, <2>5
    <3>2. DOMAIN invoices = positions \cup {p}
      BY <1>1, <1>p, <3>1 DEF Distinct
    <3>3. Cardinality(positions \cup {p}) <= Cardinality(positions) + 1
      <4>1. Cardinality(positions \cup {p}) = IF p \in positions THEN Cardinality(positions)
                                                                 ELSE Cardinality(positions) + 1
        BY <2>2, FS_AddElement
      <4>. QED
        BY <2>3, <4>1
    <3>. QED
      BY <1>l, <2>1, <2>2, <2>3, <3>2, <3>3
  <2>. QED
    BY <2>4, <2>5
<1>5. \A m \in DOMAIN others : /\ InvoiceOf[others[m]] # InvoiceOf[e]
                               /\ others[m] \in Event
  BY <1>1, <1>p, <1>2, <1>3
<1>6. Distinct(others)
  BY <1>1, <1>3 DEF Distinct
<1>8. /\ all \in Seq(Event) /\ Len(all) = Len(others) + 1 /\ all[1] = e
      /\ \A m \in 1..Len(others) : all[m + 1] = others[m]
  BY <1>2
<1>9. Distinct(all)
  <2>1. \A m \in DOMAIN all : m = 1 \/ (m - 1 \in DOMAIN others /\ all[m] = others[m - 1])
    BY <1>2, <1>8
  <2>. QED
    BY <1>5, <1>6, <1>8, <2>1 DEF Distinct
<1>. HIDE DEF all
<1>10. length \in 1..Len(all) /\ length <= RecentLimit
  BY <1>l, <1>2, <1>8
<1>11. /\ listed \in Seq(Event) /\ Len(listed) = length
       /\ \A m \in 1..length : listed[m] = all[m]
  BY <1>a, <1>8, <1>10
<1>12. Distinct(listed)
  <2>1. DOMAIN listed = 1..length /\ \A m \in 1..length : m \in DOMAIN all
    BY <1>8, <1>10, <1>11
  <2>. QED
    BY <1>9, <1>11, <2>1 DEF Distinct
<1>13. Lists(listed, e)
  <2>1. 1 \in 1..length /\ 1 \in DOMAIN listed /\ listed[1] = e
    BY <1>8, <1>10, <1>11
  <2>. QED
    BY <2>1 DEF Lists
<1>14. Len(invoices) = RecentLimit => length = RecentLimit
  BY <1>l, <1>2, <1>4, <1>8
<1>15. ASSUME length # RecentLimit, NEW other \in Event, Lists(invoices, other)
       PROVE  Lists(listed, other)
  <2>1. length = Len(all)
    BY <1>15
  <2>2. PICK n \in DOMAIN invoices : InvoiceOf[invoices[n]] = InvoiceOf[other]
    BY <1>15 DEF Lists
  <2>3. CASE InvoiceOf[invoices[n]] = InvoiceOf[e]
    BY <1>13, <2>2, <2>3 DEF Lists
  <2>4. CASE InvoiceOf[invoices[n]] # InvoiceOf[e]
    <3>1. PICK m \in DOMAIN others : others[m] = invoices[n]
      BY <1>p, <1>2, <2>4
    <3>2. m + 1 \in DOMAIN listed /\ listed[m + 1] = invoices[n]
      <4>1. m \in 1..Len(others) /\ Len(others) \in Nat
        BY <1>2, <3>1
      <4>2. m + 1 \in 1..length /\ DOMAIN listed = 1..length
        BY <1>8, <1>11, <2>1, <4>1
      <4>. QED
        BY <1>8, <1>11, <3>1, <4>1, <4>2
    <3>. QED
      BY <2>2, <3>2 DEF Lists
  <2>. QED
    BY <2>3, <2>4
<1>. QED
  BY <1>10, <1>11, <1>12, <1>13, <1>14, <1>15

\* An invoice of which an event was or is about to be marked processed is in the list of the
\* account, as long as no two instances have written the account at once and the list has room.
InvoiceInv ==
    /\ raced \in BOOLEAN
    /\ ~raced =>
         /\ account \in Account
         /\ Distinct(account.invoices) /\ Len(account.invoices) <= RecentLimit
         /\ \A e \in Event :
              /\ Kind[e] = "invoice"
              /\ \/ status[e] = "processed"
                 \/ \E i \in Instance : event[i] = e /\ step[i] \in {"audit", "mark"}
              => Len(account.invoices) = RecentLimit \/ Lists(account.invoices, e)

\* Init establishes it: the account lists nothing.
LEMMA InvoiceInit == ASSUME Init PROVE InvoiceInv
<1>1. account \in Account /\ account.invoices = <<>>
  BY DEF Init, NoAccount, Account
<1>2. Distinct(account.invoices) /\ Len(account.invoices) <= RecentLimit
  BY <1>1, ConstantsAssumption DEF Distinct
<1>3. /\ raced \in BOOLEAN /\ \A e \in Event : status[e] = "absent"
      /\ \A i \in Instance : step[i] = "idle"
  BY DEF Init
<1>. QED
  BY <1>1, <1>2, <1>3 DEF InvoiceInv

\* An event has one kind, and only an invoice's touches the list.
LEMMA PatchedKeeps ==
    ASSUME NEW row \in Account, NEW e \in Event
    PROVE  /\ Listed(row.invoices, e) \in Seq(Event) => Patched(row, e, row) \in Account
           /\ Kind[e] = "invoice" => Patched(row, e, row).invoices = Listed(row.invoices, e)
           /\ Kind[e] # "invoice" =>
                Patched(row, e, row) \in Account /\ Patched(row, e, row).invoices = row.invoices
<1>1. Kind[e] \in {"subscription", "invoice", "quote"}
  BY ConstantsAssumption
<1>2. CASE Kind[e] = "subscription"
  <2>1. Patched(row, e, row) = [row EXCEPT !.bound = TRUE, !.synced = e, !.subscription = e]
    BY <1>2 DEF Patched, Account
  <2>. QED
    BY <1>2, <2>1 DEF Account
<1>3. CASE Kind[e] = "invoice"
  <2>1. Patched(row, e, row) =
           [row EXCEPT !.bound = TRUE, !.synced = e, !.invoices = Listed(row.invoices, e)]
    BY <1>3 DEF Patched, Account
  <2>. QED
    BY <1>3, <2>1 DEF Account
<1>4. CASE Kind[e] = "quote"
  <2>1. Patched(row, e, row) = [row EXCEPT !.bound = TRUE, !.synced = e, !.quote = e]
    BY <1>4 DEF Patched, Account
  <2>. QED
    BY <1>4, <2>1 DEF Account
<1>. QED
  BY <1>1, <1>2, <1>3, <1>4

\* No step breaks it: the account is written from what it holds, or the writers have raced.
LEMMA InvoiceStep ==
    ASSUME ClaimInv, InvoiceInv, [Next]_vars
    PROVE  InvoiceInv'
<1>t. /\ step \in [Instance -> Step] /\ event \in [Instance -> Event \cup {None}]
      /\ status \in [Event -> Status] /\ raced \in BOOLEAN
      /\ \A i \in Instance : step[i] # "idle" => event[i] \in Event
  BY DEF ClaimInv, ControlTypes, BusyHasEvent, InvoiceInv
<1>. USE DEF At, Go, rows, locals, environment
\* Without a write of the account, a step only has to move nobody to its mark.
<1>1. ASSUME UNCHANGED <<account, raced>>,
             \A e \in Event : status'[e] = "processed" \/
                              (\E i \in Instance : event'[i] = e /\ step'[i] \in {"audit", "mark"})
                => status[e] = "processed" \/
                   (\E i \in Instance : event[i] = e /\ step[i] \in {"audit", "mark"})
      PROVE  InvoiceInv'
  BY <1>1 DEF InvoiceInv, Distinct, Lists
<1>2. ASSUME NEW i \in Instance, NEW e \in Event, Deliver(i, e) PROVE InvoiceInv'
  BY <1>1, <1>2, <1>t DEF Deliver
<1>3. ASSUME NEW i \in Instance, Resolve(i) \/ Claim(i) \/ Read(i) \/ Lookup(i) \/ Fail(i)
      PROVE  InvoiceInv'
  <2>1. /\ UNCHANGED <<account, raced>> /\ event[i] \in Event
        /\ \E s \in Step \ {"audit", "mark"} : step' = [step EXCEPT ![i] = s]
        /\ event' = event \/ event' = [event EXCEPT ![i] = None]
        /\ status' = status \/ \E s \in {"claimed", "failed"} :
                                  status' = [status EXCEPT ![event[i]] = s]
    BY <1>3, <1>t DEF Resolve, Claim, Read, Lookup, Fail, End
  <2>. QED
    BY <1>1, <1>t, <2>1
<1>4. ASSUME NEW i \in Instance, Audit(i) \/ Mark(i) PROVE InvoiceInv'
  <2>1. /\ UNCHANGED <<account, raced, event>> /\ event[i] \in Event
        /\ \/ step[i] = "audit" /\ step' = [step EXCEPT ![i] = "mark"] /\ UNCHANGED status
           \/ /\ step[i] = "mark" /\ step' = [step EXCEPT ![i] = "answer"]
              /\ status' = [status EXCEPT ![event[i]] = "processed"]
    BY <1>4, <1>t DEF Audit, Mark
  <2>. QED
    BY <1>1, <1>t, <2>1
<1>5. ASSUME NEW i \in Instance, Answer(i) \/ Raise(i) \/ Crash(i) PROVE InvoiceInv'
  <2>1. /\ UNCHANGED <<account, raced, status>>
        /\ \E s \in {"idle", "fail"} : step' = [step EXCEPT ![i] = s]
        /\ event' = event \/ event' = [event EXCEPT ![i] = None]
    BY <1>5 DEF Answer, Raise, Crash, End
  <2>. QED
    BY <1>1, <1>t, <2>1
<1>6. ASSUME NEW i \in Instance, Store(i) PROVE InvoiceInv'
  <2>1. /\ account' = Patched(existing[i], event[i], before[i])
        /\ raced' = (raced \/ existing[i] # account \/ before[i] # account)
        /\ step[i] = "store" /\ step' = [step EXCEPT ![i] = "audit"] /\ UNCHANGED <<status, event>>
    BY <1>6 DEF Store
  <2>2. SUFFICES ASSUME ~raced'
                 PROVE  InvoiceInv'
    <3>1. raced' \in BOOLEAN
      BY <2>1
    <3>. QED
      BY <3>1 DEF InvoiceInv
  <2>3. ~raced /\ existing[i] = account /\ before[i] = account
    BY <2>1, <2>2
  <2>. PICK e \in Event : event[i] = e
    BY <1>t, <2>1
  <2>4. account' = Patched(account, e, account)
    BY <2>1, <2>3
  <2>5. /\ account \in Account /\ account.invoices \in Seq(Event)
        /\ Distinct(account.invoices) /\ Len(account.invoices) <= RecentLimit
    BY <2>3 DEF InvoiceInv, Account
  <2>6. /\ account' \in Account
        /\ Distinct(account.invoices)' /\ Len(account'.invoices) <= RecentLimit
        /\ Kind[e] = "invoice" => Lists(account.invoices, e)'
        /\ Len(account.invoices) = RecentLimit => Len(account'.invoices) = RecentLimit
        /\ Len(account'.invoices) = RecentLimit
           \/ \A other \in Event : Lists(account.invoices, other) => Lists(account.invoices, other)'
    <3>1. CASE Kind[e] = "invoice"
      <4>1. account'.invoices = Listed(account.invoices, e)
        BY <2>4, <2>5, <3>1, PatchedKeeps
      <4>2. account' \in Account
        BY <2>4, <2>5, PatchedKeeps, ListedKeeps
      <4>3. /\ Distinct(account'.invoices) /\ Len(account'.invoices) <= RecentLimit
            /\ Lists(account'.invoices, e)
            /\ Len(account.invoices) = RecentLimit => Len(account'.invoices) = RecentLimit
            /\ Len(account'.invoices) = RecentLimit
               \/ \A other \in Event :
                     Lists(account.invoices, other) => Lists(account'.invoices, other)
        BY <2>5, <4>1, ListedKeeps
      <4>. QED
        BY <4>2, <4>3 DEF Distinct, Lists
    <3>2. CASE Kind[e] # "invoice"
      <4>1. account' \in Account /\ account'.invoices = account.invoices
        BY <2>4, <2>5, <3>2, PatchedKeeps
      <4>. QED
        BY <2>5, <3>2, <4>1 DEF Distinct, Lists
    <3>. QED
      BY <3>1, <3>2
  <2>7. ASSUME NEW other \in Event, Kind[other] = "invoice",
               status'[other] = "processed" \/
               (\E k \in Instance : event'[k] = other /\ step'[k] \in {"audit", "mark"})
        PROVE  Len(account'.invoices) = RecentLimit \/ Lists(account.invoices, other)'
    <3>1. CASE other = e
      BY <2>6, <2>7, <3>1
    <3>2. CASE other # e
      <4>1. status[other] = "processed" \/
            (\E k \in Instance : event[k] = other /\ step[k] \in {"audit", "mark"})
        BY <1>t, <2>1, <2>7, <3>2
      <4>2. Len(account.invoices) = RecentLimit \/ Lists(account.invoices, other)
        BY <2>3, <2>7, <4>1 DEF InvoiceInv
      <4>. QED
        BY <2>6, <4>2
    <3>. QED
      BY <3>1, <3>2
  <2>8. raced' \in BOOLEAN
    BY <2>1
  <2>. QED
    BY <2>6, <2>7, <2>8 DEF InvoiceInv
<1>7. CASE UNCHANGED vars
  BY <1>1, <1>7 DEF vars
<1>. QED
  BY <1>2, <1>3, <1>4, <1>5, <1>6, <1>7 DEF Next, Handle

\* The account lists every invoice an event of which was processed, as long as it has room,
\* unless two instances have written it at once.
THEOREM InvoicesListed == Spec => []InvoicesKept
<1>1. Spec => [](ClaimInv /\ InvoiceInv)
  <2>1. Init => ClaimInv /\ InvoiceInv
    BY ClaimInit, InvoiceInit
  <2>2. ClaimInv /\ InvoiceInv /\ [Next]_vars => (ClaimInv /\ InvoiceInv)'
    BY ClaimStep, InvoiceStep
  <2>. QED
    BY <2>1, <2>2, PTL DEF Spec
<1>2. InvoiceInv => InvoicesKept
  BY DEF InvoiceInv, InvoicesKept, Lists
<1>. QED
  BY <1>1, <1>2, PTL
=============================================================================
