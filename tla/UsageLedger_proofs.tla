------------------------- MODULE UsageLedger_proofs -------------------------
(***************************************************************************)
(* Proofs about the usage of a month, alone and beside the GPU pool, for   *)
(* any number of jobs, requests and months, any prices and any bounds: the *)
(* types; that the used minutes of a month are those charged in it unless  *)
(* two charges overlap or the month turns in the middle of a call; that    *)
(* they keep to the budget but for the minutes of jobs admitted beside     *)
(* another one; and that what is proved of the pool and of the ledger      *)
(* holds of the two together, a job going through both in turn.            *)
(***************************************************************************)
EXTENDS JobResources, GpuPool_proofs

\* The tuples of UNCHANGED are always expanded.
USE DEF ledgerRows, prices, callLocals, ledgerBounds, ledgerHistory, ledgerVars, IsAt, Proceed

-----------------------------------------------------------------------------
(* The pool and the ledger of the composition.                             *)

\* Every step of the composition is a step of the pool, or leaves the pool alone.
LEMMA ResourcePoolStep == ASSUME [Next]_vars PROVE [PoolNext]_poolVars
<1>1. ASSUME NEW j \in Job, Admit(j) \/ Charge(j) PROVE [PoolNext]_poolVars
  BY <1>1 DEF Admit, Charge, PoolNext
<1>2. CASE GpuStep
  BY <1>2 DEF GpuStep, PoolNext
<1>3. CASE LedgerStep
  BY <1>3 DEF LedgerStep
<1>4. CASE UNCHANGED vars
  BY <1>4 DEF vars
<1> QED  BY <1>1, <1>2, <1>3, <1>4 DEF Next

\* The user's month does nothing to the GPU pool that it would not do alone.
THEOREM ResourcesImplementPool == Spec => PoolSpec
<1>1. Init => PoolInit
  BY DEF Init
<1> QED  BY <1>1, ResourcePoolStep, PTL DEF Spec, PoolSpec

\* Every step of the composition is a step of the ledger, or leaves the ledger alone.
LEMMA ResourceStep == ASSUME [Next]_vars PROVE [LedgerNext]_ledgerVars
<1>1. ASSUME NEW j \in Job, Admit(j) \/ Charge(j) PROVE LedgerNext
  BY <1>1 DEF Admit, Charge, LedgerNext
<1>2. CASE GpuStep
  BY <1>2 DEF GpuStep
<1>3. CASE LedgerStep
  BY <1>3 DEF LedgerStep, LedgerNext
<1>4. CASE UNCHANGED vars
  BY <1>4 DEF vars
<1> QED  BY <1>1, <1>2, <1>3, <1>4 DEF Next

\* A job's way through the GPU pool does nothing to the ledger that it would not do alone.
THEOREM ResourcesImplementLedger == Spec => LedgerSpec
<1>1. Init => LedgerInit
  BY DEF Init
<1> QED  BY <1>1, ResourceStep, PTL DEF Spec, LedgerSpec

-----------------------------------------------------------------------------
(* Types.                                                                  *)

\* The locals of the calls are typed.
CallTypes ==
    /\ place \in [Call -> Place] /\ op \in [Call -> Op]
    /\ limit \in [Call -> Nat] /\ since \in [Call -> Month] /\ read \in [Call -> Row] /\ due \in [Call -> Nat]

\* The month the ledger begins in.
LEMMA MonthOne == 1 \in Month
  BY LedgerAssumption DEF Month

\* A row that is created is a row.
LEMMA NewRowTyped == ASSUME NEW lim \in Nat PROVE NewRow(lim) \in Row
  BY DEF NewRow, Row, Scope

\* So is the one that stands for no row.
LEMMA NoRowTyped == NoRow \in Row
  BY NewRowTyped DEF NoRow

\* The limit of the plan is a number of minutes.
LEMMA LimitTyped ==
    ASSUME LedgerTypeOK PROVE PlanLimit \in Nat /\ Limits[revision] \in Nat
<1>1. Limits[revision] \in Nat
  BY LedgerAssumption DEF LedgerTypeOK
<1>2. contract # {} => (CHOOSE lim \in contract : TRUE) \in Nat
  BY LedgerAssumption DEF LedgerTypeOK
<1> QED  BY <1>1, <1>2 DEF PlanLimit

\* A call that begins keeps the locals typed.
LEMMA AskTyped ==
    ASSUME CallTypes, NEW c \in Call, NEW operation \in Op, NEW minutes \in Nat, Ask(c, operation, minutes)
    PROVE  CallTypes'
  BY DEF CallTypes, Ask, Place

\* A call that ends keeps them typed.
LEMMA FinishTyped ==
    ASSUME CallTypes, NEW c \in Call, NEW s \in Place, Finish(c, s)
    PROVE  CallTypes'
  BY MonthOne, NoRowTyped DEF CallTypes, Finish, Op

\* A call that has got its row keeps them typed.
LEMMA HasTyped ==
    ASSUME CallTypes, NEW c \in Call, NEW row \in Row, Has(c, row)
    PROVE  CallTypes'
<1>1. CASE Finish(c, "over")
  BY <1>1, FinishTyped DEF Place
<1>2. CASE Ask(c, "consume", due[c])
  BY <1>2, AskTyped DEF Op, CallTypes
<1>3. CASE /\ place' = [place EXCEPT ![c] = "write"] /\ read' = [read EXCEPT ![c] = row]
           /\ UNCHANGED <<op, limit, since, due>>
  BY <1>3 DEF CallTypes, Place
<1> QED  BY <1>1, <1>2, <1>3 DEF Has

\* A call that ends in an exception keeps them typed.
LEMMA GiveUpTyped ==
    ASSUME CallTypes, NEW c \in Call, GiveUp(c)
    PROVE  CallTypes'
<1>1. CASE Ask(c, "snapshot", 0)
  BY <1>1, AskTyped DEF Op
<1>2. CASE Finish(c, "over")
  BY <1>2, FinishTyped DEF Place
<1> QED  BY <1>1, <1>2 DEF GiveUp

\* A row with another limit is a row.
LEMMA RelimitedTyped ==
    ASSUME NEW row \in Row, NEW lim \in Nat PROVE [row EXCEPT !.limit = lim] \in Row
  BY DEF Row

\* The columns a charge writes, by their types.
LEMMA ChargedRowTyped ==
    ASSUME NEW row \in Row, NEW used \in Nat, NEW kept \in Scope, NEW alerts \in SUBSET {80, 90, 100}
    PROVE  [row EXCEPT !.used = used, !.estimate = 0, !.scope = kept, !.alerts = alerts] \in Row
  BY DEF Row

\* Those that an estimate writes.
LEMMA EstimatedRowTyped ==
    ASSUME NEW row \in Row, NEW minutes \in Nat, NEW alerts \in SUBSET {80, 90, 100}
    PROVE  [row EXCEPT !.estimate = minutes, !.alerts = alerts] \in Row
  BY DEF Row

\* Those that an approval writes.
LEMMA ApprovedRowTyped ==
    ASSUME NEW row \in Row, NEW scope \in Scope, NEW minutes \in Nat, NEW alerts \in SUBSET {80, 90, 100}
    PROVE  [row EXCEPT !.scope = scope, !.approved = minutes, !.alerts = alerts] \in Row
  BY DEF Row

\* What is computed from rows are rows.
LEMMA RowsTyped ==
    ASSUME NEW row \in Row, NEW seen \in Row, NEW minutes \in Nat, NEW scope \in Scope
    PROVE  /\ Estimated(row, seen, minutes) \in Row
           /\ Consumed(row, seen, minutes) \in Row
           /\ Approved(row, seen, scope, minutes) \in Row
<1>1. \A used, lim : ThresholdAlerts(used, lim) \in SUBSET {80, 90, 100}
  BY DEF ThresholdAlerts
<1>2. Granted(seen, scope, minutes) \in Nat
  <2>1. Granted(seen, scope, minutes) \in {0, minutes, seen.estimate}
    BY DEF Granted
  <2>2. seen.estimate \in Nat
    BY DEF Row
  <2> QED  BY <2>1, <2>2
<1>3. Estimated(row, seen, minutes) \in Row
  <2> DEFINE alerts == ThresholdAlerts(seen.used, seen.limit)
             estimate == [row EXCEPT !.estimate = minutes, !.alerts = alerts]
  <2>1. Estimated(row, seen, minutes) = estimate
    BY DEF Estimated
  <2>2. alerts \in SUBSET {80, 90, 100}
    BY <1>1
  <2> HIDE DEF alerts
  <2>3. estimate \in Row
    BY <2>2, EstimatedRowTyped
  <2> HIDE DEF estimate
  <2> QED  BY <2>1, <2>3
<1>4. Consumed(row, seen, minutes) \in Row
  <2> DEFINE used == seen.used + minutes
             over == IF used > seen.limit THEN used - seen.limit ELSE 0
             kept == IF seen.scope = "single_job" /\ over >= seen.approved THEN "none" ELSE seen.scope
             alerts == ThresholdAlerts(used, seen.limit)
  <2>1. used \in Nat /\ kept \in Scope
    BY DEF Row, Scope
  <2>2. alerts \in SUBSET {80, 90, 100}
    BY <1>1
  <2> DEFINE charge == [row EXCEPT !.used = used, !.estimate = 0, !.scope = kept, !.alerts = alerts]
  <2>3. Consumed(row, seen, minutes) = charge
    BY DEF Consumed
  <2>4. \A u \in Nat, k \in Scope, a \in SUBSET {80, 90, 100} :
           [row EXCEPT !.used = u, !.estimate = 0, !.scope = k, !.alerts = a] \in Row
    BY ChargedRowTyped
  <2> HIDE DEF used, over, kept, alerts
  <2>5. charge \in Row
    BY <2>1, <2>2, <2>4
  <2> HIDE DEF charge
  <2> QED  BY <2>3, <2>5
<1>5. Approved(row, seen, scope, minutes) \in Row
  <2> DEFINE alerts == ThresholdAlerts(seen.used, seen.limit)
             granted == Granted(seen, scope, minutes)
             approval == [row EXCEPT !.scope = scope, !.approved = granted, !.alerts = alerts]
  <2>1. Approved(row, seen, scope, minutes) = approval
    BY DEF Approved
  <2>2. alerts \in SUBSET {80, 90, 100} /\ granted \in Nat
    BY <1>1, <1>2
  <2> HIDE DEF alerts, granted
  <2>3. approval \in Row
    BY <2>2, ApprovedRowTyped
  <2> HIDE DEF approval
  <2> QED  BY <2>1, <2>3
<1> QED  BY <1>3, <1>4, <1>5

\* The ledger begins typed.
LEMMA LedgerTypeInit == ASSUME LedgerInit PROVE LedgerTypeOK
<1>1. 1 \in DOMAIN Limits
  BY LedgerAssumption
<1> QED
  BY <1>1, MonthOne, NoRowTyped DEF LedgerInit, LedgerTypeOK, Place, Op

-----------------------------------------------------------------------------
(* Who does what.                                                          *)

\* Only jobs are launched and charged, and a charge reads the row in one statement.
Roles ==
    /\ \A r \in Request : op[r] \notin {"launch"} \cup Charging
    /\ \A c \in Call : op[c] \in Charging => place[c] \in {"price", "upsert", "write"}

\* A call that has got its row changes its operation only from the look to the charge.
LEMMA HasRoles ==
    ASSUME CallTypes, Roles, NEW c \in Call, NEW row, Has(c, row),
           place[c] # "upsert" => op[c] \notin Charging
    PROVE  Roles'
<1>0. Request \subseteq Call
  BY DEF Call
<1>1. CASE op[c] = "usage"
  BY <1>0, <1>1 DEF Has, Finish, Roles, Charging, CallTypes, Ask
<1>2. CASE op[c] = "snapshot"
  BY <1>0, <1>2 DEF Has, Finish, Roles, Charging, CallTypes, Ask
<1>3. CASE op[c] \notin {"usage", "snapshot"}
  BY <1>0, <1>3 DEF Has, Finish, Roles, Charging, CallTypes, Ask
<1> QED  BY <1>1, <1>2, <1>3

\* A call that ends has no operation.
LEMMA FinishRoles ==
    ASSUME CallTypes, Roles, NEW c \in Call, NEW s, Finish(c, s)
    PROVE  Roles'
<1>0. Request \subseteq Call
  BY DEF Call
<1> QED  BY <1>0 DEF Finish, Roles, Charging, CallTypes

\* A call that begins as a request may have the request's operation.
LEMMA AskRoles ==
    ASSUME CallTypes, Roles, NEW c \in Call, NEW operation, NEW minutes, Ask(c, operation, minutes),
           c \in Request => operation \notin {"launch"} \cup Charging
    PROVE  Roles'
<1>0. Request \subseteq Call
  BY DEF Call
<1> QED  BY <1>0 DEF Ask, Roles, Charging, CallTypes

\* A charge that is given up begins anew.
LEMMA GiveUpRoles ==
    ASSUME CallTypes, Roles, NEW c \in Call, GiveUp(c)
    PROVE  Roles'
<1>1. CASE Finish(c, "over")
  BY <1>1, FinishRoles
<1>2. CASE op[c] \in Charging /\ Ask(c, "snapshot", 0)
  <2>1. c \notin Request
    BY <1>2 DEF Roles
  <2> QED  BY <1>2, <2>1, AskRoles
<1> QED  BY <1>1, <1>2 DEF GiveUp

\* Every step keeps the roles.
LEMMA RolesStep ==
    ASSUME LedgerTypeOK, Roles, [LedgerNext]_ledgerVars PROVE Roles'
<1>0. CallTypes /\ Job \subseteq Call /\ Request \subseteq Call /\ Job \cap Request = {}
  BY LedgerAssumption DEF CallTypes, Call, LedgerTypeOK
<1>1. CASE UNCHANGED ledgerVars
  BY <1>1 DEF Roles
<1>2. ASSUME NEW c \in Call, ReadPrice(c) PROVE Roles'
  BY <1>0, <1>2 DEF ReadPrice, Roles, CallTypes
<1>3. ASSUME NEW c \in Call, Select(c) PROVE Roles'
  <2>1. op[c] \notin Charging
    BY <1>3 DEF Select, Roles
  <2>2. CASE Has(c, usage[month])
    BY <1>0, <2>1, <2>2, HasRoles
  <2>3. CASE ~Has(c, usage[month])
    BY <1>0, <1>3, <2>1, <2>3 DEF Select, Roles, CallTypes
  <2> QED  BY <2>2, <2>3
<1>4. ASSUME NEW c \in Call, Insert(c) PROVE Roles'
  <2>1. op[c] \notin Charging
    BY <1>4 DEF Insert, Roles
  <2>2. CASE Finish(c, "over")
    BY <1>0, <2>2, FinishRoles
  <2>3. CASE Has(c, NewRow(limit[c]))
    BY <1>0, <2>1, <2>3, HasRoles
  <2> QED  BY <1>4, <2>2, <2>3 DEF Insert
<1>5. ASSUME NEW c \in Call, Relimit(c) PROVE Roles'
  <2>1. op[c] \notin Charging
    BY <1>5 DEF Relimit, Roles
  <2>2. PICK row : Has(c, row)
    BY <1>5 DEF Relimit
  <2> QED  BY <1>0, <2>1, <2>2, HasRoles
<1>6. ASSUME NEW j \in Job, Upsert(j) PROVE Roles'
  <2>1. PICK row : Has(j, row)
    BY <1>6 DEF Upsert
  <2> QED  BY <1>0, <1>6, <2>1, HasRoles DEF Upsert
<1>7. ASSUME NEW c \in Call, WriteEstimate(c) PROVE Roles'
  <2>1. CASE Finish(c, "over")
    BY <1>0, <2>1, FinishRoles
  <2>2. CASE op[c] = "launch"
    BY <1>0, <1>7, <2>2 DEF WriteEstimate, Roles, CallTypes, Charging
  <2> QED  BY <1>7, <2>1, <2>2 DEF WriteEstimate
<1>8. ASSUME NEW j \in Job, Decide(j) PROVE Roles'
  BY <1>0, <1>8, FinishRoles DEF Decide
<1>9. ASSUME NEW j \in Job, WriteCharge(j) PROVE Roles'
  BY <1>0, <1>9, FinishRoles DEF WriteCharge
<1>10. ASSUME NEW r \in Request, WriteApproval(r) PROVE Roles'
  BY <1>0, <1>10, FinishRoles DEF WriteApproval
<1>11. ASSUME NEW c \in Call, WriteTooLate(c) \/ LedgerRaise(c) PROVE Roles'
  BY <1>0, <1>11, GiveUpRoles DEF WriteTooLate, LedgerRaise
<1>12. ASSUME NEW j \in Job, Launch(j) \/ Settle(j) PROVE Roles'
  <2>1. PICK operation, minutes : Ask(j, operation, minutes)
    BY <1>12 DEF Launch, Settle
  <2> QED  BY <1>0, <2>1, AskRoles
<1>13. ASSUME NEW r \in Request, UserCall(r) PROVE Roles'
  <2>1. PICK operation, minutes :
          operation \in {"usage", "estimate"} \cup Scope /\ Ask(r, operation, minutes)
    BY <1>13 DEF UserCall
  <2> QED  BY <1>0, <2>1, AskRoles DEF Charging, Scope
<1>14. ASSUME NEW lim \in Contracts, ActivatePricebook \/ TurnMonth \/ SignContract(lim) PROVE Roles'
  BY <1>14 DEF ActivatePricebook, TurnMonth, SignContract, Roles
<1>15. CASE ActivatePricebook \/ TurnMonth
  BY <1>15 DEF ActivatePricebook, TurnMonth, Roles
<1> QED
  BY <1>1, <1>2, <1>3, <1>4, <1>5, <1>6, <1>7, <1>8, <1>9, <1>10, <1>11, <1>12, <1>13, <1>14, <1>15
  DEF LedgerNext, GetOrCreate

\* Every step of the ledger keeps the types.
LEMMA LedgerTypeStep ==
    ASSUME LedgerTypeOK, Roles, [LedgerNext]_ledgerVars PROVE LedgerTypeOK'
<1> USE DEF LedgerTypeOK
<1>0. CallTypes /\ month \in Month /\ usage \in [Month -> Row] /\ Job \subseteq Call /\ Request \subseteq Call
  BY DEF CallTypes, Call
<1>1. CASE UNCHANGED ledgerVars
  BY <1>1
<1>2. ASSUME NEW c \in Call, ReadPrice(c) PROVE LedgerTypeOK'
  <2>1. limit' \in [Call -> Nat] /\ place' \in [Call -> Place]
    BY <1>2, LimitTyped DEF ReadPrice, Place
  <2> QED  BY <1>2, <2>1 DEF ReadPrice
<1>3. ASSUME NEW c \in Call, Select(c) PROVE LedgerTypeOK'
  <2>1. CallTypes'
    <3>1. CASE Has(c, usage[month])
      BY <1>0, <1>3, <3>1, HasTyped
    <3>2. CASE ~Has(c, usage[month])
      BY <1>0, <1>3, <3>2 DEF Select, CallTypes, Place
    <3> QED  BY <3>1, <3>2
  <2> QED  BY <1>3, <2>1 DEF Select, CallTypes
<1>4. ASSUME NEW c \in Call, Insert(c) PROVE LedgerTypeOK'
  <2>1. CASE since[c] \in billed
    BY <1>0, <1>4, <2>1, FinishTyped DEF Insert, CallTypes, Place
  <2>2. CASE since[c] \notin billed
    <3>1. NewRow(limit[c]) \in Row /\ since[c] \in Month
      BY NewRowTyped
    <3>2. CallTypes'
      BY <1>0, <1>4, <2>2, <3>1, HasTyped DEF Insert
    <3> QED  BY <1>4, <2>2, <3>1, <3>2 DEF Insert, CallTypes
  <2> QED  BY <2>1, <2>2
<1>5. ASSUME NEW c \in Call, Relimit(c) PROVE LedgerTypeOK'
  <2> DEFINE row == [usage[since[c]] EXCEPT !.limit = limit[c]]
  <2>0. usage[since[c]] \in Row /\ limit[c] \in Nat
    OBVIOUS
  <2>1. row \in Row
    BY <2>0, RelimitedTyped
  <2>2. usage' = [usage EXCEPT ![since[c]] = row] /\ Has(c, row)
    BY <1>5 DEF Relimit
  <2> HIDE DEF row
  <2>3. CallTypes'
    BY <1>0, <2>1, <2>2, HasTyped
  <2> QED  BY <1>5, <2>1, <2>2, <2>3 DEF Relimit, CallTypes
<1>6. ASSUME NEW j \in Job, Upsert(j) PROVE LedgerTypeOK'
  <2> DEFINE row == IF month \in billed THEN [usage[month] EXCEPT !.limit = limit[j]]
                    ELSE NewRow(limit[j])
  <2>1. row \in Row
    <3>1. j \in Call
      BY <1>0
    <3>2. NewRow(limit[j]) \in Row
      BY <3>1, NewRowTyped
    <3>3. usage[month] \in Row /\ limit[j] \in Nat
      BY <3>1
    <3>4. [usage[month] EXCEPT !.limit = limit[j]] \in Row
      BY <3>3, RelimitedTyped
    <3> QED  BY <3>2, <3>4
  <2>2. usage' = [usage EXCEPT ![month] = row] /\ Has(j, row)
    BY <1>6 DEF Upsert
  <2> HIDE DEF row
  <2>3. CallTypes'
    BY <1>0, <2>1, <2>2, HasTyped
  <2>4. raced' \in BOOLEAN /\ billed' \subseteq Month
    BY <1>6 DEF Upsert
  <2> QED  BY <1>6, <2>1, <2>2, <2>3, <2>4 DEF Upsert, CallTypes
<1>7. ASSUME NEW c \in Call, WriteEstimate(c) PROVE LedgerTypeOK'
  <2> DEFINE row == Estimated(usage[month], read[c], due[c])
  <2>1. row \in Row
    BY RowsTyped DEF Scope
  <2>2. usage' \in [Month -> Row]
    BY <1>7, <2>1 DEF WriteEstimate, Update
  <2> HIDE DEF row
  <2>3. CASE op[c] = "launch"
    <3>0. c \in Job
      BY <2>3 DEF Roles, Call
    <3>1. place' \in [Call -> Place] /\ read' \in [Call -> Row] /\ UNCHANGED <<op, limit, since, due>>
      BY <1>7, <2>1, <2>3 DEF WriteEstimate, Place, row
    <3>2. crowded' \subseteq Job
      BY <1>7, <2>3, <3>0 DEF WriteEstimate
    <3> QED  BY <1>7, <2>2, <3>1, <3>2 DEF WriteEstimate
  <2>4. CASE op[c] # "launch"
    <3>1. Finish(c, "over")
      BY <1>7, <2>4 DEF WriteEstimate
    <3>2. CallTypes'
      BY <1>0, <3>1, FinishTyped DEF Place
    <3> QED  BY <1>7, <2>2, <2>4, <3>2 DEF WriteEstimate, CallTypes
  <2> QED  BY <2>3, <2>4
<1>8. ASSUME NEW j \in Job, Decide(j) PROVE LedgerTypeOK'
  <2>1. CallTypes'
    BY <1>0, <1>8, FinishTyped DEF Decide, Place
  <2>2. allowance' \in [Month -> Nat]
    <3>1. Budget(read[j]) \in Nat
      BY <1>0 DEF Budget, Row
    <3> QED  BY <1>8, <3>1 DEF Decide, Larger
  <2> QED  BY <1>8, <2>1, <2>2 DEF Decide, CallTypes
<1>9. ASSUME NEW j \in Job, WriteCharge(j) PROVE LedgerTypeOK'
  <2>1. CallTypes'
    BY <1>0, <1>9, FinishTyped DEF WriteCharge, Place
  <2>2. Consumed(usage[month], read[j], due[j]) \in Row
    BY <1>0, RowsTyped DEF Scope
  <2> QED  BY <1>0, <1>9, <2>1, <2>2 DEF WriteCharge, Update, CallTypes
<1>10. ASSUME NEW r \in Request, WriteApproval(r) PROVE LedgerTypeOK'
  <2>1. CallTypes'
    BY <1>0, <1>10, FinishTyped DEF WriteApproval, Place
  <2>2. Approved(usage[month], read[r], op[r], due[r]) \in Row
    BY <1>0, <1>10, RowsTyped DEF WriteApproval
  <2> QED  BY <1>0, <1>10, <2>1, <2>2 DEF WriteApproval, Update, CallTypes
<1>11. ASSUME NEW c \in Call, WriteTooLate(c) PROVE LedgerTypeOK'
  <2>1. CallTypes'
    BY <1>0, <1>11, GiveUpTyped DEF WriteTooLate
  <2> QED  BY <1>11, <2>1 DEF WriteTooLate, CallTypes
<1>12. ASSUME NEW c \in Call, LedgerRaise(c) PROVE LedgerTypeOK'
  <2>1. CallTypes'
    BY <1>0, <1>12, GiveUpTyped DEF LedgerRaise
  <2> QED  BY <1>12, <2>1 DEF LedgerRaise, CallTypes
<1>13. ASSUME NEW c \in Call, Beside(c) PROVE ledgerOverlaps' \in Nat
  BY <1>13 DEF Beside
<1>14. ASSUME NEW j \in Job, Launch(j) PROVE LedgerTypeOK'
  <2>1. CallTypes'
    BY <1>0, <1>14, AskTyped, LedgerAssumption DEF Launch, Op
  <2> QED  BY <1>0, <1>13, <1>14, <2>1 DEF Launch, CallTypes
<1>15. ASSUME NEW r \in Request, UserCall(r) PROVE LedgerTypeOK'
  <2>1. PICK operation \in Op, minutes \in Nat : Ask(r, operation, minutes)
    BY <1>15, LedgerAssumption DEF UserCall, Op
  <2>2. CallTypes'
    BY <1>0, <2>1, AskTyped
  <2> QED  BY <1>0, <1>13, <1>15, <2>2 DEF UserCall, CallTypes
<1>16. ASSUME NEW j \in Job, Settle(j) PROVE LedgerTypeOK'
  <2>1. PICK operation \in Op, minutes \in Nat : Ask(j, operation, minutes)
    BY <1>16, LedgerAssumption DEF Settle, Op
  <2>2. CallTypes'
    BY <1>0, <2>1, AskTyped
  <2> QED  BY <1>0, <1>13, <1>16, <2>2 DEF Settle, CallTypes
<1>17. CASE ActivatePricebook
  <2>1. revision' \in DOMAIN Limits
    BY <1>17, LedgerAssumption DEF ActivatePricebook
  <2> QED  BY <1>17, <2>1 DEF ActivatePricebook
<1>18. ASSUME NEW lim \in Contracts, SignContract(lim) PROVE LedgerTypeOK'
  BY <1>18 DEF SignContract
<1>19. CASE TurnMonth
  <2>1. month' \in Month /\ straddled' \subseteq Month
    BY <1>19, LedgerAssumption DEF TurnMonth, Month
  <2>2. crowded' \subseteq Job
    BY <1>19 DEF TurnMonth, OpenJobs
  <2> QED  BY <1>19, <2>1, <2>2 DEF TurnMonth
<1> QED
  BY <1>1, <1>2, <1>3, <1>4, <1>5, <1>6, <1>7, <1>8, <1>9, <1>10, <1>11, <1>12, <1>14, <1>15, <1>16,
     <1>17, <1>18, <1>19 DEF LedgerNext, GetOrCreate

\* The rows and the locals of the ledger stay within their types, whatever overlaps.
THEOREM LedgerTypeCorrect == LedgerSpec => []LedgerTypeOK
<1>1. LedgerInit => LedgerTypeOK /\ Roles
  BY LedgerTypeInit DEF LedgerInit, Roles, Charging, Call
<1>2. LedgerTypeOK /\ Roles /\ [LedgerNext]_ledgerVars => LedgerTypeOK' /\ Roles'
  BY LedgerTypeStep, RolesStep
<1> QED  BY <1>1, <1>2, PTL DEF LedgerSpec

-----------------------------------------------------------------------------
(* The used minutes are those charged.  What a worker adds to is the row   *)
(* its statement has returned; the used minutes of the month must still be *)
(* those it has seen when it writes the sum.  So: no other worker stands   *)
(* before such a write (Alone), no other operation writes that column, and *)
(* the month that is written is the month that was read (Fresh).           *)

\* A worker is about to write the sum.
AboutToCharge(j) == op[j] \in Charging /\ place[j] = "write"

\* A month without a row has no used minutes and no charge.
Blank == \A m \in Month \ billed : usage[m].used = 0 /\ charged[m] = 0

\* While no two charges have overlapped, at most one worker stands before its write.
Alone == ~raced => \A j, k \in Job : AboutToCharge(j) /\ AboutToCharge(k) => j = k

\* It has seen the used minutes of the month, unless the month has turned.
Fresh ==
    ~raced /\ month \notin straddled
    => \A j \in Job : AboutToCharge(j) => read[j].used = usage[month].used

ChargeInv == Blank /\ Alone /\ Fresh /\ UsedIsCharged

TypeInv == LedgerTypeOK /\ Roles

\* The ledger begins without a charge.
LEMMA ChargeInit == ASSUME LedgerInit PROVE ChargeInv
<1>1. NoRow.used = 0
  BY DEF NoRow, NewRow
<1> QED
  BY <1>1 DEF LedgerInit, ChargeInv, Blank, Alone, Fresh, UsedIsCharged, AboutToCharge, Call

\* A step that brings nobody before a write and keeps the used minutes keeps the invariant.
LEMMA QuietLedger ==
    ASSUME TypeInv, ChargeInv,
           \A m \in Month : usage'[m].used = usage[m].used,
           billed \subseteq billed', UNCHANGED <<month, charged, raced, straddled>>,
           \A j \in Job : AboutToCharge(j)' => AboutToCharge(j) /\ read'[j] = read[j]
    PROVE  ChargeInv'
<1> USE DEF ChargeInv
<1>1. month \in Month
  BY DEF TypeInv, LedgerTypeOK
<1>2. Blank'
  BY DEF Blank
<1>3. Alone'
  BY DEF Alone
<1>4. Fresh'
  BY <1>1 DEF Fresh
<1>5. UsedIsCharged'
  BY DEF UsedIsCharged
<1> QED  BY <1>2, <1>3, <1>4, <1>5

\* Outside an upsert nobody comes before the write of a charge.
LEMMA HasQuiet ==
    ASSUME TypeInv, NEW c \in Call, NEW row, op[c] \notin Charging, Has(c, row)
    PROVE  \A j \in Job : AboutToCharge(j)' => AboutToCharge(j) /\ read'[j] = read[j]
<1>0. CallTypes /\ Job \subseteq Call
  BY DEF TypeInv, LedgerTypeOK, CallTypes, Call
<1>1. op[c] # "snapshot"
  BY DEF Charging
<1>2. CASE Finish(c, "over")
  BY <1>0, <1>2 DEF Finish, CallTypes, AboutToCharge, Charging
<1>3. CASE /\ place' = [place EXCEPT ![c] = "write"] /\ read' = [read EXCEPT ![c] = row]
           /\ UNCHANGED <<op, limit, since, due>>
  BY <1>0, <1>3 DEF CallTypes, AboutToCharge
<1> QED  BY <1>1, <1>2, <1>3 DEF Has

\* Nor when a call ends.
LEMMA FinishQuiet ==
    ASSUME TypeInv, NEW c \in Call, NEW s, Finish(c, s)
    PROVE  \A j \in Job : AboutToCharge(j)' => AboutToCharge(j) /\ read'[j] = read[j]
<1>0. CallTypes /\ Job \subseteq Call
  BY DEF TypeInv, LedgerTypeOK, CallTypes, Call
<1> QED  BY <1>0 DEF Finish, CallTypes, AboutToCharge, Charging

\* Nor when it begins.
LEMMA AskQuiet ==
    ASSUME TypeInv, NEW c \in Call, NEW operation, NEW minutes, Ask(c, operation, minutes)
    PROVE  \A j \in Job : AboutToCharge(j)' => AboutToCharge(j) /\ read'[j] = read[j]
<1>0. CallTypes /\ Job \subseteq Call
  BY DEF TypeInv, LedgerTypeOK, CallTypes, Call
<1> QED  BY <1>0 DEF Ask, CallTypes, AboutToCharge

\* The used minutes are written by a charge only.
LEMMA UsedKept ==
    ASSUME TypeInv, Blank, NEW c \in Call,
           \/ Insert(c) \/ Relimit(c) \/ WriteEstimate(c)
           \/ c \in Job /\ Upsert(c)
           \/ c \in Request /\ WriteApproval(c)
    PROVE  \A m \in Month : usage'[m].used = usage[m].used
<1>0. CallTypes /\ month \in Month /\ usage \in [Month -> Row] /\ usage[month] \in Row
  BY DEF TypeInv, LedgerTypeOK, CallTypes, Call
<1>1. CASE Insert(c)
  <2>1. CASE since[c] \in billed
    BY <1>1, <2>1 DEF Insert
  <2>2. CASE since[c] \notin billed
    <3>1. since[c] \in Month /\ usage[since[c]].used = 0
      BY <1>0, <2>2 DEF CallTypes, Blank
    <3>2. NewRow(limit[c]).used = 0
      BY DEF NewRow
    <3>3. usage' = [usage EXCEPT ![since[c]] = NewRow(limit[c])]
      BY <1>1, <2>2 DEF Insert
    <3> QED  BY <1>0, <3>1, <3>2, <3>3
  <2> QED  BY <2>1, <2>2
<1>2. CASE Relimit(c)
  <2> DEFINE row == [usage[since[c]] EXCEPT !.limit = limit[c]]
  <2>1. usage' = [usage EXCEPT ![since[c]] = row]
    BY <1>2 DEF Relimit
  <2>2. usage[since[c]] \in Row
    BY <1>0 DEF CallTypes
  <2>3. row.used = usage[since[c]].used
    BY <2>2 DEF Row
  <2> HIDE DEF row
  <2> QED  BY <1>0, <2>1, <2>3
<1>3. CASE WriteEstimate(c)
  <2>1. Estimated(usage[month], read[c], due[c]).used = usage[month].used
    BY <1>0 DEF Estimated, Row
  <2> QED  BY <1>0, <1>3, <2>1 DEF WriteEstimate, Update
<1>4. CASE c \in Job /\ Upsert(c)
  <2> DEFINE row == IF month \in billed THEN [usage[month] EXCEPT !.limit = limit[c]]
                    ELSE NewRow(limit[c])
  <2>1. row.used = usage[month].used
    <3>1. CASE month \in billed
      BY <1>0, <3>1 DEF Row
    <3>2. CASE month \notin billed
      BY <1>0, <3>2 DEF Blank, NewRow
    <3> QED  BY <3>1, <3>2
  <2>2. usage' = [usage EXCEPT ![month] = row]
    BY <1>4 DEF Upsert
  <2> HIDE DEF row
  <2> QED  BY <1>0, <2>1, <2>2
<1>5. CASE c \in Request /\ WriteApproval(c)
  <2>1. Approved(usage[month], read[c], op[c], due[c]).used = usage[month].used
    BY <1>0 DEF Approved, Row
  <2> QED  BY <1>0, <1>5, <2>1 DEF WriteApproval, Update
<1> QED  BY <1>1, <1>2, <1>3, <1>4, <1>5

\* The statement of a worker returns the used minutes it leaves, and sees who else stands there.
LEMMA UpsertCharge ==
    ASSUME TypeInv, ChargeInv, NEW j \in Job, Upsert(j) PROVE ChargeInv'
<1> USE DEF ChargeInv
<1> DEFINE row == IF month \in billed THEN [usage[month] EXCEPT !.limit = limit[j]]
                  ELSE NewRow(limit[j])
<1>0. /\ CallTypes /\ month \in Month /\ usage \in [Month -> Row] /\ Job \subseteq Call
      /\ raced \in BOOLEAN
  BY DEF TypeInv, LedgerTypeOK, CallTypes, Call
<1>1. usage' = [usage EXCEPT ![month] = row] /\ billed' = billed \cup {month} /\ Has(j, row)
  BY DEF Upsert
<1> HIDE DEF row
<1>2. UNCHANGED <<month, charged, straddled>>
  BY DEF Upsert
<1>3. \A m \in Month : usage'[m].used = usage[m].used
  BY <1>0, UsedKept
<1>4. row.used = usage[month].used
  BY <1>0, <1>1, <1>3
<1>5. \A k \in Job : AboutToCharge(k)' => \/ AboutToCharge(k) /\ k # j /\ read'[k] = read[k]
                                          \/ k = j /\ read'[k] = row
  <2>1. CASE op[j] = "snapshot" \/ op[j] = "usage"
    BY <1>0, <1>1, <2>1 DEF Has, Finish, Ask, AboutToCharge, CallTypes, Charging
  <2>2. CASE op[j] \notin {"snapshot", "usage"}
    BY <1>0, <1>1, <2>2 DEF Has, AboutToCharge, CallTypes
  <2> QED  BY <2>1, <2>2
<1>6. raced' = (raced \/ \E k \in Job \ {j} : AboutToCharge(k))
  BY DEF Upsert, AboutToCharge
<1>7. Blank'
  BY <1>1, <1>2, <1>3 DEF Blank
<1>8. Alone'
  BY <1>0, <1>5, <1>6 DEF Alone
<1>9. Fresh'
  BY <1>0, <1>2, <1>3, <1>4, <1>5, <1>6 DEF Fresh
<1>10. UsedIsCharged'
  BY <1>2, <1>3, <1>6 DEF UsedIsCharged
<1> QED  BY <1>7, <1>8, <1>9, <1>10

\* The write of a charge adds the minutes to what the worker has seen.
LEMMA WriteChargeCharge ==
    ASSUME TypeInv, ChargeInv, NEW j \in Job, WriteCharge(j) PROVE ChargeInv'
<1> USE DEF ChargeInv
<1>0. /\ CallTypes /\ month \in Month /\ usage \in [Month -> Row] /\ charged \in [Month -> Nat]
      /\ Job \subseteq Call /\ raced \in BOOLEAN
  BY DEF TypeInv, LedgerTypeOK, CallTypes, Call
<1>1. /\ AboutToCharge(j) /\ month \in billed
      /\ usage' = [usage EXCEPT ![month] = Consumed(usage[month], read[j], due[j])]
      /\ charged' = [charged EXCEPT ![month] = charged[month] + due[j]]
      /\ UNCHANGED <<billed, month, raced, straddled>>
      /\ Finish(j, "over")
  BY DEF WriteCharge, Update, AboutToCharge
<1>2. Consumed(usage[month], read[j], due[j]).used = read[j].used + due[j]
  <2>1. usage[month] \in Row
    BY <1>0
  <2> QED  BY <2>1 DEF Consumed, Row
<1>3. \A k \in Job : AboutToCharge(k)' => AboutToCharge(k) /\ k # j /\ read'[k] = read[k]
  BY <1>0, <1>1 DEF Finish, CallTypes, AboutToCharge, Charging
<1>4. Blank'
  BY <1>0, <1>1 DEF Blank
<1>5. Alone'
  BY <1>1, <1>3 DEF Alone
<1>6. Fresh'
  BY <1>1, <1>3 DEF Fresh, Alone
<1>7. UsedIsCharged'
  <2> SUFFICES ASSUME NEW m \in Month, ~raced, m \notin straddled
               PROVE  usage'[m].used = charged'[m]
    BY <1>1 DEF UsedIsCharged
  <2>1. usage[m].used = charged[m]
    BY DEF UsedIsCharged
  <2>2. CASE m = month
    <3>1. read[j].used = charged[month]
      BY <1>1, <2>1, <2>2 DEF Fresh
    <3> QED  BY <1>0, <1>1, <1>2, <2>2, <3>1
  <2>3. CASE m # month
    BY <1>0, <1>1, <2>1, <2>3
  <2> QED  BY <2>2, <2>3
<1> QED  BY <1>4, <1>5, <1>6, <1>7

\* Every step of the ledger keeps the used minutes equal to the charged ones.
LEMMA ChargeStep ==
    ASSUME TypeInv, ChargeInv, [LedgerNext]_ledgerVars PROVE ChargeInv'
<1>0. /\ CallTypes /\ month \in Month /\ usage \in [Month -> Row] /\ billed \subseteq Month
      /\ Job \subseteq Call /\ Request \subseteq Call /\ Job \cap Request = {} /\ Roles
  BY LedgerAssumption DEF TypeInv, LedgerTypeOK, CallTypes, Call
<1>1. CASE UNCHANGED ledgerVars
  BY <1>1, QuietLedger DEF AboutToCharge
<1>2. ASSUME NEW c \in Call, ReadPrice(c) PROVE ChargeInv'
  <2>1. \A j \in Job : AboutToCharge(j)' => AboutToCharge(j) /\ read'[j] = read[j]
    BY <1>0, <1>2 DEF ReadPrice, AboutToCharge, CallTypes
  <2> QED  BY <1>2, <2>1, QuietLedger DEF ReadPrice
<1>3. ASSUME NEW c \in Call, Select(c) PROVE ChargeInv'
  <2>1. op[c] \notin Charging
    BY <1>0, <1>3 DEF Select, Roles
  <2>2. \A j \in Job : AboutToCharge(j)' => AboutToCharge(j) /\ read'[j] = read[j]
    <3>1. CASE Has(c, usage[month])
      BY <2>1, <3>1, HasQuiet
    <3>2. CASE ~Has(c, usage[month])
      BY <1>0, <1>3, <3>2 DEF Select, AboutToCharge, CallTypes
    <3> QED  BY <3>1, <3>2
  <2> QED  BY <1>3, <2>2, QuietLedger DEF Select
<1>4. ASSUME NEW c \in Call, Insert(c) PROVE ChargeInv'
  <2>1. op[c] \notin Charging
    BY <1>0, <1>4 DEF Insert, Roles
  <2>2. \A j \in Job : AboutToCharge(j)' => AboutToCharge(j) /\ read'[j] = read[j]
    <3>1. CASE Finish(c, "over")
      BY <3>1, FinishQuiet
    <3>2. CASE Has(c, NewRow(limit[c]))
      BY <2>1, <3>2, HasQuiet
    <3> QED  BY <1>4, <3>1, <3>2 DEF Insert
  <2>3. \A m \in Month : usage'[m].used = usage[m].used
    BY <1>4, UsedKept DEF ChargeInv
  <2>4. billed \subseteq billed' /\ UNCHANGED <<month, charged, raced, straddled>>
    BY <1>4 DEF Insert
  <2> QED  BY <2>2, <2>3, <2>4, QuietLedger
<1>5. ASSUME NEW c \in Call, Relimit(c) PROVE ChargeInv'
  <2>1. op[c] \notin Charging
    BY <1>0, <1>5 DEF Relimit, Roles
  <2>2. PICK row : Has(c, row)
    BY <1>5 DEF Relimit
  <2>3. \A j \in Job : AboutToCharge(j)' => AboutToCharge(j) /\ read'[j] = read[j]
    BY <2>1, <2>2, HasQuiet
  <2>4. \A m \in Month : usage'[m].used = usage[m].used
    BY <1>5, UsedKept DEF ChargeInv
  <2> QED  BY <1>5, <2>3, <2>4, QuietLedger DEF Relimit
<1>6. ASSUME NEW c \in Call, WriteEstimate(c) PROVE ChargeInv'
  <2>1. \A j \in Job : AboutToCharge(j)' => AboutToCharge(j) /\ read'[j] = read[j]
    <3>1. CASE Finish(c, "over")
      BY <3>1, FinishQuiet
    <3>2. CASE place' = [place EXCEPT ![c] = "decide"] /\ op' = op
               /\ read' = [read EXCEPT ![c] = Estimated(usage[month], read[c], due[c])]
      BY <1>0, <3>2 DEF AboutToCharge, CallTypes
    <3> QED  BY <1>6, <3>1, <3>2 DEF WriteEstimate
  <2>2. \A m \in Month : usage'[m].used = usage[m].used
    BY <1>6, UsedKept DEF ChargeInv
  <2> QED  BY <1>6, <2>1, <2>2, QuietLedger DEF WriteEstimate
<1>7. ASSUME NEW j \in Job, Decide(j) PROVE ChargeInv'
  <2>1. \A k \in Job : AboutToCharge(k)' => AboutToCharge(k) /\ read'[k] = read[k]
    BY <1>0, <1>7, FinishQuiet DEF Decide
  <2> QED  BY <1>7, <2>1, QuietLedger DEF Decide
<1>8. ASSUME NEW r \in Request, WriteApproval(r) PROVE ChargeInv'
  <2>1. \A k \in Job : AboutToCharge(k)' => AboutToCharge(k) /\ read'[k] = read[k]
    BY <1>0, <1>8, FinishQuiet DEF WriteApproval
  <2>2. \A m \in Month : usage'[m].used = usage[m].used
    BY <1>0, <1>8, UsedKept DEF ChargeInv
  <2> QED  BY <1>8, <2>1, <2>2, QuietLedger DEF WriteApproval
<1>9. ASSUME NEW c \in Call, WriteTooLate(c) \/ LedgerRaise(c) PROVE ChargeInv'
  <2>1. \A k \in Job : AboutToCharge(k)' => AboutToCharge(k) /\ read'[k] = read[k]
    <3>1. GiveUp(c)
      BY <1>9 DEF WriteTooLate, LedgerRaise
    <3> QED  BY <3>1, FinishQuiet, AskQuiet DEF GiveUp
  <2> QED  BY <1>9, <2>1, QuietLedger DEF WriteTooLate, LedgerRaise
<1>10. ASSUME NEW j \in Job, Launch(j) \/ Settle(j) PROVE ChargeInv'
  <2>1. \A k \in Job : AboutToCharge(k)' => AboutToCharge(k) /\ read'[k] = read[k]
    <3>1. PICK operation, minutes : Ask(j, operation, minutes)
      BY <1>10 DEF Launch, Settle
    <3> QED  BY <1>0, <3>1, AskQuiet
  <2> QED  BY <1>10, <2>1, QuietLedger DEF Launch, Settle
<1>11. ASSUME NEW r \in Request, UserCall(r) PROVE ChargeInv'
  <2>1. \A k \in Job : AboutToCharge(k)' => AboutToCharge(k) /\ read'[k] = read[k]
    <3>1. PICK operation, minutes : Ask(r, operation, minutes)
      BY <1>11 DEF UserCall
    <3> QED  BY <1>0, <3>1, AskQuiet
  <2> QED  BY <1>11, <2>1, QuietLedger DEF UserCall
<1>12. CASE ActivatePricebook \/ \E lim \in Contracts : SignContract(lim)
  BY <1>12, QuietLedger DEF ActivatePricebook, SignContract, AboutToCharge
<1>13. CASE TurnMonth
  <2> USE DEF ChargeInv
  <2>1. UNCHANGED <<usage, billed, charged, raced, op, place, read>> /\ straddled \subseteq straddled'
    BY <1>13 DEF TurnMonth
  <2>2. Blank' /\ Alone' /\ UsedIsCharged'
    BY <2>1 DEF Blank, Alone, UsedIsCharged, AboutToCharge
  <2>3. (\E j \in Job : AboutToCharge(j)) => month' \in straddled'
    BY <1>0, <1>13 DEF TurnMonth, AboutToCharge
  <2>4. Fresh'
    BY <2>1, <2>3 DEF Fresh, AboutToCharge
  <2> QED  BY <2>2, <2>4
<1> QED
  BY <1>1, <1>2, <1>3, <1>4, <1>5, <1>6, <1>7, <1>8, <1>9, <1>10, <1>11, <1>12, <1>13,
     UpsertCharge, WriteChargeCharge
  DEF LedgerNext, GetOrCreate

\* The used minutes of a month are those charged in it, unless two charges overlap or the month
\* turns in the middle of a call: of the ledger alone.
THEOREM UsedIsWhatIsCharged == LedgerSpec => []UsedIsCharged
<1>1. LedgerInit => TypeInv /\ ChargeInv
  BY LedgerTypeInit, ChargeInit DEF LedgerInit, TypeInv, Roles, Charging, Call
<1>2. TypeInv /\ ChargeInv /\ [LedgerNext]_ledgerVars => TypeInv' /\ ChargeInv'
  BY LedgerTypeStep, RolesStep, ChargeStep DEF TypeInv
<1>3. ChargeInv => UsedIsCharged
  BY DEF ChargeInv
<1> QED  BY <1>1, <1>2, <1>3, PTL DEF LedgerSpec

\* And of the ledger beside the GPU pool, as the jobs use both.
THEOREM ResourcesChargeRight == Spec => []UsedIsCharged
  BY ResourcesImplementLedger, UsedIsWhatIsCharged, PTL

-----------------------------------------------------------------------------
(* The minutes of some jobs together.                                      *)

\* The minutes of some jobs are finitely many.
LEMMA MinutesFinite ==
    ASSUME NEW jobs \in SUBSET Job
    PROVE  /\ IsFiniteSet(UNION {{j} \X (1..Minutes[j]) : j \in jobs})
           /\ MinutesOf(jobs) \in Nat
<1> DEFINE of == [j \in jobs |-> {j} \X (1..Minutes[j])]
           each == {{j} \X (1..Minutes[j]) : j \in jobs}
<1>1. IsFiniteSet(jobs)
  BY JobsAssumption, FS_Subset
<1>2. of \in Surjection(jobs, each)
  BY DEF Surjection
<1>3. IsFiniteSet(each)
  <2> HIDE DEF of, each
  <2> QED  BY <1>1, <1>2, FS_Surjection
<1>4. \A one \in each : IsFiniteSet(one)
  <2>1. ASSUME NEW j \in jobs PROVE IsFiniteSet({j} \X (1..Minutes[j]))
    <3>1. Minutes[j] \in Nat
      BY LedgerAssumption
    <3>2. IsFiniteSet({j})
      BY FS_Singleton
    <3>3. IsFiniteSet(1..Minutes[j])
      BY <3>1, FS_Interval
    <3> QED  BY <3>2, <3>3, FS_Product
  <2> QED  BY <2>1
<1>5. IsFiniteSet(UNION each)
  <2> HIDE DEF each
  <2> QED  BY <1>3, <1>4, FS_UNION
<1> QED  BY <1>5, FS_CardinalityType DEF MinutesOf

\* More jobs do not have fewer.
LEMMA MinutesGrow ==
    ASSUME NEW more \in SUBSET Job, NEW jobs \in SUBSET more
    PROVE  MinutesOf(jobs) \in Nat /\ MinutesOf(more) \in Nat /\ MinutesOf(jobs) <= MinutesOf(more)
<1>1. UNION {{j} \X (1..Minutes[j]) : j \in jobs} \subseteq UNION {{j} \X (1..Minutes[j]) : j \in more}
  OBVIOUS
<1> QED  BY <1>1, MinutesFinite, FS_Subset DEF MinutesOf

\* One job more adds its own.
LEMMA MinutesAdd ==
    ASSUME NEW jobs \in SUBSET Job, NEW k \in Job \ jobs
    PROVE  MinutesOf(jobs \cup {k}) = MinutesOf(jobs) + Minutes[k]
<1> DEFINE of(some) == UNION {{j} \X (1..Minutes[j]) : j \in some}
           own == {k} \X (1..Minutes[k])
<1>1. of(jobs \cup {k}) = of(jobs) \cup own
  OBVIOUS
<1>2. of(jobs) \cap own = {}
  OBVIOUS
<1>3. Minutes[k] \in Nat
  BY LedgerAssumption
<1>4. IsFiniteSet(own) /\ Cardinality(own) = Minutes[k]
  <2>1. IsFiniteSet({k}) /\ Cardinality({k}) = 1
    BY FS_Singleton
  <2>2. IsFiniteSet(1..Minutes[k]) /\ Cardinality(1..Minutes[k]) = Minutes[k]
    BY <1>3, FS_Interval
  <2>3. Cardinality(own) = 1 * Minutes[k] /\ IsFiniteSet(own)
    BY <2>1, <2>2, FS_Product
  <2> QED  BY <1>3, <2>3
<1>5. IsFiniteSet(of(jobs)) /\ MinutesOf(jobs) = Cardinality(of(jobs)) /\ MinutesOf(jobs) \in Nat
  BY MinutesFinite DEF MinutesOf
<1>6. MinutesOf(jobs \cup {k}) = Cardinality(of(jobs \cup {k}))
  BY DEF MinutesOf
<1> HIDE DEF of, own
<1>7. Cardinality(of(jobs) \cup own)
         = Cardinality(of(jobs)) + Cardinality(own) - Cardinality(of(jobs) \cap own)
  BY <1>4, <1>5, FS_Union
<1>8. Cardinality(of(jobs) \cap own) = 0
  BY <1>2, FS_EmptySet
<1>9. MinutesOf(jobs \cup {k}) = MinutesOf(jobs) + Minutes[k] - 0
  BY <1>1, <1>4, <1>5, <1>6, <1>7, <1>8
<1> QED  BY <1>3, <1>5, <1>9

-----------------------------------------------------------------------------
(* The budget.  A job that is alone is admitted against the used minutes   *)
(* it has read, and nothing is charged before its own minutes but those of *)
(* jobs that are crowded: so it fits (LoneFits), whatever order the        *)
(* crowded ones are charged in.  A crowded job may add its minutes on top, *)
(* and does so once, when it is settled: only then are its minutes granted *)
(* (Within), and whoever has read the row has read no more than was        *)
(* granted by then (ReadFits).                                             *)

\* The crowded jobs that are over, and the minutes they may have added.
Settled == crowded \ OpenJobs
Spent == MinutesOf(Settled)

\* What the used minutes of the month may come to.
Ceiling == allowance[month] + Spent

\* The jobs that were admitted alone, or are about to be, and not charged yet.
Lone == OpenJobs \ crowded

\* There is one at most: the next one that is admitted beside it is crowded.
OneLone == \A j, k \in Lone : j = k

\* A month that has not begun has no used minutes.
FutureUnused == \A m \in Month : m > month => usage[m].used = 0

\* The used minutes are within what was admitted, the jobs that are over counted on top.
Within ==
    \A m \in Month \ straddled : usage[m].used <= allowance[m] + Spent

\* So is what a worker adds a job's minutes to.
ReadFits ==
    month \notin straddled => \A k \in Job : AboutToCharge(k) => read[k].used <= Ceiling

\* The minutes of a job fit upon a number of used ones; before its admission, that number is
\* hardly more than what it is admitted against.
Fits(j, used) ==
    IF place[j] = "decide" THEN used <= read[j].used + Spent ELSE used + Minutes[j] <= Ceiling

\* The minutes of the job that is alone fit upon those used, and upon any that may be written.
LoneFits ==
    month \notin straddled
    => \A j \in Lone : /\ Fits(j, usage[month].used)
                       /\ \A k \in Job : AboutToCharge(k) => Fits(j, read[k].used)

BudgetInv == OneLone /\ FutureUnused /\ Within /\ ReadFits /\ LoneFits

\* A crowded job has been admitted, or is about to be.
Past(j) == place[j] \in {"decide", "open", "over"} \/ op[j] \in Charging

\* A job is charged for its minutes at most, and admitted for no less.
Due(j) ==
    /\ op[j] \in Charging => due[j] <= Minutes[j]
    /\ op[j] = "launch" => due[j] = Minutes[j]
    /\ place[j] = "decide" => read[j].estimate = Minutes[j]

JobsInv == (\A j \in crowded : Past(j)) /\ (\A j \in Job : Due(j))

\* A job that has been admitted, or will never be.
Admitted(j) == place[j] \in {"open", "over"} \/ op[j] \in Charging

-----------------------------------------------------------------------------
(* What a job is at keeps to its minutes.                                  *)

\* What holds of a job goes on to hold.
Keeps(j) == (Past(j) => Past(j)') /\ (Due(j) => Due(j)') /\ (Admitted(j) => Admitted(j)')
JobsKeep == \A j \in Job : Keeps(j)

\* A call that ends keeps it.
LEMMA FinishKeeps ==
    ASSUME TypeInv, NEW c \in Call, NEW s \in {"open", "over"}, Finish(c, s)
    PROVE  JobsKeep
<1>0. CallTypes /\ Job \subseteq Call
  BY DEF TypeInv, LedgerTypeOK, CallTypes, Call
<1> SUFFICES ASSUME NEW j \in Job PROVE Keeps(j)
  BY DEF JobsKeep
<1>1. CASE j = c
  BY <1>0, <1>1 DEF Finish, CallTypes, Keeps, Admitted, Past, Due, Charging
<1>2. CASE j # c
  BY <1>0, <1>2 DEF Finish, CallTypes, Keeps, Admitted, Past, Due
<1> QED  BY <1>1, <1>2

\* So does one that begins with the minutes it should.
LEMMA AskKeeps ==
    ASSUME TypeInv, NEW c \in Call, NEW operation, NEW minutes, Ask(c, operation, minutes),
           c \in Job => /\ Past(c) => operation \in Charging
                        /\ Due(c) /\ operation \in Charging => minutes <= Minutes[c]
                        /\ operation = "launch" => minutes = Minutes[c]
    PROVE  JobsKeep
<1>0. CallTypes /\ Job \subseteq Call
  BY DEF TypeInv, LedgerTypeOK, CallTypes, Call
<1> SUFFICES ASSUME NEW j \in Job PROVE Keeps(j)
  BY DEF JobsKeep
<1>1. CASE j = c
  BY <1>0, <1>1 DEF Ask, CallTypes, Keeps, Admitted, Past, Due
<1>2. CASE j # c
  BY <1>0, <1>2 DEF Ask, CallTypes, Keeps, Admitted, Past, Due
<1> QED  BY <1>1, <1>2

\* So does one that gets its row.
LEMMA HasKeeps ==
    ASSUME TypeInv, NEW c \in Call, NEW row, Has(c, row),
           place[c] \in {"select", "insert", "relimit", "upsert"}
    PROVE  JobsKeep
<1>0. CallTypes /\ Job \subseteq Call
  BY DEF TypeInv, LedgerTypeOK, CallTypes, Call
<1>1. CASE Finish(c, "over")
  BY <1>1, FinishKeeps
<1>2. CASE op[c] = "snapshot" /\ Ask(c, "consume", due[c])
  BY <1>2, AskKeeps DEF Charging, Due
<1>3. CASE /\ place' = [place EXCEPT ![c] = "write"] /\ read' = [read EXCEPT ![c] = row]
           /\ UNCHANGED <<op, limit, since, due>>
  BY <1>0, <1>3 DEF CallTypes, JobsKeep, Keeps, Admitted, Past, Due
<1> QED  BY <1>1, <1>2, <1>3 DEF Has

\* So does one that ends in an exception.
LEMMA GiveUpKeeps ==
    ASSUME TypeInv, NEW c \in Call, GiveUp(c)
    PROVE  JobsKeep
<1>1. CASE Finish(c, "over")
  BY <1>1, FinishKeeps
<1>2. CASE Ask(c, "snapshot", 0)
  <2>1. c \in Job => 0 <= Minutes[c]
    BY LedgerAssumption
  <2> QED  BY <1>2, <2>1, AskKeeps DEF Charging
<1> QED  BY <1>1, <1>2 DEF GiveUp

\* Every step keeps it.
LEMMA JobsKeepStep == ASSUME TypeInv, [LedgerNext]_ledgerVars PROVE JobsKeep
<1>0. CallTypes /\ Job \subseteq Call /\ Request \subseteq Call /\ Job \cap Request = {} /\ Roles
  BY LedgerAssumption DEF TypeInv, LedgerTypeOK, CallTypes, Call
<1>1. CASE UNCHANGED <<place, op, read, due>>
  BY <1>1 DEF JobsKeep, Keeps, Admitted, Past, Due
<1>2. ASSUME NEW c \in Call, ReadPrice(c) PROVE JobsKeep
  BY <1>0, <1>2 DEF ReadPrice, CallTypes, JobsKeep, Keeps, Admitted, Past, Due
<1>3. ASSUME NEW c \in Call, Select(c) PROVE JobsKeep
  <2>1. CASE Has(c, usage[month])
    BY <1>3, <2>1, HasKeeps DEF Select
  <2>2. CASE ~Has(c, usage[month])
    BY <1>0, <1>3, <2>2 DEF Select, CallTypes, JobsKeep, Keeps, Admitted, Past, Due
  <2> QED  BY <2>1, <2>2
<1>4. ASSUME NEW c \in Call, Insert(c) PROVE JobsKeep
  BY <1>4, FinishKeeps, HasKeeps DEF Insert
<1>5. ASSUME NEW c \in Call, Relimit(c) PROVE JobsKeep
  <2>1. PICK row : Has(c, row)
    BY <1>5 DEF Relimit
  <2> QED  BY <1>5, <2>1, HasKeeps DEF Relimit
<1>6. ASSUME NEW j \in Job, Upsert(j) PROVE JobsKeep
  <2>1. PICK row : Has(j, row)
    BY <1>6 DEF Upsert
  <2> QED  BY <1>0, <1>6, <2>1, HasKeeps DEF Upsert
<1>7. ASSUME NEW c \in Call, WriteEstimate(c) PROVE JobsKeep
  <2>1. CASE Finish(c, "over")
    BY <2>1, FinishKeeps
  <2>2. CASE op[c] = "launch"
    <3> DEFINE row == Estimated(usage[month], read[c], due[c])
    <3>1. row.estimate = due[c]
      <4>1. usage[month] \in Row
        BY DEF TypeInv, LedgerTypeOK
      <4> QED  BY <4>1 DEF Estimated, Row
    <3>2. /\ place[c] = "write" /\ place' = [place EXCEPT ![c] = "decide"]
          /\ read' = [read EXCEPT ![c] = row] /\ UNCHANGED <<op, due>>
      BY <1>7, <2>2 DEF WriteEstimate
    <3> HIDE DEF row
    <3> SUFFICES ASSUME NEW j \in Job PROVE Keeps(j)
      BY DEF JobsKeep
    <3>3. CASE j = c
      BY <1>0, <2>2, <3>1, <3>2, <3>3 DEF CallTypes, Keeps, Admitted, Past, Due, Charging
    <3>4. CASE j # c
      BY <1>0, <3>2, <3>4 DEF CallTypes, Keeps, Admitted, Past, Due
    <3> QED  BY <3>3, <3>4
  <2> QED  BY <1>7, <2>1, <2>2 DEF WriteEstimate
<1>8. ASSUME NEW j \in Job, Decide(j) \/ WriteCharge(j) PROVE JobsKeep
  BY <1>0, <1>8, FinishKeeps DEF Decide, WriteCharge
<1>9. ASSUME NEW r \in Request, WriteApproval(r) PROVE JobsKeep
  BY <1>0, <1>9, FinishKeeps DEF WriteApproval
<1>10. ASSUME NEW c \in Call, WriteTooLate(c) \/ LedgerRaise(c) PROVE JobsKeep
  BY <1>10, GiveUpKeeps DEF WriteTooLate, LedgerRaise
<1>11. ASSUME NEW j \in Job, Launch(j) PROVE JobsKeep
  <2>1. ~Past(j)
    BY <1>0, <1>11 DEF Launch, Past, Roles
  <2> QED  BY <1>0, <1>11, <2>1, AskKeeps DEF Launch, Charging
<1>12. ASSUME NEW j \in Job, Settle(j) PROVE JobsKeep
  <2>1. Minutes[j] \in Nat
    BY LedgerAssumption
  <2>2. PICK operation \in Charging, minutes \in {0, Minutes[j]} : Ask(j, operation, minutes)
    BY <1>12 DEF Settle, Charging
  <2> QED  BY <1>0, <2>1, <2>2, AskKeeps DEF Charging
<1>13. ASSUME NEW r \in Request, UserCall(r) PROVE JobsKeep
  <2>1. PICK operation, minutes : Ask(r, operation, minutes)
    BY <1>13 DEF UserCall
  <2> QED  BY <1>0, <2>1, AskKeeps
<1>14. ASSUME NEW lim \in Contracts, SignContract(lim) PROVE JobsKeep
  BY <1>1, <1>14 DEF SignContract
<1>15. CASE ActivatePricebook \/ TurnMonth \/ UNCHANGED ledgerVars
  BY <1>1, <1>15 DEF ActivatePricebook, TurnMonth
<1> QED
  BY <1>2, <1>3, <1>4, <1>5, <1>6, <1>7, <1>8, <1>9, <1>10, <1>11, <1>12, <1>13, <1>14, <1>15
  DEF LedgerNext, GetOrCreate

\* Whoever becomes crowded is at its admission or past it.
LEMMA CrowdedStep ==
    ASSUME TypeInv, [LedgerNext]_ledgerVars PROVE \A j \in crowded' : j \in crowded \/ Past(j)'
<1>0. CallTypes /\ Job \subseteq Call
  BY DEF TypeInv, LedgerTypeOK, CallTypes, Call
<1>1. CASE crowded' \subseteq crowded
  BY <1>1
<1>2. ASSUME NEW c \in Call, WriteEstimate(c), ~(crowded' \subseteq crowded)
      PROVE  \A j \in crowded' : j \in crowded \/ Past(j)'
  <2>1. crowded' \subseteq crowded \cup {c} /\ place' = [place EXCEPT ![c] = "decide"]
    BY <1>2 DEF WriteEstimate
  <2> QED  BY <1>0, <2>1 DEF Past, CallTypes
<1>3. CASE TurnMonth
  BY <1>3 DEF TurnMonth, OpenJobs, Past
<1>4. ASSUME NEW c \in Call,
             ReadPrice(c) \/ Select(c) \/ Insert(c) \/ Relimit(c) \/ WriteTooLate(c) \/ LedgerRaise(c)
      PROVE  crowded' \subseteq crowded
  BY <1>4 DEF ReadPrice, Select, Insert, Relimit, WriteTooLate, LedgerRaise
<1>5. ASSUME NEW j \in Job, Launch(j) \/ Decide(j) \/ Settle(j) \/ Upsert(j) \/ WriteCharge(j)
      PROVE  crowded' \subseteq crowded
  BY <1>5 DEF Launch, Decide, Settle, Upsert, WriteCharge
<1>6. ASSUME NEW r \in Request, UserCall(r) \/ WriteApproval(r) PROVE crowded' \subseteq crowded
  BY <1>6 DEF UserCall, WriteApproval
<1>7. ASSUME NEW lim \in Contracts, SignContract(lim) PROVE crowded' \subseteq crowded
  BY <1>7 DEF SignContract
<1>8. CASE ActivatePricebook \/ UNCHANGED ledgerVars
  BY <1>8, <1>1 DEF ActivatePricebook
<1> QED
  BY <1>1, <1>2, <1>3, <1>4, <1>5, <1>6, <1>7, <1>8 DEF LedgerNext, GetOrCreate

\* So every step keeps the jobs to their minutes.
LEMMA JobsStep == ASSUME TypeInv, JobsInv, [LedgerNext]_ledgerVars PROVE JobsInv'
<1>1. JobsKeep
  BY JobsKeepStep
<1>2. \A j \in crowded' : j \in crowded \/ Past(j)'
  BY CrowdedStep
<1>3. crowded \subseteq Job
  BY DEF TypeInv, LedgerTypeOK
<1> QED  BY <1>1, <1>2, <1>3 DEF JobsInv, JobsKeep, Keeps

-----------------------------------------------------------------------------
(* The used minutes keep to the budget.                                    *)

\* What a step does to the open jobs that nobody is admitted or crowded by.
Steady ==
    \A j \in OpenJobs' : /\ j \in OpenJobs /\ (place'[j] = "decide" <=> place[j] = "decide")
                         /\ place[j] = "decide" => read'[j] = read[j]

\* What workers stand before, a worker that has come to its write having just read the row.
SeenOf ==
    \A k \in Job : AboutToCharge(k)' => \/ AboutToCharge(k) /\ read'[k] = read[k]
                                        \/ read'[k].used = usage[month].used

\* The jobs that are over stay among the crowded ones, and their minutes count on.
LEMMA SpentGrows ==
    ASSUME TypeInv, TypeInv', Settled \subseteq Settled'
    PROVE  Spent \in Nat /\ Spent' \in Nat /\ Spent <= Spent'
<1>1. Settled \subseteq Job /\ Settled' \subseteq Job
  BY DEF TypeInv, LedgerTypeOK, Settled
<1>2. Spent' = MinutesOf(Settled')
  BY DEF Spent
<1> QED  BY <1>1, <1>2, MinutesGrow DEF Spent

\* A crowded job that is over now counts as well.
LEMMA SpentAdds ==
    ASSUME TypeInv, TypeInv', NEW k \in Job \ Settled, Settled \cup {k} \subseteq Settled'
    PROVE  Spent \in Nat /\ Spent' \in Nat /\ Spent + Minutes[k] <= Spent'
<1>1. Settled \subseteq Job /\ Settled' \subseteq Job
  BY DEF TypeInv, LedgerTypeOK, Settled
<1>2. Spent' = MinutesOf(Settled')
  BY DEF Spent
<1>3. MinutesOf(Settled \cup {k}) = Spent + Minutes[k]
  BY <1>1, MinutesAdd DEF Spent
<1>4. MinutesOf(Settled \cup {k}) <= MinutesOf(Settled') /\ MinutesOf(Settled') \in Nat
  <2>1. Settled \cup {k} \in SUBSET Settled' /\ Settled' \in SUBSET Job
    BY <1>1
  <2> QED  BY <2>1, MinutesGrow
<1>5. Spent \in Nat
  BY <1>1, MinutesFinite DEF Spent
<1> QED  BY <1>2, <1>3, <1>4, <1>5

\* The numbers that are compared.
LEMMA NumbersTyped ==
    ASSUME TypeInv
    PROVE  /\ month \in Month /\ Spent \in Nat
           /\ \A m \in Month : usage[m].used \in Nat /\ allowance[m] \in Nat
           /\ \A j \in Job : read[j].used \in Nat /\ Minutes[j] \in Nat /\ due[j] \in Nat
<1> USE DEF TypeInv, LedgerTypeOK
<1>1. Spent \in Nat
  BY MinutesFinite DEF Spent, Settled
<1>2. \A m \in Month : usage[m].used \in Nat
  BY DEF Row
<1>3. \A j \in Job : read[j].used \in Nat
  BY DEF Row, Call
<1> QED  BY <1>1, <1>2, <1>3, LedgerAssumption DEF Call

\* A step that uses nothing, admits nobody and crowds nobody keeps the budget.
LEMMA QuietBudget ==
    ASSUME TypeInv, TypeInv', BudgetInv, Steady, SeenOf,
           \A m \in Month : usage'[m].used = usage[m].used,
           UNCHANGED <<month, allowance, crowded, straddled>>
    PROVE  BudgetInv'
<1> USE DEF BudgetInv
<1>0. /\ month \in Month /\ month' = month /\ allowance' = allowance /\ straddled' = straddled
      /\ \A m \in Month : usage[m].used \in Nat /\ allowance[m] \in Nat
      /\ \A j \in Job : read[j].used \in Nat /\ Minutes[j] \in Nat
      /\ Spent \in Nat
  BY NumbersTyped
<1>1. OpenJobs' \subseteq OpenJobs /\ OpenJobs' \subseteq Job
  BY DEF Steady, OpenJobs
<1>2. Settled \subseteq Settled' /\ Lone' \subseteq Lone /\ Lone' \subseteq OpenJobs'
  BY <1>1 DEF Settled, Lone
<1>3. Spent' \in Nat /\ Spent <= Spent'
  BY <1>2, SpentGrows
<1>4. OneLone'
  BY <1>2 DEF OneLone
<1>5. FutureUnused'
  BY <1>0 DEF FutureUnused
<1>6. Within'
  BY <1>0, <1>3 DEF Within
<1>7. ReadFits'
  <2> SUFFICES ASSUME month \notin straddled, NEW k \in Job, AboutToCharge(k)'
               PROVE  read'[k].used <= allowance[month] + Spent'
    BY <1>0 DEF ReadFits, Ceiling
  <2>1. CASE AboutToCharge(k) /\ read'[k] = read[k]
    BY <1>0, <1>3, <2>1 DEF ReadFits, Ceiling
  <2>2. CASE read'[k].used = usage[month].used
    BY <1>0, <1>3, <2>2 DEF Within
  <2> QED  BY <2>1, <2>2 DEF SeenOf
<1>8. LoneFits'
  <2> SUFFICES ASSUME month \notin straddled, NEW j \in Lone'
               PROVE  /\ Fits(j, usage[month].used)'
                      /\ \A k \in Job : AboutToCharge(k)' => Fits(j, read[k].used)'
    BY <1>0 DEF LoneFits
  <2>1. /\ j \in Job /\ j \in Lone /\ (place'[j] = "decide" <=> place[j] = "decide")
        /\ place[j] = "decide" => read'[j] = read[j]
    BY <1>1, <1>2 DEF Steady
  <2>2. ASSUME NEW n \in Nat, Fits(j, n)
        PROVE  IF place'[j] = "decide" THEN n <= read'[j].used + Spent'
               ELSE n + Minutes[j] <= allowance[month] + Spent'
    BY <1>0, <1>3, <2>1, <2>2 DEF Fits, Ceiling
  <2>3. /\ Fits(j, usage[month].used)
        /\ \A k \in Job : AboutToCharge(k) => Fits(j, read[k].used)
    BY <2>1 DEF LoneFits
  <2>4. Fits(j, usage[month].used)'
    BY <1>0, <2>2, <2>3 DEF Fits, Ceiling
  <2>5. ASSUME NEW k \in Job, AboutToCharge(k)' PROVE Fits(j, read[k].used)'
    <3>1. CASE AboutToCharge(k) /\ read'[k] = read[k]
      BY <1>0, <2>2, <2>3, <3>1 DEF Fits, Ceiling
    <3>2. CASE read'[k].used = usage[month].used
      BY <1>0, <2>2, <2>3, <3>2 DEF Fits, Ceiling
    <3> QED  BY <2>5, <3>1, <3>2 DEF SeenOf
  <2> QED  BY <2>4, <2>5
<1> QED  BY <1>4, <1>5, <1>6, <1>7, <1>8

\* A call that ends leaves the open jobs alone ...
LEMMA FinishSteady ==
    ASSUME TypeInv, NEW c \in Call, Finish(c, "over")
    PROVE  Steady /\ SeenOf
<1>0. CallTypes /\ Job \subseteq Call
  BY DEF TypeInv, LedgerTypeOK, CallTypes, Call
<1>1. Steady
  BY <1>0 DEF Finish, CallTypes, Steady, OpenJobs, Charging
<1> QED  BY <1>1, FinishQuiet DEF SeenOf

\* ... so does one that begins, when a charge is one of an open job ...
LEMMA AskSteady ==
    ASSUME TypeInv, NEW c \in Call, NEW operation, NEW minutes, Ask(c, operation, minutes),
           c \in Job /\ operation \in Charging => c \in OpenJobs /\ place[c] # "decide"
    PROVE  Steady /\ SeenOf
<1>0. CallTypes /\ Job \subseteq Call
  BY DEF TypeInv, LedgerTypeOK, CallTypes, Call
<1>1. Steady
  BY <1>0 DEF Ask, CallTypes, Steady, OpenJobs
<1> QED  BY <1>1, AskQuiet DEF SeenOf

\* ... and one that gets its row ...
LEMMA HasSteady ==
    ASSUME TypeInv, NEW c \in Call, NEW row, Has(c, row), op[c] \notin Charging
    PROVE  Steady /\ SeenOf
<1>0. CallTypes /\ Job \subseteq Call
  BY DEF TypeInv, LedgerTypeOK, CallTypes, Call
<1>1. CASE Finish(c, "over")
  BY <1>1, FinishSteady
<1>2. CASE /\ place' = [place EXCEPT ![c] = "write"] /\ read' = [read EXCEPT ![c] = row]
           /\ UNCHANGED <<op, limit, since, due>>
  <2>1. Steady
    BY <1>0, <1>2 DEF CallTypes, Steady, OpenJobs
  <2> QED  BY <2>1, HasQuiet DEF SeenOf
<1> QED  BY <1>1, <1>2 DEF Has, Charging

\* ... and one that ends in an exception.
LEMMA GiveUpSteady ==
    ASSUME TypeInv, NEW c \in Call, GiveUp(c)
    PROVE  Steady /\ SeenOf
<1>1. CASE Finish(c, "over")
  BY <1>1, FinishSteady
<1>2. CASE op[c] \in Charging /\ Ask(c, "snapshot", 0)
  <2>1. c \in Job => c \in OpenJobs /\ place[c] # "decide"
    BY <1>2 DEF TypeInv, Roles, OpenJobs
  <2> QED  BY <1>2, <2>1, AskSteady
<1> QED  BY <1>1, <1>2 DEF GiveUp

\* A launch is crowded when another job is open, and alone when none is; then no worker has read
\* the row, and the job is admitted against the minutes used so far.
LEMMA LaunchBudget ==
    ASSUME TypeInv, TypeInv', Blank, JobsInv, BudgetInv,
           NEW c \in Call, WriteEstimate(c), op[c] = "launch"
    PROVE  BudgetInv'
<1> USE DEF BudgetInv
<1> DEFINE row == Estimated(usage[month], read[c], due[c])
<1>0. /\ month \in Month
      /\ \A m \in Month : usage[m].used \in Nat /\ allowance[m] \in Nat
      /\ \A j \in Job : read[j].used \in Nat /\ Minutes[j] \in Nat
      /\ Spent \in Nat
  BY NumbersTyped
<1>1. CallTypes /\ Job \subseteq Call /\ c \in Job /\ usage \in [Month -> Row]
  BY DEF TypeInv, LedgerTypeOK, CallTypes, Call, Roles
<1>2. /\ place[c] = "write" /\ place' = [place EXCEPT ![c] = "decide"] /\ op' = op
      /\ read' = [read EXCEPT ![c] = row]
      /\ crowded' = IF OpenJobs = {} THEN crowded ELSE crowded \cup {c}
      /\ UNCHANGED <<month, allowance, straddled>>
      /\ usage' = [usage EXCEPT ![month] = row]
  BY DEF WriteEstimate, Update
<1>3. \A m \in Month : usage'[m].used = usage[m].used
  BY UsedKept
<1> HIDE DEF row
<1>4. row.used = usage[month].used
  BY <1>0, <1>1, <1>2, <1>3
<1>5. op[c] \notin Charging
  BY DEF Charging
<1>6. OpenJobs' = OpenJobs \cup {c} /\ c \notin OpenJobs
  BY <1>1, <1>2, <1>5 DEF OpenJobs, CallTypes
<1>7. Settled' = Settled /\ Spent' = Spent
  <2>1. c \notin crowded
    BY <1>2, <1>5 DEF JobsInv, Past
  <2>2. Settled' = Settled
    BY <1>2, <1>6, <2>1 DEF Settled
  <2> QED  BY <2>2 DEF Spent
<1>8. \A k \in Job : AboutToCharge(k)' => AboutToCharge(k) /\ read'[k] = read[k] /\ k \in OpenJobs
  BY <1>1, <1>2 DEF AboutToCharge, CallTypes, OpenJobs
<1>9. FutureUnused' /\ Within'
  BY <1>2, <1>3, <1>7 DEF FutureUnused, Within
<1>10. ReadFits'
  BY <1>2, <1>7, <1>8 DEF ReadFits, Ceiling
<1>11. CASE OpenJobs = {}
  <2>1. Lone' \subseteq {c}
    BY <1>6, <1>11 DEF Lone
  <2>2. OneLone'
    BY <2>1 DEF OneLone
  <2>3. LoneFits'
    <3>1. read'[c] = row /\ place'[c] = "decide"
      BY <1>1, <1>2 DEF CallTypes
    <3>2. usage'[month].used <= row.used + Spent
      BY <1>0, <1>3, <1>4
    <3>3. Fits(c, usage[month].used)'
      BY <1>2, <1>7, <3>1, <3>2 DEF Fits
    <3> QED  BY <1>8, <1>11, <2>1, <3>3 DEF LoneFits
  <2> QED  BY <1>9, <1>10, <2>2, <2>3
<1>12. CASE OpenJobs # {}
  <2>1. Lone' = Lone /\ c \notin Lone
    BY <1>2, <1>6, <1>12 DEF Lone
  <2>2. OneLone'
    BY <2>1 DEF OneLone
  <2>3. \A j \in Lone : place'[j] = place[j] /\ read'[j] = read[j]
    BY <1>1, <1>2, <2>1 DEF CallTypes
  <2>4. LoneFits'
    BY <1>0, <1>2, <1>3, <1>7, <1>8, <2>1, <2>3 DEF LoneFits, Fits, Ceiling
  <2> QED  BY <1>9, <1>10, <2>2, <2>4
<1> QED  BY <1>11, <1>12

\* An admission is within the budget, and grants the job's minutes; a refusal takes nothing.
LEMMA DecideBudget ==
    ASSUME TypeInv, TypeInv', JobsInv, BudgetInv, NEW c \in Job, Decide(c)
    PROVE  BudgetInv'
<1> USE DEF BudgetInv
<1>0. /\ month \in Month
      /\ \A m \in Month : usage[m].used \in Nat /\ allowance[m] \in Nat
      /\ \A j \in Job : read[j].used \in Nat /\ Minutes[j] \in Nat
      /\ Spent \in Nat
  BY NumbersTyped
<1>1. CallTypes /\ Job \subseteq Call /\ allowance \in [Month -> Nat] /\ read[c] \in Row
  BY DEF TypeInv, LedgerTypeOK, CallTypes, Call
<1>2. /\ place[c] = "decide" /\ UNCHANGED <<month, usage, straddled>>
      /\ Finish(c, IF HardStop(read[c]) THEN "over" ELSE "open")
      /\ crowded' = IF HardStop(read[c]) THEN crowded \ {c} ELSE crowded
      /\ allowance' = IF HardStop(read[c]) THEN allowance
                      ELSE [allowance EXCEPT ![month] = Larger(allowance[month], Budget(read[c]))]
  BY DEF Decide
<1>3. read[c].estimate = Minutes[c] /\ c \in OpenJobs
  BY <1>2 DEF JobsInv, Due, OpenJobs
<1>4. \A m \in Month : allowance'[m] \in Nat /\ allowance[m] <= allowance'[m]
  <2>1. Budget(read[c]) \in Nat
    BY <1>1 DEF Budget, Row
  <2>2. Larger(allowance[month], Budget(read[c])) \in Nat
    BY <1>0, <2>1 DEF Larger
  <2>3. allowance[month] <= Larger(allowance[month], Budget(read[c]))
    BY <1>0, <2>1 DEF Larger
  <2> QED  BY <1>0, <1>1, <1>2, <2>2, <2>3
<1>5. /\ \A j \in Call \ {c} : place'[j] = place[j] /\ op'[j] = op[j] /\ read'[j] = read[j]
      /\ place'[c] = IF HardStop(read[c]) THEN "over" ELSE "open"
      /\ op'[c] = "none"
  BY <1>1, <1>2 DEF Finish, CallTypes
<1>6. \A k \in Job : AboutToCharge(k)' => AboutToCharge(k) /\ read'[k] = read[k] /\ k # c
  BY <1>1, <1>5 DEF AboutToCharge, Charging
<1>7. OpenJobs' = IF HardStop(read[c]) THEN OpenJobs \ {c} ELSE OpenJobs
  BY <1>1, <1>3, <1>5 DEF OpenJobs, Charging
<1>8. Settled' = Settled /\ Spent' = Spent
  <2>1. Settled' = Settled
    BY <1>2, <1>3, <1>7 DEF Settled
  <2> QED  BY <2>1 DEF Spent
<1>9. Lone' \subseteq Lone /\ Lone \subseteq Job
  BY <1>2, <1>7 DEF Lone, OpenJobs
<1>10. OneLone'
  BY <1>9 DEF OneLone
<1>11. FutureUnused'
  BY <1>2 DEF FutureUnused
<1>12. Within'
  BY <1>0, <1>2, <1>4, <1>8 DEF Within
<1>13. ReadFits'
  BY <1>0, <1>2, <1>4, <1>6, <1>8 DEF ReadFits, Ceiling
<1>14. LoneFits'
  <2> SUFFICES ASSUME month \notin straddled, NEW j \in Lone'
               PROVE  /\ Fits(j, usage[month].used)'
                      /\ \A k \in Job : AboutToCharge(k)' => Fits(j, read[k].used)'
    BY <1>2 DEF LoneFits
  <2>1. /\ j \in Lone /\ j \in Job
        /\ Fits(j, usage[month].used)
        /\ \A k \in Job : AboutToCharge(k) => Fits(j, read[k].used)
    BY <1>9 DEF LoneFits
  <2>2. ASSUME NEW n \in Nat, Fits(j, n)
        PROVE  IF place'[j] = "decide" THEN n <= read'[j].used + Spent
               ELSE n + Minutes[j] <= allowance'[month] + Spent
    <3>1. CASE j = c
      <4>1. ~HardStop(read[c])
        BY <1>7, <3>1 DEF Lone
      <4>2. read[c].used + Minutes[c] <= Budget(read[c]) /\ Budget(read[c]) \in Nat
        BY <1>0, <1>1, <1>3, <4>1 DEF HardStop, Budget, Row
      <4>3. Budget(read[c]) <= allowance'[month]
        BY <1>0, <1>1, <1>2, <4>1, <4>2 DEF Larger
      <4>4. n <= read[c].used + Spent
        BY <1>2, <2>2, <3>1 DEF Fits
      <4>5. place'[c] # "decide"
        BY <1>5
      <4>6. allowance'[month] \in Nat
        BY <1>0, <1>4
      <4> QED  BY <1>0, <3>1, <4>2, <4>3, <4>4, <4>5, <4>6
    <3>2. CASE j # c
      BY <1>0, <1>1, <1>4, <1>5, <2>1, <2>2, <3>2 DEF Fits, Ceiling
    <3> QED  BY <3>1, <3>2
  <2>3. Fits(j, usage[month].used)'
    BY <1>0, <1>2, <1>8, <2>1, <2>2 DEF Fits, Ceiling
  <2>4. \A k \in Job : AboutToCharge(k)' => Fits(j, read[k].used)'
    BY <1>0, <1>2, <1>6, <1>8, <2>1, <2>2 DEF Fits, Ceiling
  <2> QED  BY <2>3, <2>4
<1> QED  BY <1>10, <1>11, <1>12, <1>13, <1>14

\* A charge adds the minutes of a crowded job on top, and those of a lone one within the budget.
LEMMA ChargeBudget ==
    ASSUME TypeInv, TypeInv', JobsInv, BudgetInv, NEW c \in Job, WriteCharge(c)
    PROVE  BudgetInv'
<1> USE DEF BudgetInv
<1>0. /\ month \in Month
      /\ \A m \in Month : usage[m].used \in Nat /\ allowance[m] \in Nat
      /\ \A j \in Job : read[j].used \in Nat /\ Minutes[j] \in Nat /\ due[j] \in Nat
      /\ Spent \in Nat
  BY NumbersTyped
<1>1. CallTypes /\ Job \subseteq Call /\ usage \in [Month -> Row]
  BY DEF TypeInv, LedgerTypeOK, CallTypes, Call
<1>2. /\ AboutToCharge(c) /\ place[c] = "write" /\ c \in OpenJobs
      /\ usage' = [usage EXCEPT ![month] = Consumed(usage[month], read[c], due[c])]
      /\ UNCHANGED <<month, allowance, crowded, straddled>>
      /\ Finish(c, "over")
  BY DEF WriteCharge, Update, AboutToCharge, OpenJobs
<1>3. due[c] <= Minutes[c]
  BY <1>2 DEF JobsInv, Due, AboutToCharge
<1>4. /\ usage'[month].used = read[c].used + due[c]
      /\ \A m \in Month : m # month => usage'[m] = usage[m]
  <2>1. Consumed(usage[month], read[c], due[c]).used = read[c].used + due[c]
    <3>1. usage[month] \in Row
      BY <1>0, <1>1
    <3> QED  BY <3>1 DEF Consumed, Row
  <2> QED  BY <1>0, <1>1, <1>2, <2>1
<1>5. /\ \A j \in Call \ {c} : place'[j] = place[j] /\ op'[j] = op[j] /\ read'[j] = read[j]
      /\ place'[c] = "over" /\ op'[c] = "none"
  BY <1>1, <1>2 DEF Finish, CallTypes
<1>6. \A k \in Job : AboutToCharge(k)' => AboutToCharge(k) /\ read'[k] = read[k]
  BY <1>1, <1>5 DEF AboutToCharge
<1>7. OpenJobs' = OpenJobs \ {c}
  BY <1>1, <1>5 DEF OpenJobs, Charging
<1>8. Lone' = Lone \ {c} /\ Lone \subseteq Job /\ Settled \subseteq Settled'
  BY <1>2, <1>7 DEF Lone, OpenJobs, Settled
<1>9. Spent' \in Nat /\ Spent <= Spent' /\ (c \in crowded => Spent + Minutes[c] <= Spent')
  <2>1. CASE c \in crowded
    <3>1. c \notin Settled /\ Settled \cup {c} \subseteq Settled'
      BY <1>2, <1>7, <2>1 DEF Settled
    <3>2. Spent' \in Nat /\ Spent + Minutes[c] <= Spent'
      BY <3>1, SpentAdds
    <3> QED  BY <1>0, <3>2
  <2>2. CASE c \notin crowded
    BY <1>8, <2>2, SpentGrows
  <2> QED  BY <2>1, <2>2
<1>10. OneLone' /\ FutureUnused'
  <2>1. OneLone'
    BY <1>8 DEF OneLone
  <2>2. \A m \in Month : m > month => m # month
    BY <1>0 DEF Month
  <2>3. FutureUnused'
    BY <1>2, <1>4, <2>2 DEF FutureUnused
  <2> QED  BY <2>1, <2>3
<1>11. month \notin straddled => usage'[month].used <= allowance[month] + Spent'
  <2> SUFFICES ASSUME month \notin straddled
               PROVE  read[c].used + due[c] <= allowance[month] + Spent'
    BY <1>4
  <2>1. CASE c \in crowded
    <3>1. read[c].used <= allowance[month] + Spent
      BY <1>2 DEF ReadFits, Ceiling
    <3> QED  BY <1>0, <1>3, <1>9, <2>1, <3>1
  <2>2. CASE c \notin crowded
    <3>1. Fits(c, read[c].used)
      BY <1>2, <2>2 DEF LoneFits, Lone
    <3>2. read[c].used + Minutes[c] <= allowance[month] + Spent
      BY <1>2, <3>1 DEF Fits, Ceiling
    <3> QED  BY <1>0, <1>3, <1>9, <3>2
  <2> QED  BY <2>1, <2>2
<1>12. Within'
  BY <1>0, <1>2, <1>4, <1>9, <1>11 DEF Within
<1>13. ReadFits'
  BY <1>0, <1>2, <1>6, <1>9 DEF ReadFits, Ceiling
<1>14. LoneFits'
  <2> SUFFICES ASSUME month \notin straddled, NEW j \in Lone'
               PROVE  /\ Fits(j, usage[month].used)'
                      /\ \A k \in Job : AboutToCharge(k)' => Fits(j, read[k].used)'
    BY <1>2 DEF LoneFits
  <2>1. j \in Lone /\ j # c /\ j \in Job
    BY <1>8
  <2>2. \A k \in Job : AboutToCharge(k) => Fits(j, read[k].used)
    BY <2>1 DEF LoneFits
  <2>3. c \in crowded
    BY <1>2, <2>1 DEF OneLone, Lone
  <2>4. place'[j] = place[j] /\ read'[j] = read[j]
    BY <1>1, <1>5, <2>1
  <2>5. Fits(j, usage[month].used)'
    <3>1. Fits(j, read[c].used)
      BY <1>2, <2>2
    <3> QED  BY <1>0, <1>2, <1>3, <1>4, <1>9, <2>1, <2>3, <2>4, <3>1 DEF Fits, Ceiling
  <2>6. \A k \in Job : AboutToCharge(k)' => Fits(j, read[k].used)'
    BY <1>0, <1>2, <1>6, <1>9, <2>1, <2>2, <2>4 DEF Fits, Ceiling
  <2> QED  BY <2>5, <2>6
<1> QED  BY <1>10, <1>12, <1>13, <1>14

\* With a month that turns all open jobs are crowded, and nothing is used of the next one; a call
\* that has read the row makes an exception of both.
LEMMA TurnBudget ==
    ASSUME TypeInv, TypeInv', BudgetInv, TurnMonth
    PROVE  BudgetInv'
<1> USE DEF BudgetInv
<1>0. /\ month \in Nat /\ month' = month + 1 /\ month' \in Month /\ Job \subseteq Call
      /\ UNCHANGED <<usage, allowance, place, op, read>>
      /\ crowded' = crowded \cup OpenJobs /\ straddled \subseteq straddled'
      /\ (\E c \in Call : place[c] \in {"write", "decide"}) => month' \in straddled'
  BY DEF TurnMonth, TypeInv, LedgerTypeOK, Month, Call
<1>1. Settled' = Settled /\ Lone' = {}
  BY <1>0 DEF Settled, Lone, OpenJobs
<1>2. Spent' = Spent
  BY <1>1 DEF Spent
<1>3. OneLone' /\ LoneFits'
  BY <1>1 DEF OneLone, LoneFits
<1>4. FutureUnused'
  <2>1. \A m \in Month : m > month + 1 => m > month
    BY <1>0 DEF Month
  <2> QED  BY <1>0, <2>1 DEF FutureUnused
<1>5. Within'
  BY <1>0, <1>2 DEF Within
<1>6. ReadFits'
  BY <1>0 DEF ReadFits, AboutToCharge
<1> QED  BY <1>3, <1>4, <1>5, <1>6

\* Every step keeps the budget.
LEMMA BudgetStep ==
    ASSUME TypeInv, TypeInv', Blank, JobsInv, BudgetInv, [LedgerNext]_ledgerVars PROVE BudgetInv'
<1> DEFINE Rows == \A m \in Month : usage'[m].used = usage[m].used
           Bounds == UNCHANGED <<month, allowance, crowded, straddled>>
<1>0. /\ CallTypes /\ Job \subseteq Call /\ Request \subseteq Call /\ Job \cap Request = {} /\ Roles
  BY LedgerAssumption DEF TypeInv, LedgerTypeOK, CallTypes, Call
<1>1. ASSUME UNCHANGED <<place, op, read>> PROVE Steady /\ SeenOf
  BY <1>1 DEF Steady, SeenOf, OpenJobs, AboutToCharge
<1>2. ASSUME NEW c \in Call, ReadPrice(c) PROVE Steady /\ SeenOf /\ Rows /\ Bounds
  <2>1. Steady /\ SeenOf
    BY <1>0, <1>2 DEF ReadPrice, CallTypes, Steady, SeenOf, OpenJobs, AboutToCharge
  <2> QED  BY <1>2, <2>1 DEF ReadPrice
<1>3. ASSUME NEW c \in Call, Select(c) PROVE Steady /\ SeenOf /\ Rows /\ Bounds
  <2>1. op[c] \notin Charging
    BY <1>0, <1>3 DEF Select, Roles
  <2>2. CASE Has(c, usage[month])
    BY <1>3, <2>1, <2>2, HasSteady DEF Select
  <2>3. CASE ~Has(c, usage[month])
    <3>1. place' = [place EXCEPT ![c] = "insert"] \/ place' = [place EXCEPT ![c] = "relimit"]
      BY <1>3, <2>3 DEF Select
    <3>2. UNCHANGED <<op, read>>
      BY <1>3, <2>3 DEF Select
    <3>3. Steady /\ SeenOf
      BY <1>0, <2>1, <3>1, <3>2 DEF CallTypes, Steady, SeenOf, OpenJobs, AboutToCharge
    <3> QED  BY <1>3, <3>3 DEF Select
  <2> QED  BY <2>2, <2>3
<1>4. ASSUME NEW c \in Call, Insert(c) PROVE Steady /\ SeenOf /\ Rows /\ Bounds
  <2>1. op[c] \notin Charging
    BY <1>0, <1>4 DEF Insert, Roles
  <2>2. Steady /\ SeenOf
    BY <1>4, <2>1, FinishSteady, HasSteady DEF Insert
  <2> QED  BY <1>4, <2>2, UsedKept DEF Insert
<1>5. ASSUME NEW c \in Call, Relimit(c) PROVE Steady /\ SeenOf /\ Rows /\ Bounds
  <2>1. op[c] \notin Charging
    BY <1>0, <1>5 DEF Relimit, Roles
  <2>2. PICK row : Has(c, row)
    BY <1>5 DEF Relimit
  <2>3. Steady /\ SeenOf
    BY <2>1, <2>2, HasSteady
  <2> QED  BY <1>5, <2>3, UsedKept DEF Relimit
<1>6. ASSUME NEW j \in Job, Upsert(j) PROVE Steady /\ SeenOf /\ Rows /\ Bounds
  <2>1. PICK row : usage' = [usage EXCEPT ![month] = row] /\ Has(j, row)
    BY <1>6 DEF Upsert
  <2>2. Rows
    BY <1>0, <1>6, UsedKept
  <2>3. row.used = usage[month].used
    BY <2>1, <2>2 DEF TypeInv, LedgerTypeOK
  <2>4. CASE op[j] \notin Charging
    BY <1>0, <1>6, <2>1, <2>2, <2>4, HasSteady DEF Upsert
  <2>5. CASE op[j] = "snapshot"
    <3>1. j \in OpenJobs /\ place[j] # "decide" /\ Ask(j, "consume", due[j])
      BY <1>6, <2>1, <2>5 DEF Upsert, Has, OpenJobs, Charging
    <3>2. Steady /\ SeenOf
      BY <1>0, <3>1, AskSteady
    <3> QED  BY <1>6, <2>2, <3>2 DEF Upsert
  <2>6. CASE op[j] \in Charging /\ op[j] # "snapshot"
    <3>1. /\ place' = [place EXCEPT ![j] = "write"] /\ read' = [read EXCEPT ![j] = row]
          /\ op' = op /\ j \in OpenJobs /\ place[j] = "upsert"
      BY <1>6, <2>1, <2>6 DEF Upsert, Has, OpenJobs, Charging
    <3>2. Steady
      BY <1>0, <2>6, <3>1 DEF Steady, OpenJobs, CallTypes
    <3>3. SeenOf
      BY <1>0, <2>3, <3>1 DEF SeenOf, AboutToCharge, CallTypes
    <3> QED  BY <1>6, <2>2, <3>2, <3>3 DEF Upsert
  <2> QED  BY <2>4, <2>5, <2>6
<1>7. ASSUME NEW c \in Call, WriteEstimate(c), op[c] # "launch" PROVE Steady /\ SeenOf /\ Rows /\ Bounds
  <2>1. Finish(c, "over") /\ Bounds
    BY <1>7 DEF WriteEstimate
  <2> QED  BY <1>7, <2>1, FinishSteady, UsedKept
<1>8. ASSUME NEW r \in Request, WriteApproval(r) PROVE Steady /\ SeenOf /\ Rows /\ Bounds
  <2>1. Finish(r, "over") /\ Bounds
    BY <1>8 DEF WriteApproval
  <2> QED  BY <1>0, <1>8, <2>1, FinishSteady, UsedKept
<1>9. ASSUME NEW c \in Call, WriteTooLate(c) \/ LedgerRaise(c) PROVE Steady /\ SeenOf /\ Rows /\ Bounds
  BY <1>9, GiveUpSteady DEF WriteTooLate, LedgerRaise
<1>10. ASSUME NEW j \in Job, Launch(j) PROVE Steady /\ SeenOf /\ Rows /\ Bounds
  BY <1>0, <1>10, AskSteady DEF Launch, Charging
<1>11. ASSUME NEW j \in Job, Settle(j) PROVE Steady /\ SeenOf /\ Rows /\ Bounds
  <2>1. PICK operation, minutes : Ask(j, operation, minutes)
    BY <1>11 DEF Settle
  <2>2. j \in OpenJobs /\ place[j] # "decide"
    BY <1>11 DEF Settle, OpenJobs
  <2>3. Steady /\ SeenOf
    BY <1>0, <2>1, <2>2, AskSteady
  <2> QED  BY <1>11, <2>3 DEF Settle
<1>12. ASSUME NEW r \in Request, UserCall(r) PROVE Steady /\ SeenOf /\ Rows /\ Bounds
  <2>1. PICK operation, minutes : Ask(r, operation, minutes)
    BY <1>12 DEF UserCall
  <2>2. Steady /\ SeenOf
    BY <1>0, <2>1, AskSteady
  <2> QED  BY <1>12, <2>2 DEF UserCall
<1>13. ASSUME NEW lim \in Contracts, SignContract(lim) PROVE Steady /\ SeenOf /\ Rows /\ Bounds
  BY <1>1, <1>13 DEF SignContract
<1>14. ASSUME ActivatePricebook \/ UNCHANGED ledgerVars PROVE Steady /\ SeenOf /\ Rows /\ Bounds
  BY <1>1, <1>14 DEF ActivatePricebook
<1>15. ASSUME Steady, SeenOf, Rows, Bounds PROVE BudgetInv'
  BY <1>15, QuietBudget
<1> HIDE DEF Rows, Bounds
<1>16. ASSUME NEW c \in Call, GetOrCreate(c) \/ WriteEstimate(c) \/ WriteTooLate(c) \/ LedgerRaise(c)
       PROVE  BudgetInv'
  BY <1>2, <1>3, <1>4, <1>5, <1>7, <1>9, <1>15, <1>16, LaunchBudget DEF GetOrCreate
<1>17. ASSUME NEW j \in Job, Launch(j) \/ Decide(j) \/ Settle(j) \/ Upsert(j) \/ WriteCharge(j)
       PROVE  BudgetInv'
  BY <1>6, <1>10, <1>11, <1>15, <1>17, DecideBudget, ChargeBudget
<1>18. ASSUME NEW r \in Request, UserCall(r) \/ WriteApproval(r) PROVE BudgetInv'
  BY <1>8, <1>12, <1>15, <1>18
<1>19. ASSUME ActivatePricebook \/ TurnMonth \/ UNCHANGED ledgerVars PROVE BudgetInv'
  BY <1>14, <1>15, <1>19, TurnBudget
<1>20. ASSUME NEW lim \in Contracts, SignContract(lim) PROVE BudgetInv'
  BY <1>13, <1>15, <1>20
<1> QED  BY <1>16, <1>17, <1>18, <1>19, <1>20 DEF LedgerNext

\* The ledger begins within the budget.
LEMMA BudgetInit == ASSUME LedgerInit, TypeInv PROVE JobsInv /\ BudgetInv
<1>0. /\ Job \subseteq Call /\ NoRow.used = 0 /\ Spent \in Nat
  BY NumbersTyped DEF Call, NoRow, NewRow
<1>1. OpenJobs = {} /\ crowded = {}
  BY <1>0 DEF LedgerInit, OpenJobs, Charging
<1>2. JobsInv
  BY <1>0, <1>1 DEF LedgerInit, JobsInv, Due, Charging
<1>3. OneLone /\ LoneFits
  BY <1>1 DEF OneLone, LoneFits, Lone
<1>4. FutureUnused /\ Within
  BY <1>0 DEF LedgerInit, FutureUnused, Within
<1>5. ReadFits
  BY <1>0 DEF LedgerInit, ReadFits, AboutToCharge
<1> QED  BY <1>2, <1>3, <1>4, <1>5 DEF BudgetInv

\* The used minutes of a month exceed the largest budget a job was admitted under by no more than
\* the minutes of the crowded jobs, unless the month turned in the middle of a call: of the
\* ledger alone.
THEOREM BudgetIsKept == LedgerSpec => []BudgetKept
<1> DEFINE Inv == TypeInv /\ ChargeInv /\ JobsInv /\ BudgetInv
<1>1. LedgerInit => Inv
  <2>1. LedgerInit => TypeInv /\ ChargeInv
    BY LedgerTypeInit, ChargeInit DEF LedgerInit, TypeInv, Roles, Charging, Call
  <2> QED  BY <2>1, BudgetInit
<1>2. Inv /\ [LedgerNext]_ledgerVars => Inv'
  <2>1. TypeInv /\ [LedgerNext]_ledgerVars => TypeInv'
    BY LedgerTypeStep, RolesStep DEF TypeInv
  <2>2. TypeInv /\ JobsInv /\ [LedgerNext]_ledgerVars => JobsInv'
    BY JobsStep
  <2> QED  BY <2>1, <2>2, ChargeStep, BudgetStep DEF ChargeInv
<1>3. Inv => BudgetKept
  <2> SUFFICES ASSUME TypeInv, BudgetInv, NEW m \in Month \ straddled
               PROVE  usage[m].used <= allowance[m] + MinutesOf(crowded)
    BY DEF BudgetKept
  <2>1. Spent \in Nat /\ MinutesOf(crowded) \in Nat /\ Spent <= MinutesOf(crowded)
    <3>1. crowded \in SUBSET Job /\ Settled \in SUBSET crowded
      BY DEF TypeInv, LedgerTypeOK, Settled
    <3> QED  BY <3>1, MinutesGrow DEF Spent
  <2>2. usage[m].used <= allowance[m] + Spent
    BY DEF BudgetInv, Within
  <2> QED  BY <2>1, <2>2, NumbersTyped
<1> HIDE DEF Inv
<1> QED  BY <1>1, <1>2, <1>3, PTL DEF LedgerSpec

\* And of the ledger beside the GPU pool.
THEOREM ResourcesKeepBudget == Spec => []BudgetKept
  BY ResourcesImplementLedger, BudgetIsKept, PTL

-----------------------------------------------------------------------------
(* The pool, beside the ledger.                                            *)

\* The rows of both stay within their types.
THEOREM ResourcesTypeCorrect == Spec => []TypeOK
<1>1. PoolTypeOK /\ LedgerTypeOK => TypeOK
  BY DEF TypeOK
<1> QED
  BY <1>1, ResourcesImplementPool, ResourcesImplementLedger, PoolTypeCorrect, LedgerTypeCorrect, PTL

\* However the jobs of the user come and go, a cold instance is its job's own and gone with it.
THEOREM ResourcesColdInstances == Spec => []ColdIsOwn
  BY ResourcesImplementPool, ColdInstances, PTL

\* While the calls of the pool come one after the other, leases and jobs match.
THEOREM ResourcesLeasesAreHeld == Spec => []LeasesMatchJobs
  BY ResourcesImplementPool, LeasesAreHeld, PTL

\* When no call has overlapped or failed, the pool comes back to its minimum.
THEOREM ResourcesPoolComesBack == Spec => []PoolSettles
  BY ResourcesImplementPool, PoolComesBack, PTL

-----------------------------------------------------------------------------
(* A job's way through both.                                               *)

USE DEF InPool, PoolGo, call, poolEnv

\* A job about to be admitted is not in the pool yet, so that nothing there holds its admission
\* up; and a job is charged only when its GPU has been released.
InTurn ==
    \A j \in Job : /\ IsAt(j, "decide") => InPool(j, "absent")
                   /\ op[j] \in Charging => InPool(j, "over")

\* Only an admitted job is in the pool.
InStep ==
    \A j \in Job : /\ gpu[j] # "absent" => Admitted(j)
                   /\ op[j] \in Charging => gpu[j] = "over"

\* A party of the pool that is over stays so, and a job comes in by being stored.
LEMMA PoolWay ==
    ASSUME PoolTypeInv, [PoolNext]_poolVars, NEW j \in Job
    PROVE  /\ gpu[j] = "over" => gpu'[j] = "over"
           /\ gpu'[j] # "absent" => gpu[j] # "absent" \/ Enqueue(j)
<1>0. j \in Party
  BY DEF Party
<1>1. CASE UNCHANGED poolVars
  BY <1>1 DEF poolVars
<1>2. ASSUME NEW p \in Party, Step(p), p # j PROVE gpu'[j] = gpu[j]
  BY <1>0, <1>2, OthersStay
<1>3. CASE Step(j)
  <2>1. j \notin Scheduler
    BY PoolAssumption
  <2>2. CASE Enqueue(j)
    BY <2>2 DEF Enqueue
  <2>3. CASE StartJob(j) \/ EndJob(j)
    BY <2>3 DEF StartJob, EndJob
  <2>4. CASE PoolCall(j)
    <3>1. gpu[j] \notin {"absent", "over"}
      BY <2>4 DEF PoolCall, Reconcile, ReadDepth, ListWarm, Grow, Shrink, Relist, WriteBack, Pick, Take,
                  Restore, Find, Free, PoolRaise, RaiseEarly, RaiseLate, RaiseReleasing,
                  RaiseRestoring, Reconciling
    <3> QED  BY <3>1
  <2> QED  BY <1>3, <2>1, <2>2, <2>3, <2>4 DEF Step
<1> QED  BY <1>1, <1>2, <1>3, StepOf

\* Nothing but the worker that settles a job begins a charge of it.
LEMMA ChargeBegins ==
    ASSUME TypeInv, [Next]_vars, NEW j \in Job, op'[j] \in Charging
    PROVE  op[j] \in Charging \/ Charge(j)
<1>0. CallTypes /\ Job \subseteq Call /\ Request \subseteq Call /\ Job \cap Request = {} /\ Roles
  BY LedgerAssumption DEF TypeInv, LedgerTypeOK, CallTypes, Call
<1>1. ASSUME NEW c \in Call, NEW s, Finish(c, s) PROVE op[j] \in Charging
  BY <1>0, <1>1 DEF Finish, CallTypes, Charging
<1>2. ASSUME NEW c \in Call, NEW operation, NEW minutes, Ask(c, operation, minutes), c # j
      PROVE  op[j] \in Charging
  BY <1>0, <1>2 DEF Ask, CallTypes
<1>3. ASSUME NEW c \in Call, NEW operation, NEW minutes, Ask(c, operation, minutes),
             operation \notin Charging
      PROVE  op[j] \in Charging
  BY <1>0, <1>3 DEF Ask, CallTypes
<1>4. ASSUME NEW c \in Call, NEW row, Has(c, row) PROVE op[j] \in Charging
  <2>1. CASE op[c] = "snapshot" /\ Ask(c, "consume", due[c])
    BY <1>2, <2>1 DEF Charging
  <2> QED  BY <1>1, <1>4, <2>1 DEF Has
<1>5. ASSUME NEW c \in Call, GiveUp(c) PROVE op[j] \in Charging
  BY <1>1, <1>2, <1>5 DEF GiveUp
<1>6. ASSUME op' = op PROVE op[j] \in Charging
  BY <1>6
<1>7. ASSUME NEW c \in Call, GetOrCreate(c) PROVE op[j] \in Charging
  <2>1. CASE ReadPrice(c) \/ Select(c)
    BY <1>4, <1>6, <2>1 DEF ReadPrice, Select
  <2>2. CASE Insert(c) \/ Relimit(c)
    BY <1>1, <1>4, <2>2 DEF Insert, Relimit
  <2> QED  BY <1>7, <2>1, <2>2 DEF GetOrCreate
<1>8. ASSUME NEW c \in Call, WriteEstimate(c) \/ WriteTooLate(c) \/ LedgerRaise(c)
      PROVE  op[j] \in Charging
  BY <1>1, <1>5, <1>6, <1>8 DEF WriteEstimate, WriteTooLate, LedgerRaise
<1>9. ASSUME NEW k \in Job, Admit(k) \/ Upsert(k) \/ WriteCharge(k) PROVE op[j] \in Charging
  BY <1>0, <1>1, <1>4, <1>9 DEF Admit, Decide, Upsert, WriteCharge
<1>10. ASSUME NEW k \in Job, Launch(k) PROVE op[j] \in Charging
  BY <1>0, <1>3, <1>10 DEF Launch, Charging
<1>11. ASSUME NEW k \in Job, Charge(k) PROVE op[j] \in Charging \/ Charge(j)
  <2>1. PICK operation, minutes : Ask(k, operation, minutes)
    BY <1>11 DEF Charge, Settle
  <2> QED  BY <1>0, <1>2, <1>11, <2>1
<1>12. ASSUME NEW r \in Request, UserCall(r) \/ WriteApproval(r) PROVE op[j] \in Charging
  <2>1. CASE WriteApproval(r)
    BY <1>0, <1>1, <2>1 DEF WriteApproval
  <2>2. CASE UserCall(r)
    <3>1. PICK operation, minutes : Ask(r, operation, minutes)
      BY <2>2 DEF UserCall
    <3>2. r \in Call /\ r # j
      BY <1>0
    <3> QED  BY <1>2, <3>1, <3>2
  <2> QED  BY <1>12, <2>1, <2>2
<1>13. ASSUME NEW lim \in Contracts, SignContract(lim) PROVE op[j] \in Charging
  BY <1>6, <1>13 DEF SignContract
<1>14. CASE ActivatePricebook \/ TurnMonth \/ GpuStep \/ UNCHANGED vars
  BY <1>6, <1>14 DEF ActivatePricebook, TurnMonth, GpuStep, vars
<1> QED
  BY <1>7, <1>8, <1>9, <1>10, <1>11, <1>12, <1>13, <1>14 DEF Next, LedgerStep

\* Every step of the composition keeps the two in step.
LEMMA InStepStep == ASSUME PoolTypeInv, TypeInv, InStep, [Next]_vars PROVE InStep'
<1>0. CallTypes /\ Job \subseteq Call /\ Roles
  BY DEF TypeInv, LedgerTypeOK, CallTypes, Call
<1>1. \A j \in Job : Admitted(j) => Admitted(j)'
  BY ResourceStep, JobsKeepStep DEF JobsKeep, Keeps
<1> SUFFICES ASSUME NEW j \in Job
             PROVE  /\ gpu'[j] # "absent" => Admitted(j)'
                    /\ op'[j] \in Charging => gpu'[j] = "over"
  BY DEF InStep
<1>2. /\ gpu[j] = "over" => gpu'[j] = "over"
      /\ gpu'[j] # "absent" => gpu[j] # "absent" \/ Enqueue(j)
  BY ResourcePoolStep, PoolWay
<1>3. op'[j] \in Charging => gpu'[j] = "over"
  <2> SUFFICES ASSUME op'[j] \in Charging PROVE gpu'[j] = "over"
    OBVIOUS
  <2>1. gpu[j] = "over"
    BY ChargeBegins DEF InStep, Charge
  <2> QED  BY <1>2, <2>1
<1>4. gpu'[j] # "absent" => Admitted(j)'
  <2> SUFFICES ASSUME gpu'[j] # "absent", gpu[j] = "absent" PROVE Admitted(j)'
    BY <1>1 DEF InStep
  <2>1. Admit(j)
    <3>1. ~(UNCHANGED poolVars)
      BY DEF poolVars
    <3>2. ASSUME GpuStep PROVE FALSE
      <4>1. Enqueue(j)
        BY <1>2
      <4>2. ASSUME NEW p \in Party, p # j, Step(p) PROVE FALSE
        BY <4>2, OthersStay DEF Party
      <4>3. ~(StartJob(j) \/ EndJob(j) \/ PoolCall(j))
        BY DEF StartJob, EndJob, PoolCall, Reconcile, ReadDepth, ListWarm, Grow, Shrink, Relist, WriteBack,
               Pick, Take, Restore, Find, Free, PoolRaise, RaiseEarly, RaiseLate, RaiseReleasing,
               RaiseRestoring, Reconciling
      <4>4. j \notin Scheduler
        BY PoolAssumption
      <4> QED  BY <3>2, <4>2, <4>3, <4>4 DEF GpuStep, Step, Party
    <3>3. PICK k \in Job : Admit(k)
      BY <3>1, <3>2 DEF Next, Charge, LedgerStep, vars
    <3>4. Enqueue(k)
      BY <3>1, <3>3 DEF Admit
    <3>5. k = j
      BY <3>4, OthersStay DEF Step, Party
    <3> QED  BY <3>3, <3>5
  <2>2. place'[j] \in {"open", "over"}
    BY <1>0, <2>1 DEF Admit, Decide, Finish, CallTypes
  <2> QED  BY <2>2 DEF Admitted
<1> QED  BY <1>3, <1>4

\* No admission waits for the pool, and no job is charged while it may hold a GPU.
THEOREM JobsInTurn == Spec => []InTurn
<1>1. Init => TypeInv /\ InStep
  <2>1. Init => TypeInv
    BY LedgerTypeInit DEF Init, LedgerInit, TypeInv, Roles, Charging, Call
  <2>2. Init => InStep
    BY DEF Init, PoolInit, LedgerInit, InStep, Charging, Call, Party
  <2> QED  BY <2>1, <2>2
<1>2. PoolTypeInv /\ TypeInv /\ InStep /\ [Next]_vars => TypeInv' /\ InStep'
  <2>1. TypeInv /\ [LedgerNext]_ledgerVars => TypeInv'
    BY LedgerTypeStep, RolesStep DEF TypeInv
  <2> QED  BY <2>1, ResourceStep, InStepStep
<1>3. TypeInv /\ InStep => InTurn
  <2> SUFFICES ASSUME TypeInv, InStep, NEW j \in Job
               PROVE  /\ IsAt(j, "decide") => InPool(j, "absent")
                      /\ op[j] \in Charging => InPool(j, "over")
    BY DEF InTurn
  <2>1. place[j] = "decide" => ~Admitted(j)
    BY DEF TypeInv, Roles, Admitted, Call
  <2> QED  BY <2>1 DEF InStep
<1>4. Spec => []PoolTypeInv
  BY ResourcesImplementPool, PoolTypeInvariant, PTL
<1> QED  BY <1>1, <1>2, <1>3, <1>4, PTL DEF Spec

=============================================================================
