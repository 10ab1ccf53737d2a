----------------------------- MODULE UsageLedger -----------------------------
(***************************************************************************)
(* The monthly usage of one user: BillingService                           *)
(* (app/services/billing_service.py) over the rows of user_usage_monthly   *)
(* (UsageRepository, the Supabase variant), the limit that the pricebook   *)
(* and the museum contract give the plan, and the admission of jobs        *)
(* against it (cost_estimation.py, job_service.py, api/users.py).          *)
(*                                                                         *)
(* Every operation reads the row of the month, creating it if need be, and *)
(* then updates some of its columns with values computed from what it has  *)
(* read.  Nothing locks the row in between: jobs are launched, charged,    *)
(* estimated and approved side by side, and the month may turn.            *)
(***************************************************************************)
EXTENDS Jobs, Sequences

CONSTANTS
    Request,         \* other calls of the user: estimates, approvals, reads of the usage
    Minutes,         \* the billable minutes each job is estimated at
    Limits,          \* included_minutes_monthly of the pricebook revisions, in their order
    Contracts,       \* included_minutes_monthly of the museum contracts the user may get
    Asked,           \* minutes a request may name
    Months,          \* number of billing months
    MaxLedgerFaults, \* bound: exceptions
    MaxLedgerOverlaps, \* bound: calls begun while another one is in progress
    MaxPriceChanges  \* bound: revisions activated and contracts signed

Month == 1..Months
Call == Job \cup Request
Scope == {"none", "single_job", "month", "upgrade_tier"}

ASSUME LedgerAssumption ==
    /\ Job \cap Request = {}
    /\ Minutes \in [Job -> Nat]
    /\ Limits \in Seq(Nat) /\ Limits # <<>>
    /\ Contracts \subseteq Nat /\ Asked \subseteq Nat
    /\ Months \in Nat \ {0}
    /\ MaxLedgerFaults \in Nat /\ MaxLedgerOverlaps \in Nat /\ MaxPriceChanges \in Nat

Row == [used : Nat, limit : Nat, estimate : Nat, scope : Scope, approved : Nat,
        alerts : SUBSET {80, 90, 100}]

\* A row just created, for a limit.
NewRow(lim) == [used |-> 0, limit |-> lim, estimate |-> 0, scope |-> "none", approved |-> 0,
                alerts |-> {}]
NoRow == NewRow(0)

Op == {"none", "usage", "estimate", "launch", "snapshot", "consume", "cancel"} \cup Scope
Place == {"idle", "price", "select", "insert", "relimit", "upsert", "write", "decide",
          "open", "over"}

VARIABLES
    usage,        \* user_usage_monthly: the row of each month
    billed,       \* the months that have a row
    revision,     \* the active revision of the pricebook
    contract,     \* the minutes of the museum contract in billing_accounts, or none
    month,        \* the month of _billing_month()
    place,        \* where a call stands; its locals are:
    op,           \*   the operation of BillingService; an approval is named by its scope
    limit,        \*   monthly_limit_minutes
    since,        \*   the month get_or_create was called in
    read,         \*   the row that it or update has returned
    due,          \*   the minutes it names
    ledgerFaults, ledgerOverlaps, priceChanges,  \* what the environment has used of its bounds
    charged,      \* history: the minutes charged in each month
    allowance,    \* history: the largest budget a job was admitted under in each month
    crowded,      \* history: jobs admitted while another was open, or in an earlier month
    raced,        \* history: a charge was read while another was about to be written
    straddled     \* history: months that turned while a call had read the row

ledgerRows == <<usage, billed>>
prices == <<revision, contract>>
callLocals == <<op, limit, since, read, due>>
ledgerBounds == <<ledgerFaults, ledgerOverlaps, priceChanges>>
ledgerHistory == <<charged, allowance, crowded, raced, straddled>>
ledgerVars == <<ledgerRows, prices, month, place, callLocals, ledgerBounds, ledgerHistory>>

LedgerInit ==
    /\ usage = [m \in Month |-> NoRow] /\ billed = {}
    /\ revision = 1 /\ contract = {} /\ month = 1
    /\ place = [c \in Call |-> "idle"]
    /\ op = [c \in Call |-> "none"]
    /\ limit = [c \in Call |-> 0]
    /\ since = [c \in Call |-> 1]
    /\ read = [c \in Call |-> NoRow]
    /\ due = [c \in Call |-> 0]
    /\ ledgerFaults = 0 /\ ledgerOverlaps = 0 /\ priceChanges = 0
    /\ charged = [m \in Month |-> 0]
    /\ allowance = [m \in Month |-> 0]
    /\ crowded = {} /\ raced = FALSE /\ straddled = {}

-----------------------------------------------------------------------------
(* What is computed from a row.                                            *)

Larger(a, b) == IF a < b THEN b ELSE a

\* effective_pricing_for_plan: the pricebook's minutes, unless a museum contract names its own.
PlanLimit == IF contract = {} THEN Limits[revision] ELSE CHOOSE lim \in contract : TRUE

ThresholdAlerts(used, lim) == {t \in {80, 90, 100} : lim > 0 /\ used * 100 >= t * lim}

Budget(row) == row.limit + row.approved

\* The operations of a worker that settles a job.
Charging == {"snapshot", "consume", "cancel"}

\* Mutant of HardStop: what the job itself will use is not counted.
HardStopAtLimit(row) == row.used >= Budget(row)

HardStop(row) == row.used >= Budget(row) \/ row.used + row.estimate > Budget(row)

\* Mutant of Estimated: the update writes the row it has read.
EstimatedWhole(row, seen, minutes) ==
    [seen EXCEPT !.estimate = minutes, !.alerts = ThresholdAlerts(seen.used, seen.limit)]

\* The columns record_estimate updates; the alerts are those of the row it has read.
Estimated(row, seen, minutes) ==
    [row EXCEPT !.estimate = minutes, !.alerts = ThresholdAlerts(seen.used, seen.limit)]

\* consume_minutes: an approval for one job lapses with the minutes it was for.
Consumed(row, seen, minutes) ==
    LET used == seen.used + minutes
        over == IF used > seen.limit THEN used - seen.limit ELSE 0
        lapsed == seen.scope = "single_job" /\ over >= seen.approved
    IN  [row EXCEPT !.used = used, !.estimate = 0,
                    !.scope = IF lapsed THEN "none" ELSE seen.scope,
                    !.alerts = ThresholdAlerts(used, seen.limit)]

\* approve_overage: minutes not named are those of the estimate.
Granted(seen, scope, minutes) ==
    CASE scope = "upgrade_tier" -> 0
      [] scope # "upgrade_tier" /\ minutes > 0 -> minutes
      [] OTHER -> seen.estimate

Approved(row, seen, scope, minutes) ==
    [row EXCEPT !.scope = scope, !.approved = Granted(seen, scope, minutes),
                !.alerts = ThresholdAlerts(seen.used, seen.limit)]

-----------------------------------------------------------------------------
(* How a call goes on.                                                     *)

IsAt(c, s) == place[c] = s
Proceed(c, s) == place' = [place EXCEPT ![c] = s]

\* A call of BillingService begins: it reads the plan's limit first.
Ask(c, operation, minutes) ==
    /\ Proceed(c, "price")
    /\ op' = [op EXCEPT ![c] = operation]
    /\ due' = [due EXCEPT ![c] = minutes]
    /\ UNCHANGED <<limit, since, read>>

\* The call has answered.
Finish(c, s) ==
    /\ Proceed(c, s)
    /\ op' = [op EXCEPT ![c] = "none"]
    /\ limit' = [limit EXCEPT ![c] = 0]
    /\ since' = [since EXCEPT ![c] = 1]
    /\ read' = [read EXCEPT ![c] = NoRow]
    /\ due' = [due EXCEPT ![c] = 0]

\* get_or_create has returned a row.
Has(c, row) ==
    \/ /\ op[c] = "usage"
       /\ Finish(c, "over")
    \/ /\ op[c] = "snapshot"
       /\ Ask(c, "consume", due[c])
    \/ /\ op[c] \notin {"usage", "snapshot"}
       /\ Proceed(c, "write")
       /\ read' = [read EXCEPT ![c] = row]
       /\ UNCHANGED <<op, limit, since, due>>

-----------------------------------------------------------------------------
(* The calls.                                                              *)

InProgress(c) == place[c] \notin {"idle", "open", "over"}

\* A call begins, beside another one as often as the bound allows.
Beside(c) ==
    \/ /\ \A other \in Call \ {c} : ~InProgress(other)
       /\ UNCHANGED ledgerOverlaps
    \/ /\ \E other \in Call \ {c} : InProgress(other)
       /\ ledgerOverlaps < MaxLedgerOverlaps
       /\ ledgerOverlaps' = ledgerOverlaps + 1

\* POST /v1/jobs, or the job of a preview.
Launch(j) ==
    /\ IsAt(j, "idle") /\ Beside(j)
    /\ Ask(j, "launch", Minutes[j])
    /\ UNCHANGED <<ledgerRows, prices, month, ledgerFaults, priceChanges, ledgerHistory>>

\* GET usage; POST estimate, detect-era or a preview; POST approve-overage.
UserCall(r) ==
    /\ IsAt(r, "idle") /\ Beside(r)
    /\ \/ Ask(r, "usage", 0)
       \/ \E minutes \in Asked : Ask(r, "estimate", minutes)
       \/ \E minutes \in Asked \cup {0}, scope \in Scope \ {"none"} : Ask(r, scope, minutes)
    /\ UNCHANGED <<ledgerRows, prices, month, ledgerFaults, priceChanges, ledgerHistory>>

\* The worker settles a job that has ended: a delivered one for its minutes, with a look at the
\* usage before, a failed one in the same way for none, a cancelled one for none.
Settle(j) ==
    /\ IsAt(j, "open") /\ Beside(j)
    /\ \/ \E minutes \in {0, Minutes[j]} : Ask(j, "snapshot", minutes)
       \/ Ask(j, "cancel", 0)
    /\ UNCHANGED <<ledgerRows, prices, month, ledgerFaults, priceChanges, ledgerHistory>>

\* The limit of the plan; _cancel_job does not name the organisation, so that its contract is
\* not seen.  A worker's call upserts the row, an API call selects it first.
ReadPrice(c) ==
    /\ IsAt(c, "price")
    /\ limit' = [limit EXCEPT ![c] = IF op[c] = "cancel" THEN Limits[revision] ELSE PlanLimit]
    /\ Proceed(c, IF op[c] \in Charging THEN "upsert" ELSE "select")
    /\ UNCHANGED <<ledgerRows, prices, month, op, since, read, due, ledgerBounds, ledgerHistory>>

\* get_or_create on behalf of a user: select, then insert or update the limit if need be.
Select(c) ==
    /\ IsAt(c, "select")
    /\ \/ /\ month \notin billed
          /\ Proceed(c, "insert")
          /\ since' = [since EXCEPT ![c] = month]
          /\ UNCHANGED <<op, limit, read, due>>
       \/ /\ month \in billed /\ usage[month].limit # limit[c]
          /\ Proceed(c, "relimit")
          /\ since' = [since EXCEPT ![c] = month]
          /\ UNCHANGED <<op, limit, read, due>>
       \/ /\ month \in billed /\ usage[month].limit = limit[c]
          /\ Has(c, usage[month])
    /\ UNCHANGED <<ledgerRows, prices, month, ledgerBounds, ledgerHistory>>

\* The row is unique: an insert that comes second fails, and the call with it.
Insert(c) ==
    /\ IsAt(c, "insert")
    /\ IF since[c] \in billed
       THEN Finish(c, "over") /\ UNCHANGED ledgerRows
       ELSE /\ billed' = billed \cup {since[c]}
            /\ usage' = [usage EXCEPT ![since[c]] = NewRow(limit[c])]
            /\ Has(c, NewRow(limit[c]))
    /\ UNCHANGED <<prices, month, ledgerBounds, ledgerHistory>>

\* The limit is updated and the row returned as it is; its alerts stay.
Relimit(c) ==
    /\ IsAt(c, "relimit")
    /\ LET row == [usage[since[c]] EXCEPT !.limit = limit[c]]
       IN  usage' = [usage EXCEPT ![since[c]] = row] /\ Has(c, row)
    /\ UNCHANGED <<billed, prices, month, ledgerBounds, ledgerHistory>>

\* get_or_create on behalf of a worker, in one statement.
Upsert(j) ==
    /\ IsAt(j, "upsert")
    /\ LET row == IF month \in billed THEN [usage[month] EXCEPT !.limit = limit[j]]
                  ELSE NewRow(limit[j])
       IN  usage' = [usage EXCEPT ![month] = row] /\ Has(j, row)
    /\ billed' = billed \cup {month}
    /\ raced' = (raced \/ \E k \in Job \ {j} : op[k] \in Charging /\ IsAt(k, "write"))
    /\ UNCHANGED <<prices, month, ledgerBounds, charged, allowance, crowded, straddled>>

\* UsageRepository.update finds the row of the month it is called in, or raises.
Update(row) ==
    /\ month \in billed
    /\ usage' = [usage EXCEPT ![month] = row]

\* The jobs that are admitted, or about to be, and not charged yet.
OpenJobs == {j \in Job : place[j] \in {"decide", "open"} \/ op[j] \in Charging}

WriteEstimate(c) ==
    /\ IsAt(c, "write") /\ op[c] \in {"estimate", "launch"}
    /\ LET row == Estimated(usage[month], read[c], due[c])
       IN  /\ Update(row)
           /\ IF op[c] = "launch"
              THEN /\ Proceed(c, "decide")
                   /\ read' = [read EXCEPT ![c] = row]
                   /\ crowded' = IF OpenJobs = {} THEN crowded ELSE crowded \cup {c}
                   /\ UNCHANGED <<op, limit, since, due>>
              ELSE Finish(c, "over") /\ UNCHANGED crowded
    /\ UNCHANGED <<billed, prices, month, ledgerBounds, charged, allowance, raced, straddled>>

\* create_job goes on, or answers that an overage has to be approved.
Decide(j) ==
    /\ IsAt(j, "decide")
    /\ IF HardStop(read[j])
       THEN /\ Finish(j, "over")
            /\ crowded' = crowded \ {j} /\ UNCHANGED allowance
       ELSE /\ Finish(j, "open")
            /\ allowance' = [allowance EXCEPT ![month] = Larger(@, Budget(read[j]))]
            /\ UNCHANGED crowded
    /\ UNCHANGED <<ledgerRows, prices, month, ledgerBounds, charged, raced, straddled>>

WriteCharge(j) ==
    /\ IsAt(j, "write") /\ op[j] \in Charging
    /\ Update(Consumed(usage[month], read[j], due[j]))
    /\ charged' = [charged EXCEPT ![month] = @ + due[j]]
    /\ Finish(j, "over")
    /\ UNCHANGED <<billed, prices, month, ledgerBounds, allowance, crowded, raced, straddled>>

\* An approval of no minutes, when nothing is estimated either, is refused.
WriteApproval(r) ==
    /\ IsAt(r, "write") /\ op[r] \in Scope
    /\ IF op[r] # "upgrade_tier" /\ Granted(read[r], op[r], due[r]) = 0
       THEN UNCHANGED usage
       ELSE Update(Approved(usage[month], read[r], op[r], due[r]))
    /\ Finish(r, "over")
    /\ UNCHANGED <<billed, prices, month, ledgerBounds, ledgerHistory>>

\* A call ends in an exception; the charge of a job is tried once more, for no minutes.
GiveUp(c) ==
    IF op[c] \in Charging /\ due[c] > 0
    THEN Ask(c, "snapshot", 0)
    ELSE Finish(c, "over")

\* The update finds no row for the month that has begun.
WriteTooLate(c) ==
    /\ IsAt(c, "write") /\ month \notin billed
    /\ GiveUp(c)
    /\ UNCHANGED <<ledgerRows, prices, month, ledgerBounds, ledgerHistory>>

\* Pricing is not available, or the database fails.
LedgerRaise(c) ==
    /\ InProgress(c)
    /\ ledgerFaults < MaxLedgerFaults
    /\ ledgerFaults' = ledgerFaults + 1
    /\ GiveUp(c)
    /\ UNCHANGED <<ledgerRows, prices, month, ledgerOverlaps, priceChanges, ledgerHistory>>

-----------------------------------------------------------------------------
(* Around the calls.                                                       *)

\* activate_pricebook_revision: the next revision takes the place of the active one.
ActivatePricebook ==
    /\ revision < Len(Limits)
    /\ priceChanges < MaxPriceChanges
    /\ revision' = revision + 1
    /\ priceChanges' = priceChanges + 1
    /\ UNCHANGED <<ledgerRows, contract, month, place, callLocals, ledgerFaults, ledgerOverlaps,
                   ledgerHistory>>

\* The museum account of the organisation gets its own minutes.
SignContract(lim) ==
    /\ contract # {lim}
    /\ priceChanges < MaxPriceChanges
    /\ contract' = {lim}
    /\ priceChanges' = priceChanges + 1
    /\ UNCHANGED <<ledgerRows, revision, month, place, callLocals, ledgerFaults, ledgerOverlaps,
                   ledgerHistory>>

TurnMonth ==
    /\ month < Months
    /\ month' = month + 1
    /\ crowded' = crowded \cup OpenJobs
    /\ straddled' = IF \E c \in Call : place[c] \in {"insert", "relimit", "write", "decide"}
                    THEN straddled \cup {month, month + 1} ELSE straddled
    /\ UNCHANGED <<ledgerRows, prices, place, callLocals, ledgerBounds, charged, allowance, raced>>
-----------------------------------------------------------------------------

GetOrCreate(c) == ReadPrice(c) \/ Select(c) \/ Insert(c) \/ Relimit(c)

LedgerNext ==
    \/ \E c \in Call : GetOrCreate(c) \/ WriteEstimate(c) \/ WriteTooLate(c) \/ LedgerRaise(c)
    \/ \E j \in Job : Launch(j) \/ Decide(j) \/ Settle(j) \/ Upsert(j) \/ WriteCharge(j)
    \/ \E r \in Request : UserCall(r) \/ WriteApproval(r)
    \/ ActivatePricebook \/ TurnMonth
    \/ \E lim \in Contracts : SignContract(lim)

LedgerSpec == LedgerInit /\ [][LedgerNext]_ledgerVars

-----------------------------------------------------------------------------
(* Properties.                                                             *)

\* Rows and locals stay within their types.
LedgerTypeOK ==
    /\ usage \in [Month -> Row] /\ billed \subseteq Month
    /\ revision \in DOMAIN Limits /\ contract \subseteq Contracts /\ month \in Month
    /\ place \in [Call -> Place] /\ op \in [Call -> Op]
    /\ limit \in [Call -> Nat] /\ since \in [Call -> Month] /\ read \in [Call -> Row] /\ due \in [Call -> Nat]
    /\ ledgerFaults \in Nat /\ ledgerOverlaps \in Nat /\ priceChanges \in Nat
    /\ charged \in [Month -> Nat] /\ allowance \in [Month -> Nat]
    /\ crowded \subseteq Job /\ raced \in BOOLEAN /\ straddled \subseteq Month

\* The used minutes of a month are those charged in it, whatever is estimated, approved,
\* launched or priced meanwhile, unless two charges overlap or the month turns in a call.
UsedIsCharged ==
    \A m \in Month : usage[m].used = charged[m] \/ raced \/ m \in straddled

\* The minutes of some jobs together, counted one by one.
MinutesOf(jobs) == Cardinality(UNION {{j} \X (1..Minutes[j]) : j \in jobs})

\* The used minutes of a month exceed the largest budget a job was admitted under by no more
\* than the minutes of the jobs that were admitted while another one was running.
BudgetKept ==
    \A m \in Month \ straddled : usage[m].used <= allowance[m] + MinutesOf(crowded)
=============================================================================
