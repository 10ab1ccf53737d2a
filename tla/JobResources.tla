---------------------------- MODULE JobResources ----------------------------
(***************************************************************************)
(* What a job takes of its user's month and of the GPU pool: the           *)
(* composition of UsageLedger and GpuPool along the life of a job.         *)
(*                                                                         *)
(* create_job admits a job against the month before it stores it as        *)
(* queued; a worker allocates a GPU, runs the segments and, in             *)
(* _finalize_job, releases the GPU before it charges the month.  The       *)
(* attempts, failures and deliveries in between are those of JobRuntime.   *)
(***************************************************************************)
EXTENDS GpuPool, UsageLedger

vars == <<poolVars, ledgerVars>>

Init == PoolInit /\ LedgerInit

\* An admitted job is stored, and so it is queued.
Admit(j) ==
    /\ Decide(j)
    /\ IF place'[j] = "open" THEN Enqueue(j) ELSE UNCHANGED poolVars

\* A job is charged when its GPU has been released.
Charge(j) ==
    /\ InPool(j, "over")
    /\ Settle(j)
    /\ UNCHANGED poolVars

\* The steps of one component alone.
GpuStep ==
    /\ \/ \E j \in Job : StartJob(j) \/ EndJob(j)
       \/ \E s \in Scheduler : Tick(s)
       \/ \E j \in Party : PoolCall(j)
    /\ UNCHANGED ledgerVars

LedgerStep ==
    /\ \/ \E c \in Call : GetOrCreate(c) \/ WriteEstimate(c) \/ WriteTooLate(c) \/ LedgerRaise(c)
       \/ \E j \in Job : Launch(j) \/ Upsert(j) \/ WriteCharge(j)
       \/ \E r \in Request : UserCall(r) \/ WriteApproval(r)
       \/ ActivatePricebook \/ TurnMonth
       \/ \E lim \in Contracts : SignContract(lim)
    /\ UNCHANGED poolVars

Next ==
    \/ \E j \in Job : Admit(j) \/ Charge(j)
    \/ GpuStep
    \/ LedgerStep

Spec == Init /\ [][Next]_vars

-----------------------------------------------------------------------------
(* Properties.                                                             *)

\* The rows and the locals of both components stay within their types.
TypeOK == PoolTypeOK /\ LedgerTypeOK
=============================================================================
