---------------------------- MODULE JobLifecycle ----------------------------
(***************************************************************************)
(* What the job API promises of a job that is delivered once: the statuses *)
(* of models/status.py and the moves between them a client can see, with   *)
(* the charge a job makes.  A success may still be demoted to failed, but  *)
(* only while it is uncharged; a charge is made once, and only for a       *)
(* success; a cancelled job stays cancelled.                               *)
(***************************************************************************)
EXTENDS Naturals

CONSTANT Job

VARIABLES status, charges

Success == {"completed", "partial"}
Running == {"queued", "processing", "cancel_requested"}

Move(j, from, to) ==
    /\ status[j] \in from
    /\ status' = [status EXCEPT ![j] = to]
    /\ UNCHANGED charges

Init ==
    /\ status = [j \in Job |-> "absent"]
    /\ charges = [j \in Job |-> 0]

Accept(j) == Move(j, {"absent"}, "queued")

\* A cancellation asked for after the worker has read the status is overwritten.
Begin(j) == Move(j, {"queued", "cancel_requested"}, "processing")

AskCancel(j) == Move(j, {"queued", "processing"}, "cancel_requested")

AcknowledgeCancel(j) == Move(j, {"cancel_requested"}, "cancelled")

Conclude(j) == \E outcome \in Success : Move(j, {"processing", "cancel_requested"}, outcome)

Fail(j) == Move(j, Running, "failed")

Demote(j) == charges[j] = 0 /\ Move(j, Success, "failed")

Meter(j) ==
    /\ status[j] \in Success
    /\ charges[j] = 0
    /\ charges' = [charges EXCEPT ![j] = 1]
    /\ UNCHANGED status

Next == \E j \in Job :
    \/ Accept(j) \/ Begin(j) \/ AskCancel(j) \/ AcknowledgeCancel(j)
    \/ Conclude(j) \/ Fail(j) \/ Demote(j) \/ Meter(j)

Spec == Init /\ [][Next]_<<status, charges>>
=============================================================================
