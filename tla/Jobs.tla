-------------------------------- MODULE Jobs --------------------------------
(***************************************************************************)
(* The jobs of one user, by their ids: what the modules about the          *)
(* resources a job takes, GpuPool and UsageLedger, have in common.         *)
(***************************************************************************)
EXTENDS Naturals, FiniteSets

CONSTANT Job

ASSUME JobsAssumption == Job # {} /\ IsFiniteSet(Job)
=============================================================================
