---------------------------- MODULE MCJobRuntime ----------------------------
(* Instances of JobRuntime for TLC.                                        *)
EXTENDS JobRuntime, TLC

WorkerSymmetry == Permutations(Worker)

EveryStep == Step \ {"idle"}
NoStep == {}

\* With two jobs, one job is cancelled or one worker dies, not both: the repeated
\* delivery and the two jobs beside it are what the instance is for.
OneDisturbance == crashes + Cardinality(cancelling \cup cancelAccepted) <= 1

\* The steps at which an exception leaves no charge and no announced outcome behind.
BeforeCharge == ProcessingSteps \cup ManifestSteps \cup
    {"start", "allocate", "begin", "finalize", "freegpu", "seal", "unseal", "bill", "rescue"}
=============================================================================
