--------------------------- MODULE MCJobResources ---------------------------
(* An instance of JobResources for TLC.                                    *)
EXTENDS JobResources, TLC

\* Two minutes a job, of three in the month or of two.
MCMinutes == [j \in Job |-> 2]
MCLimits == <<3, 2>>

JobSymmetry == Permutations(Job)

\* Bound: what disturbs the jobs, at most twice in a behaviour, is in the pool, the user calling
\* nothing else, or in the ledger, the pool having its minimum.  In the pool an overlap and an
\* exception do not come together.
Disturbances ==
    LET ticks == Cardinality({s \in Scheduler : gpu[s] # "absent"})
        inPool == overlaps + poolFaults + ticks
        inLedger == ledgerOverlaps + ledgerFaults + priceChanges + (month - 1)
        poolCalm == /\ inPool = 0
                    /\ Cardinality(WarmLeases) <= MinWarm
                    /\ \A j \in Party : depth[j] <= Threshold
        ledgerCalm == inLedger = 0 /\ \A r \in Request : IsAt(r, "idle")
    IN  inPool <= 2 /\ (overlaps = 0 \/ poolFaults = 0) /\ inLedger <= 2 /\ (poolCalm \/ ledgerCalm)

\* Bound: a call of the ledger and one of the pool do not overlap.  They share no row, so that
\* the order of their steps makes no difference to either.
Apart == (\A c \in Call : ~InProgress(c)) \/ (\A j \in Party : gpu[j] \notin Calling)
=============================================================================
