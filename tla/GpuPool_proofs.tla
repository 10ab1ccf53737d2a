--------------------------- MODULE GpuPool_proofs ---------------------------
(***************************************************************************)
(* Proofs about GpuPool, for any number of jobs and schedulers, any sizes  *)
(* of the pool and any bounds.  However the calls overlap and fail: the    *)
(* types; and that a cold instance is its job's own and gone with it.      *)
(* While the calls come one after the other: that leases and jobs match;   *)
(* and that the pool comes back to its minimum.                            *)
(***************************************************************************)
EXTENDS GpuPool, FiniteSetTheorems, TLAPS

USE DEF InPool, PoolGo, call, poolEnv

-----------------------------------------------------------------------------
(* Finite sets of rows, and ids of them.                                   *)

\* The lists of a call are finite, as the table is.
ListsFinite ==
    /\ IsFiniteSet(leases)
    /\ \A p \in Party : IsFiniteSet(active[p]) /\ IsFiniteSet(extra[p])

\* A scheduler reconciles and does nothing else; a job calls before its lease, after it or to
\* release it.
Control ==
    /\ \A s \in Scheduler : /\ gpu[s] \in Reconciling \cup {"absent", "over"}
                            /\ gpu[s] \in Reconciling => caller[s] = "tick"
                            /\ mine[s] = NoLease
    /\ \A j \in Job : /\ caller[j] # "tick"
                      /\ gpu[j] \in {"absent", "queued", "depth", "pick", "take"} => caller[j] = "before"
                      /\ gpu[j] = "free" => caller[j] = "release"

Typed == PoolTypeOK /\ ListsFinite
PoolTypeInv == Typed /\ Control

\* The rows of the table and the copies that calls have of them.
Known(row) ==
    \/ row \in leases
    \/ \E p \in Party : row \in active[p] \/ row \in extra[p] \/ row = mine[p]

\* The ids of finitely many rows are finitely many.
LEMMA IdsFinite == ASSUME NEW S, IsFiniteSet(S) PROVE IsFiniteSet(Ids(S))
<1> DEFINE f == [row \in S |-> row.id]
<1>1. f \in Surjection(S, Ids(S))
  BY DEF Surjection, Ids
<1> QED BY <1>1, FS_Surjection

\* The jobs and the schedulers together are finitely many.
LEMMA PartyFinite == IsFiniteSet(Party)
BY JobsAssumption, PoolAssumption, FS_Union DEF Party

\* So are the ids that rows and calls know.
LEMMA KnownIdsFinite == ASSUME PoolTypeInv PROVE IsFiniteSet(KnownIds)
<1> DEFINE ids(p) == Ids(active[p]) \cup Ids(extra[p]) \cup {mine[p].id}
           f == [p \in Party |-> ids(p)]
           T == {ids(p) : p \in Party}
<1>1. f \in Surjection(Party, T)
  BY DEF Surjection
<1>2. IsFiniteSet(T)
  BY <1>1, PartyFinite, FS_Surjection
<1>3. \A p \in Party : IsFiniteSet(ids(p))
  <2> TAKE p \in Party
  <2>1. IsFiniteSet(Ids(active[p])) /\ IsFiniteSet(Ids(extra[p]))
    BY IdsFinite DEF PoolTypeInv, Typed, ListsFinite
  <2> QED BY <2>1, FS_Union, FS_Singleton
<1>4. IsFiniteSet(UNION T)
  BY <1>2, <1>3, FS_UNION
<1>5. IsFiniteSet(Ids(leases))
  BY IdsFinite DEF PoolTypeInv, Typed, ListsFinite
<1> QED BY <1>4, <1>5, FS_Union DEF KnownIds

\* A new worker id is that of no row and of no copy.
LEMMA NewIdIsNew ==
    ASSUME PoolTypeInv
    PROVE  NewId \in Nat \ {0} /\ \A row : Known(row) => row.id # NewId
<1> DEFINE n == Cardinality(KnownIds)
<1>1. n \in Nat
  BY KnownIdsFinite, FS_CardinalityType
<1>2. \E id \in 1..(n + 1) : id \notin KnownIds
  <2> SUFFICES ASSUME 1..(n + 1) \subseteq KnownIds PROVE FALSE
    OBVIOUS
  <2>1. Cardinality(1..(n + 1)) = n + 1
    BY <1>1, FS_Interval
  <2>2. Cardinality(1..(n + 1)) <= n
    BY KnownIdsFinite, FS_Subset
  <2> QED BY <1>1, <2>1, <2>2
<1>3. NewId \in 1..(n + 1) /\ NewId \notin KnownIds
  BY <1>2, Zenon DEF NewId
<1>4. \A row : Known(row) => row.id \in KnownIds
  BY DEF Known, KnownIds, Ids
<1> QED BY <1>1, <1>3, <1>4

\* As many instances are wanted as a number says; none queued, the minimum.
LEMMA DesiredWarmType == ASSUME NEW d \in Nat PROVE DesiredWarm(d) \in Nat
<1> DEFINE excess == d - Threshold
<1>1. CASE d <= Threshold
  BY <1>1, PoolAssumption DEF DesiredWarm
<1>2. CASE d > Threshold
  <2>1. excess + Threshold - 1 \in Nat /\ Threshold \in Nat \ {0} /\ ScaleStep \in Nat
    BY <1>2, PoolAssumption
  <2>2. (excess + Threshold - 1) \div Threshold \in Nat
    BY <2>1
  <2> DEFINE more == (excess + Threshold - 1) \div Threshold
  <2>3. more * ScaleStep \in Nat
    BY <2>1, <2>2
  <2>4. DesiredWarm(d) = MinWarm + more * ScaleStep
    BY <1>2, PoolAssumption DEF DesiredWarm
  <2> HIDE DEF more
  <2> QED BY <2>3, <2>4, PoolAssumption
<1> QED BY <1>1, <1>2, PoolAssumption

\* For an empty queue the pool's minimum is wanted.
LEMMA DesiredWarmOfNone == DesiredWarm(0) = MinWarm
BY PoolAssumption DEF DesiredWarm

-----------------------------------------------------------------------------
(* Types.                                                                  *)

\* A row is replaced: rows of leases stay rows of leases, with distinct ids.
LEMMA UpsertedTypes ==
    ASSUME PoolTypeInv, NEW row \in Lease
    PROVE  /\ Upserted(row) \subseteq Lease /\ IsFiniteSet(Upserted(row))
           /\ \A r, o \in Upserted(row) : r.id = o.id => r = o
<1>1. Without(row.id) \subseteq leases /\ IsFiniteSet(Without(row.id))
  BY FS_Subset DEF Without, PoolTypeInv, Typed, ListsFinite
<1>2. IsFiniteSet(Upserted(row))
  BY <1>1, FS_AddElement DEF Upserted
<1> QED BY <1>1, <1>2 DEF Upserted, Without, PoolTypeInv, Typed, PoolTypeOK

\* A table without a row is a table.
LEMMA WithoutTypes ==
    ASSUME PoolTypeInv, NEW id
    PROVE  /\ Without(id) \subseteq Lease /\ IsFiniteSet(Without(id))
           /\ \A r, o \in Without(id) : r.id = o.id => r = o
<1>1. Without(id) \subseteq leases /\ IsFiniteSet(Without(id))
  BY FS_Subset DEF Without, PoolTypeInv, Typed, ListsFinite
<1> QED BY <1>1 DEF PoolTypeInv, Typed, PoolTypeOK

\* The pool begins typed.
LEMMA PoolTypeInit == ASSUME PoolInit PROVE PoolTypeInv
<1>1. Typed
  BY FS_EmptySet DEF PoolInit, Typed, PoolTypeOK, ListsFinite, PoolStep, Caller, Lease, NoLease
<1>2. Control
  BY DEF PoolInit, Control, Party, Reconciling
<1> QED BY <1>1, <1>2 DEF PoolTypeInv

\* The end of a call leaves its locals empty, and the rows alone.
LEMMA LeaveTypes ==
    ASSUME PoolTypeInv, NEW j \in Party, NEW s \in PoolStep, Leave(j, s)
    PROVE  /\ gpu' \in [Party -> PoolStep] /\ caller' \in [Party -> Caller]
           /\ depth' \in [Party -> Nat] /\ mine' \in [Party -> Lease]
           /\ active' \in [Party -> SUBSET Lease] /\ extra' \in [Party -> SUBSET Lease]
           /\ again' \in [Party -> BOOLEAN]
           /\ \A p \in Party : IsFiniteSet(active'[p]) /\ IsFiniteSet(extra'[p])
BY FS_EmptySet
   DEF Leave, PoolTypeInv, Typed, PoolTypeOK, ListsFinite, Caller, Lease, NoLease

\* The end of a reconciliation: likewise.
LEMMA ReturnTypes ==
    ASSUME PoolTypeInv, NEW j \in Party, Return(j)
    PROVE  /\ gpu' \in [Party -> PoolStep] /\ caller' \in [Party -> Caller]
           /\ depth' \in [Party -> Nat] /\ mine' \in [Party -> Lease]
           /\ active' \in [Party -> SUBSET Lease] /\ extra' \in [Party -> SUBSET Lease]
           /\ again' \in [Party -> BOOLEAN]
           /\ \A p \in Party : IsFiniteSet(active'[p]) /\ IsFiniteSet(extra'[p])
<1>1. CASE Leave(j, "over")
  BY <1>1, LeaveTypes DEF PoolStep
<1>2. CASE PoolGo(j, "pick") /\ active' = [active EXCEPT ![j] = {}]
           /\ UNCHANGED <<caller, depth, extra, mine, again>>
  BY <1>2, FS_EmptySet DEF PoolTypeInv, Typed, PoolTypeOK, ListsFinite, PoolStep, Calling
<1>3. CASE PoolGo(j, "run") /\ caller' = [caller EXCEPT ![j] = "before"]
           /\ depth' = [depth EXCEPT ![j] = 0] /\ UNCHANGED <<active, extra, mine, again>>
  BY <1>3 DEF PoolTypeInv, Typed, PoolTypeOK, ListsFinite, PoolStep, Caller
<1>4. CASE PoolGo(j, "over") /\ UNCHANGED <<caller, depth, active, extra, mine, again>>
  BY <1>4 DEF PoolTypeInv, Typed, PoolTypeOK, ListsFinite, PoolStep
<1> QED BY <1>1, <1>2, <1>3, <1>4 DEF Return

\* A call of reconcile_gpu_pool keeps the types.
LEMMA ReconcileTypes ==
    ASSUME PoolTypeInv, NEW j \in Party, Reconcile(j)
    PROVE  Typed'
<1> USE DEF PoolTypeInv, Typed, PoolTypeOK, ListsFinite, poolVars
<1>1. WarmLeases \subseteq Lease /\ IsFiniteSet(WarmLeases)
  BY FS_Subset DEF WarmLeases
<1>2. CASE ListWarm(j)
  <2>1. gpu' \in [Party -> PoolStep]
    BY <1>2 DEF ListWarm, PoolStep, Calling, Reconciling
  <2>2. extra' \in [Party -> SUBSET Lease] /\ \A p \in Party : IsFiniteSet(extra'[p])
    <3>1. ASSUME NEW rows \in SUBSET {lease \in WarmLeases : ~lease.busy}
          PROVE  rows \subseteq Lease /\ IsFiniteSet(rows)
      BY <1>1, FS_Subset
    <3> QED BY <1>2, <3>1 DEF ListWarm
  <2>3. active' \in [Party -> SUBSET Lease] /\ \A p \in Party : IsFiniteSet(active'[p])
    BY <1>1, <1>2 DEF ListWarm
  <2> QED BY <1>2, <2>1, <2>2, <2>3 DEF ListWarm
<1>3. CASE Grow(j)
  <2> DEFINE new == [id |-> NewId, busy |-> FALSE, warm |-> TRUE, job |-> NoJob]
  <2>1. new \in Lease /\ \A row \in leases : row.id # new.id
    BY NewIdIsNew DEF Lease, Known
  <2>2. IsFiniteSet(leases \cup {new}) /\ IsFiniteSet(active[j] \cup {new})
    BY FS_AddElement
  <2>3. leases' = leases \cup {new} /\ active' = [active EXCEPT ![j] = @ \cup {new}]
    BY <1>3 DEF Grow
  <2> HIDE DEF new
  <2>4. gpu' \in [Party -> PoolStep]
    BY <1>3 DEF Grow, PoolStep, Calling, Reconciling
  <2>5. active' \in [Party -> SUBSET Lease] /\ \A p \in Party : IsFiniteSet(active'[p])
    BY <2>1, <2>2, <2>3
  <2>6. leases' \subseteq Lease /\ IsFiniteSet(leases') /\ \A r, o \in leases' : r.id = o.id => r = o
    BY <2>1, <2>2, <2>3
  <2> QED BY <1>3, <2>4, <2>5, <2>6 DEF Grow
<1>4. CASE Shrink(j)
  <2> PICK lease \in extra[j] : leases' = Without(lease.id) /\ extra' = [extra EXCEPT ![j] = @ \ {lease}]
                                /\ PoolGo(j, IF extra[j] = {lease} THEN "relist" ELSE "shrink")
    BY <1>4 DEF Shrink
  <2>1. leases' \subseteq Lease /\ IsFiniteSet(leases') /\ \A r, o \in leases' : r.id = o.id => r = o
    BY WithoutTypes
  <2>2. extra' \in [Party -> SUBSET Lease] /\ \A p \in Party : IsFiniteSet(extra'[p])
    BY FS_RemoveElement
  <2>3. gpu' \in [Party -> PoolStep]
    BY DEF PoolStep, Calling, Reconciling
  <2> QED BY <1>4, <2>1, <2>2, <2>3 DEF Shrink
<1>5. CASE Relist(j)
  BY <1>1, <1>5 DEF Relist, PoolStep, Calling, Reconciling
<1>6. CASE WriteBack(j)
  <2>1. CASE Return(j) /\ UNCHANGED leases
    BY <1>6, <2>1, ReturnTypes DEF WriteBack
  <2>2. CASE \E lease \in active[j] : /\ leases' = Upserted(lease)
                                      /\ active' = [active EXCEPT ![j] = @ \ {lease}]
                                      /\ UNCHANGED <<gpu, caller, depth, extra, mine, again>>
    <3> PICK lease \in active[j] : /\ leases' = Upserted(lease)
                                   /\ active' = [active EXCEPT ![j] = @ \ {lease}]
                                   /\ UNCHANGED <<gpu, caller, depth, extra, mine, again>>
      BY <2>2
    <3>1. leases' \subseteq Lease /\ IsFiniteSet(leases') /\ \A r, o \in leases' : r.id = o.id => r = o
      BY UpsertedTypes
    <3>2. active' \in [Party -> SUBSET Lease] /\ \A p \in Party : IsFiniteSet(active'[p])
      BY FS_RemoveElement
    <3> QED BY <1>6, <3>1, <3>2 DEF WriteBack
  <2> QED BY <1>6, <2>1, <2>2 DEF WriteBack
<1> QED BY <1>2, <1>3, <1>4, <1>5, <1>6 DEF Reconcile

\* So do the calls around it ...
LEMMA CallingTypes ==
    ASSUME PoolTypeInv, NEW j \in Party,
           ReadDepth(j) \/ Pick(j) \/ Take(j) \/ Restore(j) \/ Find(j) \/ Free(j)
    PROVE  Typed'
<1> USE DEF PoolTypeInv, Typed, PoolTypeOK, ListsFinite
<1>1. CASE ReadDepth(j)
  <2>1. \A n \in OthersQueued : n + Cardinality({k \in Job : InPool(k, "queued")}) \in Nat
    <3>1. IsFiniteSet({k \in Job : InPool(k, "queued")})
      BY JobsAssumption, FS_Subset
    <3>2. Cardinality({k \in Job : InPool(k, "queued")}) \in Nat
      BY <3>1, FS_CardinalityType
    <3> QED BY <3>2, PoolAssumption
  <2>2. depth' \in [Party -> Nat]
    BY <1>1, <2>1 DEF ReadDepth
  <2> QED BY <1>1, <2>2 DEF ReadDepth, PoolStep, Calling, Reconciling
<1>2. CASE Pick(j)
  <2>1. [id |-> NewId, busy |-> FALSE, warm |-> FALSE, job |-> NoJob] \in Lease
    BY NewIdIsNew DEF Lease
  <2>2. mine' \in [Party -> Lease]
    <3>1. \E lease \in Lease : mine' = [mine EXCEPT ![j] = lease]
      BY <1>2, <2>1 DEF Pick, IdleLeases
    <3> QED BY <3>1
  <2> QED BY <1>2, <2>2 DEF Pick, PoolStep, Calling
<1>3. CASE Take(j)
  <2> DEFINE taken == [mine[j] EXCEPT !.busy = TRUE, !.job = j]
  <2>1. j \in Job => taken \in Lease
    BY DEF Lease
  <2>2. j \in Job
    BY <1>3 DEF Take, Control, Party, Reconciling
  <2>3. leases' \subseteq Lease /\ IsFiniteSet(leases') /\ \A r, o \in leases' : r.id = o.id => r = o
    BY <1>3, <2>1, <2>2, UpsertedTypes DEF Take
  <2> QED BY <1>3, <2>3 DEF Take, PoolStep, Calling, Reconciling, Caller
<1>4. CASE Restore(j)
  <2>1. leases' \subseteq Lease /\ IsFiniteSet(leases') /\ \A r, o \in leases' : r.id = o.id => r = o
    BY <1>4, UpsertedTypes, WithoutTypes DEF Restore
  <2> QED BY <1>4, <2>1, LeaveTypes DEF Restore, PoolStep
<1>5. CASE Find(j)
  <2>1. NoLease \in Lease
    BY DEF NoLease, Lease
  <2>2. mine' \in [Party -> Lease]
    BY <1>5, <2>1 DEF Find
  <2> QED BY <1>5, <2>2 DEF Find, PoolStep, Calling, Reconciling, Caller
<1>6. CASE Free(j)
  <2>1. [mine[j] EXCEPT !.busy = FALSE, !.job = NoJob] \in Lease
    BY DEF Lease
  <2>2. leases' \subseteq Lease /\ IsFiniteSet(leases') /\ \A r, o \in leases' : r.id = o.id => r = o
    BY <1>6, <2>1, UpsertedTypes, WithoutTypes DEF Free
  <2> QED BY <1>6, <2>2 DEF Free, PoolStep, Calling, Reconciling
<1> QED BY <1>1, <1>2, <1>3, <1>4, <1>5, <1>6

\* ... and an exception.
LEMMA RaiseTypes == ASSUME PoolTypeInv, NEW j \in Party, PoolRaise(j) PROVE Typed'
<1> USE DEF PoolTypeInv, Typed, PoolTypeOK, ListsFinite
<1>1. UNCHANGED <<leases, overlaps>> /\ poolFaults' \in Nat
  BY DEF PoolRaise
<1>2. ASSUME gpu[j] \in {"restore", "find", "free"} \/ (gpu[j] \in Reconciling /\ caller[j] = "release")
      PROVE  j \in Job
  BY <1>2 DEF Control, Party, Reconciling
<1>3. CASE RaiseEarly(j)
  BY <1>1, <1>3, LeaveTypes DEF RaiseEarly, PoolStep
<1>4. CASE RaiseLate(j)
  BY <1>1, <1>4 DEF RaiseLate, PoolStep, Calling
<1>5. CASE RaiseReleasing(j)
  <2>1. j \in Job
    BY <1>2, <1>5 DEF RaiseReleasing
  <2>2. CASE again[j]
    BY <1>1, <1>5, <2>1, <2>2, LeaveTypes DEF RaiseReleasing, PoolStep
  <2>3. CASE ~again[j]
    <3>1. NoLease \in Lease
      BY DEF NoLease, Lease
    <3>2. /\ gpu' = [gpu EXCEPT ![j] = "find"] /\ again' = [again EXCEPT ![j] = TRUE]
          /\ active' = [active EXCEPT ![j] = {}] /\ extra' = [extra EXCEPT ![j] = {}]
          /\ mine' = [mine EXCEPT ![j] = NoLease] /\ UNCHANGED <<caller, depth, astray>>
      BY <1>5, <2>3, Zenon DEF RaiseReleasing
    <3>3. gpu' \in [Party -> PoolStep] /\ again' \in [Party -> BOOLEAN]
      BY <3>2 DEF PoolStep, Calling
    <3>4. \A p \in Party : IsFiniteSet(active'[p]) /\ IsFiniteSet(extra'[p])
      BY <3>2, FS_EmptySet
    <3> QED BY <1>1, <3>1, <3>2, <3>3, <3>4
  <2> QED BY <2>2, <2>3
<1>6. CASE RaiseRestoring(j)
  BY <1>1, <1>2, <1>6, LeaveTypes DEF RaiseRestoring, PoolStep
<1> QED BY <1>3, <1>4, <1>5, <1>6 DEF PoolRaise

\* What a call begins with.
LEMMA BeginTypes ==
    ASSUME PoolTypeInv, NEW j \in Party, NEW s \in PoolStep, Begin(j, s)
    PROVE  gpu' \in [Party -> PoolStep] /\ overlaps' \in Nat
BY DEF Begin, PoolTypeInv, Typed, PoolTypeOK

\* Every step keeps the types ...
LEMMA TypedStep == ASSUME PoolTypeInv, [PoolNext]_poolVars PROVE Typed'
<1> USE DEF Typed, PoolTypeOK, ListsFinite
<1>1. ASSUME NEW j \in Job, Enqueue(j) PROVE Typed'
  BY <1>1 DEF Enqueue, PoolTypeInv, PoolStep
<1>2. ASSUME NEW j \in Job, StartJob(j) PROVE Typed'
  BY <1>2, BeginTypes DEF StartJob, PoolTypeInv, PoolStep, Calling, Party
<1>3. ASSUME NEW j \in Job, EndJob(j) PROVE Typed'
  BY <1>3, BeginTypes DEF EndJob, PoolTypeInv, PoolStep, Calling, Party
<1>4. ASSUME NEW s \in Scheduler, Tick(s) PROVE Typed'
  <2>1. gpu' \in [Party -> PoolStep] /\ overlaps' \in Nat
    BY <1>4, BeginTypes DEF Tick, PoolStep, Calling, Reconciling, Party
  <2> QED BY <1>4, <2>1, PoolAssumption DEF Tick, PoolTypeInv, Caller
<1>5. ASSUME NEW j \in Party, PoolCall(j) PROVE Typed'
  BY <1>5, ReconcileTypes, CallingTypes, RaiseTypes DEF PoolCall
<1>6. CASE UNCHANGED poolVars
  BY <1>6 DEF poolVars, PoolTypeInv
<1> QED BY <1>1, <1>2, <1>3, <1>4, <1>5, <1>6 DEF PoolNext

\* ... and who calls what.
LEMMA ControlStep == ASSUME PoolTypeInv, [PoolNext]_poolVars PROVE Control'
<1> USE DEF PoolTypeInv, Typed, PoolTypeOK, Control
<1>1. ASSUME NEW j \in Job, Enqueue(j) \/ StartJob(j) \/ EndJob(j) PROVE Control'
  BY <1>1, PoolAssumption DEF Enqueue, StartJob, EndJob, Begin, Party, Reconciling
<1>2. ASSUME NEW s \in Scheduler, Tick(s) PROVE Control'
  BY <1>2, PoolAssumption DEF Tick, Begin, Party, Reconciling
<1>3. ASSUME NEW j \in Party, NEW s, s \in {"over"}, Leave(j, s) PROVE Control'
  BY <1>3, PoolAssumption DEF Leave, Party, Reconciling
<1>4. ASSUME NEW j \in Party, Reconcile(j) PROVE Control'
  <2>1. gpu[j] \in Reconciling
    BY <1>4 DEF Reconcile, ListWarm, Grow, Shrink, Relist, WriteBack, Reconciling
  <2>2. ASSUME NEW s \in Reconciling, PoolGo(j, s), UNCHANGED <<caller, mine>> PROVE Control'
    BY <2>1, <2>2, PoolAssumption DEF Party, Reconciling
  <2>3. CASE ListWarm(j) \/ Grow(j) \/ Shrink(j) \/ Relist(j)
    BY <2>2, <2>3 DEF ListWarm, Grow, Shrink, Relist, Reconciling
  <2>4. CASE WriteBack(j) /\ UNCHANGED <<gpu, caller, mine>>
    BY <2>4, PoolAssumption DEF Party
  <2>5. CASE Return(j)
    <3>1. CASE Leave(j, "over")
      BY <1>3, <3>1
    <3>2. CASE ~Leave(j, "over")
      BY <2>1, <2>5, <3>2, PoolAssumption DEF Return, Party, Reconciling
    <3> QED BY <3>1, <3>2
  <2> QED BY <1>4, <2>3, <2>4, <2>5 DEF Reconcile, WriteBack
<1>5. ASSUME NEW j \in Party, ReadDepth(j) \/ Pick(j) \/ Take(j) \/ Find(j) \/ Free(j) PROVE Control'
  <2>1. j \in Job
    BY <1>5 DEF ReadDepth, Pick, Take, Find, Free, Party, Reconciling
  <2> QED BY <1>5, <2>1, PoolAssumption DEF ReadDepth, Pick, Take, Find, Free, Party, Reconciling
<1>6. ASSUME NEW j \in Party, Restore(j) PROVE Control'
  BY <1>3, <1>6 DEF Restore
<1>7. ASSUME NEW j \in Party, PoolRaise(j) PROVE Control'
  <2>1. CASE Leave(j, "over")
    BY <1>3, <2>1
  <2>2. CASE RaiseLate(j)
    BY <2>2, PoolAssumption DEF RaiseLate, Party, Reconciling
  <2>3. CASE RaiseReleasing(j) /\ ~again[j]
    BY <2>3, PoolAssumption DEF RaiseReleasing, Party, Reconciling
  <2> QED BY <1>7, <2>1, <2>2, <2>3 DEF PoolRaise, RaiseEarly, RaiseReleasing, RaiseRestoring
<1>8. CASE UNCHANGED poolVars
  BY <1>8 DEF poolVars
<1>9. ASSUME NEW j \in Party, PoolCall(j) PROVE Control'
  BY <1>4, <1>5, <1>6, <1>7, <1>9 DEF PoolCall
<1> QED BY <1>1, <1>2, <1>8, <1>9 DEF PoolNext

\* The rows and the locals of the pool keep their types, and no two rows have a worker id in
\* common, however the calls overlap and fail: the upserts of runtime_ops.py and the lists they
\* work on.
THEOREM PoolTypeCorrect == PoolSpec => []PoolTypeOK
<1>1. PoolInit => PoolTypeInv
  BY PoolTypeInit
<1>2. PoolTypeInv /\ [PoolNext]_poolVars => PoolTypeInv'
  BY TypedStep, ControlStep DEF PoolTypeInv
<1>3. PoolTypeInv => PoolTypeOK
  BY DEF PoolTypeInv, Typed
<1> QED BY <1>1, <1>2, <1>3, PTL DEF PoolSpec

\* The types come with the finiteness of the lists and the control flow.
LEMMA PoolTypeInvariant == PoolSpec => []PoolTypeInv
<1>1. PoolInit => PoolTypeInv
  BY PoolTypeInit
<1>2. PoolTypeInv /\ [PoolNext]_poolVars => PoolTypeInv'
  BY TypedStep, ControlStep DEF PoolTypeInv
<1> QED BY <1>1, <1>2, PTL DEF PoolSpec

-----------------------------------------------------------------------------
(* The rows, however the calls overlap.                                    *)

\* What the upserts of allocate_gpu and release_gpu write.
Taken(j) == [mine[j] EXCEPT !.busy = TRUE, !.job = j]
Freed(j) == [mine[j] EXCEPT !.busy = FALSE, !.job = NoJob]

\* An instance nobody has heard of.
NewlyMade(row) ==
    /\ row.id \in Nat \ {0} /\ ~row.busy /\ row.job = NoJob
    /\ \A other : Known(other) => other.id # row.id

\* The row a step brings into the table or into a copy, if it does.
Brought(new) ==
    \/ new = NoLease
    \/ NewlyMade(new)
    \/ \E j \in Job : Take(j) /\ new = Taken(j)
    \/ \E j \in Job : Free(j) /\ mine[j].warm /\ new = Freed(j)

OnlyNew(new) == \A row : Known(row)' => Known(row) \/ row = new \/ row = NoLease

\* The end of a call brings no row.
LEMMA LeaveBrings ==
    ASSUME PoolTypeInv, NEW j \in Party, NEW s, Leave(j, s), NEW new,
           leases' \subseteq leases \cup {mine[j], new}
    PROVE  OnlyNew(new)
BY DEF Leave, OnlyNew, Known, PoolTypeInv, Typed, PoolTypeOK

\* A call of reconcile_gpu_pool brings new instances only.
LEMMA ReconcileBrings ==
    ASSUME PoolTypeInv, NEW j \in Party, Reconcile(j)
    PROVE  \E new : OnlyNew(new) /\ (new = NoLease \/ NewlyMade(new))
<1> USE DEF PoolTypeInv, Typed, PoolTypeOK
<1>1. CASE ListWarm(j)
  <2>1. \A p \in Party : /\ active'[p] \subseteq active[p] \cup leases
                         /\ extra'[p] \subseteq extra[p] \cup leases
    BY <1>1 DEF ListWarm, WarmLeases
  <2>2. UNCHANGED <<leases, mine>>
    BY <1>1 DEF ListWarm
  <2> QED BY <2>1, <2>2 DEF OnlyNew, Known
<1>2. CASE Grow(j)
  <2> DEFINE new == [id |-> NewId, busy |-> FALSE, warm |-> TRUE, job |-> NoJob]
  <2>1. NewlyMade(new)
    BY NewIdIsNew DEF NewlyMade
  <2>2. /\ leases' = leases \cup {new} /\ active' = [active EXCEPT ![j] = @ \cup {new}]
        /\ UNCHANGED <<extra, mine>>
    BY <1>2 DEF Grow
  <2> HIDE DEF new
  <2>3. OnlyNew(new)
    BY <2>2 DEF OnlyNew, Known
  <2> QED BY <2>1, <2>3
<1>3. CASE Shrink(j)
  <2>1. leases' \subseteq leases /\ \A p \in Party : extra'[p] \subseteq extra[p]
    BY <1>3 DEF Shrink, Without
  <2>2. UNCHANGED <<active, mine>>
    BY <1>3 DEF Shrink
  <2> QED BY <2>1, <2>2 DEF OnlyNew, Known
<1>4. CASE Relist(j)
  BY <1>4 DEF Relist, WarmLeases, OnlyNew, Known
<1>5. CASE WriteBack(j)
  <2>1. CASE Leave(j, "over") /\ UNCHANGED leases
    BY <2>1, LeaveBrings
  <2>2. CASE /\ UNCHANGED <<leases, extra, mine>>
             /\ active' = [active EXCEPT ![j] = {}] \/ UNCHANGED active
    BY <2>2 DEF OnlyNew, Known
  <2>3. CASE \E lease \in active[j] : /\ leases' = Upserted(lease)
                                      /\ active' = [active EXCEPT ![j] = @ \ {lease}]
                                      /\ UNCHANGED <<gpu, caller, depth, extra, mine, again>>
    BY <2>3 DEF OnlyNew, Known, Upserted, Without
  <2> QED BY <1>5, <2>1, <2>2, <2>3 DEF WriteBack, Return
<1> QED BY <1>1, <1>2, <1>3, <1>4, <1>5 DEF Reconcile

\* What any step brings.
LEMMA KnownStep ==
    ASSUME PoolTypeInv, [PoolNext]_poolVars
    PROVE  \E new : OnlyNew(new) /\ Brought(new)
<1> USE DEF PoolTypeInv, Typed, PoolTypeOK
<1>1. CASE UNCHANGED <<leases, active, extra, mine>>
  BY <1>1 DEF OnlyNew, Known, Brought
<1>2. ASSUME NEW j \in Party, Pick(j) PROVE \E new : OnlyNew(new) /\ Brought(new)
  <2> DEFINE cold == [id |-> NewId, busy |-> FALSE, warm |-> FALSE, job |-> NoJob]
  <2>1. NewlyMade(cold)
    BY NewIdIsNew DEF NewlyMade
  <2>2. /\ mine' \in {[mine EXCEPT ![j] = lease] : lease \in leases \cup {cold}}
        /\ UNCHANGED <<leases, active, extra>>
    BY <1>2 DEF Pick, IdleLeases
  <2> HIDE DEF cold
  <2>3. OnlyNew(cold)
    BY <2>2 DEF OnlyNew, Known
  <2> QED BY <2>1, <2>3 DEF Brought
<1>3. ASSUME NEW j \in Party, Take(j) PROVE \E new : OnlyNew(new) /\ Brought(new)
  <2>1. j \in Job
    BY <1>3 DEF Take, Control, Party, Reconciling
  <2>2. leases' \subseteq leases \cup {Taken(j)} /\ UNCHANGED <<active, extra, mine>>
    BY <1>3 DEF Take, Upserted, Without, Taken
  <2>3. OnlyNew(Taken(j))
    BY <2>2 DEF OnlyNew, Known
  <2> QED BY <1>3, <2>1, <2>3 DEF Brought
<1>4. ASSUME NEW j \in Party, Restore(j) PROVE \E new : OnlyNew(new) /\ Brought(new)
  <2>1. leases' \subseteq leases \cup {mine[j], NoLease}
    BY <1>4 DEF Restore, Upserted, Without
  <2>2. OnlyNew(NoLease)
    BY <1>4, <2>1, LeaveBrings DEF Restore
  <2> QED BY <2>2 DEF Brought
<1>5. ASSUME NEW j \in Party, Find(j) PROVE \E new : OnlyNew(new) /\ Brought(new)
  <2>1. /\ mine' \in {[mine EXCEPT ![j] = lease] : lease \in leases \cup {NoLease}}
        /\ UNCHANGED <<leases, active, extra>>
    BY <1>5 DEF Find
  <2> QED BY <2>1 DEF OnlyNew, Known, Brought
<1>6. ASSUME NEW j \in Party, Free(j) PROVE \E new : OnlyNew(new) /\ Brought(new)
  <2>1. j \in Job
    BY <1>6 DEF Free, Control, Party, Reconciling
  <2>2. UNCHANGED <<active, extra, mine>>
    BY <1>6 DEF Free
  <2>3. CASE mine[j].warm
    <3>1. leases' \subseteq leases \cup {Freed(j)}
      BY <1>6, <2>3 DEF Free, Upserted, Without, Freed
    <3>2. OnlyNew(Freed(j))
      BY <2>2, <3>1 DEF OnlyNew, Known
    <3> QED BY <1>6, <2>1, <2>3, <3>2 DEF Brought
  <2>4. CASE ~mine[j].warm
    <3>1. leases' \subseteq leases
      BY <1>6, <2>4 DEF Free, Without
    <3>2. OnlyNew(NoLease)
      BY <2>2, <3>1 DEF OnlyNew, Known
    <3> QED BY <3>2 DEF Brought
  <2> QED BY <2>3, <2>4
<1>7. ASSUME NEW j \in Party, PoolRaise(j) PROVE \E new : OnlyNew(new) /\ Brought(new)
  <2>1. UNCHANGED leases
    BY <1>7 DEF PoolRaise
  <2>2. CASE Leave(j, "over")
    <3>1. OnlyNew(NoLease)
      BY <2>1, <2>2, LeaveBrings
    <3> QED BY <3>1 DEF Brought
  <2>3. CASE RaiseLate(j)
    BY <1>1, <2>1, <2>3 DEF RaiseLate
  <2>4. CASE RaiseReleasing(j) /\ ~again[j]
    <3>1. /\ active' = [active EXCEPT ![j] = {}] /\ extra' = [extra EXCEPT ![j] = {}]
          /\ mine' = [mine EXCEPT ![j] = NoLease]
      BY <2>4, Zenon DEF RaiseReleasing
    <3>2. OnlyNew(NoLease)
      BY <2>1, <3>1 DEF OnlyNew, Known
    <3> QED BY <3>2 DEF Brought
  <2> QED BY <1>7, <2>2, <2>3, <2>4 DEF PoolRaise, RaiseEarly, RaiseReleasing, RaiseRestoring
<1>8. ASSUME NEW j \in Party, PoolCall(j) PROVE \E new : OnlyNew(new) /\ Brought(new)
  <2>1. CASE Reconcile(j)
    BY <2>1, ReconcileBrings DEF Brought
  <2>2. CASE ReadDepth(j)
    BY <1>1, <2>2 DEF ReadDepth
  <2> QED BY <1>2, <1>3, <1>4, <1>5, <1>6, <1>7, <1>8, <2>1, <2>2 DEF PoolCall
<1>9. ASSUME NEW j \in Party, Enqueue(j) \/ StartJob(j) \/ EndJob(j) \/ Tick(j)
      PROVE  \E new : OnlyNew(new) /\ Brought(new)
  BY <1>1, <1>9 DEF Enqueue, StartJob, EndJob, Tick
<1> QED BY <1>1, <1>8, <1>9 DEF PoolNext, Party, poolVars

\* Between the pick and the end of its run a job has chosen a lease.
HasPicked(j) ==
    \/ gpu[j] \in {"take", "restore", "run"}
    \/ gpu[j] \in Reconciling /\ caller[j] = "after"

\* No row names a job before its upsert.
Unserved(j) ==
    \/ gpu[j] \in {"absent", "queued", "depth", "pick", "take"}
    \/ gpu[j] \in Reconciling /\ caller[j] = "before"

\* A row is busy exactly when it names a job.
RowsMatch == \A row : Known(row) => (row.busy <=> row.job \in Job) /\ (row.id = 0 => row = NoLease)

\* An id is that of a warm or of a cold instance for ever.
WarmthKept == \A row, other : Known(row) /\ Known(other) /\ row.id = other.id => row.warm = other.warm

\* A job takes one lease: all the rows that name it are that lease ...
NamedAlike ==
    \A row, other :
       Known(row) /\ Known(other) /\ row.job = other.job /\ row.job \in Job => row.id = other.id

\* ... which it has taken, and which is the one it works on.
NamedTaken ==
    \A j \in Job : \A row : Known(row) /\ row.job = j => ~Unserved(j) /\ mine[j].id \in {0, row.id}

\* Reconciliations see warm leases.
ListsWarm == \A p \in Party : \A row \in active[p] \cup extra[p] : row.warm

\* A job chooses an idle lease, and frees one that names it.
MineRight ==
    \A j \in Job : /\ mine[j].job \in {NoJob, j}
                   /\ HasPicked(j) => mine[j].id # 0 /\ mine[j].job = NoJob
                   /\ gpu[j] = "free" => mine[j].id # 0 /\ mine[j].job = j

RowInv == RowsMatch /\ WarmthKept /\ NamedAlike /\ NamedTaken /\ ListsWarm /\ MineRight

\* The rows begin so, for want of any.
LEMMA RowInit == ASSUME PoolInit PROVE RowInv
<1>1. \A row : Known(row) => row = NoLease
  BY DEF PoolInit, Known
<1>2. RowsMatch /\ WarmthKept /\ NamedAlike /\ NamedTaken
  <2>1. ~NoLease.busy /\ NoLease.job = NoJob /\ NoJob \notin Job
    BY PoolAssumption DEF NoLease
  <2> QED BY <1>1, <2>1 DEF RowsMatch, WarmthKept, NamedAlike, NamedTaken
<1>3. ListsWarm /\ MineRight
  BY DEF PoolInit, ListsWarm, MineRight, NoLease, HasPicked, Party, Reconciling
<1> QED BY <1>2, <1>3 DEF RowInv

\* The rows of a step, by what it brings.
LEMMA RowsMatchStep ==
    ASSUME PoolTypeInv, RowInv, [PoolNext]_poolVars
    PROVE  RowsMatch' /\ WarmthKept'
<1>1. PICK new : OnlyNew(new) /\ Brought(new)
  BY KnownStep
<1>2. NoLease.id = 0 /\ ~NoLease.busy /\ ~NoLease.warm /\ NoLease.job \notin Job
  BY PoolAssumption DEF NoLease
<1>3. ASSUME NEW j \in Job
      PROVE  /\ Taken(j).id = mine[j].id /\ Taken(j).warm = mine[j].warm /\ Taken(j).busy /\ Taken(j).job = j
             /\ Freed(j).id = mine[j].id /\ Freed(j).warm = mine[j].warm /\ ~Freed(j).busy /\ Freed(j).job = NoJob
             /\ Known(mine[j])
  BY DEF Taken, Freed, Known, PoolTypeInv, Typed, PoolTypeOK, Lease, Party
<1>4. ASSUME NEW j \in Job, Take(j) \/ Free(j)
      PROVE  mine[j].id # 0
  BY <1>4 DEF Take, Free, RowInv, MineRight, HasPicked
<1>5. (new.busy <=> new.job \in Job) /\ (new.id = 0 => new = NoLease)
  BY <1>2, <1>3, <1>4, <1>1, PoolAssumption DEF Brought, NewlyMade
<1>6. RowsMatch'
  BY <1>1, <1>2, <1>5 DEF RowsMatch, RowInv, OnlyNew
<1>7. ASSUME NEW row, Known(row), row.id = new.id PROVE row.warm = new.warm
  BY <1>1, <1>2, <1>3, <1>4, <1>7 DEF Brought, NewlyMade, RowInv, WarmthKept, RowsMatch
<1>8. ASSUME NEW row, Known(row) \/ row = new, row.id = 0 PROVE row = NoLease
  BY <1>5, <1>8 DEF RowInv, RowsMatch
<1>9. WarmthKept'
  BY <1>1, <1>2, <1>7, <1>8 DEF WarmthKept, RowInv, OnlyNew
<1> QED BY <1>6, <1>9

\* All the rows that name a job stay one lease: what a step brings is new, or the job's own.
LEMMA NamedAlikeStep == ASSUME PoolTypeInv, RowInv, [PoolNext]_poolVars PROVE NamedAlike'
<1>1. PICK new : OnlyNew(new) /\ Brought(new)
  BY KnownStep
<1>2. NoLease.job \notin Job
  BY PoolAssumption DEF NoLease
<1>3. CASE new.job \notin Job
  BY <1>1, <1>2, <1>3 DEF NamedAlike, RowInv, OnlyNew
<1>4. CASE new.job \in Job
  <2>1. PICK j \in Job : Take(j) /\ new = Taken(j)
    BY <1>1, <1>2, <1>4, PoolAssumption
       DEF Brought, NewlyMade, Freed, PoolTypeInv, Typed, PoolTypeOK, Lease, Party
  <2>2. new.job = j
    BY <2>1 DEF Taken, PoolTypeInv, Typed, PoolTypeOK, Lease, Party
  <2>3. \A row : Known(row) => row.job # j
    BY <2>1 DEF RowInv, NamedTaken, Unserved, Take
  <2> QED BY <1>1, <1>2, <2>2, <2>3 DEF NamedAlike, RowInv, OnlyNew
<1> QED BY <1>3, <1>4

\* A party's step; it leaves the locals of the others alone.
Step(j) ==
    \/ j \in Job /\ (Enqueue(j) \/ StartJob(j) \/ EndJob(j))
    \/ j \in Scheduler /\ Tick(j)
    \/ PoolCall(j)

\* Every step of the pool is a party's.
LEMMA StepOf == ASSUME PoolNext PROVE \E j \in Party : Step(j)
BY DEF PoolNext, Step, Party

\* Such a step leaves the locals of the others as they are.
LEMMA OthersStay ==
    ASSUME PoolTypeInv, NEW j \in Party, Step(j), NEW p \in Party, p # j
    PROVE  /\ gpu'[p] = gpu[p] /\ caller'[p] = caller[p] /\ depth'[p] = depth[p]
           /\ active'[p] = active[p] /\ extra'[p] = extra[p] /\ mine'[p] = mine[p]
<1> USE DEF PoolTypeInv, Typed, PoolTypeOK
<1>1. CASE Enqueue(j) \/ StartJob(j) \/ EndJob(j) \/ Tick(j)
  BY <1>1 DEF Enqueue, StartJob, EndJob, Tick, Begin
<1>2. ASSUME Leave(j, "over")
      PROVE  /\ gpu'[p] = gpu[p] /\ caller'[p] = caller[p] /\ depth'[p] = depth[p]
             /\ active'[p] = active[p] /\ extra'[p] = extra[p] /\ mine'[p] = mine[p]
  BY <1>2 DEF Leave
<1>3. CASE ListWarm(j) \/ Grow(j) \/ Shrink(j) \/ Relist(j)
  BY <1>3 DEF ListWarm, Grow, Shrink, Relist
<1>4. CASE WriteBack(j)
  BY <1>2, <1>4 DEF WriteBack, Return
<1>5. CASE ReadDepth(j) \/ Pick(j) \/ Take(j) \/ Find(j) \/ Free(j)
  <2>1. CASE ReadDepth(j) \/ Take(j) \/ Free(j)
    BY <2>1 DEF ReadDepth, Take, Free
  <2>2. CASE Pick(j)
    BY <2>2 DEF Pick
  <2>3. CASE Find(j)
    BY <2>3 DEF Find
  <2> QED BY <1>5, <2>1, <2>2, <2>3
<1>6. CASE PoolRaise(j) \/ Restore(j)
  <2>1. CASE RaiseLate(j)
    BY <2>1 DEF RaiseLate
  <2>2. CASE RaiseReleasing(j) /\ ~again[j]
    BY <2>2 DEF RaiseReleasing
  <2> QED BY <1>2, <1>6, <2>1, <2>2
          DEF PoolRaise, Restore, RaiseEarly, RaiseReleasing, RaiseRestoring
<1> QED BY <1>1, <1>3, <1>4, <1>5, <1>6 DEF Step, PoolCall, Reconcile

\* The end of a call, as its caller sees it.
LEMMA LeaveDoes ==
    ASSUME PoolTypeInv, NEW j \in Party, Leave(j, "over")
    PROVE  /\ gpu'[j] = "over" /\ mine'[j] = NoLease /\ depth'[j] = 0
           /\ active'[j] = {} /\ extra'[j] = {}
BY DEF Leave, PoolTypeInv, Typed, PoolTypeOK

\* An exception, as its caller sees it.
LEMMA RaiseDoes ==
    ASSUME PoolTypeInv, NEW j \in Party, PoolRaise(j)
    PROVE  /\ UNCHANGED <<leases, overlaps>> /\ poolFaults' = poolFaults + 1
           /\ \/ /\ gpu[j] \in {"depth", "pick"} \/ (gpu[j] \in Reconciling /\ caller[j] \in {"before", "tick"})
                 /\ Leave(j, "over") /\ UNCHANGED astray
              \/ /\ gpu[j] = "take" \/ (gpu[j] \in Reconciling /\ caller[j] = "after")
                 /\ gpu'[j] = "restore" /\ UNCHANGED <<caller, depth, active, extra, mine, astray>>
              \/ /\ j \in Job
                 /\ gpu[j] \in {"find", "free"} \/ (gpu[j] \in Reconciling /\ caller[j] = "release")
                 /\ gpu'[j] = "find" /\ mine'[j] = NoLease /\ active'[j] = {} /\ extra'[j] = {}
                 /\ UNCHANGED <<caller, depth, astray>>
              \/ /\ gpu[j] \in {"find", "free", "restore"} \/ (gpu[j] \in Reconciling /\ caller[j] = "release")
                 /\ Leave(j, "over") /\ astray' = astray \cup {j}
<1> USE DEF PoolTypeInv, Typed, PoolTypeOK
<1>1. CASE RaiseEarly(j)
  BY <1>1 DEF PoolRaise, RaiseEarly
<1>2. CASE RaiseLate(j)
  BY <1>2 DEF PoolRaise, RaiseLate
<1>3. CASE RaiseReleasing(j) /\ again[j]
  BY <1>3 DEF PoolRaise, RaiseReleasing
<1>4. CASE RaiseReleasing(j) /\ ~again[j]
  <2>1. j \in Job
    BY <1>4 DEF RaiseReleasing, Control, Party, Reconciling
  <2> QED BY <1>4, <2>1 DEF PoolRaise, RaiseReleasing
<1>5. CASE RaiseRestoring(j)
  BY <1>5 DEF PoolRaise, RaiseRestoring
<1> QED BY <1>1, <1>2, <1>3, <1>4, <1>5 DEF PoolRaise

\* A call of reconcile_gpu_pool goes on, or ends where its caller goes on.
LEMMA ReconcileDoes ==
    ASSUME PoolTypeInv, NEW j \in Party, Reconcile(j)
    PROVE  /\ gpu[j] \in Reconciling
           /\ UNCHANGED poolEnv
           /\ \/ gpu'[j] \in Reconciling /\ UNCHANGED <<caller, depth, mine>>
              \/ /\ gpu[j] = "write" /\ UNCHANGED leases
                 /\ \/ /\ caller[j] = "before" /\ gpu'[j] = "pick" /\ active'[j] = {}
                       /\ UNCHANGED <<caller, depth, extra, mine>>
                    \/ /\ caller[j] = "after" /\ gpu'[j] = "run" /\ caller'[j] = "before"
                       /\ depth'[j] = 0 /\ UNCHANGED <<active, extra, mine>>
                    \/ caller[j] = "release" /\ Leave(j, "over")
                    \/ /\ caller[j] = "tick" /\ gpu'[j] = "over"
                       /\ UNCHANGED <<caller, depth, active, extra, mine>>
<1> USE DEF PoolTypeInv, Typed, PoolTypeOK
<1>1. CASE ListWarm(j) \/ Grow(j) \/ Shrink(j) \/ Relist(j)
  BY <1>1 DEF ListWarm, Grow, Shrink, Relist, Reconciling
<1>2. CASE WriteBack(j)
  <2>1. CASE Return(j) /\ UNCHANGED leases
    BY <1>2, <2>1 DEF WriteBack, Return, Reconciling
  <2>2. CASE UNCHANGED <<gpu, caller, depth, extra, mine, again>>
    BY <1>2, <2>2 DEF WriteBack, Reconciling
  <2> QED BY <1>2, <2>1, <2>2 DEF WriteBack
<1> QED BY <1>1, <1>2 DEF Reconcile

\* A job with a lease keeps it in sight until its release.
LEMMA ServedStays ==
    ASSUME PoolTypeInv, [PoolNext]_poolVars, NEW k \in Job, ~Unserved(k)
    PROVE  /\ ~Unserved(k)'
           /\ mine'[k] \in {mine[k], NoLease} \cup {lease \in leases : lease.job = k}
<1> k \in Party
  BY DEF Party
<1> USE DEF PoolTypeInv, Typed, PoolTypeOK
<1>1. CASE UNCHANGED poolVars
  BY <1>1 DEF poolVars, Unserved
<1>2. ASSUME NEW j \in Party, Step(j), j # k
      PROVE  gpu'[k] = gpu[k] /\ caller'[k] = caller[k] /\ mine'[k] = mine[k]
  BY <1>2, OthersStay
<1>3. CASE Step(k)
  <2>1. k \notin Scheduler
    BY PoolAssumption
  <2>2. CASE Reconcile(k)
    BY <2>2, ReconcileDoes, LeaveDoes DEF Unserved, Reconciling
  <2>3. CASE PoolRaise(k)
    BY <2>3, RaiseDoes, LeaveDoes DEF Unserved, Reconciling, Control
  <2>4. CASE Find(k)
    BY <2>4 DEF Find, Unserved, Reconciling
  <2>5. CASE Restore(k)
    BY <2>5, LeaveDoes DEF Restore, Unserved, Reconciling
  <2>6. CASE Free(k)
    BY <2>6 DEF Free, Unserved, Reconciling, Control
  <2>7. CASE ReadDepth(k) \/ Pick(k) \/ Take(k) \/ Enqueue(k) \/ StartJob(k)
    BY <2>7 DEF ReadDepth, Pick, Take, Enqueue, StartJob, Unserved
  <2>8. CASE EndJob(k)
    BY <2>8 DEF EndJob, Begin, Unserved, Reconciling
  <2> QED BY <1>3, <2>1, <2>2, <2>3, <2>4, <2>5, <2>6, <2>7, <2>8 DEF Step, PoolCall
<1> QED BY <1>1, <1>2, <1>3, StepOf DEF Unserved

\* A row that names a job is the lease the job has taken, after every step.
LEMMA NamedTakenStep == ASSUME PoolTypeInv, RowInv, [PoolNext]_poolVars PROVE NamedTaken'
<1> SUFFICES ASSUME NEW k \in Job, NEW row, Known(row)', row.job = k
             PROVE  ~Unserved(k)' /\ mine'[k].id \in {0, row.id}
  BY DEF NamedTaken
<1>1. PICK new : OnlyNew(new) /\ Brought(new)
  BY KnownStep
<1>2. NoLease.job \notin Job /\ NoLease.id = 0
  BY PoolAssumption DEF NoLease
<1>3. CASE Known(row)
  <2>1. ~Unserved(k) /\ mine[k].id \in {0, row.id}
    BY <1>3 DEF RowInv, NamedTaken
  <2>2. ASSUME NEW lease \in leases, lease.job = k PROVE lease.id = row.id
    BY <1>3, <2>2 DEF RowInv, NamedAlike, Known
  <2> QED BY <1>2, <2>1, <2>2, ServedStays
<1>4. CASE row = new
  <2>1. PICK j \in Job : Take(j) /\ new = Taken(j)
    BY <1>1, <1>2, <1>4, PoolAssumption
       DEF Brought, NewlyMade, Freed, PoolTypeInv, Typed, PoolTypeOK, Lease, Party
  <2>2. row.job = j /\ row.id = mine[j].id
    BY <2>1, <1>4 DEF Taken, PoolTypeInv, Typed, PoolTypeOK, Lease, Party
  <2>3. gpu'[k] = "list" /\ caller'[k] = "after" /\ mine'[k] = mine[k]
    BY <2>1, <2>2 DEF Take, PoolTypeInv, Typed, PoolTypeOK, Party
  <2> QED BY <2>2, <2>3 DEF Unserved, Reconciling
<1> QED BY <1>1, <1>2, <1>3, <1>4 DEF OnlyNew

\* Reconciliations list, and make, warm leases.
LEMMA ListsWarmStep == ASSUME PoolTypeInv, RowInv, [PoolNext]_poolVars PROVE ListsWarm'
<1> USE DEF PoolTypeInv, Typed, PoolTypeOK, RowInv, ListsWarm
<1>1. CASE UNCHANGED <<active, extra>>
  BY <1>1
<1>2. ASSUME NEW j \in Party, Step(j), \A row \in active'[j] \cup extra'[j] : row.warm PROVE ListsWarm'
  BY <1>2, OthersStay
<1>3. ASSUME NEW j \in Party, Step(j) PROVE ListsWarm'
  <2>1. CASE \/ Enqueue(j) \/ StartJob(j) \/ EndJob(j) \/ Tick(j)
             \/ ReadDepth(j) \/ Pick(j) \/ Take(j) \/ Find(j) \/ Free(j)
    BY <1>1, <2>1 DEF Enqueue, StartJob, EndJob, Tick, ReadDepth, Pick, Take, Find, Free
  <2>2. CASE PoolRaise(j) \/ Restore(j)
    BY <1>1, <1>2, <1>3, <2>2, RaiseDoes, LeaveDoes DEF Restore
  <2>3. CASE Relist(j)
    BY <1>2, <1>3, <2>3 DEF Relist, WarmLeases, IsWarm
  <2>4. CASE ListWarm(j)
    BY <1>2, <1>3, <2>4 DEF ListWarm, WarmLeases, IsWarm
  <2>5. CASE Grow(j)
    BY <1>2, <1>3, <2>5 DEF Grow
  <2>6. CASE Shrink(j)
    BY <1>2, <1>3, <2>6 DEF Shrink
  <2>7. CASE WriteBack(j)
    <3>1. CASE Leave(j, "over")
      BY <1>2, <1>3, <3>1, LeaveDoes
    <3>2. CASE ~Leave(j, "over")
      BY <1>2, <1>3, <2>7, <3>2 DEF WriteBack, Return
    <3> QED BY <3>1, <3>2
  <2> QED BY <1>3, <2>1, <2>2, <2>3, <2>4, <2>5, <2>6, <2>7 DEF Step, PoolCall, Reconcile
<1> QED BY <1>1, <1>3, StepOf DEF poolVars

\* What a job picks: an idle lease, or an instance nobody has heard of.
LEMMA PickDoes ==
    ASSUME PoolTypeInv, NEW j \in Party, Pick(j)
    PROVE  /\ gpu[j] = "pick" /\ gpu'[j] = "take" /\ j \in Job
           /\ UNCHANGED <<leases, caller, depth, active, extra, poolEnv>>
           /\ \/ mine'[j] \in leases /\ IsIdle(mine'[j])
              \/ NewlyMade(mine'[j]) /\ ~mine'[j].warm /\ IdleLeases = {}
<1> USE DEF PoolTypeInv, Typed, PoolTypeOK
<1> DEFINE cold == [id |-> NewId, busy |-> FALSE, warm |-> FALSE, job |-> NoJob]
<1>1. NewlyMade(cold) /\ ~cold.warm
  BY NewIdIsNew DEF NewlyMade
<1>2. mine'[j] \in IF IdleLeases = {} THEN {cold} ELSE IdleLeases
  BY DEF Pick
<1>3. gpu[j] = "pick" /\ gpu'[j] = "take" /\ UNCHANGED <<leases, caller, depth, active, extra, poolEnv>>
  BY DEF Pick
<1>4. j \in Job
  BY <1>3 DEF Control, Party, Reconciling
<1> HIDE DEF cold
<1> QED BY <1>1, <1>2, <1>3, <1>4 DEF IdleLeases

\* What a release finds: a lease that names the job, if there is one.
LEMMA FindDoes ==
    ASSUME PoolTypeInv, NEW j \in Party, Find(j)
    PROVE  /\ gpu[j] = "find" /\ caller'[j] = "release" /\ depth'[j] = 0 /\ j \in Job
           /\ UNCHANGED <<leases, active, extra, poolEnv>>
           /\ \/ gpu'[j] = "free" /\ mine'[j] \in leases /\ mine'[j].job = j
              \/ gpu'[j] = "list" /\ mine'[j] = NoLease /\ \A lease \in leases : lease.job # j
<1> USE DEF PoolTypeInv, Typed, PoolTypeOK
<1> DEFINE held == {lease \in leases : lease.job = j}
<1>1. /\ mine'[j] \in IF held = {} THEN {NoLease} ELSE held
      /\ gpu'[j] = IF held = {} THEN "list" ELSE "free"
      /\ gpu[j] = "find" /\ caller'[j] = "release" /\ depth'[j] = 0
      /\ UNCHANGED <<leases, active, extra, poolEnv>>
  BY DEF Find
<1>2. j \in Job
  BY <1>1 DEF Control, Party, Reconciling
<1> QED BY <1>1, <1>2

\* What a job has chosen or found stays what it was.
LEMMA MineRightStep == ASSUME PoolTypeInv, RowInv, [PoolNext]_poolVars PROVE MineRight'
<1> USE DEF MineRight, HasPicked, RowInv
<1> SUFFICES ASSUME NEW k \in Job
             PROVE  (/\ mine[k].job \in {NoJob, k}
                     /\ HasPicked(k) => mine[k].id # 0 /\ mine[k].job = NoJob
                     /\ gpu[k] = "free" => mine[k].id # 0 /\ mine[k].job = k)'
  OBVIOUS
<1> k \in Party /\ k \notin Scheduler
  BY PoolAssumption DEF Party
<1>1. CASE UNCHANGED poolVars
  BY <1>1 DEF poolVars
<1>2. ASSUME NEW j \in Party, Step(j), j # k
      PROVE  gpu'[k] = gpu[k] /\ caller'[k] = caller[k] /\ mine'[k] = mine[k]
  BY <1>2, OthersStay
<1>3. NoLease.job = NoJob /\ ~NoLease.warm /\ NoJob \notin Job
  BY PoolAssumption DEF NoLease
<1>4. CASE Step(k)
  <2>1. CASE Reconcile(k)
    BY <1>3, <2>1, ReconcileDoes, LeaveDoes DEF Reconciling
  <2>2. CASE PoolRaise(k)
    BY <1>3, <2>2, RaiseDoes, LeaveDoes DEF Reconciling
  <2>3. CASE Find(k)
    <3>1. \A lease \in leases : lease.job = k => lease.id # 0
      BY <1>3 DEF RowsMatch, Known
    <3> QED BY <1>3, <2>3, <3>1, FindDoes DEF Reconciling
  <2>4. CASE Pick(k)
    <3>1. \A lease \in leases : IsIdle(lease) => lease.id # 0 /\ lease.job \notin Job
      BY <1>3 DEF RowsMatch, Known, IsIdle
    <3>2. \A lease \in leases : lease.job \in Job \cup {NoJob}
      BY DEF PoolTypeInv, Typed, PoolTypeOK, Lease
    <3>3. mine'[k].id # 0 /\ mine'[k].job = NoJob
      BY <2>4, <3>1, <3>2, PickDoes DEF NewlyMade
    <3> QED BY <2>4, <3>3, PickDoes
  <2>5. CASE Restore(k)
    BY <1>3, <2>5, LeaveDoes DEF Restore, Reconciling
  <2>6. CASE Take(k) \/ Free(k)
    BY <2>6 DEF Take, Free, Reconciling, Control, PoolTypeInv, Typed, PoolTypeOK
  <2>7. CASE ReadDepth(k) \/ Enqueue(k) \/ StartJob(k) \/ EndJob(k)
    BY <2>7 DEF ReadDepth, Enqueue, StartJob, EndJob, Begin, Reconciling, Control, PoolTypeInv, Typed, PoolTypeOK
  <2> QED BY <1>4, <2>1, <2>2, <2>3, <2>4, <2>5, <2>6, <2>7 DEF Step, PoolCall
<1> QED BY <1>1, <1>2, <1>4, StepOf

\* So every step keeps all that is said of the rows.
LEMMA RowStep == ASSUME PoolTypeInv, RowInv, [PoolNext]_poolVars PROVE RowInv'
BY RowsMatchStep, NamedAlikeStep, NamedTakenStep, ListsWarmStep, MineRightStep DEF RowInv

-----------------------------------------------------------------------------
(* A cold instance, however the calls overlap.                             *)

\* What a step does to the table: only an allocation brings a cold row, and only a call that
\* works on it takes one away.
LEMMA TableStep ==
    ASSUME PoolTypeInv, RowInv, NEW j \in Party, Step(j)
    PROVE  /\ \A row \in leases' : row \in leases \/ row.warm \/ (Take(j) /\ row = Taken(j))
           /\ \A row \in leases : ~row.warm /\ row \notin leases' =>
                 (Take(j) \/ Restore(j) \/ Free(j)) /\ row.id = mine[j].id
<1> USE DEF PoolTypeInv, Typed, PoolTypeOK
<1>1. CASE UNCHANGED leases
  BY <1>1
<1>2. CASE Grow(j)
  BY <1>2 DEF Grow
<1>3. ASSUME NEW row \in leases, NEW o \in active[j] \cup extra[j], row.id = o.id PROVE row.warm
  BY <1>3 DEF RowInv, WarmthKept, ListsWarm, Known
<1>4. CASE Shrink(j)
  BY <1>3, <1>4 DEF Shrink, Without
<1>5. CASE WriteBack(j)
  <2>1. \A row \in active[j] : row.warm
    BY DEF RowInv, ListsWarm
  <2> QED BY <1>1, <1>3, <1>5, <2>1 DEF WriteBack, Upserted, Without
<1>6. CASE Take(j)
  BY <1>6 DEF Take, Upserted, Without, Taken, Lease
<1>7. CASE Restore(j)
  BY <1>7 DEF Restore, Upserted, Without
<1>8. CASE Free(j)
  BY <1>8 DEF Free, Upserted, Without, Lease
<1>9. CASE Enqueue(j) \/ StartJob(j) \/ EndJob(j) \/ Tick(j) \/ ReadDepth(j) \/ ListWarm(j) \/ Relist(j)
           \/ Pick(j) \/ Find(j) \/ PoolRaise(j)
  BY <1>1, <1>9
     DEF Enqueue, StartJob, EndJob, Tick, ReadDepth, ListWarm, Relist, Pick, Find, PoolRaise
<1> QED BY <1>2, <1>4, <1>5, <1>6, <1>7, <1>8, <1>9 DEF Step, PoolCall, Reconcile

\* What it does to the lease its party works on.
LEMMA MineStep ==
    ASSUME PoolTypeInv, NEW j \in Party, Step(j)
    PROVE  mine'[j] \in {mine[j], NoLease} \/ Pick(j) \/ Find(j)
BY ReconcileDoes, RaiseDoes, LeaveDoes
   DEF Step, PoolCall, Enqueue, StartJob, EndJob, Tick, ReadDepth, Take, Restore, Free

\* A job's lease is in the table from its upsert to its release.
Served(j) == gpu[j] = "run" \/ (gpu[j] \in Reconciling /\ caller[j] = "after")

\* A job is served once it has taken its lease, or it has been before.
LEMMA ServedStep ==
    ASSUME PoolTypeInv, NEW j \in Party, Step(j), NEW k \in Job, Served(k)', ~(j = k /\ Take(k))
    PROVE  Served(k) /\ mine'[k] = mine[k] /\ ~(j = k /\ (Restore(k) \/ Free(k)))
<1> k \in Party /\ k \notin Scheduler
  BY PoolAssumption DEF Party
<1> USE DEF Served
<1>1. CASE j # k
  BY <1>1, OthersStay
<1>2. CASE j = k
  <2>1. CASE Reconcile(k)
    BY <2>1, ReconcileDoes, LeaveDoes DEF Restore, Free, Reconciling
  <2>2. CASE PoolRaise(k)
    BY <2>2, RaiseDoes, LeaveDoes DEF Reconciling
  <2>3. CASE Find(k)
    BY <2>3, FindDoes DEF Reconciling
  <2>4. CASE Restore(k)
    BY <2>4, LeaveDoes DEF Restore, Reconciling
  <2>5. CASE Pick(k)
    BY <2>5, PickDoes DEF Reconciling
  <2>6. CASE Free(k) \/ ReadDepth(k) \/ Enqueue(k) \/ StartJob(k) \/ EndJob(k)
    BY <2>6 DEF Free, ReadDepth, Enqueue, StartJob, EndJob, Begin, Reconciling, Control,
                PoolTypeInv, Typed, PoolTypeOK
  <2> QED BY <1>2, <2>1, <2>2, <2>3, <2>4, <2>5, <2>6 DEF Step, PoolCall
<1> QED BY <1>1, <1>2

\* The calls that end with a job's lease freed.
LEMMA OccupyingStep ==
    ASSUME PoolTypeInv, NEW j \in Party, Step(j), NEW k \in Job, Occupying(k)
    PROVE  \/ Occupying(k)' \/ k \in astray'
           \/ j = k /\ (Restore(k) \/ Free(k))
           \/ j = k /\ Find(k) /\ \A lease \in leases : lease.job # k
<1> k \in Party /\ k \notin Scheduler
  BY PoolAssumption DEF Party
<1> USE DEF Occupying
<1>1. CASE j # k
  BY <1>1, OthersStay
<1>2. CASE j = k
  <2>1. CASE Reconcile(k)
    BY <2>1, ReconcileDoes, LeaveDoes DEF Reconciling
  <2>2. CASE PoolRaise(k)
    BY <2>2, RaiseDoes, LeaveDoes DEF Reconciling
  <2>3. CASE Find(k)
    BY <1>2, <2>3, FindDoes DEF Reconciling
  <2>4. CASE ReadDepth(k) \/ Enqueue(k) \/ StartJob(k) \/ EndJob(k) \/ Take(k) \/ Pick(k)
    BY <2>4 DEF ReadDepth, Enqueue, StartJob, EndJob, Take, Pick, Begin, Reconciling, Control,
                PoolTypeInv, Typed, PoolTypeOK
  <2> QED BY <1>2, <2>1, <2>2, <2>3, <2>4 DEF Step, PoolCall
<1> QED BY <1>1, <1>2

\* What the end of a job's lease leaves: of the rows that name the job, at most one made idle.
LEMMA FreedRows ==
    ASSUME PoolTypeInv, RowInv, NEW k \in Job, Restore(k) \/ Free(k)
    PROVE  \A row \in leases' : row.job # k
<1> k \in Party
  BY DEF Party
<1> USE DEF PoolTypeInv, Typed, PoolTypeOK
<1>1. mine[k].id # 0
  BY DEF Restore, Free, RowInv, MineRight, HasPicked
<1>2. \A row \in leases : row.job = k => row.id = mine[k].id
  BY <1>1 DEF RowInv, NamedTaken, Known
<1>3. CASE Restore(k)
  <2>1. mine[k].job # k
    BY <1>3, PoolAssumption DEF Restore, RowInv, MineRight, HasPicked
  <2> QED BY <1>2, <1>3, <2>1 DEF Restore, Upserted, Without
<1>4. CASE Free(k)
  <2>1. Freed(k).job # k /\ Freed(k).id = mine[k].id
    BY PoolAssumption DEF Freed, Lease
  <2>2. leases' = IF mine[k].warm THEN Upserted(Freed(k)) ELSE Without(mine[k].id)
    BY <1>4 DEF Free, Freed
  <2> QED BY <1>2, <2>1, <2>2 DEF Upserted, Without
<1> QED BY <1>3, <1>4

\* A cold instance is worked on by the job it names ...
ColdNamed ==
    \A p \in Party : \A row \in leases : ~row.warm /\ row.id = mine[p].id /\ row.id # 0 => row.job = p

\* ... and by no two parties.
ColdMine ==
    \A p, q \in Party : ~mine[p].warm /\ mine[p].id = mine[q].id /\ mine[p].id # 0 => p = q

\* It is in the table as long as its job runs ...
ColdHeld == \A j \in Job : Served(j) /\ ~mine[j].warm => mine[j].id \in Ids(Holding(j))

\* ... and no longer.
ColdGone ==
    \A lease \in leases : ~lease.warm =>
       /\ lease.busy /\ lease.job \in Job
       /\ Occupying(lease.job) \/ lease.job \in astray

ColdInv == ColdNamed /\ ColdMine /\ ColdHeld /\ ColdGone

\* There is no cold instance at the beginning.
LEMMA ColdInit == ASSUME PoolInit PROVE ColdInv
BY DEF PoolInit, ColdInv, ColdNamed, ColdMine, ColdHeld, ColdGone, Served, NoLease, Reconciling, Party

\* A cold row names the party that works on it, after every step.
LEMMA ColdNamedStep ==
    ASSUME PoolTypeInv, RowInv, ColdInv, NEW j \in Party, Step(j)
    PROVE  ColdNamed'
<1> SUFFICES ASSUME NEW p \in Party, NEW row \in leases', ~row.warm, row.id = mine'[p].id, row.id # 0
             PROVE  row.job = p
  BY DEF ColdNamed
<1> USE DEF PoolTypeInv, Typed, PoolTypeOK
<1>1. row \in leases \/ (Take(j) /\ row = Taken(j))
  BY TableStep
<1>2. CASE Take(j) /\ row = Taken(j)
  <2>1. mine' = mine
    BY <1>2 DEF Take
  <2>2. row.id = mine[j].id /\ row.warm = mine[j].warm /\ row.job = j
    BY <1>2 DEF Taken, Lease
  <2> QED BY <2>1, <2>2 DEF ColdInv, ColdMine
<1>3. CASE row \in leases /\ mine'[p] = mine[p]
  BY <1>3 DEF ColdInv, ColdNamed
<1>4. CASE row \in leases /\ p = j /\ mine'[p] # mine[p]
  <2>1. mine'[p] # NoLease
    BY DEF NoLease
  <2>2. CASE Pick(j)
    <3>1. mine'[j] \in leases => mine'[j] = row
      BY <1>4
    <3>2. ~NewlyMade(mine'[j])
      BY <1>4 DEF NewlyMade, Known
    <3> QED BY <1>4, <2>2, <3>1, <3>2, PickDoes DEF IsIdle
  <2>3. CASE Find(j)
    BY <1>4, <2>1, <2>3, FindDoes
  <2> QED BY <1>4, <2>1, <2>2, <2>3, MineStep
<1> QED BY <1>1, <1>2, <1>3, <1>4, OthersStay

\* No two parties come to work on one cold instance: an id is new when it is made.
LEMMA ColdMineStep == ASSUME PoolTypeInv, RowInv, ColdInv, NEW j \in Party, Step(j) PROVE ColdMine'
<1> USE DEF PoolTypeInv, Typed, PoolTypeOK
<1>1. CASE mine' = mine
  BY <1>1 DEF ColdInv, ColdMine
<1>2. \A q \in Party \ {j} : mine'[q] = mine[q] /\ Known(mine[q])
  BY OthersStay DEF Known
<1>3. ASSUME NEW q \in Party \ {j}, mine'[j].id = mine[q].id, mine'[j].id # 0,
             ~mine'[j].warm \/ ~mine[q].warm
      PROVE  FALSE
  <2>1. CASE mine'[j] = mine[j]
    <3>1. mine[j].warm = mine[q].warm
      BY <1>2, <1>3, <2>1 DEF RowInv, WarmthKept, Known
    <3> QED BY <1>3, <2>1, <3>1 DEF ColdInv, ColdMine
  <2>2. CASE mine'[j] \in leases
    <3>1. mine'[j].warm = mine[q].warm
      BY <1>2, <1>3, <2>2 DEF RowInv, WarmthKept, Known
    <3>2. mine'[j].job = q
      BY <1>3, <2>2, <3>1 DEF ColdInv, ColdNamed
    <3>3. ~IsIdle(mine'[j])
      BY <1>3, <3>1 DEF IsIdle
    <3>4. ~NewlyMade(mine'[j])
      BY <2>2 DEF NewlyMade, Known
    <3>5. mine'[j].job = j
      <4>1. mine'[j] = mine[j] \/ mine'[j] = NoLease \/ Pick(j) \/ Find(j)
        BY MineStep
      <4>2. mine'[j] # NoLease
        BY <1>3 DEF NoLease
      <4>3. ~Pick(j)
        BY <3>3, <3>4, PickDoes
      <4>4. mine'[j] = mine[j] => mine[j].job = j
        BY <1>3, <2>2, <3>1 DEF ColdInv, ColdNamed
      <4> QED BY <4>1, <4>2, <4>3, <4>4, FindDoes
    <3> QED BY <3>2, <3>5
  <2>3. CASE NewlyMade(mine'[j])
    BY <1>2, <1>3, <2>3 DEF NewlyMade
  <2>4. mine'[j] # NoLease
    BY <1>3 DEF NoLease
  <2> QED BY <2>1, <2>2, <2>3, <2>4, MineStep, PickDoes, FindDoes
<1>4. \A p, q \in Party \ {j} : ~mine'[p].warm /\ mine'[p].id = mine'[q].id /\ mine'[p].id # 0 => p = q
  BY <1>2 DEF ColdInv, ColdMine
<1> QED BY <1>2, <1>3, <1>4 DEF ColdMine

\* A job that is served keeps its cold row: lists are of warm ones, and only the job frees it.
LEMMA ColdHeldStep == ASSUME PoolTypeInv, RowInv, ColdInv, NEW j \in Party, Step(j) PROVE ColdHeld'
<1> SUFFICES ASSUME NEW k \in Job, Served(k)', ~mine'[k].warm
             PROVE  \E row \in leases' : row.busy /\ row.job = k /\ row.id = mine'[k].id
  BY DEF ColdHeld, Ids, Holding
<1> k \in Party
  BY DEF Party
<1> USE DEF PoolTypeInv, Typed, PoolTypeOK
<1>1. CASE j = k /\ Take(k)
  <2>1. Taken(k) \in leases' /\ mine' = mine
    BY <1>1 DEF Take, Upserted, Taken
  <2>2. Taken(k).busy /\ Taken(k).job = k /\ Taken(k).id = mine[k].id
    BY DEF Taken, Lease
  <2> QED BY <2>1, <2>2
<1>2. CASE ~(j = k /\ Take(k))
  <2>1. Served(k) /\ mine'[k] = mine[k] /\ ~(j = k /\ (Restore(k) \/ Free(k)))
    BY <1>2, ServedStep
  <2>2. PICK row \in leases : row.busy /\ row.job = k /\ row.id = mine[k].id
    BY <2>1 DEF ColdInv, ColdHeld, Ids, Holding
  <2>3. ~row.warm
    BY <2>1, <2>2 DEF RowInv, WarmthKept, Known
  <2>4. mine[k].id # 0
    BY <2>1 DEF Served, RowInv, MineRight, HasPicked
  <2>5. ASSUME row \notin leases' PROVE FALSE
    <3>1. (Take(j) \/ Restore(j) \/ Free(j)) /\ row.id = mine[j].id
      BY <2>3, <2>5, TableStep
    <3>2. j = k
      BY <2>1, <2>2, <2>4, <3>1 DEF ColdInv, ColdMine
    <3> QED BY <1>2, <2>1, <3>1, <3>2
  <2> QED BY <2>1, <2>2, <2>5
<1> QED BY <1>1, <1>2

\* What was left as it was stays so.
LEMMA AstrayGrows == ASSUME NEW j \in Party, PoolTypeInv, Step(j) PROVE astray \subseteq astray'
BY ReconcileDoes, RaiseDoes
   DEF Step, PoolCall, Enqueue, StartJob, EndJob, Tick, ReadDepth, Pick, Take, Restore, Find, Free

\* The lease of a job that has gone is gone or idle.
LEMMA OccupiedRows ==
    ASSUME PoolTypeInv, RowInv, NEW j \in Party, Step(j), NEW k \in Job, Occupying(k) \/ k \in astray,
           NEW row \in leases', row.job = k
    PROVE  Occupying(k)' \/ k \in astray'
<1>1. CASE k \in astray
  BY <1>1, AstrayGrows
<1>2. CASE Occupying(k)
  BY <1>2, OccupyingStep, FreedRows, FindDoes
<1> QED BY <1>1, <1>2

\* A cold row is busy, and its job at it, unless a failing call left it.
LEMMA ColdGoneStep == ASSUME PoolTypeInv, RowInv, ColdInv, NEW j \in Party, Step(j) PROVE ColdGone'
<1> SUFFICES ASSUME NEW row \in leases', ~row.warm
             PROVE  row.busy /\ row.job \in Job /\ (Occupying(row.job)' \/ row.job \in astray')
  BY DEF ColdGone
<1>1. CASE row \in leases
  BY <1>1, OccupiedRows DEF ColdInv, ColdGone
<1>2. CASE Take(j) /\ row = Taken(j)
  <2>1. j \in Job
    BY <1>2 DEF Take, PoolTypeInv, Control, Party, Reconciling
  <2>2. row.busy /\ row.job = j
    BY <1>2 DEF Taken, PoolTypeInv, Typed, PoolTypeOK, Lease
  <2>3. gpu'[j] = "list" /\ caller'[j] = "after"
    BY <1>2 DEF Take, PoolTypeInv, Typed, PoolTypeOK
  <2> QED BY <2>1, <2>2, <2>3 DEF Occupying, Reconciling
<1> QED BY <1>1, <1>2, TableStep

\* So every step keeps what is said of cold instances.
LEMMA ColdStep == ASSUME PoolTypeInv, RowInv, ColdInv, [PoolNext]_poolVars PROVE ColdInv'
<1>1. CASE UNCHANGED poolVars
  BY <1>1 DEF poolVars, ColdInv, ColdNamed, ColdMine, ColdHeld, ColdGone, Served, Occupying, Ids, Holding
<1>2. ASSUME NEW j \in Party, Step(j) PROVE ColdInv'
  BY <1>2, ColdNamedStep, ColdMineStep, ColdHeldStep, ColdGoneStep DEF ColdInv
<1> QED BY <1>1, <1>2, StepOf

\* What is said of rows and of cold instances holds throughout.
LEMMA ColdInvariant == PoolSpec => [](PoolTypeInv /\ RowInv /\ ColdInv)
<1>1. PoolInit => PoolTypeInv /\ RowInv /\ ColdInv
  BY PoolTypeInit, RowInit, ColdInit
<1>2. PoolTypeInv /\ RowInv /\ ColdInv /\ [PoolNext]_poolVars => (PoolTypeInv /\ RowInv /\ ColdInv)'
  BY TypedStep, ControlStep, RowStep, ColdStep DEF PoolTypeInv
<1> QED BY <1>1, <1>2, PTL DEF PoolSpec

\* A job that runs on a cold instance has it for itself until its release, and no cold instance
\* outlives its job, however the calls of the other jobs and of the schedulers overlap it:
\* allocate_gpu and release_gpu between the list and the upserts of reconcile_gpu_pool.
THEOREM ColdInstances == PoolSpec => []ColdIsOwn
<1>1. ColdInv => ColdIsOwn
  BY DEF ColdInv, ColdHeld, ColdGone, ColdIsOwn, Served
<1> QED BY <1>1, ColdInvariant, PTL

-----------------------------------------------------------------------------
(* The calls one after the other.                                          *)

OneCaller == \A p, q \in Party : gpu[p] \in Calling /\ gpu[q] \in Calling => p = q

\* What a reconciliation has listed is in the table, as it was listed.
ListsCurrent ==
    \A p \in Party :
       /\ gpu[p] = "grow" => active[p] = WarmLeases /\ Cardinality(WarmLeases) < DesiredWarm(depth[p])
       /\ gpu[p] = "write" => active[p] \subseteq leases
       /\ gpu[p] = "shrink" => extra[p] # {} /\ extra[p] \subseteq IdleLeases

\* So is the lease an allocation has picked and the one a release has found; a lease to be put
\* back is nobody else's.
PickCurrent ==
    \A j \in Job :
       /\ gpu[j] = "take" /\ mine[j].warm => mine[j] \in leases
       /\ gpu[j] = "restore" => \A row \in leases : row.id = mine[j].id => row.job \in {NoJob, j}
       /\ gpu[j] = "free" => mine[j] \in leases

JobsHold == \A j \in Job : Served(j) => Holding(j) # {}
BusyMatched == \A lease \in leases : lease.busy => lease.job \in astray \/ Occupying(lease.job)

\* With all instances idle, a reconciliation comes to as many as it wants.
NoneBusy == \A lease \in leases : ~lease.busy
Reconciled ==
    NoneBusy =>
       \A p \in Party :
          /\ gpu[p] \in {"write", "relist"} => Cardinality(WarmLeases) = DesiredWarm(depth[p])
          /\ gpu[p] = "shrink" =>
                Cardinality(WarmLeases) = DesiredWarm(depth[p]) + Cardinality(extra[p])

SerialInv == OneCaller /\ ListsCurrent /\ PickCurrent /\ JobsHold /\ BusyMatched /\ Reconciled
RowsInv == PoolTypeInv /\ RowInv /\ ColdInv

\* The calls begin one after the other.
LEMMA SerialInit == ASSUME PoolInit PROVE SerialInv
BY DEF PoolInit, SerialInv, OneCaller, ListsCurrent, PickCurrent, JobsHold, BusyMatched, Reconciled,
       Served, Calling, Reconciling, Party

\* The number of overlaps only grows, and a call that begins beside another is one.
LEMMA OverlapsGrow == ASSUME PoolTypeInv, NEW j \in Party, Step(j), overlaps' = 0 PROVE overlaps = 0
BY ReconcileDoes, RaiseDoes
   DEF Step, PoolCall, Enqueue, StartJob, EndJob, Tick, Begin, ReadDepth, Pick, Take, Restore, Find,
       Free, PoolTypeInv, Typed, PoolTypeOK

\* While a party is in a call, the others at most store a job.
LEMMA CallerAlone ==
    ASSUME PoolTypeInv, SerialInv, NEW j \in Party, Step(j), overlaps' = 0,
           NEW p \in Party, p # j, gpu'[p] \in Calling
    PROVE  /\ UNCHANGED leases
           /\ gpu'[p] = gpu[p] /\ caller'[p] = caller[p] /\ depth'[p] = depth[p]
           /\ active'[p] = active[p] /\ extra'[p] = extra[p] /\ mine'[p] = mine[p]
<1>1. /\ gpu'[p] = gpu[p] /\ caller'[p] = caller[p] /\ depth'[p] = depth[p]
      /\ active'[p] = active[p] /\ extra'[p] = extra[p] /\ mine'[p] = mine[p]
  BY OthersStay
<1>2. gpu[j] \notin Calling
  BY <1>1 DEF SerialInv, OneCaller
<1>3. ~PoolCall(j)
  BY <1>2, ReconcileDoes, RaiseDoes
     DEF PoolCall, Calling, Reconciling, ReadDepth, Pick, Take, Restore, Find, Free
<1>4. UNCHANGED leases
  BY <1>3 DEF Step, Enqueue, StartJob, EndJob, Tick
<1> QED BY <1>1, <1>4

\* A call that begins beside another one counts as an overlap; without one there is one caller.
LEMMA OneCallerStep ==
    ASSUME PoolTypeInv, SerialInv, NEW j \in Party, Step(j), overlaps' = 0
    PROVE  OneCaller'
<1>1. \A p \in Party : p # j => gpu'[p] = gpu[p]
  BY OthersStay
<1>2. SUFFICES ASSUME NEW p \in Party, p # j, gpu[p] \in Calling, gpu'[j] \in Calling PROVE FALSE
  BY <1>1 DEF OneCaller, SerialInv
<1>3. gpu[j] \notin Calling
  BY <1>2 DEF SerialInv, OneCaller
<1>4. ~PoolCall(j)
  BY <1>3, ReconcileDoes, RaiseDoes
     DEF PoolCall, Calling, Reconciling, ReadDepth, Pick, Take, Restore, Find, Free
<1>5. ~\E s : Begin(j, s)
  <2>1. overlaps \in Nat
    BY DEF PoolTypeInv, Typed, PoolTypeOK
  <2> QED BY <1>2, <2>1 DEF Begin
<1>6. Enqueue(j)
  BY <1>4, <1>5 DEF Step, StartJob, EndJob, Tick
<1> QED BY <1>2, <1>6 DEF Enqueue, Calling, Reconciling, PoolTypeInv, Typed, PoolTypeOK

\* A reconciliation writes back what is there.
LEMMA WrittenBack ==
    ASSUME PoolTypeInv, SerialInv, NEW j \in Party, WriteBack(j)
    PROVE  /\ UNCHANGED leases
           /\ gpu[j] = "write"
           /\ gpu'[j] = "write" => active'[j] \subseteq active[j] /\ depth' = depth
<1> USE DEF PoolTypeInv, Typed, PoolTypeOK
<1>1. CASE Return(j) /\ UNCHANGED leases
  BY <1>1, LeaveDoes DEF Return, WriteBack
<1>2. CASE \E lease \in active[j] : /\ leases' = Upserted(lease)
                                    /\ active' = [active EXCEPT ![j] = @ \ {lease}]
                                    /\ UNCHANGED <<gpu, caller, depth, extra, mine, again>>
  <2>1. active[j] \subseteq leases /\ gpu[j] = "write"
    BY DEF WriteBack, SerialInv, ListsCurrent
  <2>2. \A lease \in leases : Upserted(lease) = leases
    BY DEF Upserted, Without
  <2> QED BY <1>2, <2>1, <2>2
<1> QED BY <1>1, <1>2 DEF WriteBack

\* The busy rows of a step.
LEMMA SerialTable ==
    ASSUME RowsInv, SerialInv, NEW j \in Party, Step(j)
    PROVE  /\ \A row \in leases' : row.busy => row \in leases \/ (Take(j) /\ row = Taken(j))
           /\ \A row \in leases : row.busy /\ row \notin leases' =>
                 (Take(j) \/ Restore(j) \/ Free(j)) /\ row.job = j
<1> USE DEF RowsInv, PoolTypeInv, Typed, PoolTypeOK
<1>1. CASE UNCHANGED leases
  BY <1>1
<1>2. CASE Grow(j)
  BY <1>2 DEF Grow
<1>3. CASE Shrink(j)
  <2>1. \A lease \in extra[j] : lease \in leases /\ ~lease.busy
    BY <1>3 DEF Shrink, SerialInv, ListsCurrent, IdleLeases, IsIdle
  <2> QED BY <1>3, <2>1 DEF Shrink, Without
<1>4. CASE WriteBack(j)
  BY <1>1, <1>4, WrittenBack
<1>5. \A row \in leases : row.busy => row.job \in Job
  BY DEF RowInv, RowsMatch, Known
<1>6. CASE Take(j)
  <2>1. j \in Job /\ mine[j].id # 0 /\ mine[j].job = NoJob
    BY <1>6 DEF Take, Control, Party, Reconciling, RowInv, MineRight, HasPicked
  <2>2. ASSUME NEW row \in leases, row.busy, row.id = mine[j].id PROVE row.job = j
    <3>1. CASE mine[j].warm
      BY <1>5, <1>6, <2>1, <2>2, <3>1, PoolAssumption DEF Take, SerialInv, PickCurrent
    <3>2. CASE ~mine[j].warm
      <4>1. ~row.warm
        BY <2>2, <3>2 DEF RowInv, WarmthKept, Known
      <4> QED BY <2>1, <2>2, <4>1 DEF ColdInv, ColdNamed
    <3> QED BY <3>1, <3>2
  <2> QED BY <1>6, <2>2 DEF Take, Upserted, Without, Taken, Lease
<1>7. CASE Restore(j)
  <2>1. j \in Job /\ mine[j].job = NoJob
    BY <1>7 DEF Restore, Control, Party, Reconciling, RowInv, MineRight, HasPicked
  <2>2. ~mine[j].busy
    BY <2>1, PoolAssumption DEF RowInv, RowsMatch, Known
  <2>3. ASSUME NEW row \in leases, row.busy, row.id = mine[j].id PROVE row.job = j
    BY <1>5, <1>7, <2>1, <2>3, PoolAssumption DEF Restore, SerialInv, PickCurrent
  <2> QED BY <1>7, <2>2, <2>3 DEF Restore, Upserted, Without
<1>8. CASE Free(j)
  <2>1. j \in Job
    BY <1>8 DEF Free, Control, Party, Reconciling
  <2>2. mine[j] \in leases /\ mine[j].job = j
    BY <1>8, <2>1 DEF Free, SerialInv, PickCurrent, RowInv, MineRight
  <2> QED BY <1>8, <2>2 DEF Free, Upserted, Without, Lease
<1>9. CASE Enqueue(j) \/ StartJob(j) \/ EndJob(j) \/ Tick(j) \/ ReadDepth(j) \/ ListWarm(j) \/ Relist(j)
           \/ Pick(j) \/ Find(j) \/ PoolRaise(j)
  BY <1>1, <1>9
     DEF Enqueue, StartJob, EndJob, Tick, ReadDepth, ListWarm, Relist, Pick, Find, PoolRaise
<1> QED BY <1>2, <1>3, <1>4, <1>6, <1>7, <1>8, <1>9 DEF Step, PoolCall, Reconcile

\* Where a reconciliation stands, by the call that brought it there.
LEMMA AtLists ==
    ASSUME PoolTypeInv, NEW j \in Party, Step(j)
    PROVE  /\ gpu'[j] = "grow" => ListWarm(j) \/ Grow(j)
           /\ gpu'[j] = "shrink" => ListWarm(j) \/ Shrink(j)
           /\ gpu'[j] = "relist" => ListWarm(j) \/ Shrink(j)
           /\ gpu'[j] = "write" => ListWarm(j) \/ Grow(j) \/ Relist(j) \/ WriteBack(j)
           /\ gpu'[j] = "take" => Pick(j)
           /\ gpu'[j] = "free" => Find(j)
           /\ gpu'[j] = "restore" => PoolRaise(j)
<1> USE DEF PoolTypeInv, Typed, PoolTypeOK
<1>1. CASE Enqueue(j) \/ StartJob(j) \/ EndJob(j) \/ Tick(j)
  BY <1>1 DEF Enqueue, StartJob, EndJob, Tick, Begin
<1>2. CASE ListWarm(j) \/ Grow(j) \/ Shrink(j) \/ Relist(j)
  BY <1>2 DEF ListWarm, Grow, Shrink, Relist
<1>3. CASE WriteBack(j)
  BY <1>3, LeaveDoes DEF WriteBack, Return
<1>4. CASE ReadDepth(j) \/ Pick(j) \/ Take(j) \/ Find(j) \/ Free(j)
  BY <1>4 DEF ReadDepth, Pick, Take, Find, Free
<1>5. CASE Restore(j)
  BY <1>5, LeaveDoes DEF Restore
<1>6. CASE PoolRaise(j)
  BY <1>6, RaiseDoes, LeaveDoes
<1> QED BY <1>1, <1>2, <1>3, <1>4, <1>5, <1>6 DEF Step, PoolCall, Reconcile

\* What a reconciliation makes of its list: as many as it wants, or one after the other.
LEMMA ListWarmDoes ==
    ASSUME PoolTypeInv, NEW j \in Party, ListWarm(j)
    PROVE  /\ UNCHANGED leases /\ depth' = depth /\ active'[j] = WarmLeases
           /\ \/ gpu'[j] = "grow" /\ Cardinality(WarmLeases) < DesiredWarm(depth[j])
              \/ gpu'[j] = "write" /\ Cardinality(WarmLeases) = DesiredWarm(depth[j])
              \/ gpu'[j] \in {"shrink", "relist"} /\ extra'[j] \subseteq IdleLeases
                 /\ (gpu'[j] = "shrink" <=> extra'[j] # {})
                 /\ Cardinality(WarmLeases) > DesiredWarm(depth[j])
                 /\ (NoneBusy => Cardinality(WarmLeases) = DesiredWarm(depth[j]) + Cardinality(extra'[j]))
<1> USE DEF PoolTypeInv, Typed, PoolTypeOK
<1> DEFINE idle == {lease \in WarmLeases : ~lease.busy}
<1>1. UNCHANGED leases /\ depth' = depth /\ active'[j] = WarmLeases
  BY DEF ListWarm
<1>2. idle = IdleLeases
  BY DEF IdleLeases, WarmLeases, IsWarm, IsIdle
<1>3. NoneBusy => idle = WarmLeases
  BY DEF NoneBusy, WarmLeases
<1>4. IsFiniteSet(WarmLeases)
  BY FS_Subset DEF WarmLeases, ListsFinite
<1>5. Cardinality(WarmLeases) \in Nat /\ DesiredWarm(depth[j]) \in Nat
  BY <1>4, FS_CardinalityType, DesiredWarmType
<1>6. CASE Cardinality(WarmLeases) < DesiredWarm(depth[j])
  BY <1>1, <1>5, <1>6 DEF ListWarm
<1>7. CASE Cardinality(WarmLeases) = DesiredWarm(depth[j])
  BY <1>1, <1>5, <1>7 DEF ListWarm
<1>8. CASE Cardinality(WarmLeases) > DesiredWarm(depth[j])
  <2>1. PICK rows \in SUBSET idle :
           /\ Cardinality(rows) = IF Cardinality(idle) < Cardinality(WarmLeases) - DesiredWarm(depth[j])
                                  THEN Cardinality(idle)
                                  ELSE Cardinality(WarmLeases) - DesiredWarm(depth[j])
           /\ extra' = [extra EXCEPT ![j] = rows]
           /\ gpu' = [gpu EXCEPT ![j] = IF rows = {} THEN "relist" ELSE "shrink"]
    BY <1>5, <1>8 DEF ListWarm
  <2>2. extra'[j] = rows /\ gpu'[j] = IF rows = {} THEN "relist" ELSE "shrink"
    BY <2>1
  <2>3. NoneBusy => Cardinality(WarmLeases) = DesiredWarm(depth[j]) + Cardinality(rows)
    <3> HAVE NoneBusy
    <3>1. Cardinality(idle) = Cardinality(WarmLeases)
      BY <1>3
    <3> QED BY <1>5, <1>8, <2>1, <3>1
  <2> QED BY <1>1, <1>2, <1>8, <2>2, <2>3
<1> QED BY <1>5, <1>6, <1>7, <1>8

\* What growing and shrinking makes of the table.
LEMMA GrowDoes ==
    ASSUME PoolTypeInv, NEW j \in Party, Grow(j)
    PROVE  \E new : /\ new \notin leases /\ IsIdle(new) /\ leases' = leases \cup {new}
                    /\ WarmLeases' = WarmLeases \cup {new} /\ active'[j] = active[j] \cup {new}
                    /\ Cardinality(WarmLeases') = Cardinality(WarmLeases) + 1
                    /\ depth' = depth
                    /\ gpu'[j] = IF Cardinality(active[j]) + 1 < DesiredWarm(depth[j])
                                 THEN "grow" ELSE "write"
<1> USE DEF PoolTypeInv, Typed, PoolTypeOK
<1> DEFINE new == [id |-> NewId, busy |-> FALSE, warm |-> TRUE, job |-> NoJob]
<1>1. /\ leases' = leases \cup {new} /\ active'[j] = active[j] \cup {new} /\ depth' = depth
      /\ gpu'[j] = IF Cardinality(active[j]) + 1 < DesiredWarm(depth[j]) THEN "grow" ELSE "write"
  BY DEF Grow
<1>2. new \notin leases
  <2>1. \A row \in leases : row.id # NewId
    BY NewIdIsNew DEF Known
  <2> QED BY <2>1
<1>3. IsIdle(new)
  BY DEF IsIdle
<1>4. WarmLeases' = WarmLeases \cup {new} /\ new \notin WarmLeases
  BY <1>1, <1>2, <1>3 DEF WarmLeases, IsWarm, IsIdle
<1>5. IsFiniteSet(WarmLeases)
  BY FS_Subset DEF WarmLeases, ListsFinite
<1> HIDE DEF new
<1>6. Cardinality(WarmLeases') = Cardinality(WarmLeases) + 1
  BY <1>4, <1>5, FS_AddElement
<1> QED BY <1>1, <1>2, <1>3, <1>4, <1>6

\* A deletion takes an idle warm row from the table and from the list.
LEMMA ShrinkDoes ==
    ASSUME PoolTypeInv, SerialInv, NEW j \in Party, Shrink(j)
    PROVE  /\ extra'[j] \subseteq IdleLeases' /\ depth' = depth
           /\ leases' \subseteq leases /\ \A row \in leases : row.busy => row \in leases'
           /\ \/ gpu'[j] = "shrink" /\ extra'[j] # {}
              \/ gpu'[j] = "relist" /\ extra'[j] = {}
           /\ Cardinality(WarmLeases') = Cardinality(WarmLeases) - 1
           /\ Cardinality(extra'[j]) = Cardinality(extra[j]) - 1
<1> USE DEF PoolTypeInv, Typed, PoolTypeOK
<1>1. PICK lease \in extra[j] :
         /\ leases' = Without(lease.id)
         /\ extra' = [extra EXCEPT ![j] = @ \ {lease}]
         /\ gpu' = [gpu EXCEPT ![j] = IF extra[j] = {lease} THEN "relist" ELSE "shrink"]
  BY DEF Shrink
<1>2. extra[j] \subseteq IdleLeases
  BY DEF Shrink, SerialInv, ListsCurrent
<1>3. lease \in leases /\ lease.warm /\ ~lease.busy
  BY <1>1, <1>2 DEF IdleLeases, IsIdle
<1>4. leases' = leases \ {lease}
  BY <1>1, <1>3 DEF Without
<1>5. WarmLeases' = WarmLeases \ {lease} /\ lease \in WarmLeases
  BY <1>3, <1>4 DEF WarmLeases, IsWarm
<1>6. IsFiniteSet(WarmLeases) /\ IsFiniteSet(extra[j])
  BY FS_Subset DEF WarmLeases, ListsFinite
<1>7. Cardinality(WarmLeases') = Cardinality(WarmLeases) - 1
  BY <1>5, <1>6, FS_RemoveElement
<1>8. extra'[j] = extra[j] \ {lease}
  BY <1>1
<1>9. Cardinality(extra'[j]) = Cardinality(extra[j]) - 1
  BY <1>1, <1>6, <1>8, FS_RemoveElement
<1>10. gpu'[j] = IF extra[j] = {lease} THEN "relist" ELSE "shrink"
  BY <1>1
<1>11. depth' = depth
  BY DEF Shrink
<1>12. extra'[j] \subseteq IdleLeases'
  BY <1>2, <1>4, <1>8 DEF IdleLeases
<1> QED BY <1>1, <1>3, <1>4, <1>7, <1>8, <1>9, <1>10, <1>11, <1>12

\* What the only caller has listed stays current.
LEMMA ListsCurrentStep ==
    ASSUME RowsInv, SerialInv, NEW j \in Party, Step(j), overlaps' = 0
    PROVE  ListsCurrent'
<1> SUFFICES ASSUME NEW p \in Party
             PROVE  (/\ gpu[p] = "grow" => active[p] = WarmLeases /\ Cardinality(WarmLeases) < DesiredWarm(depth[p])
                     /\ gpu[p] = "write" => active[p] \subseteq leases
                     /\ gpu[p] = "shrink" => extra[p] # {} /\ extra[p] \subseteq IdleLeases)'
  BY DEF ListsCurrent
<1> USE DEF RowsInv
<1>1. CASE p # j /\ gpu'[p] \in Calling
  BY <1>1, CallerAlone DEF SerialInv, ListsCurrent, WarmLeases, IdleLeases, DesiredWarm
<1>2. CASE gpu'[p] \notin Calling
  BY <1>2 DEF Calling, Reconciling
<1>3. CASE p = j
  <2>1. IsFiniteSet(WarmLeases) /\ Cardinality(WarmLeases) \in Nat
    <3>1. IsFiniteSet(WarmLeases)
      BY FS_Subset DEF WarmLeases, PoolTypeInv, Typed, ListsFinite
    <3> QED BY <3>1, FS_CardinalityType
  <2>2. CASE ListWarm(j)
    <3>1. WarmLeases' = WarmLeases /\ IdleLeases' = IdleLeases /\ WarmLeases \subseteq leases
          /\ DesiredWarm(depth[j])' = DesiredWarm(depth[j])
      BY <2>2, ListWarmDoes DEF WarmLeases, IdleLeases, DesiredWarm
    <3> QED BY <1>3, <2>2, <3>1, ListWarmDoes
  <2>3. CASE Grow(j)
    <3>1. PICK new : /\ IsIdle(new) /\ leases' = leases \cup {new}
                     /\ WarmLeases' = WarmLeases \cup {new} /\ active'[j] = active[j] \cup {new}
                     /\ Cardinality(WarmLeases') = Cardinality(WarmLeases) + 1
                     /\ depth' = depth
                     /\ gpu'[j] = IF Cardinality(active[j]) + 1 < DesiredWarm(depth[j])
                                  THEN "grow" ELSE "write"
      BY <2>3, GrowDoes
    <3>2. active[j] = WarmLeases /\ WarmLeases \subseteq leases
      BY <2>3 DEF Grow, SerialInv, ListsCurrent, WarmLeases
    <3>3. DesiredWarm(depth[j])' = DesiredWarm(depth[j])
      BY <3>1 DEF DesiredWarm
    <3> QED BY <1>3, <3>1, <3>2, <3>3
  <2>4. CASE Shrink(j)
    BY <1>3, <2>4, ShrinkDoes
  <2>5. CASE Relist(j)
    BY <1>3, <2>5 DEF Relist, WarmLeases, PoolTypeInv, Typed, PoolTypeOK
  <2>6. CASE WriteBack(j) /\ gpu'[j] = "write"
    BY <1>3, <2>6, WrittenBack DEF SerialInv, ListsCurrent
  <2>7. CASE gpu'[j] \notin {"grow", "write", "shrink"}
    BY <1>3, <2>7
  <2> QED BY <2>2, <2>3, <2>4, <2>5, <2>6, <2>7, AtLists
<1> QED BY <1>1, <1>2, <1>3

\* What it has picked or found does, too.
LEMMA PickCurrentStep ==
    ASSUME RowsInv, SerialInv, NEW j \in Party, Step(j), overlaps' = 0
    PROVE  PickCurrent'
<1> SUFFICES ASSUME NEW k \in Job
             PROVE  (/\ gpu[k] = "take" /\ mine[k].warm => mine[k] \in leases
                     /\ gpu[k] = "restore" => \A row \in leases : row.id = mine[k].id => row.job \in {NoJob, k}
                     /\ gpu[k] = "free" => mine[k] \in leases)'
  BY DEF PickCurrent
<1> k \in Party
  BY DEF Party
<1> USE DEF RowsInv
<1>1. CASE k # j /\ gpu'[k] \in Calling
  BY <1>1, CallerAlone DEF SerialInv, PickCurrent
<1>2. CASE gpu'[k] \notin Calling
  BY <1>2 DEF Calling, Reconciling
<1>3. CASE k = j /\ gpu'[k] = "take"
  BY <1>3, AtLists, PickDoes
<1>4. CASE k = j /\ gpu'[k] = "free"
  BY <1>4, AtLists, FindDoes
<1>5. CASE k = j /\ gpu'[k] = "restore"
  <2>1. PoolRaise(k)
    BY <1>5, AtLists
  <2>2. UNCHANGED <<leases, mine>> /\ (gpu[k] = "take" \/ Served(k))
    BY <1>5, <2>1, RaiseDoes, LeaveDoes DEF Served
  <2>3. mine[k].id # 0 /\ mine[k].job = NoJob
    BY <2>2 DEF RowInv, MineRight, HasPicked, Served
  <2>4. ASSUME NEW row \in leases, row.id = mine[k].id PROVE row.job \in {NoJob, k}
    <3>1. CASE gpu[k] = "take" /\ mine[k].warm
      BY <2>3, <2>4, <3>1 DEF SerialInv, PickCurrent, PoolTypeInv, Typed, PoolTypeOK
    <3>2. CASE ~mine[k].warm
      <4>1. ~row.warm
        BY <2>4, <3>2 DEF RowInv, WarmthKept, Known
      <4> QED BY <2>3, <2>4, <4>1 DEF ColdInv, ColdNamed
    <3>3. CASE Served(k)
      <4>1. PICK held \in leases : held.job = k
        BY <3>3 DEF SerialInv, JobsHold, Holding
      <4>2. held.id = mine[k].id
        BY <2>3, <4>1 DEF RowInv, NamedTaken, Known
      <4> QED BY <2>4, <4>1, <4>2 DEF PoolTypeInv, Typed, PoolTypeOK
    <3> QED BY <2>2, <3>1, <3>2, <3>3
  <2> QED BY <1>5, <2>2, <2>4
<1>6. CASE k = j /\ gpu'[k] \notin {"take", "free", "restore"}
  BY <1>6
<1> QED BY <1>1, <1>2, <1>3, <1>4, <1>5, <1>6

\* A job that is served holds a lease: nobody else writes its row.
LEMMA JobsHoldStep ==
    ASSUME RowsInv, SerialInv, NEW j \in Party, Step(j), overlaps' = 0
    PROVE  JobsHold'
<1> SUFFICES ASSUME NEW k \in Job, Served(k)'
             PROVE  \E row \in leases' : row.busy /\ row.job = k
  BY DEF JobsHold, Holding
<1> USE DEF RowsInv
<1>1. CASE j = k /\ Take(k)
  <2>1. Taken(k) \in leases'
    BY <1>1 DEF Take, Upserted, Taken
  <2>2. Taken(k).busy /\ Taken(k).job = k
    BY DEF Taken, PoolTypeInv, Typed, PoolTypeOK, Lease, Party
  <2> QED BY <2>1, <2>2
<1>2. CASE ~(j = k /\ Take(k))
  <2>1. Served(k) /\ ~(j = k /\ (Restore(k) \/ Free(k)))
    BY <1>2, ServedStep
  <2>2. PICK row \in leases : row.busy /\ row.job = k
    BY <2>1 DEF SerialInv, JobsHold, Holding
  <2> QED BY <1>2, <2>1, <2>2, SerialTable
<1> QED BY <1>1, <1>2

\* A busy lease names a job that is at it, or one whose call failed.
LEMMA BusyMatchedStep ==
    ASSUME RowsInv, SerialInv, NEW j \in Party, Step(j), overlaps' = 0
    PROVE  BusyMatched'
<1> SUFFICES ASSUME NEW row \in leases', row.busy PROVE row.job \in astray' \/ Occupying(row.job)'
  BY DEF BusyMatched
<1> USE DEF RowsInv
<1>1. CASE row \in leases
  <2>1. row.job \in Job
    BY <1>1 DEF RowInv, RowsMatch, Known
  <2> QED BY <1>1, <2>1, OccupiedRows DEF SerialInv, BusyMatched
<1>2. CASE Take(j) /\ row = Taken(j)
  <2>1. row.job = j
    BY <1>2 DEF Taken, PoolTypeInv, Typed, PoolTypeOK, Lease
  <2>2. gpu'[j] = "list" /\ caller'[j] = "after"
    BY <1>2 DEF Take, PoolTypeInv, Typed, PoolTypeOK
  <2> QED BY <2>1, <2>2 DEF Occupying, Reconciling
<1> QED BY <1>1, <1>2, SerialTable

\* A reconciliation comes to as many instances as it wants.
LEMMA ReconciledStep ==
    ASSUME RowsInv, SerialInv, NEW j \in Party, Step(j), overlaps' = 0
    PROVE  Reconciled'
<1> SUFFICES ASSUME NoneBusy', NEW p \in Party
             PROVE  (/\ gpu[p] \in {"write", "relist"} => Cardinality(WarmLeases) = DesiredWarm(depth[p])
                     /\ gpu[p] = "shrink" =>
                          Cardinality(WarmLeases) = DesiredWarm(depth[p]) + Cardinality(extra[p]))'
  BY DEF Reconciled
<1> USE DEF RowsInv
<1>1. CASE p # j /\ gpu'[p] \in Calling
  BY <1>1, CallerAlone DEF SerialInv, Reconciled, NoneBusy, WarmLeases, DesiredWarm
<1>2. CASE gpu'[p] \notin Calling
  BY <1>2 DEF Calling, Reconciling
<1>3. CASE p = j
  <2>1. IsFiniteSet(WarmLeases) /\ IsFiniteSet(extra[j])
    BY FS_Subset DEF WarmLeases, PoolTypeInv, Typed, ListsFinite
  <2>2. /\ Cardinality(WarmLeases) \in Nat /\ Cardinality(extra[j]) \in Nat
        /\ DesiredWarm(depth[j]) \in Nat
    BY <2>1, FS_CardinalityType, DesiredWarmType DEF PoolTypeInv, Typed, PoolTypeOK
  <2>3. depth' = depth => DesiredWarm(depth[j])' = DesiredWarm(depth[j])
    BY DEF DesiredWarm
  <2>4. CASE ListWarm(j)
    <3>1. WarmLeases' = WarmLeases /\ NoneBusy
      BY <2>4, ListWarmDoes DEF WarmLeases, NoneBusy
    <3>2. CASE gpu'[j] = "shrink"
      BY <1>3, <2>3, <2>4, <3>1, <3>2, ListWarmDoes
    <3>3. CASE gpu'[j] = "relist"
      <4>1. extra'[j] = {} /\ Cardinality(WarmLeases) > DesiredWarm(depth[j])
            /\ Cardinality(WarmLeases) = DesiredWarm(depth[j]) + Cardinality(extra'[j])
        BY <2>4, <3>1, <3>3, ListWarmDoes
      <4> QED BY <2>2, <4>1, FS_EmptySet
    <3>4. CASE gpu'[j] = "write"
      BY <1>3, <2>3, <2>4, <3>1, <3>4, ListWarmDoes
    <3> QED BY <1>3, <3>2, <3>3, <3>4
  <2>5. CASE Grow(j)
    <3>1. /\ Cardinality(WarmLeases') = Cardinality(WarmLeases) + 1
          /\ depth' = depth
          /\ gpu'[j] = IF Cardinality(active[j]) + 1 < DesiredWarm(depth[j]) THEN "grow" ELSE "write"
      BY <2>5, GrowDoes
    <3>2. active[j] = WarmLeases /\ Cardinality(WarmLeases) < DesiredWarm(depth[j])
      BY <2>5 DEF Grow, SerialInv, ListsCurrent
    <3> QED BY <1>3, <2>2, <2>3, <3>1, <3>2
  <2>6. CASE Shrink(j)
    <3>1. NoneBusy
      BY <2>6, ShrinkDoes DEF NoneBusy
    <3>2. Cardinality(WarmLeases) = DesiredWarm(depth[j]) + Cardinality(extra[j])
      BY <2>6, <3>1 DEF Shrink, SerialInv, Reconciled
    <3>3. Cardinality(WarmLeases') = DesiredWarm(depth[j])' + Cardinality(extra'[j])
      BY <2>2, <2>3, <2>6, <3>2, ShrinkDoes
    <3>4. gpu'[j] = "relist" => Cardinality(extra'[j]) = 0
      BY <2>6, ShrinkDoes, FS_EmptySet
    <3>5. DesiredWarm(depth[j])' \in Nat
      BY <2>2, <2>3, <2>6, ShrinkDoes
    <3> QED BY <1>3, <2>6, <3>3, <3>4, <3>5, ShrinkDoes
  <2>7. CASE Relist(j)
    <3>1. WarmLeases' = WarmLeases /\ NoneBusy /\ depth' = depth /\ gpu[j] = "relist" /\ gpu'[j] = "write"
      BY <2>7 DEF Relist, WarmLeases, NoneBusy, PoolTypeInv, Typed, PoolTypeOK
    <3> QED BY <1>3, <2>3, <3>1 DEF SerialInv, Reconciled
  <2>8. CASE WriteBack(j) /\ gpu'[j] = "write"
    <3>1. WarmLeases' = WarmLeases /\ NoneBusy /\ gpu[j] = "write" /\ depth' = depth
      BY <2>8, WrittenBack DEF WarmLeases, NoneBusy
    <3>2. DesiredWarm(depth[j])' = DesiredWarm(depth[j])
      BY <2>3, <3>1
    <3> QED BY <1>3, <2>8, <3>1, <3>2 DEF SerialInv, Reconciled
  <2>9. CASE gpu'[j] \notin {"write", "relist", "shrink"}
    BY <1>3, <2>9
  <2> QED BY <2>4, <2>5, <2>6, <2>7, <2>8, <2>9, AtLists
<1> QED BY <1>1, <1>2, <1>3

\* So every step without an overlap keeps the invariant of calls that come one after the other.
LEMMA SerialStep ==
    ASSUME RowsInv, [PoolNext]_poolVars, overlaps = 0 => SerialInv
    PROVE  (overlaps = 0 => SerialInv)'
<1>1. CASE UNCHANGED poolVars
  BY <1>1 DEF poolVars, SerialInv, OneCaller, ListsCurrent, PickCurrent, JobsHold, BusyMatched,
              Reconciled, NoneBusy, Served, Occupying, Holding, WarmLeases, IdleLeases, DesiredWarm
<1>2. ASSUME NEW j \in Party, Step(j), overlaps' = 0 PROVE SerialInv'
  <2>1. SerialInv
    BY <1>2, OverlapsGrow DEF RowsInv
  <2> QED BY <1>2, <2>1, OneCallerStep, ListsCurrentStep, PickCurrentStep, JobsHoldStep,
             BusyMatchedStep, ReconciledStep DEF SerialInv, RowsInv
<1> QED BY <1>1, <1>2, StepOf

\* It holds as long as no calls have overlapped.
LEMMA SerialInvariant == PoolSpec => [](RowsInv /\ (overlaps = 0 => SerialInv))
<1>1. PoolInit => SerialInv
  BY SerialInit
<1>2. PoolSpec => []RowsInv
  BY ColdInvariant, PTL DEF RowsInv
<1>3. RowsInv /\ (overlaps = 0 => SerialInv) /\ [PoolNext]_poolVars => (overlaps = 0 => SerialInv)'
  BY SerialStep
<1> QED BY <1>1, <1>2, <1>3, PTL DEF PoolSpec

\* As long as no call of the pool begins while another is under way, a running job holds one
\* lease, and a busy lease is that of a job on its way from allocate_gpu to release_gpu, or of
\* one whose release failed for good.
THEOREM LeasesAreHeld == PoolSpec => []LeasesMatchJobs
<1>1. ASSUME RowsInv, overlaps = 0 => SerialInv PROVE LeasesMatchJobs
  <2> SUFFICES ASSUME SerialInv
               PROVE  /\ \A j \in Job : InPool(j, "run") => Cardinality(Holding(j)) = 1
                      /\ \A lease \in leases : lease.busy =>
                            lease.job \in Job /\ (lease.job \in astray \/ Occupying(lease.job))
    BY <1>1 DEF LeasesMatchJobs
  <2> USE <1>1 DEF RowsInv
  <2>1. ASSUME NEW j \in Job, gpu[j] = "run" PROVE Cardinality(Holding(j)) = 1
    <3>1. PICK row \in Holding(j) : TRUE
      BY <2>1 DEF SerialInv, JobsHold, Served
    <3>2. \A other \in Holding(j) : other = row
      BY <2>1, <3>1 DEF Holding, RowInv, NamedAlike, Known, PoolTypeInv, Typed, PoolTypeOK
    <3>3. Holding(j) = {row}
      BY <3>1, <3>2
    <3> QED BY <3>3, FS_Singleton
  <2>2. \A lease \in leases : lease.busy => lease.job \in Job
    BY DEF RowInv, RowsMatch, Known
  <2> QED BY <2>1, <2>2 DEF SerialInv, BusyMatched
<1> QED BY <1>1, SerialInvariant, PTL

-----------------------------------------------------------------------------
(* The pool at rest.                                                       *)

\* Without exceptions nothing is put back and nothing left as it was.
Unfailing == poolFaults = 0 => astray = {} /\ \A p \in Party : gpu[p] # "restore"

\* A release has the pool reconciled for no queue.
ReleaseDepth ==
    \A p \in Party : gpu[p] \in Reconciling \cup {"free"} /\ caller[p] = "release" => depth[p] = 0

\* A job has ended, the others have not begun, and nobody is in a call.
Quiet ==
    /\ \E j \in Job : gpu[j] = "over"
    /\ \A j \in Job : gpu[j] \in {"absent", "queued", "over"}
    /\ \A s \in Scheduler : gpu[s] \notin Calling /\ depth[s] = 0

SettledInv ==
    /\ Unfailing /\ ReleaseDepth
    /\ overlaps = 0 /\ poolFaults = 0 /\ Quiet => Cardinality(leases) = MinWarm

\* Nothing has failed or ended at the beginning.
LEMMA SettledInit == ASSUME PoolInit PROVE SettledInv
BY DEF PoolInit, SettledInv, Unfailing, ReleaseDepth, Quiet, Party, Reconciling

\* Without an exception nothing is put back, and nothing left.
LEMMA UnfailingStep == ASSUME PoolTypeInv, Unfailing, NEW j \in Party, Step(j) PROVE Unfailing'
<1> SUFFICES ASSUME poolFaults' = 0
             PROVE  astray' = {} /\ gpu'[j] # "restore" /\ \A p \in Party : p # j => gpu'[p] # "restore"
  BY DEF Unfailing
<1>1. ~PoolRaise(j)
  BY RaiseDoes DEF PoolTypeInv, Typed, PoolTypeOK
<1>2. gpu'[j] # "restore"
  BY <1>1, AtLists
<1>3. UNCHANGED <<poolFaults, astray>>
  BY <1>1, ReconcileDoes
     DEF Step, PoolCall, Enqueue, StartJob, EndJob, Tick, ReadDepth, Pick, Take, Restore, Find, Free
<1> QED BY <1>2, <1>3, OthersStay DEF Unfailing

\* A release asks for a depth of 0 to its end.
LEMMA ReleaseDepthStep ==
    ASSUME PoolTypeInv, ReleaseDepth, NEW j \in Party, Step(j)
    PROVE  ReleaseDepth'
<1> SUFFICES ASSUME gpu'[j] \in Reconciling \cup {"free"}, caller'[j] = "release" PROVE depth'[j] = 0
  BY OthersStay DEF ReleaseDepth
<1> USE DEF PoolTypeInv, Typed, PoolTypeOK
<1>1. CASE Reconcile(j)
  BY <1>1, ReconcileDoes, LeaveDoes DEF ReleaseDepth, Reconciling
<1>2. CASE PoolRaise(j)
  BY <1>2, RaiseDoes, LeaveDoes DEF Reconciling
<1>3. CASE Find(j)
  BY <1>3, FindDoes
<1>4. CASE Free(j)
  BY <1>4 DEF Free, ReleaseDepth
<1>5. CASE Restore(j)
  BY <1>5, LeaveDoes DEF Restore, Reconciling
<1>6. CASE Enqueue(j) \/ StartJob(j) \/ EndJob(j) \/ Pick(j)
  BY <1>6 DEF Enqueue, StartJob, EndJob, Begin, Pick, Reconciling
<1>7. CASE ReadDepth(j)
  <2>1. j \in Job
    BY <1>7 DEF ReadDepth, Control, Party, Reconciling
  <2> QED BY <1>7, <2>1 DEF ReadDepth, Control
<1>8. CASE Take(j) \/ Tick(j)
  BY <1>8 DEF Take, Tick
<1> QED BY <1>1, <1>2, <1>3, <1>4, <1>5, <1>6, <1>7, <1>8 DEF Step, PoolCall

\* The steps after which nobody is in a call: a job is stored, or a reconciliation ends.
LEMMA ToQuiet ==
    ASSUME PoolTypeInv, Unfailing, NEW j \in Party, Step(j), poolFaults' = 0, Quiet'
    PROVE  \/ Enqueue(j) /\ j \in Job
           \/ /\ gpu[j] = "write" /\ UNCHANGED leases /\ caller[j] \in {"release", "tick"}
              /\ gpu'[j] = "over" /\ (caller[j] = "tick" => depth'[j] = depth[j] /\ j \in Scheduler)
<1> USE DEF PoolTypeInv, Typed, PoolTypeOK
<1>1. gpu'[j] \notin Calling /\ (j \in Job => gpu'[j] \in {"absent", "queued", "over"})
  BY DEF Quiet, Party, Calling, Reconciling
<1>2. ~PoolRaise(j) /\ ~Restore(j)
  BY RaiseDoes DEF Restore, Unfailing
<1>3. ~(StartJob(j) \/ EndJob(j) \/ Tick(j) \/ ReadDepth(j) \/ Pick(j) \/ Take(j) \/ Find(j) \/ Free(j))
  BY <1>1 DEF StartJob, EndJob, Tick, Begin, ReadDepth, Pick, Take, Find, Free, Calling, Reconciling
<1>4. CASE Reconcile(j)
  BY <1>1, <1>4, ReconcileDoes, LeaveDoes DEF Calling, Control, Party
<1> QED BY <1>2, <1>3, <1>4 DEF Step, PoolCall

\* The pool with nobody in it is as the last reconciliation left it.
LEMMA SettledStep ==
    ASSUME RowsInv, overlaps = 0 => SerialInv, SettledInv, NEW j \in Party, Step(j),
           overlaps' = 0, poolFaults' = 0, Quiet'
    PROVE  Cardinality(leases') = MinWarm
<1> USE DEF RowsInv
<1>1. overlaps = 0 /\ poolFaults = 0
  <2>1. ~PoolRaise(j)
    BY RaiseDoes DEF PoolTypeInv, Typed, PoolTypeOK
  <2>2. UNCHANGED poolFaults
    BY <2>1, ReconcileDoes
       DEF Step, PoolCall, Enqueue, StartJob, EndJob, Tick, ReadDepth, Pick, Take, Restore, Find, Free
  <2> QED BY <2>2, OverlapsGrow
<1>2. CASE Enqueue(j) /\ j \in Job
  <2>1. leases' = leases /\ depth' = depth /\ gpu[j] = "absent" /\ gpu'[j] = "queued"
    BY <1>2 DEF Enqueue, PoolTypeInv, Typed, PoolTypeOK
  <2>2. \A p \in Party : p # j => gpu'[p] = gpu[p]
    BY OthersStay
  <2>3. j \notin Scheduler
    BY <1>2, PoolAssumption
  <2>4. Quiet
    BY <2>1, <2>2, <2>3 DEF Quiet, Party
  <2> QED BY <1>1, <2>1, <2>4 DEF SettledInv
<1>3. CASE /\ gpu[j] = "write" /\ UNCHANGED leases /\ caller[j] \in {"release", "tick"}
           /\ gpu'[j] = "over" /\ (caller[j] = "tick" => depth'[j] = depth[j] /\ j \in Scheduler)
  <2>1. \A k \in Job : ~Occupying(k)
    <3> TAKE k \in Job
    <3>1. CASE k = j
      BY <1>3, <3>1, PoolAssumption DEF Occupying
    <3>2. CASE k # j
      <4>1. gpu[k] \in {"absent", "queued", "over"}
        BY <3>2, OthersStay DEF Quiet, Party
      <4> QED BY <4>1 DEF Occupying, Reconciling
    <3> QED BY <3>1, <3>2
  <2>2. astray = {}
    BY <1>1 DEF SettledInv, Unfailing
  <2>3. NoneBusy
    <3> SUFFICES ASSUME NEW row \in leases, row.busy PROVE FALSE
      BY DEF NoneBusy
    <3>1. row.job \in Job
      BY DEF RowInv, RowsMatch, Known
    <3> QED BY <1>1, <2>1, <2>2, <3>1 DEF SerialInv, BusyMatched
  <2>4. leases = WarmLeases
    BY <2>3 DEF WarmLeases, IsWarm, NoneBusy, ColdInv, ColdGone
  <2>5. depth[j] = 0
    BY <1>3 DEF SettledInv, ReleaseDepth, Quiet, Reconciling
  <2>6. Cardinality(WarmLeases) = DesiredWarm(0)
    BY <1>1, <1>3, <2>3, <2>5 DEF SerialInv, Reconciled
  <2> QED BY <1>3, <2>4, <2>6, DesiredWarmOfNone
<1> QED BY <1>2, <1>3, ToQuiet DEF SettledInv

\* So every step keeps the pool at its minimum when it is quiet.
LEMMA SettledInvStep ==
    ASSUME RowsInv, overlaps = 0 => SerialInv, SettledInv, [PoolNext]_poolVars
    PROVE  SettledInv'
<1>1. CASE UNCHANGED poolVars
  BY <1>1 DEF poolVars, SettledInv, Unfailing, ReleaseDepth, Quiet
<1>2. ASSUME NEW j \in Party, Step(j) PROVE SettledInv'
  BY <1>2, UnfailingStep, ReleaseDepthStep, SettledStep DEF SettledInv, RowsInv
<1> QED BY <1>1, <1>2, StepOf

\* When every job has ended, no call failed and none overlapped another, the pool is back to its
\* minimum and all of it is idle, unless a scheduler named a queue of its own: release_gpu and
\* the reconciliation at its end.
THEOREM PoolComesBack == PoolSpec => []PoolSettles
<1>1. PoolInit => SettledInv
  BY SettledInit
<1>2. RowsInv /\ (overlaps = 0 => SerialInv) /\ SettledInv /\ [PoolNext]_poolVars => SettledInv'
  BY SettledInvStep
<1>3. ASSUME RowsInv, overlaps = 0 => SerialInv, SettledInv PROVE PoolSettles
  <2> SUFFICES ASSUME \A j \in Job : InPool(j, "over"),
                      \A s \in Scheduler : gpu[s] \notin Calling /\ depth[s] = 0,
                      overlaps = 0, poolFaults = 0
               PROVE  Cardinality(leases) = MinWarm /\ \A lease \in leases : IsIdle(lease)
    BY DEF PoolSettles
  <2> USE <1>3 DEF RowsInv
  <2>1. Quiet
    BY JobsAssumption DEF Quiet
  <2>2. Cardinality(leases) = MinWarm
    BY <2>1 DEF SettledInv
  <2>3. \A k \in Job : ~Occupying(k)
    BY DEF Occupying, Reconciling
  <2>4. astray = {}
    BY DEF SettledInv, Unfailing
  <2>5. \A lease \in leases : lease.busy => lease.job \in Job
    BY DEF RowInv, RowsMatch, Known
  <2>6. \A lease \in leases : ~lease.busy
    BY <2>3, <2>4, <2>5 DEF SerialInv, BusyMatched
  <2>7. \A lease \in leases : lease.warm
    BY <2>6 DEF ColdInv, ColdGone
  <2> QED BY <2>2, <2>6, <2>7 DEF IsIdle
<1> QED BY <1>1, <1>2, <1>3, SerialInvariant, PTL DEF PoolSpec
=============================================================================
