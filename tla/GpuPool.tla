------------------------------- MODULE GpuPool -------------------------------
(***************************************************************************)
(* The warm pool of GPU workers: allocate_gpu, release_gpu and             *)
(* reconcile_gpu_pool of app/services/runtime_ops.py over the lease rows   *)
(* of RuntimeOpsRepository (db/phase2_store.py).                           *)
(*                                                                         *)
(* No call locks the table.  A reconciliation lists the leases, adds or    *)
(* deletes some, and writes every lease it has listed back; an allocation  *)
(* picks a lease from a list and upserts it.  Each call of the repository  *)
(* is one step, so that the calls of another job fall in between.          *)
(*                                                                         *)
(* The rows are a set.  The lists have them in the order of created_at,    *)
(* and where the code takes the first that will do, any may be the first:  *)
(* what is promised depends on no order.                                   *)
(***************************************************************************)
EXTENDS Jobs

CONSTANTS
    Scheduler,      \* the callers of POST /internal/ops/runtime/reconcile
    TickDepths,     \* the queue depths they name
    NoJob,          \* current_job_id of an idle lease: none
    MinWarm,        \* gpu_pool_min_warm_instances
    Threshold,      \* gpu_pool_queue_depth_threshold
    ScaleStep,      \* gpu_pool_scale_step
    OthersQueued,   \* numbers of queued jobs other users may have
    MaxPoolFaults,  \* bound: exceptions a repository raises
    MaxPoolOverlaps \* bound: calls of the pool begun while another party is in one

\* A row of gpu_worker_leases; lease_state is idle or busy (nothing writes "released").
Lease == [id : Nat, busy : BOOLEAN, warm : BOOLEAN, job : Job \cup {NoJob}]
NoLease == [id |-> 0, busy |-> FALSE, warm |-> FALSE, job |-> NoJob]

\* Whoever calls the pool.
Party == Job \cup Scheduler

ASSUME PoolAssumption ==
    /\ NoJob \notin Job /\ Job \cap Scheduler = {} /\ IsFiniteSet(Scheduler)
    /\ TickDepths \subseteq Nat
    /\ MinWarm \in Nat
    /\ Threshold \in Nat \ {0} /\ ScaleStep \in Nat \ {0}
    /\ OthersQueued \subseteq Nat
    /\ MaxPoolFaults \in Nat /\ MaxPoolOverlaps \in Nat

\* The steps of reconcile_gpu_pool, those of the calls around it, and where a job is not in a
\* call of the pool.
Reconciling == {"list", "grow", "shrink", "relist", "write"}
Calling == Reconciling \cup {"depth", "pick", "take", "restore", "find", "free"}
PoolStep == Calling \cup {"absent", "queued", "run", "over"}

\* Which reconciliation a party is in: the first or the second of allocate_gpu, release_gpu's, or
\* the scheduler's.
Caller == {"before", "after", "release", "tick"}

VARIABLES
    leases,      \* gpu_worker_leases
    gpu,         \* where each party stands; the locals of its call are:
    caller,      \*   which reconciliation it is in
    depth,       \*   queue_depth
    active,      \*   active_warm
    extra,       \*   removable
    mine,        \*   the lease selected or created, or the one release_gpu has found
    again,       \*   release_gpu is called by the finally clause of process_job
    poolFaults,  \* what the repositories have used of their bound
    overlaps,    \* what the calls have used of it
    astray       \* the job whose failing call left a lease as it was

call == <<gpu, caller, depth, active, extra, mine, again>>
poolEnv == <<poolFaults, overlaps, astray>>
poolVars == <<leases, call, poolEnv>>

PoolInit ==
    /\ leases = {}
    /\ gpu = [j \in Party |-> "absent"]
    /\ caller = [j \in Party |-> "before"]
    /\ depth = [j \in Party |-> 0]
    /\ active = [j \in Party |-> {}]
    /\ extra = [j \in Party |-> {}]
    /\ mine = [j \in Party |-> NoLease]
    /\ again = [j \in Party |-> FALSE]
    /\ poolFaults = 0 /\ overlaps = 0 /\ astray = {}

-----------------------------------------------------------------------------
(* The table.                                                              *)

\* Mutant of IsWarm: every lease is reconciled.
IsAny(lease) == TRUE

IsWarm(lease) == lease.warm
IsIdle(lease) == lease.warm /\ ~lease.busy

\* list_gpu_leases, and what is kept of it.
WarmLeases == {lease \in leases : IsWarm(lease)}
IdleLeases == {lease \in leases : IsIdle(lease)}

Ids(rows) == {row.id : row \in rows}

Without(id) == {lease \in leases : lease.id # id}
Upserted(lease) == Without(lease.id) \cup {lease}

\* A worker_id is random: one that no row and no call knows.
KnownIds ==
    Ids(leases) \cup UNION {Ids(active[j]) \cup Ids(extra[j]) \cup {mine[j].id} : j \in Party}
NewId == CHOOSE id \in 1..(Cardinality(KnownIds) + 1) : id \notin KnownIds

\* The number of warm instances wanted for a queue depth.
DesiredWarm(d) ==
    LET excess == d - Threshold
        increments == (excess + Threshold - 1) \div Threshold
    IN  IF d <= Threshold THEN MinWarm ELSE MinWarm + increments * ScaleStep

-----------------------------------------------------------------------------

InPool(j, s) == gpu[j] = s
PoolGo(j, s) == gpu' = [gpu EXCEPT ![j] = s]

\* The call ends; its locals go with it.
Leave(j, s) ==
    /\ PoolGo(j, s)
    /\ caller' = [caller EXCEPT ![j] = "before"]
    /\ depth' = [depth EXCEPT ![j] = 0]
    /\ active' = [active EXCEPT ![j] = {}]
    /\ extra' = [extra EXCEPT ![j] = {}]
    /\ mine' = [mine EXCEPT ![j] = NoLease]
    /\ again' = [again EXCEPT ![j] = FALSE]

\* What follows a reconciliation.
Return(j) ==
    \/ /\ caller[j] = "before"
       /\ PoolGo(j, "pick")
       /\ active' = [active EXCEPT ![j] = {}]
       /\ UNCHANGED <<caller, depth, extra, mine, again>>
    \/ /\ caller[j] = "after"
       /\ PoolGo(j, "run")
       /\ caller' = [caller EXCEPT ![j] = "before"]
       /\ depth' = [depth EXCEPT ![j] = 0]
       /\ UNCHANGED <<active, extra, mine, again>>
    \/ caller[j] = "release" /\ Leave(j, "over")
    \/ /\ caller[j] = "tick"
       /\ PoolGo(j, "over")
       /\ UNCHANGED <<caller, depth, active, extra, mine, again>>

\* A call begins, beside another one as often as the bound allows.
Begin(j, s) ==
    /\ \/ /\ \A k \in Party \ {j} : gpu[k] \notin Calling
          /\ UNCHANGED overlaps
       \/ /\ \E k \in Party \ {j} : gpu[k] \in Calling
          /\ overlaps < MaxPoolOverlaps
          /\ overlaps' = overlaps + 1
    /\ PoolGo(j, s)

\* The job is stored with status queued.
Enqueue(j) ==
    /\ InPool(j, "absent")
    /\ PoolGo(j, "queued")
    /\ UNCHANGED <<leases, caller, depth, active, extra, mine, again, poolEnv>>

\* A worker takes the job: it is processing when allocate_gpu is called.
StartJob(j) ==
    /\ InPool(j, "queued")
    /\ Begin(j, "depth")
    /\ UNCHANGED <<leases, caller, depth, active, extra, mine, again, poolFaults, astray>>

\* A scheduler has the pool reconciled for a queue of its own estimate.
Tick(s) ==
    /\ InPool(s, "absent")
    /\ Begin(s, "list")
    /\ caller' = [caller EXCEPT ![s] = "tick"]
    /\ \E d \in TickDepths : depth' = [depth EXCEPT ![s] = d]
    /\ UNCHANGED <<leases, active, extra, mine, again, poolFaults, astray>>

\* _runnable_backlog_depth: the number of queued jobs, of all users, at least 1.
ReadDepth(j) ==
    /\ InPool(j, "depth")
    /\ \E others \in OthersQueued :
          LET queued == others + Cardinality({k \in Job : InPool(k, "queued")})
          IN  depth' = [depth EXCEPT ![j] = IF queued = 0 THEN 1 ELSE queued]
    /\ PoolGo(j, "list")
    /\ UNCHANGED <<leases, caller, active, extra, mine, again, poolEnv>>

-----------------------------------------------------------------------------
(* reconcile_gpu_pool.                                                     *)

ListWarm(j) ==
    /\ InPool(j, "list")
    /\ LET idle == {lease \in WarmLeases : ~lease.busy}
           desired == DesiredWarm(depth[j])
           warm == Cardinality(WarmLeases)
           spare == Cardinality(idle)
       IN  \/ warm < desired /\ PoolGo(j, "grow") /\ UNCHANGED extra
           \/ /\ warm > desired
              /\ \E rows \in SUBSET idle :
                    /\ Cardinality(rows) = IF spare < warm - desired THEN spare ELSE warm - desired
                    /\ extra' = [extra EXCEPT ![j] = rows]
                    /\ PoolGo(j, IF rows = {} THEN "relist" ELSE "shrink")
           \/ warm = desired /\ PoolGo(j, "write") /\ UNCHANGED extra
    /\ active' = [active EXCEPT ![j] = WarmLeases]
    /\ UNCHANGED <<leases, caller, depth, mine, again, poolEnv>>

\* A new idle instance, until there are as many as desired.
Grow(j) ==
    /\ InPool(j, "grow")
    /\ LET lease == [id |-> NewId, busy |-> FALSE, warm |-> TRUE, job |-> NoJob]
       IN  /\ leases' = leases \cup {lease}
           /\ active' = [active EXCEPT ![j] = @ \cup {lease}]
    /\ PoolGo(j, IF Cardinality(active[j]) + 1 < DesiredWarm(depth[j]) THEN "grow" ELSE "write")
    /\ UNCHANGED <<caller, depth, extra, mine, again, poolEnv>>

\* The idle instances beyond those desired are deleted, one by one.
Shrink(j) ==
    /\ InPool(j, "shrink")
    /\ \E lease \in extra[j] :
          /\ leases' = Without(lease.id)
          /\ extra' = [extra EXCEPT ![j] = @ \ {lease}]
          /\ PoolGo(j, IF extra[j] = {lease} THEN "relist" ELSE "shrink")
    /\ UNCHANGED <<caller, depth, active, mine, again, poolEnv>>

Relist(j) ==
    /\ InPool(j, "relist")
    /\ active' = [active EXCEPT ![j] = WarmLeases]
    /\ PoolGo(j, "write")
    /\ UNCHANGED <<leases, caller, depth, extra, mine, again, poolEnv>>

\* Every lease listed is written back, as it was listed.
WriteBack(j) ==
    /\ InPool(j, "write")
    /\ \/ active[j] = {} /\ Return(j) /\ UNCHANGED leases
       \/ \E lease \in active[j] :
            /\ leases' = Upserted(lease)
            /\ active' = [active EXCEPT ![j] = @ \ {lease}]
            /\ UNCHANGED <<gpu, caller, depth, extra, mine, again>>
    /\ UNCHANGED poolEnv

-----------------------------------------------------------------------------
(* allocate_gpu.                                                           *)

\* An idle warm lease, or a cold one of the job's own.
Pick(j) ==
    /\ InPool(j, "pick")
    /\ LET cold == [id |-> NewId, busy |-> FALSE, warm |-> FALSE, job |-> NoJob]
       IN  \E lease \in IF IdleLeases = {} THEN {cold} ELSE IdleLeases :
              mine' = [mine EXCEPT ![j] = lease]
    /\ PoolGo(j, "take")
    /\ UNCHANGED <<leases, caller, depth, active, extra, again, poolEnv>>

Take(j) ==
    /\ InPool(j, "take")
    /\ leases' = Upserted([mine[j] EXCEPT !.busy = TRUE, !.job = j])
    /\ caller' = [caller EXCEPT ![j] = "after"]
    /\ PoolGo(j, "list")
    /\ UNCHANGED <<depth, active, extra, mine, again, poolEnv>>

\* The except clause: a warm lease is put back as it was selected, a cold one is deleted, and
\* the job fails.
Restore(j) ==
    /\ InPool(j, "restore")
    /\ leases' = IF mine[j].warm THEN Upserted(mine[j]) ELSE Without(mine[j].id)
    /\ Leave(j, "over")
    /\ UNCHANGED poolEnv

-----------------------------------------------------------------------------
(* release_gpu.                                                            *)

\* The job has ended, one way or another.
EndJob(j) ==
    /\ InPool(j, "run")
    /\ Begin(j, "find")
    /\ UNCHANGED <<leases, caller, depth, active, extra, mine, again, poolFaults, astray>>

\* A lease that names the job; queue_depth 0 is what the pool is reconciled for.
Find(j) ==
    /\ InPool(j, "find")
    /\ LET held == {lease \in leases : lease.job = j}
       IN  /\ \E lease \in IF held = {} THEN {NoLease} ELSE held : mine' = [mine EXCEPT ![j] = lease]
           /\ PoolGo(j, IF held = {} THEN "list" ELSE "free")
    /\ caller' = [caller EXCEPT ![j] = "release"]
    /\ depth' = [depth EXCEPT ![j] = 0]
    /\ UNCHANGED <<leases, active, extra, again, poolEnv>>

\* Mutant of Free: the pool is not reconciled afterwards.
FreeOnly(j) ==
    /\ InPool(j, "free")
    /\ leases' = IF mine[j].warm
                 THEN Upserted([mine[j] EXCEPT !.busy = FALSE, !.job = NoJob])
                 ELSE Without(mine[j].id)
    /\ Leave(j, "over")
    /\ UNCHANGED poolEnv

\* A warm lease becomes idle, a cold one is deleted.
Free(j) ==
    /\ InPool(j, "free")
    /\ leases' = IF mine[j].warm
                 THEN Upserted([mine[j] EXCEPT !.busy = FALSE, !.job = NoJob])
                 ELSE Without(mine[j].id)
    /\ PoolGo(j, "list")
    /\ UNCHANGED <<caller, depth, active, extra, mine, again, poolEnv>>

-----------------------------------------------------------------------------
(* A repository raises.                                                    *)

\* Before the lease is taken the job fails with nothing to put back.
RaiseEarly(j) ==
    /\ \/ gpu[j] \in {"depth", "pick"}
       \/ gpu[j] \in Reconciling /\ caller[j] \in {"before", "tick"}
    /\ Leave(j, "over")
    /\ UNCHANGED astray

\* From the upsert on the except clause puts it back.
RaiseLate(j) ==
    /\ \/ gpu[j] = "take"
       \/ gpu[j] \in Reconciling /\ caller[j] = "after"
    /\ PoolGo(j, "restore")
    /\ UNCHANGED <<caller, depth, active, extra, mine, again, astray>>

\* Mutant of RaiseReleasing: the finally clause does not release.
RaiseOnce(j) ==
    /\ \/ gpu[j] \in {"find", "free"}
       \/ gpu[j] \in Reconciling /\ caller[j] = "release"
    /\ Leave(j, "over")
    /\ UNCHANGED astray

\* An exception out of release_gpu leaves gpu_released FALSE: the finally clause of process_job
\* releases once more.
RaiseReleasing(j) ==
    /\ \/ gpu[j] \in {"find", "free"}
       \/ gpu[j] \in Reconciling /\ caller[j] = "release"
    /\ IF again[j]
       THEN Leave(j, "over") /\ astray' = astray \cup {j}
       ELSE /\ PoolGo(j, "find")
            /\ again' = [again EXCEPT ![j] = TRUE]
            /\ active' = [active EXCEPT ![j] = {}]
            /\ extra' = [extra EXCEPT ![j] = {}]
            /\ mine' = [mine EXCEPT ![j] = NoLease]
            /\ UNCHANGED <<caller, depth, astray>>

\* Nothing follows an exception of the except clause.
RaiseRestoring(j) ==
    /\ gpu[j] = "restore"
    /\ Leave(j, "over")
    /\ astray' = astray \cup {j}

PoolRaise(j) ==
    /\ poolFaults < MaxPoolFaults
    /\ poolFaults' = poolFaults + 1
    /\ RaiseEarly(j) \/ RaiseLate(j) \/ RaiseReleasing(j) \/ RaiseRestoring(j)
    /\ UNCHANGED <<leases, overlaps>>

-----------------------------------------------------------------------------

Reconcile(j) == ListWarm(j) \/ Grow(j) \/ Shrink(j) \/ Relist(j) \/ WriteBack(j)

\* What a worker does in the calls of the pool.
PoolCall(j) ==
    \/ ReadDepth(j) \/ Reconcile(j) \/ Pick(j) \/ Take(j) \/ Restore(j) \/ Find(j) \/ Free(j)
    \/ PoolRaise(j)

PoolNext ==
    \/ \E j \in Job : Enqueue(j) \/ StartJob(j) \/ EndJob(j)
    \/ \E s \in Scheduler : Tick(s)
    \/ \E j \in Party : PoolCall(j)

PoolSpec == PoolInit /\ [][PoolNext]_poolVars

-----------------------------------------------------------------------------
(* Properties.                                                             *)

\* Rows and locals stay within their types, and the rows have distinct worker ids.
PoolTypeOK ==
    /\ leases \subseteq Lease
    /\ \A row, other \in leases : row.id = other.id => row = other
    /\ gpu \in [Party -> PoolStep]
    /\ caller \in [Party -> Caller]
    /\ depth \in [Party -> Nat]
    /\ active \in [Party -> SUBSET Lease] /\ extra \in [Party -> SUBSET Lease]
    /\ mine \in [Party -> Lease]
    /\ again \in [Party -> BOOLEAN]
    /\ poolFaults \in Nat /\ overlaps \in Nat /\ astray \subseteq Job

Holding(j) == {lease \in leases : lease.busy /\ lease.job = j}

\* Between the upsert that takes a lease and the one that frees it.
Occupying(j) ==
    \/ gpu[j] \in {"restore", "run", "find", "free"}
    \/ gpu[j] \in Reconciling /\ caller[j] = "after"

\* A job that runs on a cold instance has it for itself, and the instance is gone when the job
\* is: whatever the other jobs do to the pool meanwhile, no reconciliation touches it.
ColdIsOwn ==
    /\ \A j \in Job : InPool(j, "run") /\ ~mine[j].warm => mine[j].id \in Ids(Holding(j))
    /\ \A lease \in leases : ~lease.warm =>
          /\ lease.busy /\ lease.job \in Job
          /\ Occupying(lease.job) \/ lease.job \in astray

\* Each running job holds one lease and each busy lease names a job that holds it, as long as
\* the jobs have called the pool one after the other.
LeasesMatchJobs ==
    overlaps = 0 =>
       /\ \A j \in Job : InPool(j, "run") => Cardinality(Holding(j)) = 1
       /\ \A lease \in leases : lease.busy =>
             /\ lease.job \in Job
             /\ lease.job \in astray \/ Occupying(lease.job)

\* When every job has ended the pool is back to its minimum, all of it idle, unless a scheduler
\* has had it reconciled for a queue since (the depth it named stays in depth).
PoolSettles ==
    /\ \A j \in Job : InPool(j, "over")
    /\ \A s \in Scheduler : gpu[s] \notin Calling /\ depth[s] = 0
    /\ overlaps = 0 /\ poolFaults = 0
    =>
       Cardinality(leases) = MinWarm /\ \A lease \in leases : IsIdle(lease)
=============================================================================
