----------------------------- MODULE Scheduling -----------------------------
(***************************************************************************)
(* Scheduled jobs: the rows of infra_job that administrators change          *)
(* (src/internal/service/infra/infra_job.go) and the tasks the scheduler of  *)
(* the process holds for them (scheduler.go, jobMap).  The row is committed  *)
(* first; the task follows, or is owed until someone retries or the process  *)
(* restarts.                                                                *)
(***************************************************************************)
EXTENDS Integers, FiniteSets

CONSTANTS Handlers,             \* registered handlers
          Admins,               \* requests of administrators
          MaxJobs,              \* bound on the rows
          MaxSchedulingFaults   \* bound on failed synchronisations and crashes

ASSUME SchedulingAssumption == MaxJobs \in Nat /\ MaxSchedulingFaults \in Nat

VARIABLES job,               \* the rows
          jobMap,            \* the handler each job is scheduled with; {}: not scheduled
          running,           \* the process runs
          owed,              \* history: rows written and not synchronised since
          schedulingFaults,  \* faults so far
          admin              \* what each request holds between two statements

schedulingVars == <<job, jobMap, running, owed, schedulingFaults, admin>>

JobIds == 1..MaxJobs
Exists(j) == job[j].status \in {"normal", "stop"}
NewJob(j) == job[j].status = "none" /\ \A k \in 1..(j - 1) : job[k].status # "none"
Wanted(j) == IF job[j].status = "normal" THEN job[j].handler ELSE {}

AtDesk == [pc |-> "idle", handler |-> {}, jobs |-> {}]
Sit(a, pc, h, js) == admin' = [admin EXCEPT ![a] = [pc |-> pc, handler |-> h, jobs |-> js]]
Rise(a) == admin' = [admin EXCEPT ![a] = AtDesk]

\* Mutant: every mutation for itself.
NoMutex == TRUE
\* JobService.mu, held from the check to the last synchronisation.
MutexFree == \A b \in Admins : admin[b].pc = "idle"
Starts(a) == running /\ admin[a].pc = "idle" /\ MutexFree

SchedulingInit ==
    /\ job = [j \in JobIds |-> [status |-> "none", handler |-> {}]]
    /\ jobMap = [j \in JobIds |-> {}]
    /\ running = TRUE
    /\ owed = {}
    /\ schedulingFaults = 0
    /\ admin = [a \in Admins |-> AtDesk]

\* validateHandlerNameUnique; a deleted row frees its handler.
HandlerNameUnique(h, but) == \A j \in JobIds \ but : Exists(j) => job[j].handler # {h}

ValidateCreate(a, h) ==
    /\ Starts(a)
    /\ HandlerNameUnique(h, {})
    /\ Sit(a, "create", {h}, {})
    /\ UNCHANGED <<job, jobMap, running, owed, schedulingFaults>>

ValidateUpdate(a, j, h) ==
    /\ Starts(a)
    /\ HandlerNameUnique(h, {j})
    /\ Sit(a, "update", {h}, {j})
    /\ UNCHANGED <<job, jobMap, running, owed, schedulingFaults>>

\* A committed write, of rows that are to be synchronised next.
Commit(a, js, status, h) ==
    /\ job' = [j \in JobIds |-> IF j \in js THEN [status |-> status, handler |-> h[j]] ELSE job[j]]
    /\ owed' = owed \cup js
    /\ Sit(a, "sync", {}, js)
    /\ UNCHANGED <<jobMap, running, schedulingFaults>>

Kept == [j \in JobIds |-> job[j].handler]

CreateJob(a, j) ==
    /\ admin[a].pc = "create"
    /\ NewJob(j)
    /\ Commit(a, {j}, "normal", [Kept EXCEPT ![j] = admin[a].handler])

\* Only a job that is enabled is changed.
UpdateJob(a, j) ==
    /\ admin[a].pc = "update" /\ admin[a].jobs = {j}
    /\ IF job[j].status = "normal"
       THEN Commit(a, {j}, "normal", [Kept EXCEPT ![j] = admin[a].handler])
       ELSE Rise(a) /\ UNCHANGED <<job, jobMap, running, owed, schedulingFaults>>

\* The check or the write fails, and nothing is committed.  A write that is committed
\* and whose answer is lost is not synchronised: its own step, and SyncJobFails.
JobWriteFails(a) ==
    /\ admin[a].pc \in {"create", "update"}
    /\ Rise(a)
    /\ UNCHANGED <<job, jobMap, running, owed, schedulingFaults>>

UpdateJobStatus(a, j, status) ==
    /\ Starts(a)
    /\ Exists(j)
    /\ Commit(a, {j}, status, Kept)

DeleteJobList(a, js) ==
    /\ Starts(a)
    /\ js # {} /\ \A j \in js : Exists(j)
    /\ Commit(a, js, "deleted", Kept)

\* The retry of an administrator: every row, deleted ones included.
SyncAll(a) ==
    LET rows == {j \in JobIds : job[j].status # "none"} IN
    /\ Starts(a)
    /\ rows # {}
    /\ Sit(a, "sync", {}, rows)
    /\ UNCHANGED <<job, jobMap, running, owed, schedulingFaults>>

\* An error is joined to the result, and the next row has its turn.
NextRow(a, j) ==
    LET rest == admin[a].jobs \ {j} IN
    IF rest = {} THEN Rise(a) ELSE Sit(a, "sync", {}, rest)

\* Scheduler.SyncJob: read the row under the scheduler's mutex and apply it.
SyncJob(a, j) ==
    /\ admin[a].pc = "sync" /\ j \in admin[a].jobs
    /\ jobMap' = [jobMap EXCEPT ![j] = Wanted(j)]
    /\ owed' = owed \ {j}
    /\ NextRow(a, j)
    /\ UNCHANGED <<job, running, schedulingFaults>>

\* It fails before the old task is removed, or after it.
SyncJobFails(a, j) ==
    /\ admin[a].pc = "sync" /\ j \in admin[a].jobs
    /\ schedulingFaults < MaxSchedulingFaults
    /\ schedulingFaults' = schedulingFaults + 1
    /\ jobMap' \in {jobMap, [jobMap EXCEPT ![j] = {}]}
    /\ owed' = owed \cup {j}
    /\ NextRow(a, j)
    /\ UNCHANGED <<job, running>>

ProcessDies ==
    /\ running /\ schedulingFaults < MaxSchedulingFaults
    /\ running' = FALSE
    /\ schedulingFaults' = schedulingFaults + 1
    /\ jobMap' = [j \in JobIds |-> {}]
    /\ admin' = [a \in Admins |-> AtDesk]
    /\ UNCHANGED <<job, owed>>

\* Start reads the enabled rows; the process does not come up if one fails.
StartScheduler ==
    /\ ~running
    /\ running' = TRUE
    /\ jobMap' = [j \in JobIds |-> Wanted(j)]
    /\ owed' = {}
    /\ UNCHANGED <<job, schedulingFaults, admin>>

SchedulingNext ==
    \/ \E a \in Admins :
          \/ \E h \in Handlers : ValidateCreate(a, h)
          \/ \E j \in JobIds, h \in Handlers : ValidateUpdate(a, j, h)
          \/ \E j \in JobIds : CreateJob(a, j) \/ UpdateJob(a, j) \/ SyncJob(a, j) \/ SyncJobFails(a, j)
          \/ \E j \in JobIds, status \in {"normal", "stop"} : UpdateJobStatus(a, j, status)
          \/ \E js \in SUBSET JobIds : DeleteJobList(a, js)
          \/ SyncAll(a) \/ JobWriteFails(a)
    \/ ProcessDies
    \/ StartScheduler

SchedulingSpec == SchedulingInit /\ [][SchedulingNext]_schedulingVars

-----------------------------------------------------------------------------
SchedulingTypeOK ==
    /\ job \in [JobIds -> [status : {"none", "normal", "stop", "deleted"}, handler : SUBSET Handlers]]
    /\ jobMap \in [JobIds -> SUBSET Handlers]
    /\ running \in BOOLEAN
    /\ owed \subseteq JobIds
    /\ schedulingFaults \in 0..MaxSchedulingFaults
    /\ admin \in [Admins -> [pc : {"idle", "create", "update", "sync"}, handler : SUBSET Handlers,
                             jobs : SUBSET JobIds]]

(* What is scheduled is what the row says, unless the synchronisation of     *)
(* that very job is under way or has failed: no other job loses its task, no *)
(* task outlives its job, and a restart pays every debt (scheduler.go:       *)
(* SyncJob, infra_job.go: syncJob).                                         *)
ScheduleFollowsRows == running => \A j \in JobIds \ owed : jobMap[j] = Wanted(j)

(* No two jobs run the same handler: the check and the insert are two        *)
(* statements, and the table has no unique index (infra_job.go:158).        *)
HandlersUnique ==
    \A j, k \in JobIds : Exists(j) /\ Exists(k) /\ job[j].handler = job[k].handler => j = k

(* Nothing is owed but what a fault interrupted or a request still works on. *)
OwedIsExplained ==
    running /\ schedulingFaults = 0 => \A j \in owed : \E a \in Admins : j \in admin[a].jobs

(* Together: tasks, rows and handlers agree.                                *)
ScheduleSettled == SchedulingTypeOK /\ ScheduleFollowsRows /\ HandlersUnique /\ OwedIsExplained
=============================================================================
