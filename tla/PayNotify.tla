------------------------------ MODULE PayNotify ------------------------------
(***************************************************************************)
(* Delivery of the notification tasks written by PayOrder and PayRefund     *)
(* (src/internal/service/pay/notify.go, notify_lock.go).  A worker is one   *)
(* run of payNotifyJob: the scheduler lets runs overlap and an              *)
(* administrator starts more, on any server.  A run lists the due tasks,    *)
(* then takes them one after the other under a Redis lock with a TTL.       *)
(*                                                                         *)
(* Times of the day are abstracted: `due' says next_notify_time is past.    *)
(***************************************************************************)
EXTENDS Integers

CONSTANTS Tasks,           \* at most 20: the LIMIT of ExecuteNotify never cuts
          Workers,         \* runs of payNotifyJob at the same time
          MaxNotifyTimes,  \* pay_notify_task.max_notify_times
          MaxFaults,       \* bound on crashes, errors and cancelled contexts
          MayStall         \* can a live worker outlast the TTL of its lock?

ASSUME PayNotifyAssumption ==
          /\ "none" \notin Workers /\ "none" \notin Tasks
          /\ MaxNotifyTimes \in Nat \ {0}
          /\ MaxFaults \in Nat
          /\ MayStall \in BOOLEAN

VARIABLES task,      \* the pay_notify_task rows
          logs,      \* the number of pay_notify_log rows of each task
          lock,      \* the Redis key of each task: its owner or "none"
          sent,      \* how many requests the merchant got for each task
          accepted,  \* whether the merchant has processed one of them
          faults,    \* crashes, errors and cancelled contexts so far
          local      \* what each worker holds between two of its steps

vars == <<task, logs, lock, sent, accepted, faults, local>>

Status == {"none", "waiting", "success", "failure"}
Idle == [pc |-> "idle", todo |-> {}, task |-> "none",
         seen |-> [t \in Tasks |-> 0], times |-> 0, ok |-> FALSE]

\* Inside PayNotifyLock.Lock for t.
Holding(w, t) == /\ local[w].pc \in {"reread", "invoke", "record", "unlock"}
                 /\ local[w].task = t

Goto(w, l) == local' = [local EXCEPT ![w] = l]
Advance(w, pc) == Goto(w, [local[w] EXCEPT !.pc = pc])

Init == /\ task = [t \in Tasks |-> [status |-> "none", times |-> 0, due |-> FALSE]]
        /\ logs = [t \in Tasks |-> 0]
        /\ lock = [t \in Tasks |-> "none"]
        /\ sent = [t \in Tasks |-> 0]
        /\ accepted = [t \in Tasks |-> FALSE]
        /\ faults = 0
        /\ local = [w \in Workers |-> Idle]

-----------------------------------------------------------------------------
\* Part of the transactions of PayOrder and PayRefund.
CreatePayNotifyTask(t) ==
    /\ task[t].status = "none"
    /\ task' = [task EXCEPT ![t] = [status |-> "waiting", times |-> 0, due |-> TRUE]]
    /\ UNCHANGED <<logs, lock, sent, accepted, faults, local>>

TimePasses(t) ==
    /\ task[t].status = "waiting" /\ ~task[t].due
    /\ task' = [task EXCEPT ![t].due = TRUE]
    /\ UNCHANGED <<logs, lock, sent, accepted, faults, local>>

-----------------------------------------------------------------------------
(* ExecuteNotify *)
Due(t) == task[t].status = "waiting" /\ task[t].due

Batch(todo, seen) == [Idle EXCEPT !.pc = "batch", !.todo = todo, !.seen = seen]

ListTasks(w) ==
    LET due == {t \in Tasks : Due(t)} IN
    /\ local[w].pc = "idle" /\ due # {}
    /\ Goto(w, Batch(due, [t \in Tasks |-> task[t].times]))
    /\ UNCHANGED <<task, logs, lock, sent, accepted, faults>>

\* What is left of the batch once a task has been dealt with.
Rest(l) == IF l.todo = {} THEN Idle ELSE Batch(l.todo, l.seen)

\* Mutant of SETNX: SET, which takes the lock from its holder.
LockOverwritten(t) == TRUE
LockFree(t) == lock[t] = "none"

\* The order by next_notify_time is left open.  A lock that is held is an
\* error of this task only.
TryLock(w, t) ==
    /\ local[w].pc = "batch" /\ t \in local[w].todo
    /\ LET l == [local[w] EXCEPT !.todo = @ \ {t}] IN
       IF LockFree(t)
       THEN /\ lock' = [lock EXCEPT ![t] = w]
            /\ Goto(w, [l EXCEPT !.pc = "reread", !.task = t])
       ELSE /\ Goto(w, Rest(l))
            /\ UNCHANGED lock
    /\ UNCHANGED <<task, logs, sent, accepted, faults>>

\* Mutant: the task is not compared with what the list showed.
AnyTimes(l) == TRUE
SameTimes(l) == task[l.task].times = l.seen[l.task]

Reread(w) ==
    LET l == local[w] IN
    /\ l.pc = "reread"
    /\ Goto(w, IF SameTimes(l)
               THEN [l EXCEPT !.pc = "invoke", !.times = task[l.task].times]
               ELSE [l EXCEPT !.pc = "unlock"])
    /\ UNCHANGED <<task, logs, lock, sent, accepted, faults>>

\* The answer of a merchant that has processed the notification may be lost.
NotifyAnswers(processed) == IF processed THEN BOOLEAN ELSE {FALSE}

InvokeNotify(w) ==
    LET t == local[w].task IN
    /\ local[w].pc = "invoke"
    /\ \E processed \in BOOLEAN : \E ok \in NotifyAnswers(processed) :
          /\ accepted' = [accepted EXCEPT ![t] = @ \/ processed]
          /\ Goto(w, [local[w] EXCEPT !.pc = "record", !.ok = ok])
    /\ sent' = [sent EXCEPT ![t] = @ + 1]
    /\ UNCHANGED <<task, logs, lock, faults>>

\* Mutant: off by one.
OneAttemptLess(times) == times + 1 >= MaxNotifyTimes
Exhausted(times) == times >= MaxNotifyTimes

\* The whole row is written by id, from the copy read under the lock.
Notified(l) ==
    LET times == l.times + 1 IN
    [status |-> IF l.ok THEN "success" ELSE IF Exhausted(times) THEN "failure" ELSE "waiting",
     times |-> times, due |-> FALSE]

LogCreated(t) == [logs EXCEPT ![t] = @ + 1]

Record(w) ==
    LET l == local[w] IN
    /\ l.pc = "record"
    /\ task' = [task EXCEPT ![l.task] = Notified(l)]
    /\ logs' = LogCreated(l.task)
    /\ Advance(w, "unlock")
    /\ UNCHANGED <<lock, sent, accepted, faults>>

\* Compare-and-delete: a key somebody else owns by now stays.
Release(w, t) == IF lock[t] = w THEN [lock EXCEPT ![t] = "none"] ELSE lock

Unlock(w) ==
    /\ local[w].pc = "unlock"
    /\ lock' = Release(w, local[w].task)
    /\ Goto(w, Rest(local[w]))
    /\ UNCHANGED <<task, logs, sent, accepted, faults>>

-----------------------------------------------------------------------------
(* Faults.  A crash leaves the key in Redis until its TTL is over, and so   *)
(* does a release that fails; any other error, and a cancelled context,     *)
(* still runs the deferred release.                                         *)
Crash(w) ==
    /\ faults < MaxFaults /\ local[w].pc # "idle"
    /\ faults' = faults + 1
    /\ Goto(w, Idle)
    /\ UNCHANGED <<task, logs, lock, sent, accepted>>

Error(w) ==
    /\ faults < MaxFaults /\ local[w].pc \in {"reread", "invoke", "record"}
    /\ faults' = faults + 1
    /\ Advance(w, "unlock")
    /\ UNCHANGED <<task, logs, lock, sent, accepted>>

ReleaseFails(w) ==
    /\ faults < MaxFaults /\ local[w].pc = "unlock"
    /\ faults' = faults + 1
    /\ Goto(w, Rest(local[w]))
    /\ UNCHANGED <<task, logs, lock, sent, accepted>>

\* Mutant: a key without a TTL.
NeverExpires(t) == FALSE /\ UNCHANGED vars

LockExpires(t) ==
    /\ lock[t] # "none"
    /\ MayStall \/ ~\E w \in Workers : lock[t] = w /\ Holding(w, t)
    /\ lock' = [lock EXCEPT ![t] = "none"]
    /\ UNCHANGED <<task, logs, sent, accepted, faults, local>>

-----------------------------------------------------------------------------
Run(w) == \/ \E t \in Tasks : TryLock(w, t)
          \/ Reread(w) \/ InvokeNotify(w) \/ Record(w) \/ Unlock(w)

Next == \/ \E t \in Tasks : CreatePayNotifyTask(t) \/ TimePasses(t) \/ LockExpires(t)
        \/ \E w \in Workers : ListTasks(w) \/ Run(w) \/ Crash(w) \/ Error(w) \/ ReleaseFails(w)

Spec == Init /\ [][Next]_vars

\* A started run goes on, cron starts one of them again and again, time passes,
\* a TTL ends.
Fairness == /\ \A w \in Workers : WF_vars(Run(w)) /\ WF_vars(ListTasks(w))
            /\ \A t \in Tasks : WF_vars(TimePasses(t)) /\ WF_vars(LockExpires(t))

FairSpec == Spec /\ Fairness

-----------------------------------------------------------------------------
LocalState == [pc : {"idle", "batch", "reread", "invoke", "record", "unlock"},
               todo : SUBSET Tasks, task : Tasks \cup {"none"},
               seen : [Tasks -> 0..MaxNotifyTimes],
               times : 0..MaxNotifyTimes, ok : BOOLEAN]

\* The counter never passes max_notify_times, so that NotifyFrequency[times - 1]
\* is always inside the table.
TypeOK == /\ task \in [Tasks -> [status : Status, times : 0..MaxNotifyTimes, due : BOOLEAN]]
          /\ logs \in [Tasks -> Nat]
          /\ lock \in [Tasks -> Workers \cup {"none"}]
          /\ sent \in [Tasks -> Nat]
          /\ accepted \in [Tasks -> BOOLEAN]
          /\ faults \in 0..MaxFaults
          /\ local \in [Workers -> LocalState]

\* A task is SUCCESS only when the merchant has processed the notification, also
\* when a worker outlasts its lock (notify.go: isNotifySuccess, executeNotifyTask).
SuccessIsDelivered == \A t \in Tasks : task[t].status = "success" => accepted[t]

\* FAILURE means that every attempt the retry table allows was made and logged
\* (notify.go: executeNotifyTask).
FailureIsExhausted ==
    \A t \in Tasks : task[t].status = "failure" => /\ task[t].times = MaxNotifyTimes
                                                   /\ logs[t] >= MaxNotifyTimes

\* Counter and log tell the same story: the transaction around them is not
\* torn and no overlapping run overwrites the counter of another.
LogPerAttempt == \A t \in Tasks : logs[t] = task[t].times

\* Only one worker at a time works on what a task shows (notify_lock.go).
OneSender == \A t \in Tasks : \A w, v \in Workers : Holding(w, t) /\ Holding(v, t) => w = v

Sending(t) == \E w \in Workers : Holding(w, t) /\ local[w].pc = "record"

\* The merchant gets one request per counted attempt, plus the one under way,
\* plus at most one for every crash or error between request and commit
\* (notify.go: the comparison of NotifyTimes under the lock; docs/decisions.md:70).
ReplaysOnlyAfterFaults ==
    \A t \in Tasks :
        sent[t] <= task[t].times + faults + (IF Sending(t) THEN 1 ELSE 0)

\* Together: what a task says of itself has happened, also when workers outlast
\* their locks.
TaskExplained == TypeOK /\ SuccessIsDelivered /\ FailureIsExhausted

\* Together: while the locks hold, requests, attempts and log rows are counted
\* alike, whoever crashes.
AttemptsCounted == OneSender /\ LogPerAttempt /\ ReplaysOnlyAfterFaults

\* SUCCESS and FAILURE are final: no overlapping or delayed run wakes the task.
FinalStays == [][\A t \in Tasks : task[t].status \in {"success", "failure"}
                                     => task'[t] = task[t]]_vars

\* Every task is delivered or given up, whatever crashes leave behind in Redis.
TaskSettles == \A t \in Tasks : task[t].status = "waiting"
                                  ~> task[t].status \in {"success", "failure"}

=============================================================================
