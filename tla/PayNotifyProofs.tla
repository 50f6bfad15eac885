-------------------------- MODULE PayNotifyProofs --------------------------
(***************************************************************************)
(* What holds of PayNotify for every number of tasks, workers and attempts. *)
(* BInv holds whether or not a worker can outlast its lock: what a worker   *)
(* carries (Good) bounds what it may write.  IInv adds what the lock gives  *)
(* when it cannot: the holder is alone (Owned), and what it has read of the *)
(* task is still true when it writes (Fresh).                               *)
(***************************************************************************)
EXTENDS PayNotify, TLAPS

Locking == {"reread", "invoke", "record", "unlock"}

\* t is in the batch of a worker whose local state is l, or being dealt with.
Mine(l, t) == t \in l.todo \/ t = l.task

Good(l) == /\ l.pc \in Locking => l.task \in Tasks
           /\ \A t \in Tasks : Mine(l, t) => l.seen[t] < MaxNotifyTimes /\ l.seen[t] <= logs[t]
           /\ l.pc \in {"invoke", "record"} => l.times = l.seen[l.task]
           /\ l.pc = "record" /\ l.ok => accepted[l.task]

Rows == \A t \in Tasks : /\ task[t].status = "waiting" => task[t].times < MaxNotifyTimes
                         /\ task[t].status = "failure" => task[t].times = MaxNotifyTimes
                         /\ task[t].times <= logs[t]

BInv == /\ TypeOK
        /\ Rows
        /\ SuccessIsDelivered
        /\ \A w \in Workers : Good(local[w])

Owned == \A w \in Workers, t \in Tasks : Holding(w, t) => lock[t] = w

Fresh(l) == /\ \A t \in Tasks : Mine(l, t) =>
                  /\ task[t].status # "none" /\ l.seen[t] <= task[t].times
                  /\ l.seen[t] = task[t].times => task[t].status = "waiting"
            /\ l.pc \in {"invoke", "record"} => task[l.task].times = l.seen[l.task]

Uncreated == \A t \in Tasks : task[t].status = "none" => task[t].times = 0

IInv == /\ Owned /\ Uncreated
        /\ \A w \in Workers : Fresh(local[w])
        /\ LogPerAttempt
        /\ ReplaysOnlyAfterFaults

-----------------------------------------------------------------------------
LEMMA IdleTyped == /\ Idle \in LocalState
                   /\ Idle.pc = "idle" /\ Idle.todo = {} /\ Idle.task = "none" /\ Idle.ok = FALSE
BY PayNotifyAssumption DEF Idle, LocalState

LEMMA IdleMine == \A t \in Tasks : ~Mine(Idle, t)
BY IdleTyped, PayNotifyAssumption DEF Mine

LEMMA GotoTyped ==
    ASSUME local \in [Workers -> LocalState], NEW w \in Workers, NEW l \in LocalState, Goto(w, l)
    PROVE  /\ local' \in [Workers -> LocalState]
           /\ local'[w] = l
           /\ \A v \in Workers : v # w => local'[v] = local[v]
BY DEF Goto

LEMMA BatchTyped ==
    ASSUME NEW todo \in SUBSET Tasks, NEW seen \in [Tasks -> 0..MaxNotifyTimes]
    PROVE  /\ Batch(todo, seen) \in LocalState
           /\ Batch(todo, seen).pc = "batch" /\ Batch(todo, seen).todo = todo
           /\ Batch(todo, seen).seen = seen /\ Batch(todo, seen).task = "none"
<1>1. Idle \in LocalState /\ Idle.task = "none"
  BY IdleTyped
<1>2. Batch(todo, seen) \in LocalState
  BY <1>1 DEF Batch, LocalState
<1> QED BY <1>1, <1>2 DEF Batch, LocalState

(* What is left of a batch carries over what was listed.                    *)
LEMMA RestTyped ==
    ASSUME NEW l \in LocalState
    PROVE  /\ Rest(l) \in LocalState
           /\ Rest(l).pc \in {"idle", "batch"}
           /\ \A t \in Tasks : Mine(Rest(l), t) => t \in l.todo /\ Rest(l).seen[t] = l.seen[t]
<1>1. CASE l.todo = {}
  BY <1>1, IdleTyped, IdleMine DEF Rest
<1>2. CASE l.todo # {}
  <2>1. l.todo \in SUBSET Tasks /\ l.seen \in [Tasks -> 0..MaxNotifyTimes]
    BY DEF LocalState
  <2>2. Rest(l) = Batch(l.todo, l.seen)
    BY <1>2 DEF Rest
  <2> QED BY <2>1, <2>2, BatchTyped, PayNotifyAssumption DEF Mine
<1> QED BY <1>1, <1>2

(* A worker that moves on to where only its pc differs.                     *)
LEMMA AdvanceTyped ==
    ASSUME NEW l \in LocalState, NEW pc \in Locking
    PROVE  /\ [l EXCEPT !.pc = pc] \in LocalState
           /\ [l EXCEPT !.pc = pc].pc = pc /\ [l EXCEPT !.pc = pc].todo = l.todo
           /\ [l EXCEPT !.pc = pc].task = l.task /\ [l EXCEPT !.pc = pc].seen = l.seen
           /\ [l EXCEPT !.pc = pc].times = l.times /\ [l EXCEPT !.pc = pc].ok = l.ok
BY DEF LocalState, Locking

(* A step of one worker that touches no task and no log keeps BInv when the *)
(* worker ends in a good state.                                             *)
LEMMA LocalStep ==
    ASSUME BInv, NEW w \in Workers, NEW l \in LocalState, Goto(w, l), Good(l),
           lock' \in [Tasks -> Workers \cup {"none"}], faults' \in 0..MaxFaults,
           UNCHANGED <<task, logs, sent, accepted>>
    PROVE  BInv'
<1>1. /\ local' \in [Workers -> LocalState]
      /\ local'[w] = l
      /\ \A v \in Workers : v # w => local'[v] = local[v]
  BY GotoTyped DEF BInv, TypeOK
<1>2. TypeOK'
  BY <1>1 DEF BInv, TypeOK
<1>3. Rows' /\ SuccessIsDelivered'
  BY DEF BInv, Rows, SuccessIsDelivered
<1>4. ASSUME NEW v \in Workers PROVE Good(local[v])'
  BY <1>1, <1>4 DEF BInv, Good, Mine
<1> QED BY <1>2, <1>3, <1>4 DEF BInv

(* Logs and what the merchant processed only grow: a good state stays good. *)
LEMMA GoodStep ==
    ASSUME NEW l \in LocalState, Good(l),
           \A t \in Tasks : logs[t] \in Nat /\ logs'[t] \in Nat /\ logs[t] <= logs'[t],
           \A t \in Tasks : accepted[t] => accepted'[t]
    PROVE  Good(l)'
<1>1. \A t \in Tasks : l.seen[t] \in Nat
  BY DEF LocalState
<1>2. \A t \in Tasks : l.seen[t] <= logs[t] => l.seen[t] <= logs'[t]
  BY <1>1
<1> QED BY <1>2 DEF Good, Mine, Locking

LEMMA RestGood ==
    ASSUME NEW l \in LocalState,
           \A t \in Tasks : t \in l.todo => l.seen[t] < MaxNotifyTimes /\ l.seen[t] <= logs[t]
    PROVE  Good(Rest(l))
BY RestTyped DEF Good, Locking

LEMMA IdleGood == Good(Idle)
BY IdleTyped, IdleMine DEF Good, Locking

-----------------------------------------------------------------------------
LEMMA InitBase == Init => BInv
<1> SUFFICES ASSUME Init PROVE BInv
  OBVIOUS
<1>1. TypeOK
  BY PayNotifyAssumption, IdleTyped DEF Init, TypeOK, Status
<1>2. Rows /\ SuccessIsDelivered
  BY DEF Init, Rows, SuccessIsDelivered
<1>3. \A w \in Workers : Good(local[w])
  BY IdleGood DEF Init
<1> QED BY <1>1, <1>2, <1>3 DEF BInv

LEMMA ListBase ==
    ASSUME BInv, NEW w \in Workers, ListTasks(w)
    PROVE  BInv'
<1> DEFINE due == {t \in Tasks : Due(t)}
           seen == [t \in Tasks |-> task[t].times]
           l == Batch(due, seen)
<1>1. Goto(w, l) /\ UNCHANGED <<task, logs, lock, sent, accepted, faults>>
  BY DEF ListTasks
<1>2. seen \in [Tasks -> 0..MaxNotifyTimes] /\ due \in SUBSET Tasks
  BY DEF BInv, TypeOK
<1>3. /\ l \in LocalState
      /\ l.pc = "batch" /\ l.todo = due /\ l.task = "none" /\ l.seen = seen
  <2> HIDE DEF due, seen
  <2> QED BY <1>2, BatchTyped
<1>4. \A t \in Tasks : Mine(l, t) => task[t].status = "waiting" /\ l.seen[t] = task[t].times
  <2> HIDE DEF l
  <2> QED BY <1>3, PayNotifyAssumption DEF Mine, Due
<1>5. Good(l)
  <2> HIDE DEF l
  <2> QED BY <1>3, <1>4 DEF Good, Locking, BInv, Rows
<1>6. lock' \in [Tasks -> Workers \cup {"none"}] /\ faults' \in 0..MaxFaults
  BY <1>1 DEF BInv, TypeOK
<1> HIDE DEF l
<1> QED BY <1>1, <1>3, <1>5, <1>6, LocalStep

LEMMA TryLockBase ==
    ASSUME BInv, NEW w \in Workers, NEW t \in Tasks, TryLock(w, t)
    PROVE  BInv'
<1> DEFINE m == [local[w] EXCEPT !.todo = @ \ {t}]
           l == [m EXCEPT !.pc = "reread", !.task = t]
<1>1. local[w] \in LocalState /\ Good(local[w]) /\ t \in local[w].todo
  BY DEF BInv, TypeOK, TryLock
<1>2. m \in LocalState /\ m.todo = local[w].todo \ {t} /\ m.seen = local[w].seen
  BY <1>1 DEF LocalState
<1>3. l \in LocalState /\ l.pc = "reread" /\ l.task = t /\ l.todo = local[w].todo \ {t} /\ l.seen = local[w].seen
  <2> HIDE DEF m
  <2> QED BY <1>2 DEF LocalState
<1>4. UNCHANGED <<task, logs, sent, accepted, faults>>
  BY DEF TryLock
<1>5. \/ Goto(w, l) /\ lock' = [lock EXCEPT ![t] = w]
      \/ Goto(w, Rest(m)) /\ UNCHANGED lock
  BY DEF TryLock
<1> HIDE DEF m, l
<1>6. Good(l)
  BY <1>1, <1>3 DEF Good, Locking, Mine
<1>7. Good(Rest(m)) /\ Rest(m) \in LocalState
  BY <1>1, <1>2, RestGood, RestTyped DEF Good, Mine
<1>8. lock' \in [Tasks -> Workers \cup {"none"}]
  BY <1>5 DEF BInv, TypeOK
<1>9. faults' \in 0..MaxFaults
  BY <1>4 DEF BInv, TypeOK
<1> QED BY <1>3, <1>4, <1>5, <1>6, <1>7, <1>8, <1>9, LocalStep

LEMMA RereadBase ==
    ASSUME BInv, NEW w \in Workers, Reread(w)
    PROVE  BInv'
<1>1. local[w] \in LocalState /\ Good(local[w]) /\ local[w].pc = "reread"
  BY DEF BInv, TypeOK, Reread
<1>2. local[w].task \in Tasks
  BY <1>1 DEF Good, Locking
<1> DEFINE l == [local[w] EXCEPT !.pc = "invoke", !.times = task[local[w].task].times]
           u == [local[w] EXCEPT !.pc = "unlock"]
<1>3. UNCHANGED <<task, logs, lock, sent, accepted, faults>>
  BY DEF Reread
<1>4. \/ Goto(w, l) /\ SameTimes(local[w])
      \/ Goto(w, u)
  BY DEF Reread
<1>5. task[local[w].task].times \in 0..MaxNotifyTimes
  BY <1>2 DEF BInv, TypeOK
<1>6. /\ l \in LocalState /\ l.pc = "invoke" /\ l.times = task[local[w].task].times
      /\ l.task = local[w].task /\ l.todo = local[w].todo /\ l.seen = local[w].seen
  BY <1>1, <1>5 DEF LocalState
<1>7. /\ u \in LocalState /\ u.pc = "unlock" /\ u.task = local[w].task
      /\ u.todo = local[w].todo /\ u.seen = local[w].seen
  BY <1>1, AdvanceTyped DEF Locking
<1> HIDE DEF l, u
<1>8. SameTimes(local[w]) => Good(l)
  BY <1>1, <1>6 DEF Good, Locking, Mine, SameTimes
<1>9. Good(u)
  BY <1>1, <1>7 DEF Good, Locking, Mine
<1>10. lock' \in [Tasks -> Workers \cup {"none"}] /\ faults' \in 0..MaxFaults
  BY <1>3 DEF BInv, TypeOK
<1> QED BY <1>3, <1>4, <1>6, <1>7, <1>8, <1>9, <1>10, LocalStep

LEMMA InvokeBase ==
    ASSUME BInv, NEW w \in Workers, InvokeNotify(w)
    PROVE  BInv'
<1>1. local[w] \in LocalState /\ Good(local[w]) /\ local[w].pc = "invoke"
  BY DEF BInv, TypeOK, InvokeNotify
<1>2. local[w].task \in Tasks
  BY <1>1 DEF Good, Locking
<1>0. PICK processed \in BOOLEAN : \E ok \in NotifyAnswers(processed) :
         /\ accepted' = [accepted EXCEPT ![local[w].task] = @ \/ processed]
         /\ Goto(w, [local[w] EXCEPT !.pc = "record", !.ok = ok])
  BY DEF InvokeNotify
<1>3. PICK ok \in NotifyAnswers(processed) :
         /\ accepted' = [accepted EXCEPT ![local[w].task] = @ \/ processed]
         /\ Goto(w, [local[w] EXCEPT !.pc = "record", !.ok = ok])
  BY <1>0
<1>4. ok \in BOOLEAN /\ (ok => processed)
  BY <1>3 DEF NotifyAnswers
<1>5. [local[w] EXCEPT !.pc = "record", !.ok = ok] \in LocalState
  BY <1>1, <1>4 DEF LocalState
<1>6. PICK l \in LocalState : l = [local[w] EXCEPT !.pc = "record", !.ok = ok]
  BY <1>5
<1>7. /\ l.pc = "record" /\ l.ok = ok /\ l.times = local[w].times
      /\ l.task = local[w].task /\ l.todo = local[w].todo /\ l.seen = local[w].seen
  BY <1>1, <1>6 DEF LocalState
<1>8. /\ local' \in [Workers -> LocalState]
      /\ local'[w] = l
      /\ \A v \in Workers : v # w => local'[v] = local[v]
  BY <1>3, <1>6, GotoTyped DEF BInv, TypeOK
<1>9. UNCHANGED <<task, logs, lock, faults>> /\ sent' = [sent EXCEPT ![local[w].task] = @ + 1]
  BY DEF InvokeNotify
<1>10. /\ accepted' \in [Tasks -> BOOLEAN]
       /\ \A t \in Tasks : accepted[t] => accepted'[t]
       /\ processed => accepted'[local[w].task]
  <2>1. accepted \in [Tasks -> BOOLEAN]
    BY DEF BInv, TypeOK
  <2>2. accepted' = [accepted EXCEPT ![local[w].task] = accepted[local[w].task] \/ processed]
    BY <1>3
  <2> QED BY <1>2, <2>1, <2>2, Zenon
<1>11. TypeOK'
  <2>1. sent' \in [Tasks -> Nat]
    BY <1>2, <1>9 DEF BInv, TypeOK
  <2> QED BY <2>1, <1>8, <1>9, <1>10 DEF BInv, TypeOK
<1>12. Rows' /\ SuccessIsDelivered'
  BY <1>9, <1>10 DEF BInv, Rows, SuccessIsDelivered
<1>13. \A t \in Tasks : logs[t] \in Nat /\ logs'[t] \in Nat /\ logs[t] <= logs'[t]
  BY <1>9 DEF BInv, TypeOK
<1>14. Good(l)'
  <2>1. /\ \A t \in Tasks : Mine(l, t) => l.seen[t] < MaxNotifyTimes /\ l.seen[t] <= logs[t]
        /\ l.times = l.seen[l.task]
    BY <1>1, <1>7 DEF Good, Mine
  <2>2. l.ok => accepted'[l.task]
    BY <1>4, <1>7, <1>10
  <2> QED BY <1>2, <1>7, <1>9, <2>1, <2>2 DEF Good, Mine
<1>15. ASSUME NEW v \in Workers PROVE Good(local[v])'
  <2>1. CASE v = w
    BY <1>8, <1>14, <2>1 DEF Good, Mine
  <2>2. CASE v # w
    <3>1. PICK m \in LocalState : m = local[v]
      BY DEF BInv, TypeOK
    <3>2. Good(m) /\ local'[v] = m
      BY <1>8, <2>2, <3>1 DEF BInv
    <3>3. Good(m)'
      BY <3>2, <1>10, <1>13, GoodStep
    <3> QED BY <3>2, <3>3 DEF Good, Mine
  <2> QED BY <2>1, <2>2
<1> QED BY <1>11, <1>12, <1>15 DEF BInv

(* A worker writes what follows from the count it listed, which was below   *)
(* the maximum.                                                             *)
LEMMA NotifiedTyped ==
    ASSUME NEW l \in LocalState, l.times < MaxNotifyTimes
    PROVE  /\ Notified(l) \in [status : Status, times : 0..MaxNotifyTimes, due : BOOLEAN]
           /\ Notified(l).times = l.times + 1
           /\ Notified(l).status # "none"
           /\ Notified(l).status = "success" => l.ok
           /\ Notified(l).status = "waiting" => l.times + 1 < MaxNotifyTimes
           /\ Notified(l).status = "failure" => l.times + 1 = MaxNotifyTimes
<1>1. l.times \in 0..MaxNotifyTimes /\ l.ok \in BOOLEAN
  BY DEF LocalState
<1>2. l.times + 1 \in 0..MaxNotifyTimes
  BY <1>1, PayNotifyAssumption
<1>3. Exhausted(l.times + 1) <=> l.times + 1 = MaxNotifyTimes
  BY <1>1, PayNotifyAssumption DEF Exhausted
<1> QED BY <1>1, <1>2, <1>3, PayNotifyAssumption DEF Notified, Status

LEMMA RecordBase ==
    ASSUME BInv, NEW w \in Workers, Record(w)
    PROVE  BInv'
<1>1. local[w] \in LocalState /\ Good(local[w]) /\ local[w].pc = "record"
  BY DEF BInv, TypeOK, Record
<1>2. PICK t \in Tasks : t = local[w].task
  BY <1>1 DEF Good, Locking
<1>3. local[w].times < MaxNotifyTimes /\ local[w].times <= logs[t] /\ local[w].times \in Nat
  BY <1>1, <1>2 DEF Good, Mine, LocalState
<1>0. [local[w] EXCEPT !.pc = "unlock"] \in LocalState
  BY <1>1, AdvanceTyped DEF Locking
<1>u. PICK u \in LocalState : u = [local[w] EXCEPT !.pc = "unlock"]
  BY <1>0
<1>n. PICK n : n = Notified(local[w])
  OBVIOUS
<1>4. /\ task' = [task EXCEPT ![t] = n] /\ logs' = [logs EXCEPT ![t] = @ + 1]
      /\ Goto(w, u) /\ UNCHANGED <<lock, sent, accepted, faults>>
  BY <1>2, <1>u, <1>n DEF Record, LogCreated, Advance
<1>5. /\ n \in [status : Status, times : 0..MaxNotifyTimes, due : BOOLEAN]
      /\ n.times = local[w].times + 1
      /\ n.status = "success" => local[w].ok
      /\ n.status = "waiting" => local[w].times + 1 < MaxNotifyTimes
      /\ n.status = "failure" => local[w].times + 1 = MaxNotifyTimes
  BY <1>1, <1>3, <1>n, NotifiedTyped
<1>6. /\ u \in LocalState /\ u.pc = "unlock" /\ u.task = local[w].task
      /\ u.todo = local[w].todo /\ u.seen = local[w].seen
  BY <1>1, <1>u, AdvanceTyped DEF Locking
<1>7. /\ local' \in [Workers -> LocalState]
      /\ local'[w] = u
      /\ \A v \in Workers : v # w => local'[v] = local[v]
  BY <1>4, <1>6, GotoTyped DEF BInv, TypeOK
<1>8. /\ task' \in [Tasks -> [status : Status, times : 0..MaxNotifyTimes, due : BOOLEAN]]
      /\ task'[t] = n
      /\ \A s \in Tasks : s # t => task'[s] = task[s]
  BY <1>4, <1>5 DEF BInv, TypeOK
<1>9. /\ logs' \in [Tasks -> Nat]
      /\ logs'[t] = logs[t] + 1
      /\ \A s \in Tasks : s # t => logs'[s] = logs[s]
      /\ \A s \in Tasks : logs[s] \in Nat
  BY <1>4 DEF BInv, TypeOK
<1>10. TypeOK'
  BY <1>4, <1>7, <1>8, <1>9 DEF BInv, TypeOK
<1>11. Rows'
  <2>1. ASSUME NEW s \in Tasks, s # t
        PROVE  /\ task'[s].status = "waiting" => task'[s].times < MaxNotifyTimes
               /\ task'[s].status = "failure" => task'[s].times = MaxNotifyTimes
               /\ task'[s].times <= logs'[s]
    BY <1>8, <1>9, <2>1 DEF BInv, Rows
  <2>2. /\ task'[t].status = "waiting" => task'[t].times < MaxNotifyTimes
        /\ task'[t].status = "failure" => task'[t].times = MaxNotifyTimes
        /\ task'[t].times <= logs'[t]
    BY <1>3, <1>5, <1>8, <1>9
  <2> QED BY <2>1, <2>2 DEF Rows
<1>12. SuccessIsDelivered'
  BY <1>1, <1>2, <1>4, <1>5, <1>8 DEF BInv, SuccessIsDelivered, Good
<1>13. \A s \in Tasks : logs[s] \in Nat /\ logs'[s] \in Nat /\ logs[s] <= logs'[s]
  BY <1>9
<1>14. Good(u)
  BY <1>1, <1>6 DEF Good, Locking, Mine
<1>15. ASSUME NEW v \in Workers PROVE Good(local[v])'
  <2>1. PICK m \in LocalState : m = local'[v]
    BY <1>7
  <2>2. Good(m)
    BY <1>7, <1>14, <2>1 DEF BInv
  <2>3. Good(m)'
    BY <1>4, <1>13, <2>2, GoodStep
  <2> QED BY <2>1, <2>3 DEF Good, Mine
<1> QED BY <1>10, <1>11, <1>12, <1>15 DEF BInv
(* Steps that end a task of the batch, or the whole run.                    *)
LEMMA EndBase ==
    ASSUME BInv, NEW w \in Workers, Unlock(w) \/ ReleaseFails(w) \/ Crash(w) \/ Error(w)
    PROVE  BInv'
<1>1. local[w] \in LocalState /\ Good(local[w])
  BY DEF BInv, TypeOK
<1>2. /\ lock' \in [Tasks -> Workers \cup {"none"}] /\ faults' \in 0..MaxFaults
      /\ UNCHANGED <<task, logs, sent, accepted>>
  BY PayNotifyAssumption DEF BInv, TypeOK, Unlock, ReleaseFails, Crash, Error, Release
<1>3. CASE Goto(w, Rest(local[w]))
  BY <1>1, <1>2, <1>3, RestTyped, RestGood, LocalStep DEF Good, Mine
<1>4. CASE Goto(w, Idle)
  BY <1>2, <1>4, IdleTyped, IdleGood, LocalStep
<1>5. CASE Error(w)
  <2>1. PICK u \in LocalState : u = [local[w] EXCEPT !.pc = "unlock"]
    BY <1>1, AdvanceTyped DEF Locking
  <2>2. /\ u.pc = "unlock" /\ u.task = local[w].task
        /\ u.todo = local[w].todo /\ u.seen = local[w].seen
    BY <1>1, <2>1, AdvanceTyped DEF Locking
  <2>3. Good(u)
    BY <1>1, <1>5, <2>2 DEF Good, Locking, Mine, Error
  <2>4. Goto(w, u)
    BY <1>5, <2>1 DEF Error, Advance
  <2> QED BY <1>2, <2>3, <2>4, LocalStep
<1> QED BY <1>3, <1>4, <1>5 DEF Unlock, ReleaseFails, Crash

(* Steps that are no worker's.                                              *)
LEMMA TaskBase ==
    ASSUME BInv, NEW t \in Tasks, CreatePayNotifyTask(t) \/ TimePasses(t)
    PROVE  BInv'
<1>1. /\ task' \in [Tasks -> [status : Status, times : 0..MaxNotifyTimes, due : BOOLEAN]]
      /\ UNCHANGED <<logs, lock, sent, accepted, faults, local>>
  <2>1. CASE CreatePayNotifyTask(t)
    BY <2>1, PayNotifyAssumption DEF BInv, TypeOK, Status, CreatePayNotifyTask
  <2>2. CASE TimePasses(t)
    BY <2>2 DEF BInv, TypeOK, TimePasses
  <2> QED BY <2>1, <2>2
<1>2. \A s \in Tasks : \/ task'[s].status = task[s].status /\ task'[s].times = task[s].times
                       \/ task'[s].status = "waiting" /\ task'[s].times = 0
  BY DEF BInv, TypeOK, CreatePayNotifyTask, TimePasses
<1>3. \A s \in Tasks : logs[s] >= 0
  BY DEF BInv, TypeOK
<1>4. TypeOK'
  BY <1>1 DEF BInv, TypeOK
<1>5. Rows' /\ SuccessIsDelivered'
  BY <1>1, <1>2, <1>3, PayNotifyAssumption DEF BInv, Rows, SuccessIsDelivered
<1>6. \A w \in Workers : Good(local[w])'
  BY <1>1 DEF BInv, Good, Mine
<1> QED BY <1>4, <1>5, <1>6 DEF BInv

LEMMA ExpireBase ==
    ASSUME BInv, NEW t \in Tasks, LockExpires(t)
    PROVE  BInv'
BY DEF BInv, TypeOK, Rows, SuccessIsDelivered, Good, Mine, LockExpires

LEMMA StutterBase == ASSUME BInv, UNCHANGED vars PROVE BInv'
BY DEF BInv, TypeOK, Rows, SuccessIsDelivered, Good, Mine, vars

(* Whatever workers do, and whatever becomes of their locks.                *)
THEOREM BaseInductive == Spec => []BInv
<1>1. BInv /\ [Next]_vars => BInv'
  BY ListBase, TryLockBase, RereadBase, InvokeBase, RecordBase, EndBase, TaskBase,
     ExpireBase, StutterBase DEF Next, Run
<1> QED BY <1>1, InitBase, PTL DEF Spec

(* Every variable keeps its type; in particular the attempts counted by a   *)
(* task never pass max_notify_times, the table of retry delays is never     *)
(* read behind its end (notify.go: executeNotifyTask).                      *)
THEOREM TypeCorrect == Spec => []TypeOK
BY BaseInductive, PTL DEF BInv

(* A task is SUCCESS only if the merchant processed it, and FAILURE only    *)
(* after all the attempts, with their log rows; both hold even when a       *)
(* worker outlasts its lock (notify.go: executeNotifyTask, invokeNotify).   *)
THEOREM SuccessIsDeliveredAlways == Spec => []SuccessIsDelivered
BY BaseInductive, PTL DEF BInv

THEOREM FailureIsExhaustedAlways == Spec => []FailureIsExhausted
<1>1. BInv => FailureIsExhausted
  BY DEF BInv, Rows, FailureIsExhausted
<1> QED BY <1>1, BaseInductive, PTL

(* What a task says of itself has happened, whatever becomes of the locks   *)
(* (notify.go: executeNotifyTask).                                          *)
THEOREM TaskExplainedAlways == Spec => []TaskExplained
BY TypeCorrect, SuccessIsDeliveredAlways, FailureIsExhaustedAlways, PTL DEF TaskExplained

-----------------------------------------------------------------------------
LEMMA OwnedIsAlone == ASSUME Owned PROVE OneSender
BY DEF Owned, OneSender

(* A step of one worker that touches no task: the worker ends with fresh    *)
(* knowledge and only its own lock changes.  A request already sent and not *)
(* recorded is paid for with a fault.                                       *)
LEMMA LocalFresh ==
    ASSUME BInv, IInv, NEW w \in Workers, NEW l \in LocalState, Goto(w, l), Fresh(l),
           l.pc \in Locking => l.task \in Tasks /\ lock'[l.task] = w,
           \A t \in Tasks : lock[t] # w => (lock[t] = "none" \/ lock'[t] = lock[t]),
           l.pc # "record", faults' \in Nat, faults <= faults',
           local[w].pc = "record" => faults + 1 <= faults',
           UNCHANGED <<task, logs, sent>>
    PROVE  IInv'
<1>1. /\ local' \in [Workers -> LocalState]
      /\ local'[w] = l
      /\ \A v \in Workers : v # w => local'[v] = local[v]
  BY GotoTyped DEF BInv, TypeOK
<1>2. Owned'
  <2>1. ASSUME NEW v \in Workers, NEW t \in Tasks, Holding(v, t)' PROVE lock'[t] = v
    <3>1. CASE v = w
      BY <1>1, <2>1, <3>1 DEF Holding, Locking
    <3>2. CASE v # w
      <4>1. Holding(v, t)
        BY <1>1, <2>1, <3>2 DEF Holding
      <4>2. lock[t] = v /\ v # "none"
        BY <4>1, PayNotifyAssumption DEF IInv, Owned
      <4> QED BY <4>2, <3>2
    <3> QED BY <3>1, <3>2
  <2> QED BY <2>1 DEF Owned
<1>3. Uncreated' /\ LogPerAttempt'
  BY DEF IInv, Uncreated, LogPerAttempt
<1>4. ASSUME NEW v \in Workers PROVE Fresh(local[v])'
  BY <1>1 DEF IInv, Fresh, Mine
<1>5. ReplaysOnlyAfterFaults'
  <2>1. ASSUME NEW t \in Tasks
        PROVE  sent'[t] <= task'[t].times + faults' + (IF Sending(t)' THEN 1 ELSE 0)
    <3>1. sent[t] <= task[t].times + faults + (IF Sending(t) THEN 1 ELSE 0)
      BY DEF IInv, ReplaysOnlyAfterFaults
    <3>2. sent[t] \in Nat /\ task[t].times \in Nat /\ faults \in Nat
      BY PayNotifyAssumption DEF BInv, TypeOK
    <3>3. CASE Sending(t) /\ ~Sending(t)'
      <4>1. local[w].pc = "record"
        BY <1>1, <3>3 DEF Sending, Holding
      <4> QED BY <3>1, <3>2, <3>3, <4>1
    <3>4. CASE Sending(t) => Sending(t)'
      BY <3>1, <3>2, <3>4
    <3> QED BY <3>3, <3>4
  <2> QED BY <2>1 DEF ReplaysOnlyAfterFaults
<1> QED BY <1>2, <1>3, <1>4, <1>5 DEF IInv

LEMMA IdleFresh == Fresh(Idle)
BY IdleTyped, IdleMine DEF Fresh

LEMMA RestFresh ==
    ASSUME NEW l \in LocalState,
           \A t \in Tasks : t \in l.todo =>
              /\ task[t].status # "none" /\ l.seen[t] <= task[t].times
              /\ l.seen[t] = task[t].times => task[t].status = "waiting"
    PROVE  Fresh(Rest(l))
BY RestTyped DEF Fresh

LEMMA InitLocked == Init => IInv
<1> SUFFICES ASSUME Init PROVE IInv
  OBVIOUS
<1>1. Owned
  BY IdleTyped DEF Init, Owned, Holding
<1>2. Uncreated /\ LogPerAttempt
  BY DEF Init, Uncreated, LogPerAttempt
<1>3. \A w \in Workers : Fresh(local[w])
  BY IdleFresh DEF Init
<1>4. ReplaysOnlyAfterFaults
  <2>1. \A t \in Tasks : sent[t] = 0 /\ task[t].times = 0 /\ faults = 0
    BY DEF Init
  <2>2. ASSUME NEW t \in Tasks
        PROVE  sent[t] <= task[t].times + faults + (IF Sending(t) THEN 1 ELSE 0)
    <3>1. CASE Sending(t)
      BY <2>1, <3>1
    <3>2. CASE ~Sending(t)
      BY <2>1, <3>2
    <3> QED BY <3>1, <3>2
  <2> QED BY <2>2 DEF ReplaysOnlyAfterFaults
<1> QED BY <1>1, <1>2, <1>3, <1>4 DEF IInv

LEMMA ListLocked ==
    ASSUME BInv, IInv, NEW w \in Workers, ListTasks(w)
    PROVE  IInv'
<1> DEFINE due == {t \in Tasks : Due(t)}
           seen == [t \in Tasks |-> task[t].times]
<1>1. seen \in [Tasks -> 0..MaxNotifyTimes] /\ due \in SUBSET Tasks
  BY DEF BInv, TypeOK
<1>2. PICK l \in LocalState : l = Batch(due, seen)
  BY <1>1, BatchTyped
<1>3. l.pc = "batch" /\ l.todo = due /\ l.task = "none" /\ l.seen = seen
  <2> HIDE DEF due, seen
  <2> QED BY <1>1, <1>2, BatchTyped
<1>4. Goto(w, l) /\ UNCHANGED <<task, logs, lock, sent, accepted, faults>> /\ local[w].pc = "idle"
  BY <1>2 DEF ListTasks
<1>5. \A t \in Tasks : Mine(l, t) => task[t].status = "waiting" /\ l.seen[t] = task[t].times
  BY <1>3, PayNotifyAssumption DEF Mine, Due
<1>6. \A t \in Tasks : task[t].times \in Nat
  BY DEF BInv, TypeOK
<1>7. Fresh(l)
  BY <1>3, <1>5, <1>6 DEF Fresh
<1>8. faults \in Nat
  BY DEF BInv, TypeOK
<1> QED BY <1>3, <1>4, <1>7, <1>8, LocalFresh DEF Locking

LEMMA TryLockLocked ==
    ASSUME BInv, IInv, NEW w \in Workers, NEW t \in Tasks, TryLock(w, t)
    PROVE  IInv'
<1>1. local[w] \in LocalState /\ Fresh(local[w]) /\ t \in local[w].todo /\ local[w].pc = "batch"
  BY DEF BInv, TypeOK, IInv, TryLock
<1>2. [local[w] EXCEPT !.todo = @ \ {t}] \in LocalState
  BY <1>1 DEF LocalState
<1>3. PICK m \in LocalState : m = [local[w] EXCEPT !.todo = @ \ {t}]
  BY <1>2
<1>4. m.todo = local[w].todo \ {t} /\ m.seen = local[w].seen
  BY <1>1, <1>3 DEF LocalState
<1>5. [m EXCEPT !.pc = "reread", !.task = t] \in LocalState
  BY DEF LocalState
<1>6. PICK l \in LocalState : l = [m EXCEPT !.pc = "reread", !.task = t]
  BY <1>5
<1>7. l.pc = "reread" /\ l.task = t /\ l.todo = local[w].todo \ {t} /\ l.seen = local[w].seen
  BY <1>4, <1>6 DEF LocalState
<1>8. UNCHANGED <<task, logs, sent, accepted, faults>> /\ faults \in Nat
  BY DEF TryLock, BInv, TypeOK
<1>9. \/ Goto(w, l) /\ lock' = [lock EXCEPT ![t] = w] /\ lock[t] = "none"
      \/ Goto(w, Rest(m)) /\ UNCHANGED lock
  BY <1>3, <1>6 DEF TryLock, LockFree
<1>10. CASE Goto(w, l) /\ lock' = [lock EXCEPT ![t] = w] /\ lock[t] = "none"
  <2>1. Fresh(l)
    BY <1>1, <1>7 DEF Fresh, Mine
  <2>2. lock'[t] = w /\ \A s \in Tasks : lock[s] = "none" \/ lock'[s] = lock[s]
    BY <1>10 DEF BInv, TypeOK
  <2>3. /\ l.pc # "record" /\ local[w].pc # "record" /\ l.task \in Tasks /\ lock'[l.task] = w
        /\ faults' \in Nat /\ faults <= faults'
    BY <1>1, <1>7, <1>8, <2>2
  <2> QED BY <1>8, <1>10, <2>1, <2>2, <2>3, LocalFresh
<1>11. CASE Goto(w, Rest(m)) /\ UNCHANGED lock
  <2>1. Fresh(Rest(m))
    BY <1>1, <1>4, RestFresh DEF Fresh, Mine
  <2>2. Rest(m) \in LocalState /\ Rest(m).pc \in {"idle", "batch"}
    BY RestTyped
  <2> QED BY <1>1, <1>8, <1>11, <2>1, <2>2, LocalFresh DEF Locking
<1> QED BY <1>9, <1>10, <1>11

LEMMA RereadLocked ==
    ASSUME BInv, IInv, NEW w \in Workers, Reread(w)
    PROVE  IInv'
<1>1. local[w] \in LocalState /\ Fresh(local[w]) /\ local[w].pc = "reread"
  BY DEF BInv, TypeOK, IInv, Reread
<1>2. PICK t \in Tasks : t = local[w].task
  BY <1>1 DEF BInv, Good, Locking
<1>3. lock[t] = w
  BY <1>1, <1>2 DEF IInv, Owned, Holding
<1>4. UNCHANGED <<task, logs, lock, sent, accepted, faults>> /\ faults \in Nat
  BY DEF Reread, BInv, TypeOK
<1>5. task[t].times \in 0..MaxNotifyTimes
  BY DEF BInv, TypeOK
<1>6. [local[w] EXCEPT !.pc = "invoke", !.times = task[t].times] \in LocalState
  BY <1>1, <1>5 DEF LocalState
<1>7. PICK l \in LocalState : l = [local[w] EXCEPT !.pc = "invoke", !.times = task[t].times]
  BY <1>6
<1>8. l.pc = "invoke" /\ l.task = t /\ l.todo = local[w].todo /\ l.seen = local[w].seen
  BY <1>1, <1>2, <1>7 DEF LocalState
<1>9. PICK u \in LocalState : u = [local[w] EXCEPT !.pc = "unlock"]
  BY <1>1, AdvanceTyped DEF Locking
<1>10. u.pc = "unlock" /\ u.task = t /\ u.todo = local[w].todo /\ u.seen = local[w].seen
  BY <1>1, <1>2, <1>9, AdvanceTyped DEF Locking
<1>11. CASE SameTimes(local[w])
  <2>1. Goto(w, l)
    BY <1>2, <1>7, <1>11 DEF Reread
  <2>2. Fresh(l)
    BY <1>1, <1>2, <1>8, <1>11 DEF Fresh, Mine, SameTimes
  <2> QED BY <1>1, <1>3, <1>4, <1>8, <2>1, <2>2, LocalFresh
<1>12. CASE ~SameTimes(local[w])
  <2>1. Goto(w, u)
    BY <1>9, <1>12 DEF Reread
  <2>2. Fresh(u)
    BY <1>1, <1>2, <1>10 DEF Fresh, Mine
  <2> QED BY <1>1, <1>3, <1>4, <1>10, <2>1, <2>2, LocalFresh
<1> QED BY <1>11, <1>12

LEMMA EndLocked ==
    ASSUME BInv, IInv, NEW w \in Workers, Unlock(w) \/ ReleaseFails(w) \/ Crash(w) \/ Error(w)
    PROVE  IInv'
<1>1. local[w] \in LocalState /\ Fresh(local[w])
  BY DEF BInv, TypeOK, IInv
<1>2. /\ faults \in Nat /\ faults' \in Nat /\ faults <= faults'
      /\ local[w].pc = "record" => faults + 1 <= faults'
      /\ UNCHANGED <<task, logs, sent>>
  <2>1. faults \in Nat
    BY DEF BInv, TypeOK
  <2> QED BY <2>1 DEF Unlock, ReleaseFails, Crash, Error
<1>3. /\ \A t \in Tasks : lock[t] # w => lock'[t] = lock[t]
      /\ Error(w) => UNCHANGED lock
  BY DEF BInv, TypeOK, Unlock, ReleaseFails, Crash, Error, Release
<1>4. CASE Goto(w, Rest(local[w]))
  <2>1. Fresh(Rest(local[w]))
    BY <1>1, RestFresh DEF Fresh, Mine
  <2>2. Rest(local[w]) \in LocalState /\ Rest(local[w]).pc \in {"idle", "batch"}
    BY <1>1, RestTyped
  <2> QED BY <1>2, <1>3, <1>4, <2>1, <2>2, LocalFresh DEF Locking
<1>5. CASE Goto(w, Idle)
  BY <1>2, <1>3, <1>5, IdleTyped, IdleFresh, LocalFresh DEF Locking
<1>6. CASE Error(w)
  <2>1. PICK t \in Tasks : t = local[w].task
    BY <1>6 DEF BInv, Good, Locking, Error
  <2>2. lock'[t] = w
    BY <1>3, <1>6, <2>1 DEF IInv, Owned, Holding, Error
  <2>3. PICK u \in LocalState : u = [local[w] EXCEPT !.pc = "unlock"]
    BY <1>1, AdvanceTyped DEF Locking
  <2>4. u.pc = "unlock" /\ u.task = t /\ u.todo = local[w].todo /\ u.seen = local[w].seen
    BY <1>1, <2>1, <2>3, AdvanceTyped DEF Locking
  <2>5. Fresh(u)
    BY <1>1, <2>1, <2>4 DEF Fresh, Mine
  <2>6. Goto(w, u)
    BY <1>6, <2>3 DEF Error, Advance
  <2> QED BY <1>2, <1>3, <2>2, <2>4, <2>5, <2>6, LocalFresh
<1> QED BY <1>4, <1>5, <1>6 DEF Unlock, ReleaseFails, Crash

LEMMA InvokeLocked ==
    ASSUME BInv, IInv, NEW w \in Workers, InvokeNotify(w)
    PROVE  IInv'
<1>1. local[w] \in LocalState /\ Fresh(local[w]) /\ local[w].pc = "invoke"
  BY DEF BInv, TypeOK, IInv, InvokeNotify
<1>2. PICK t \in Tasks : t = local[w].task
  BY <1>1 DEF BInv, Good, Locking
<1>3. \E ok \in BOOLEAN : Goto(w, [local[w] EXCEPT !.pc = "record", !.ok = ok])
  BY DEF InvokeNotify, NotifyAnswers
<1>4. PICK ok \in BOOLEAN : Goto(w, [local[w] EXCEPT !.pc = "record", !.ok = ok])
  BY <1>3
<1>5. [local[w] EXCEPT !.pc = "record", !.ok = ok] \in LocalState
  BY <1>1 DEF LocalState
<1>6. PICK l \in LocalState : l = [local[w] EXCEPT !.pc = "record", !.ok = ok]
  BY <1>5
<1>7. l.pc = "record" /\ l.task = t /\ l.todo = local[w].todo /\ l.seen = local[w].seen
  BY <1>1, <1>2, <1>6 DEF LocalState
<1>8. /\ local' \in [Workers -> LocalState]
      /\ local'[w] = l
      /\ \A v \in Workers : v # w => local'[v] = local[v]
  BY <1>4, <1>6, GotoTyped DEF BInv, TypeOK
<1>9. UNCHANGED <<task, logs, lock, faults>>
  BY DEF InvokeNotify
<1>10. /\ sent'[t] = sent[t] + 1
       /\ \A s \in Tasks : s # t => sent'[s] = sent[s]
  BY <1>2 DEF InvokeNotify, BInv, TypeOK
<1>11. Owned' /\ Uncreated' /\ LogPerAttempt'
  <2>1. \A v \in Workers, s \in Tasks : Holding(v, s)' <=> Holding(v, s)
    BY <1>1, <1>2, <1>7, <1>8 DEF Holding
  <2> QED BY <1>9, <2>1 DEF IInv, Owned, Uncreated, LogPerAttempt
<1>12. ASSUME NEW v \in Workers PROVE Fresh(local[v])'
  <2>1. CASE v = w
    BY <1>1, <1>2, <1>7, <1>8, <1>9, <2>1 DEF Fresh, Mine
  <2>2. CASE v # w
    BY <1>8, <1>9, <2>2 DEF IInv, Fresh, Mine
  <2> QED BY <2>1, <2>2
<1>13. ReplaysOnlyAfterFaults'
  <2>1. ~Sending(t) /\ Sending(t)'
    BY <1>1, <1>2, <1>7, <1>8, OwnedIsAlone DEF Sending, Holding, OneSender, IInv
  <2>2. \A s \in Tasks : s # t => (Sending(s)' <=> Sending(s))
    BY <1>1, <1>2, <1>7, <1>8 DEF Sending, Holding
  <2>3. ASSUME NEW s \in Tasks
        PROVE  sent'[s] <= task'[s].times + faults' + (IF Sending(s)' THEN 1 ELSE 0)
    <3>1. sent[s] <= task[s].times + faults + (IF Sending(s) THEN 1 ELSE 0)
      BY DEF IInv, ReplaysOnlyAfterFaults
    <3>2. sent[s] \in Nat /\ task[s].times \in Nat /\ faults \in Nat
      BY PayNotifyAssumption DEF BInv, TypeOK
    <3>3. CASE s = t
      BY <1>9, <1>10, <2>1, <3>1, <3>2, <3>3
    <3>4. CASE s # t
      BY <1>9, <1>10, <2>2, <3>1, <3>4
    <3> QED BY <3>3, <3>4
  <2> QED BY <2>3 DEF ReplaysOnlyAfterFaults
<1> QED BY <1>11, <1>12, <1>13 DEF IInv

LEMMA RecordLocked ==
    ASSUME BInv, IInv, NEW w \in Workers, Record(w)
    PROVE  IInv'
<1>1. local[w] \in LocalState /\ Fresh(local[w]) /\ Good(local[w]) /\ local[w].pc = "record"
  BY DEF BInv, TypeOK, IInv, Record
<1>2. PICK t \in Tasks : t = local[w].task
  BY <1>1 DEF Good, Locking
<1>3. /\ local[w].times = task[t].times /\ local[w].times < MaxNotifyTimes
      /\ task[t].times \in Nat /\ logs[t] = task[t].times /\ Holding(w, t)
  <2>1. local[w].times = task[t].times /\ local[w].times < MaxNotifyTimes
    BY <1>1, <1>2 DEF Fresh, Good, Mine
  <2>2. task[t].times \in Nat /\ logs[t] = task[t].times
    BY DEF BInv, TypeOK, IInv, LogPerAttempt
  <2> QED BY <1>1, <1>2, <2>1, <2>2 DEF Holding
<1>4. PICK u \in LocalState : u = [local[w] EXCEPT !.pc = "unlock"]
  BY <1>1, AdvanceTyped DEF Locking
<1>5. u.pc = "unlock" /\ u.task = t /\ u.todo = local[w].todo /\ u.seen = local[w].seen
  BY <1>1, <1>2, <1>4, AdvanceTyped DEF Locking
<1>6. PICK n : n = Notified(local[w])
  OBVIOUS
<1>7. n.times = task[t].times + 1 /\ n.status # "none"
  BY <1>1, <1>3, <1>6, NotifiedTyped
<1>8. /\ local' \in [Workers -> LocalState]
      /\ local'[w] = u
      /\ \A v \in Workers : v # w => local'[v] = local[v]
  BY <1>4, GotoTyped DEF Record, Advance, BInv, TypeOK
<1>9. /\ task'[t].times = task[t].times + 1 /\ task'[t].status # "none"
      /\ \A s \in Tasks : s # t => task'[s] = task[s]
  BY <1>2, <1>6, <1>7 DEF Record, BInv, TypeOK
<1>10. /\ logs'[t] = logs[t] + 1
       /\ \A s \in Tasks : s # t => logs'[s] = logs[s]
  BY <1>2 DEF Record, LogCreated, BInv, TypeOK
<1>11. UNCHANGED <<lock, sent, accepted, faults>>
  BY DEF Record
<1>12. Owned'
  <2>1. \A v \in Workers, s \in Tasks : Holding(v, s)' <=> Holding(v, s)
    BY <1>1, <1>2, <1>5, <1>8 DEF Holding
  <2> QED BY <1>11, <2>1 DEF IInv, Owned
<1>13. Uncreated' /\ LogPerAttempt'
  BY <1>3, <1>9, <1>10 DEF IInv, Uncreated, LogPerAttempt
<1>14. ASSUME NEW v \in Workers PROVE Fresh(local[v])'
  <2>1. PICK m \in LocalState : m = local'[v]
    BY <1>8
  <2>2. m.pc \in {"invoke", "record"} => m = local[v] /\ m.task # t /\ m.task \in Tasks
    BY <1>3, <1>5, <1>8, <2>1, OwnedIsAlone DEF IInv, OneSender, Holding, BInv, Good, Locking
  <2>3. \A s \in Tasks : Mine(m, s) => Mine(local[v], s) /\ m.seen[s] = local[v].seen[s]
    BY <1>2, <1>5, <1>8, <2>1 DEF Mine
  <2>4. Fresh(local[v])
    BY DEF IInv
  <2>5. \A s \in Tasks : m.seen[s] \in Nat
    BY DEF LocalState
  <2>6. ASSUME NEW s \in Tasks, Mine(m, s)
        PROVE  /\ task'[s].status # "none" /\ m.seen[s] <= task'[s].times
               /\ m.seen[s] = task'[s].times => task'[s].status = "waiting"
    <3>1. /\ task[s].status # "none" /\ m.seen[s] <= task[s].times
          /\ m.seen[s] = task[s].times => task[s].status = "waiting"
      BY <2>3, <2>4, <2>6 DEF Fresh
    <3> QED BY <1>3, <1>9, <2>5, <3>1
  <2>7. m.pc \in {"invoke", "record"} => task'[m.task].times = m.seen[m.task]
    BY <1>9, <2>2, <2>4 DEF Fresh
  <2> QED BY <2>1, <2>6, <2>7 DEF Fresh, Mine
<1>15. ReplaysOnlyAfterFaults'
  <2>1. \A s \in Tasks : s # t => (Sending(s)' <=> Sending(s))
    BY <1>1, <1>2, <1>5, <1>8 DEF Sending, Holding
  <2>2. ASSUME NEW s \in Tasks
        PROVE  sent'[s] <= task'[s].times + faults' + (IF Sending(s)' THEN 1 ELSE 0)
    <3>1. sent[s] <= task[s].times + faults + (IF Sending(s) THEN 1 ELSE 0)
      BY DEF IInv, ReplaysOnlyAfterFaults
    <3>2. sent[s] \in Nat /\ task[s].times \in Nat /\ faults \in Nat
      BY PayNotifyAssumption DEF BInv, TypeOK
    <3>3. CASE s = t
      BY <1>9, <1>11, <3>1, <3>2, <3>3
    <3>4. CASE s # t
      BY <1>9, <1>11, <2>1, <3>1, <3>4
    <3> QED BY <3>3, <3>4
  <2> QED BY <2>2 DEF ReplaysOnlyAfterFaults
<1> QED BY <1>12, <1>13, <1>14, <1>15 DEF IInv

LEMMA TaskLocked ==
    ASSUME BInv, IInv, NEW t \in Tasks, CreatePayNotifyTask(t) \/ TimePasses(t)
    PROVE  IInv'
<1>1. UNCHANGED <<logs, lock, sent, accepted, faults, local>>
  BY DEF CreatePayNotifyTask, TimePasses
<1>2. \A s \in Tasks :
         /\ task'[s].times = task[s].times
         /\ task'[s].status = task[s].status \/ (task[s].status = "none" /\ task'[s].status = "waiting")
  BY DEF BInv, TypeOK, CreatePayNotifyTask, TimePasses, IInv, Uncreated
<1>3. Owned' /\ Uncreated' /\ LogPerAttempt'
  BY <1>1, <1>2 DEF IInv, Owned, Holding, Uncreated, LogPerAttempt
<1>4. ASSUME NEW w \in Workers PROVE Fresh(local[w])'
  <2>1. local[w].pc \in {"invoke", "record"} => local[w].task \in Tasks
    BY DEF BInv, Good, Locking
  <2> QED BY <1>1, <1>2, <2>1 DEF IInv, Fresh, Mine
<1>5. ReplaysOnlyAfterFaults'
  <2>1. \A s \in Tasks : Sending(s)' <=> Sending(s)
    BY <1>1 DEF Sending, Holding
  <2> QED BY <1>1, <1>2, <2>1 DEF IInv, ReplaysOnlyAfterFaults
<1> QED BY <1>3, <1>4, <1>5 DEF IInv

LEMMA ExpireLocked ==
    ASSUME ~MayStall, BInv, IInv, NEW t \in Tasks, LockExpires(t)
    PROVE  IInv'
<1>1. UNCHANGED <<task, logs, sent, accepted, faults, local>>
  BY DEF LockExpires
<1>2. Owned'
  BY DEF BInv, TypeOK, IInv, Owned, Holding, LockExpires
<1>3. Uncreated' /\ LogPerAttempt' /\ \A w \in Workers : Fresh(local[w])'
  BY <1>1 DEF IInv, Uncreated, LogPerAttempt, Fresh, Mine
<1>4. ReplaysOnlyAfterFaults'
  BY <1>1 DEF IInv, ReplaysOnlyAfterFaults, Sending, Holding
<1> QED BY <1>2, <1>3, <1>4 DEF IInv

LEMMA StutterLocked == ASSUME IInv, UNCHANGED vars PROVE IInv'
BY DEF IInv, Owned, Uncreated, LogPerAttempt, Fresh, Mine, ReplaysOnlyAfterFaults, Sending,
       Holding, vars

(* With locks that outlast their holders' work.                             *)
THEOREM Inductive == ASSUME ~MayStall PROVE Spec => [](BInv /\ IInv)
<1>1. BInv /\ IInv /\ [Next]_vars => IInv'
  BY ListLocked, TryLockLocked, RereadLocked, InvokeLocked, RecordLocked, EndLocked,
     TaskLocked, ExpireLocked, StutterLocked DEF Next, Run
<1> QED BY <1>1, InitLocked, BaseInductive, PTL DEF Spec

(* One worker at a time is between lock and release of a task               *)
(* (notify_lock.go: Lock).                                                  *)
THEOREM OneSenderAlways == ASSUME ~MayStall PROVE Spec => []OneSender
BY Inductive, OwnedIsAlone, PTL DEF IInv

(* Every counted attempt has its log row, and the other way round           *)
(* (notify.go: the transaction of executeNotifyTask).                       *)
THEOREM LogPerAttemptAlways == ASSUME ~MayStall PROVE Spec => []LogPerAttempt
BY Inductive, PTL DEF IInv

(* The merchant sees a notification again only after a crash or an error    *)
(* (notify.go: executeNotifyTaskWithLock).                                  *)
THEOREM ReplaysAlways == ASSUME ~MayStall PROVE Spec => []ReplaysOnlyAfterFaults
BY Inductive, PTL DEF IInv

(* Requests, counter and log agree while no holder outlasts its lock        *)
(* (notify.go: executeNotifyTaskWithLock).                                  *)
THEOREM AttemptsCountedAlways == ASSUME ~MayStall PROVE Spec => []AttemptsCounted
BY OneSenderAlways, LogPerAttemptAlways, ReplaysAlways, PTL DEF AttemptsCounted

(* SUCCESS and FAILURE are final: what a worker found waiting when it       *)
(* listed its batch is still waiting when it writes.                        *)
THEOREM FinalStaysAlways == ASSUME ~MayStall PROVE Spec => FinalStays
<1>1. ASSUME BInv, IInv, [Next]_vars, NEW t \in Tasks, task[t].status \in {"success", "failure"}
      PROVE  task'[t] = task[t]
  <2>1. CASE \E w \in Workers : Record(w)
    <3>1. PICK w \in Workers : Record(w)
      BY <2>1
    <3>2. Fresh(local[w]) /\ local[w].pc = "record"
      BY <1>1, <3>1 DEF IInv, Record
    <3>3. local[w].task \in Tasks
      BY <1>1, <3>2 DEF BInv, Good, Locking
    <3>4. task[local[w].task].status = "waiting"
      BY <3>2, <3>3 DEF Fresh, Mine
    <3>5. t # local[w].task
      BY <1>1, <3>4
    <3> QED BY <1>1, <3>1, <3>5 DEF Record, BInv, TypeOK
  <2>2. CASE \E s \in Tasks : CreatePayNotifyTask(s) \/ TimePasses(s)
    BY <1>1, <2>2 DEF CreatePayNotifyTask, TimePasses, BInv, TypeOK
  <2>3. CASE UNCHANGED task
    BY <2>3
  <2> QED BY <1>1, <2>1, <2>2, <2>3 DEF Next, Run, vars, LockExpires, ListTasks, TryLock,
                                       Reread, InvokeNotify, Unlock, Crash, Error, ReleaseFails
<1>2. BInv /\ IInv /\ [Next]_vars
        => [\A t \in Tasks : task[t].status \in {"success", "failure"} => task'[t] = task[t]]_vars
  BY <1>1
<1> QED BY <1>2, Inductive, PTL DEF Spec, FinalStays

=============================================================================
