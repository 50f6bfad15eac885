------------------------------ MODULE PayOrder ------------------------------
(***************************************************************************)
(* One pay order, its submissions to payment channels (the extensions) and *)
(* the requests and jobs that work on it concurrently                      *)
(* (src/internal/service/pay/order.go).                                    *)
(*                                                                         *)
(* Every request and the expire job is a process of its own; a database    *)
(* transaction is several steps of it, under READ COMMITTED: a read sees   *)
(* what is committed, a write takes the row's lock until the transaction   *)
(* ends and is seen by others from then on.  What a process has written    *)
(* but not committed is therefore kept in its `local' record, and the row  *)
(* locks are functions of these records (ExtensionFree, OrderFree).        *)
(***************************************************************************)
EXTENDS Integers

CONSTANTS MaxExts,    \* bound on the submissions of the order
          Prices,     \* the prices an order may have, in cents
          Requests,   \* concurrently served requests: submit, callback, sync
          Job,        \* the scheduled run of ExpireOrder
          MaxFaults   \* bound on database errors, crashes and failed calls

ASSUME PayOrderAssumption ==
          /\ MaxExts \in Nat
          /\ Prices \subseteq Nat \ {0}
          /\ Prices # {}
          /\ Job \notin Requests
          /\ MaxFaults \in Nat

VARIABLES order,    \* the pay_order row
          ext,      \* pay_order_extension.status, by number; "none": no row
          channel,  \* the channel's own record of each submission
          tasks,    \* pay_notify_task rows of type ORDER for this order
          expired,  \* now is past pay_order.expire_time
          faults,   \* database errors, crashes and failed calls so far
          local     \* what each process holds between two of its steps

vars == <<order, ext, channel, tasks, expired, faults, local>>

Exts == 1..MaxExts
Procs == Requests \cup {Job}

OrderStatus == {"none", "waiting", "success", "refund", "closed"}
ExtStatus   == {"none", "waiting", "success", "closed"}
Idle == [pc |-> "idle", ext |-> 0, msg |-> "none", price |-> 0, held |-> FALSE, last |-> 0]

\* held: the process has updated the extension and not committed yet; the job has
\* updated the extensions up to local[Job].ext.
ExtensionFree(e) ==
    /\ \A p \in Requests : ~(local[p].held /\ local[p].ext = e)
    /\ ~(local[Job].pc = "expireExts" /\ e <= local[Job].ext)
\* Only ExpireOrder holds the order's row across two of its steps.
OrderFree == local[Job].pc # "expireExts"

\* The extensions are numbered in the order of their creation.
NextExt(e) == ext[e] = "none" /\ \A f \in 1..(e - 1) : ext[f] # "none"
LastExt(n) == \A e \in Exts : ext[e] # "none" <=> e <= n

Goto(p, l) == local' = [local EXCEPT ![p] = l]
Advance(p, pc) == Goto(p, [local[p] EXCEPT !.pc = pc])

Init == /\ order = [status |-> "none", price |-> 0, ext |-> 0]
        /\ ext = [e \in Exts |-> "none"]
        /\ channel = [e \in Exts |-> [state |-> "none", amount |-> 0]]
        /\ tasks = 0
        /\ expired = FALSE
        /\ faults = 0
        /\ local = [p \in Procs |-> Idle]

-----------------------------------------------------------------------------
(* CreateOrder inserts the row; a repeated call, and the loser of two       *)
(* concurrent ones (unique index), returns or fails without a second row.   *)
CreateOrder(price) ==
    /\ order.status = "none"
    /\ order' = [order EXCEPT !.status = "waiting", !.price = price]
    /\ UNCHANGED <<ext, channel, tasks, expired, faults, local>>

(* SubmitOrder: validate the order, insert an extension, place the order at *)
(* the channel with the price read at the start, treat an immediate answer  *)
(* as a notification.                                                       *)
SubmitValidate(p) ==
    /\ local[p].pc = "idle"
    /\ order.status = "waiting" /\ ~expired
    /\ Goto(p, [Idle EXCEPT !.pc = "insertExt", !.price = order.price])
    /\ UNCHANGED <<order, ext, channel, tasks, expired, faults>>

SubmitInsert(p) ==
    /\ local[p].pc = "insertExt"
    /\ \E e \in Exts :
          /\ NextExt(e)
          /\ ext' = [ext EXCEPT ![e] = "waiting"]
          /\ Goto(p, [local[p] EXCEPT !.pc = "unifiedOrder", !.ext = e])
    /\ UNCHANGED <<order, channel, tasks, expired, faults>>

\* The channel accepts and waits for the user, or is paid on the spot.
SubmitAccepted(p) ==
    /\ local[p].pc = "unifiedOrder"
    /\ \E state \in {"open", "paid"} :
          /\ channel' = [channel EXCEPT ![local[p].ext] =
                           [state |-> state, amount |-> local[p].price]]
          /\ Goto(p, IF state = "paid"
                     THEN [local[p] EXCEPT !.pc = "readExt", !.msg = "success"]
                     ELSE Idle)
    /\ UNCHANGED <<order, ext, tasks, expired, faults>>

\* The call fails, before or after the channel has taken the order: the WeChat
\* client turns the error into a CLOSED answer, which NotifyOrder then works on.
\* (The Alipay client returns an error; nothing is changed then, see Fail.)
SubmitRefused(p) ==
    /\ local[p].pc = "unifiedOrder"
    /\ faults < MaxFaults /\ faults' = faults + 1
    /\ \/ channel' = [channel EXCEPT ![local[p].ext] =
                        [state |-> "open", amount |-> local[p].price]]
       \/ UNCHANGED channel
    /\ Goto(p, [local[p] EXCEPT !.pc = "readExt", !.msg = "closed"])
    /\ UNCHANGED <<order, ext, tasks, expired>>

-----------------------------------------------------------------------------
(* The channel, and the ways its result reaches NotifyOrder.               *)

UserPays(e) ==
    /\ channel[e].state = "open"
    /\ channel' = [channel EXCEPT ![e].state = "paid"]
    /\ UNCHANGED <<order, ext, tasks, expired, faults, local>>

ChannelCloses(e) ==
    /\ channel[e].state = "open"
    /\ channel' = [channel EXCEPT ![e].state = "closed"]
    /\ UNCHANGED <<order, ext, tasks, expired, faults, local>>

Notified(e, msg) == [Idle EXCEPT !.pc = "readExt", !.ext = e, !.msg = msg,
                                 !.price = channel[e].amount]

\* A callback may come late, more than once and in any order.
Callback(p, e) ==
    /\ local[p].pc = "idle"
    /\ \/ channel[e].state = "paid"   /\ Goto(p, Notified(e, "success"))
       \/ channel[e].state = "closed" /\ Goto(p, Notified(e, "closed"))
    /\ UNCHANGED <<order, ext, channel, tasks, expired, faults>>

\* syncOrder of a WAITING extension: a CLOSED answer is deliberately ignored.
SyncOrder(p, e) ==
    /\ local[p].pc = "idle"
    /\ ext[e] = "waiting"
    /\ channel[e].state = "paid"
    /\ Goto(p, Notified(e, "success"))
    /\ UNCHANGED <<order, ext, channel, tasks, expired, faults>>

\* The trade module's query asks only for the first WAITING extension.
ValidateOrderActuallyPaid(p) ==
    /\ order.status = "waiting"
    /\ \E e \in Exts : /\ \A f \in 1..(e - 1) : ext[f] # "waiting"
                       /\ SyncOrder(p, e)

-----------------------------------------------------------------------------
(* NotifyOrder: one transaction over the extension and then the order.      *)

\* A status other than WAITING ends the callback, except that a success found
\* SUCCESS goes on to the order without updating the extension.
ReadExtension(p) ==
    LET e == local[p].ext IN
    /\ local[p].pc = "readExt"
    /\ \/ ext[e] = "waiting" /\ Advance(p, "casExt")
       \/ ext[e] = "success" /\ local[p].msg = "success" /\ Advance(p, "readOrder")
       \/ ext[e] = "success" /\ local[p].msg = "closed"  /\ Goto(p, Idle)
       \/ ext[e] = "closed" /\ Goto(p, Idle)
    /\ UNCHANGED <<order, ext, channel, tasks, expired, faults>>

UpdateExtension(p) ==
    LET e == local[p].ext IN
    /\ local[p].pc = "casExt"
    /\ ExtensionFree(e)
    /\ \/ /\ ext[e] = "waiting"
          /\ Goto(p, [local[p] EXCEPT !.pc = "readOrder", !.held = TRUE])
       \/ ext[e] # "waiting" /\ Goto(p, Idle)
    /\ UNCHANGED <<order, ext, channel, tasks, expired, faults>>

\* What the transaction wrote to the extension, as of its commit.
CommitExtension(p) ==
    ext' = IF local[p].held THEN [ext EXCEPT ![local[p].ext] = local[p].msg] ELSE ext

AmountMatches(p) == local[p].price = order.price

AlreadyPaidBy(e) == order.status = "success" /\ order.ext = e

ReadOrderSuccess(p) ==
    /\ local[p].pc = "readOrder" /\ local[p].msg = "success"
    /\ \/ /\ AmountMatches(p) /\ order.status = "waiting"
          /\ Advance(p, "casOrder")
          /\ UNCHANGED ext
       \/ /\ AmountMatches(p) /\ AlreadyPaidBy(local[p].ext)
          /\ Goto(p, Idle)
          /\ CommitExtension(p)
       \/ /\ ~AmountMatches(p) \/ ~(order.status = "waiting" \/ AlreadyPaidBy(local[p].ext))
          /\ Goto(p, Idle)                       \* error: rolled back
          /\ UNCHANGED ext
    /\ UNCHANGED <<order, channel, tasks, expired, faults>>

ReadOrderClosed(p) ==
    /\ local[p].pc = "readOrder" /\ local[p].msg = "closed"
    /\ \/ order.status = "waiting" /\ Advance(p, "casOrder") /\ UNCHANGED ext
       \/ order.status # "waiting" /\ Goto(p, Idle) /\ CommitExtension(p)
    /\ UNCHANGED <<order, channel, tasks, expired, faults>>

\* The guarded updates of the order; with them the transaction commits.
\* Mutant: an update without a condition on the status.
UnguardedUpdate == TRUE
OrderStillWaiting == order.status = "waiting"

PaidOrder(p) == [order EXCEPT !.status = "success", !.ext = local[p].ext]

\* Mutant: the order is committed although its task was not.
TaskErrorIgnored == tasks' \in {tasks, tasks + 1}
CreatePayNotifyTask == tasks' = tasks + 1

\* Mutant: the closed order is not written.
ClosedNotWritten == order
ClosedOrder == [order EXCEPT !.status = "closed"]

UpdateOrderSuccess(p) ==
    /\ local[p].pc = "casOrder" /\ local[p].msg = "success"
    /\ OrderFree
    /\ \/ /\ OrderStillWaiting
          /\ order' = PaidOrder(p)
          /\ CommitExtension(p)
          /\ CreatePayNotifyTask
       \/ ~OrderStillWaiting /\ UNCHANGED <<order, ext, tasks>>
    /\ Goto(p, Idle)
    /\ UNCHANGED <<channel, expired, faults>>

UpdateOrderClosed(p) ==
    /\ local[p].pc = "casOrder" /\ local[p].msg = "closed"
    /\ OrderFree
    /\ \/ /\ OrderStillWaiting
          /\ order' = ClosedOrder
          /\ CommitExtension(p)
       \/ ~OrderStillWaiting /\ UNCHANGED <<order, ext>>
    /\ Goto(p, Idle)
    /\ UNCHANGED <<channel, tasks, expired, faults>>

-----------------------------------------------------------------------------
(* ExpireOrder: one transaction that finds the expired WAITING order, then  *)
(* closes it by id, then closes its extensions that are still WAITING.      *)

ExpireFind ==
    /\ local[Job].pc = "idle"
    /\ order.status = "waiting" /\ expired
    /\ Advance(Job, "expireOrder")
    /\ UNCHANGED <<order, ext, channel, tasks, expired, faults>>

\* The update has no condition on the status; it takes the row's lock.  The next
\* statement works on the extensions it finds at its start, up to `last'.
ExpireUpdateOrder ==
    /\ local[Job].pc = "expireOrder"
    /\ \E n \in 0..MaxExts :
          /\ LastExt(n)
          /\ Goto(Job, [Idle EXCEPT !.pc = "expireExts", !.last = n])
    /\ UNCHANGED <<order, ext, channel, tasks, expired, faults>>

\* The update waits for the lock of one WAITING extension after the other ...
ExpireUpdateExt ==
    LET e == local[Job].ext + 1 IN
    /\ local[Job].pc = "expireExts"
    /\ e \in 1..local[Job].last
    /\ ext[e] = "waiting" => ExtensionFree(e)
    /\ Goto(Job, [local[Job] EXCEPT !.ext = e])
    /\ UNCHANGED <<order, ext, channel, tasks, expired, faults>>

\* ... and the transaction commits.
\* Mutant: submissions are closed in whatever state they are.
AllExtensions == 1..local[Job].last
ToClose == {e \in 1..local[Job].last : ext[e] = "waiting"}

ExpireCommit ==
    /\ local[Job].pc = "expireExts" /\ local[Job].ext = local[Job].last
    /\ order' = ClosedOrder
    /\ ext' = [e \in Exts |-> IF e \in ToClose THEN "closed" ELSE ext[e]]
    /\ Goto(Job, Idle)
    /\ UNCHANGED <<channel, tasks, expired, faults>>

-----------------------------------------------------------------------------
(* UpdatePayOrderPrice: read, check, then an update by id outside of any    *)
(* transaction.                                                             *)
RepriceRead(p, price) ==
    /\ local[p].pc = "idle"
    /\ order.status = "waiting" /\ price # order.price
    /\ Goto(p, [Idle EXCEPT !.pc = "reprice", !.price = price])
    /\ UNCHANGED <<order, ext, channel, tasks, expired, faults>>

RepriceUpdate(p) ==
    /\ local[p].pc = "reprice"
    /\ OrderFree
    /\ order' = [order EXCEPT !.price = local[p].price]
    /\ Goto(p, Idle)
    /\ UNCHANGED <<ext, channel, tasks, expired, faults>>

\* The order's side of a refund that is made, the rest of which is PayRefund: the
\* update repeats the status it read, which makes it one step.
UpdateOrderRefundPrice ==
    /\ order.status = "success"
    /\ OrderFree
    /\ order' = [order EXCEPT !.status = "refund"]
    /\ UNCHANGED <<ext, channel, tasks, expired, faults, local>>

-----------------------------------------------------------------------------
ExpireTimePasses ==
    /\ order.status # "none" /\ ~expired
    /\ expired' = TRUE
    /\ UNCHANGED <<order, ext, channel, tasks, faults, local>>

\* A statement fails, the call is cancelled or the process dies: the running
\* transaction is rolled back, what was committed before stays.
Fail(p) ==
    /\ local[p].pc # "idle"
    /\ faults < MaxFaults /\ faults' = faults + 1
    /\ Goto(p, Idle)
    /\ UNCHANGED <<order, ext, channel, tasks, expired>>

\* A callback locks extension then order, the job order then extensions: the
\* database resolves the cycle by rolling one of the two back.
DeadlockVictim ==
    \E p \in Requests :
       /\ local[p].pc = "casOrder" /\ local[p].held
       /\ local[Job].pc = "expireExts" /\ local[p].ext = local[Job].ext + 1
       /\ \E v \in {p, Job} : Goto(v, Idle)
       /\ UNCHANGED <<order, ext, channel, tasks, expired, faults>>

Submit(p) == \/ SubmitValidate(p) \/ SubmitInsert(p)
             \/ SubmitAccepted(p) \/ SubmitRefused(p)

Notify(p) == \/ ReadExtension(p) \/ UpdateExtension(p)
             \/ ReadOrderSuccess(p) \/ ReadOrderClosed(p)
             \/ UpdateOrderSuccess(p) \/ UpdateOrderClosed(p)

ExpireOrder == ExpireFind \/ ExpireUpdateOrder \/ ExpireUpdateExt \/ ExpireCommit

Next == \/ \E price \in Prices : CreateOrder(price)
        \/ \E p \in Requests :
              \/ Submit(p) \/ Notify(p)
              \/ \E e \in Exts : Callback(p, e) \/ SyncOrder(p, e)
              \/ ValidateOrderActuallyPaid(p)
              \/ \E price \in Prices : RepriceRead(p, price)
              \/ RepriceUpdate(p)
        \/ \E e \in Exts : UserPays(e) \/ ChannelCloses(e)
        \/ ExpireOrder
        \/ UpdateOrderRefundPrice
        \/ ExpireTimePasses
        \/ \E p \in Procs : Fail(p)
        \/ DeadlockVictim

Spec == Init /\ [][Next]_vars

(***************************************************************************)
(* Fairness: a running request or job goes on to its next statement; time   *)
(* passes; the scheduler starts the expire job; a row lock goes to a waiting *)
(* transaction sooner or later, however often others take it meanwhile.     *)
(***************************************************************************)
Running(p) == \/ SubmitInsert(p) \/ SubmitAccepted(p) \/ SubmitRefused(p)
              \/ ReadExtension(p) \/ ReadOrderSuccess(p) \/ ReadOrderClosed(p)

Fairness == /\ \A p \in Requests :
                  /\ WF_vars(Running(p))
                  /\ SF_vars(UpdateExtension(p))
                  /\ SF_vars(UpdateOrderSuccess(p) \/ UpdateOrderClosed(p))
                  /\ SF_vars(RepriceUpdate(p))
            /\ WF_vars(ExpireTimePasses)
            /\ WF_vars(ExpireFind \/ ExpireUpdateOrder \/ ExpireCommit)
            /\ SF_vars(ExpireUpdateExt)
            /\ WF_vars(DeadlockVictim)

FairSpec == Spec /\ Fairness

-----------------------------------------------------------------------------
LocalState ==
    [pc    : {"idle", "insertExt", "unifiedOrder", "readExt", "casExt", "readOrder",
              "casOrder", "expireOrder", "expireExts", "reprice"},
     ext   : 0..MaxExts,
     msg   : {"none", "success", "closed"},
     price : Prices \cup {0},
     held  : BOOLEAN,
     last  : 0..MaxExts]

TypeOK ==
    /\ order \in [status : OrderStatus, price : Prices \cup {0}, ext : 0..MaxExts]
    /\ ext \in [Exts -> ExtStatus]
    /\ channel \in [Exts -> [state : {"none", "open", "paid", "closed"},
                             amount : Prices \cup {0}]]
    /\ tasks \in Nat
    /\ expired \in BOOLEAN
    /\ faults \in 0..MaxFaults
    /\ local \in [Procs -> LocalState]

Paid(e) == ext[e] = "success"

(* However the callbacks, queries, closings and the job interleave, at most *)
(* one submission of the order is ever accepted as its payment, although the *)
(* user may pay two of them at the channels.                                *)
PaidOnce == \A e, f \in Exts : Paid(e) /\ Paid(f) => e = f

(* The extension, the order and the notification of the merchant commit     *)
(* together (decisions.md, ADR-003): there is exactly one task once a        *)
(* payment is accepted, and none before.                                    *)
OneTaskPerPayment == tasks = IF \E e \in Exts : Paid(e) THEN 1 ELSE 0

(* An accepted payment is backed by the channel and recorded in the order,  *)
(* and an order that says SUCCESS or REFUND names the extension that paid it. *)
PaymentBacked ==
    /\ \A e \in Exts : Paid(e) => /\ channel[e].state = "paid"
                                 /\ order.ext = e
                                 /\ order.status \in {"success", "refund", "closed"}
    /\ order.status \in {"success", "refund"} => order.ext \in Exts /\ Paid(order.ext)

(* Together: one submission at most is accepted, and what a channel paid,    *)
(* what the order and its submissions say and what the merchant is told of  *)
(* never part, whichever statement fails.                                   *)
PaymentRecorded == TypeOK /\ PaidOnce /\ OneTaskPerPayment /\ PaymentBacked

(* Seen by its readers, the row is written as if each operation were atomic: *)
(* it is paid from WAITING only, refunded from SUCCESS only, and keeps the  *)
(* extension that paid it whatever closes it later.                         *)
Row == INSTANCE PayRow WITH
          row <- [status |-> order.status, price |-> order.price, paid |-> order.ext # 0]

ImplementsRow == Row!Spec

(* No step takes the order or an extension out of CLOSED, and none changes  *)
(* an extension that is SUCCESS: late and repeated callbacks find the final *)
(* status whatever they read before.                                        *)
FinalStays ==
    [][/\ order.status = "closed" => order'.status = "closed"
       /\ \A e \in Exts : ext[e] \in {"success", "closed"} => ext'[e] = ext[e]]_vars

(* An order does not wait for ever, whatever fails, is lost or deadlocks:   *)
(* it ends paid or closed.                                                  *)
OrderSettles == order.status = "waiting" ~> order.status \in {"success", "closed"}

(* "Once it is SUCCESS it is not updated to CLOSED, to avoid a conflict of   *)
(* states" (order.go:595).                                                  *)
PaidIsNotClosed == [][order.status = "success" => order'.status # "closed"]_vars
=============================================================================
