------------------------------ MODULE PayRefund ------------------------------
(***************************************************************************)
(* The refunds of one paid pay order (src/internal/service/pay/refund.go):  *)
(* CreateRefund, the channel's callback, the SyncRefund job.                *)
(*                                                                         *)
(* As in PayOrder, a request is a process, a transaction is several steps   *)
(* of it under READ COMMITTED, and row locks are functions of `local'.  The *)
(* order's status is SUCCESS while `refunded' is 0 and REFUND from then on. *)
(***************************************************************************)
EXTENDS Integers, FiniteSetsExt

CONSTANTS Refunds,    \* merchant refund ids, unique by an index
          Requests,   \* concurrent requests and job runs
          Price,      \* pay_order.price
          Amounts,    \* the amounts the merchant asks for
          MaxFaults   \* bound on database errors, crashes and failed calls

ASSUME PayRefundAssumption ==
          /\ Price \in Nat
          /\ Amounts \subseteq Nat \ {0}
          /\ MaxFaults \in Nat

VARIABLES protocol,  \* how the order's channel answers
          refunded,  \* pay_order.refund_price
          refund,    \* the pay_refund rows
          channel,   \* the channel's own record of each refund
          tasks,     \* pay_notify_task rows of type REFUND
          faults,    \* database errors, crashes and failed calls so far
          local      \* what each request holds between two of its steps

vars == <<protocol, refunded, refund, channel, tasks, faults, local>>

RefundStatus == {"none", "waiting", "success", "failure"}
Idle == [pc |-> "idle", refund |-> "none", price |-> 0, msg |-> "none", seen |-> 0]

\* Rows a running transaction has locked.
OrderFree     == \A p \in Requests : local[p].pc # "insertRefund"
RefundFree(r) == \A p \in Requests :
                    ~(local[p].pc \in {"readOrder", "casOrder"} /\ local[p].refund = r)

Goto(p, l) == local' = [local EXCEPT ![p] = l]
Advance(p, pc) == Goto(p, [local[p] EXCEPT !.pc = pc])

Init == /\ protocol \in {"weixin", "alipay"}
        /\ refunded = 0
        /\ refund = [r \in Refunds |-> [status |-> "none", price |-> 0]]
        /\ channel = [r \in Refunds |-> "none"]
        /\ tasks = [r \in Refunds |-> 0]
        /\ faults = 0
        /\ local = [p \in Requests |-> Idle]

-----------------------------------------------------------------------------
(* CreateRefund: validate; lock the order and validate again; insert and    *)
(* commit; call the channel; treat its answer as a notification.            *)
Affordable(price) == price <= Price - refunded
NoRefundingOrder == \A r \in Refunds : refund[r].status # "waiting"
PayRefundExists(r) == refund[r].status # "none"

CreateValidate(p, r, price) ==
    /\ local[p].pc = "idle"
    /\ Affordable(price) /\ NoRefundingOrder /\ ~PayRefundExists(r)
    /\ Goto(p, [Idle EXCEPT !.pc = "lockOrder", !.refund = r, !.price = price])
    /\ UNCHANGED <<protocol, refunded, refund, channel, tasks, faults>>

\* Mutants of the two checks under the lock: one relies on the first check, as the
\* code would without the second; the other forgets what is refunded already.
CheckedBefore == TRUE
OfFullPrice(price) == price <= Price

RecheckRefunding == NoRefundingOrder
RecheckPrice(price) == Affordable(price)

CreateLock(p) ==
    /\ local[p].pc = "lockOrder"
    /\ OrderFree
    /\ IF RecheckPrice(local[p].price) THEN Advance(p, "insertRefund") ELSE Goto(p, Idle)
    /\ UNCHANGED <<protocol, refunded, refund, channel, tasks, faults>>

CreateInsert(p) ==
    LET r == local[p].refund IN
    /\ local[p].pc = "insertRefund"
    /\ \/ /\ RecheckRefunding /\ ~PayRefundExists(r)
          /\ refund' = [refund EXCEPT ![r] = [status |-> "waiting", price |-> local[p].price]]
          /\ Advance(p, "unifiedRefund")
       \/ /\ ~RecheckRefunding \/ PayRefundExists(r)
          /\ Goto(p, Idle)
          /\ UNCHANGED refund
    /\ UNCHANGED <<protocol, refunded, channel, tasks, faults>>

\* Mutants of convertRefund: a refund still in progress, or in need of intervention,
\* taken for a failure; a closed one left pending.
AbnormalAsFailure(state) == IF state = "success" THEN "success" ELSE "failure"
ClosedAsPending(state)   == IF state = "success" THEN "success" ELSE "none"

\* What NotifyRefund is to do with an answer of the channel; "none": nothing.
ConvertRefund(state) == CASE state = "processing" -> "none"
                          [] state = "success" -> "success"
                          [] state = "closed" -> "failure"

Notified(r, msg) == [Idle EXCEPT !.pc = "readRefund", !.refund = r, !.msg = msg]

Answered(p, r, msg) == Goto(p, IF msg = "none" THEN Idle ELSE Notified(r, msg))

\* WeChat takes the refund and processes it later or at once.
UnifiedRefundWeixin(p) ==
    LET r == local[p].refund IN
    /\ protocol = "weixin"
    /\ local[p].pc = "unifiedRefund"
    /\ \E state \in {"processing", "success", "closed"} :
          /\ channel' = [channel EXCEPT ![r] = state]
          /\ Answered(p, r, ConvertRefund(state))
    /\ UNCHANGED <<protocol, refunded, refund, tasks, faults>>

\* Alipay refunds at once or refuses; the answer of a refusal carries no refund
\* number, and NotifyRefund rejects it.
UnifiedRefundAlipay(p) ==
    LET r == local[p].refund IN
    /\ protocol = "alipay"
    /\ local[p].pc = "unifiedRefund"
    /\ \/ channel' = [channel EXCEPT ![r] = "success"] /\ Goto(p, Notified(r, "success"))
       \/ UNCHANGED channel /\ Goto(p, Idle)
    /\ UNCHANGED <<protocol, refunded, refund, tasks, faults>>

\* The call fails, before or after the channel has taken the refund.
UnifiedRefundLost(p) ==
    LET r == local[p].refund IN
    /\ local[p].pc = "unifiedRefund"
    /\ faults < MaxFaults /\ faults' = faults + 1
    /\ \/ UNCHANGED channel
       \/ channel' = [channel EXCEPT ![r] = IF protocol = "weixin" THEN "processing" ELSE "success"]
    /\ Goto(p, Idle)
    /\ UNCHANGED <<protocol, refunded, refund, tasks>>

-----------------------------------------------------------------------------
ChannelProcesses(r) ==
    /\ channel[r] = "processing"
    /\ \E state \in {"success", "closed"} : channel' = [channel EXCEPT ![r] = state]
    /\ UNCHANGED <<protocol, refunded, refund, tasks, faults, local>>

\* Only WeChat calls back; it may do so late, more than once and in any order.
Callback(p, r) ==
    /\ protocol = "weixin"
    /\ local[p].pc = "idle"
    /\ channel[r] # "none"
    /\ ConvertRefund(channel[r]) # "none"
    /\ Goto(p, Notified(r, ConvertRefund(channel[r])))
    /\ UNCHANGED <<protocol, refunded, refund, channel, tasks, faults>>

\* SyncRefund: find a WAITING refund, of whatever age, then ask the channel.
SyncFind(p, r) ==
    /\ local[p].pc = "idle"
    /\ refund[r].status = "waiting"
    /\ Goto(p, [Idle EXCEPT !.pc = "getRefund", !.refund = r])
    /\ UNCHANGED <<protocol, refunded, refund, channel, tasks, faults>>

\* What a refund the channel does not know reads as. WeChat's answer is an error, which
\* ends the run; Alipay's has no amount, which is taken for a failure, but if it does
\* not carry the numbers either, NotifyRefund rejects it. Of a refund it has made
\* Alipay returns the numbers.
UnknownRefund == IF protocol = "weixin" THEN {"none"} ELSE {"none", "failure"}

SyncQuery(p) ==
    LET r == local[p].refund IN
    /\ local[p].pc = "getRefund"
    /\ \/ channel[r] # "none" /\ Answered(p, r, ConvertRefund(channel[r]))
       \/ channel[r] = "none" /\ \E msg \in UnknownRefund : Answered(p, r, msg)
    /\ UNCHANGED <<protocol, refunded, refund, channel, tasks, faults>>

-----------------------------------------------------------------------------
(* NotifyRefund: one transaction over the refund and then the order.        *)

\* Mutant: a SUCCESS goes on to the order, as it does in NotifyOrder.
PendingOrSuccess(r) == refund[r].status \in {"waiting", "success"}

Pending(r) == refund[r].status = "waiting"

ReadRefund(p) ==
    /\ local[p].pc = "readRefund"
    /\ IF Pending(local[p].refund) THEN Advance(p, "casRefund") ELSE Goto(p, Idle)
    /\ UNCHANGED <<protocol, refunded, refund, channel, tasks, faults>>

UpdateRefund(p) ==
    /\ local[p].pc = "casRefund" /\ local[p].msg = "success"
    /\ RefundFree(local[p].refund)
    /\ IF Pending(local[p].refund) THEN Advance(p, "readOrder") ELSE Goto(p, Idle)
    /\ UNCHANGED <<protocol, refunded, refund, channel, tasks, faults>>

ReadOrder(p) ==
    /\ local[p].pc = "readOrder"
    /\ IF refund[local[p].refund].price \in 1..(Price - refunded)
       THEN Goto(p, [local[p] EXCEPT !.pc = "casOrder", !.seen = refunded])
       ELSE Goto(p, Idle)
    /\ UNCHANGED <<protocol, refunded, refund, channel, tasks, faults>>

CreatePayNotifyTask(r) == tasks' = [tasks EXCEPT ![r] = @ + 1]
FailedRefund(r) == [refund EXCEPT ![r].status = "failure"]

UpdateOrderRefundPrice(p) ==
    LET r == local[p].refund IN
    /\ local[p].pc = "casOrder"
    /\ OrderFree
    /\ \/ /\ refunded = local[p].seen
          /\ refunded' = local[p].seen + refund[r].price
          /\ refund' = [refund EXCEPT ![r].status = "success"]
          /\ CreatePayNotifyTask(r)
       \/ refunded # local[p].seen /\ UNCHANGED <<refunded, refund, tasks>>
    /\ Goto(p, Idle)
    /\ UNCHANGED <<protocol, channel, faults>>

UpdateRefundFailure(p) ==
    LET r == local[p].refund IN
    /\ local[p].pc = "casRefund" /\ local[p].msg = "failure"
    /\ RefundFree(r)
    /\ \/ /\ Pending(r)
          /\ refund' = FailedRefund(r)
          /\ CreatePayNotifyTask(r)
       \/ ~Pending(r) /\ UNCHANGED <<refund, tasks>>
    /\ Goto(p, Idle)
    /\ UNCHANGED <<protocol, refunded, channel, faults>>

-----------------------------------------------------------------------------
\* A statement fails, the call is cancelled or the process dies: the running
\* transaction is rolled back, what was committed before stays.
Fail(p) ==
    /\ local[p].pc # "idle"
    /\ faults < MaxFaults /\ faults' = faults + 1
    /\ Goto(p, Idle)
    /\ UNCHANGED <<protocol, refunded, refund, channel, tasks>>

CreateRefund(p) == \/ CreateLock(p) \/ CreateInsert(p)
                   \/ UnifiedRefundWeixin(p) \/ UnifiedRefundAlipay(p)
                   \/ UnifiedRefundLost(p)

NotifyRefund(p) == \/ ReadRefund(p) \/ UpdateRefund(p) \/ ReadOrder(p)
                   \/ UpdateOrderRefundPrice(p) \/ UpdateRefundFailure(p)

Next == \/ \E p \in Requests :
              \/ \E r \in Refunds : \/ \E price \in Amounts : CreateValidate(p, r, price)
                                    \/ Callback(p, r)
                                    \/ SyncFind(p, r)
              \/ CreateRefund(p)
              \/ SyncQuery(p)
              \/ NotifyRefund(p)
              \/ Fail(p)
        \/ \E r \in Refunds : ChannelProcesses(r)

Spec == Init /\ [][Next]_vars

(***************************************************************************)
(* Fairness: a running request goes on; a row lock goes to a waiting        *)
(* transaction sooner or later; the scheduler starts SyncRefund again and   *)
(* again, and a run works through all the refunds it finds.                 *)
(***************************************************************************)
Running(p) == \/ CreateInsert(p) \/ UnifiedRefundWeixin(p) \/ UnifiedRefundAlipay(p)
              \/ SyncQuery(p) \/ ReadRefund(p) \/ ReadOrder(p)

Locking(p) == \/ CreateLock(p) \/ UpdateRefund(p) \/ UpdateRefundFailure(p)
              \/ UpdateOrderRefundPrice(p)

Fairness == \A p \in Requests :
               /\ WF_vars(Running(p)) /\ SF_vars(Locking(p))
               /\ \A r \in Refunds : SF_vars(SyncFind(p, r))

FairSpec == Spec /\ Fairness

-----------------------------------------------------------------------------
LocalState == [pc     : {"idle", "lockOrder", "insertRefund", "unifiedRefund", "getRefund",
                         "readRefund", "casRefund", "readOrder", "casOrder"},
               refund : Refunds \cup {"none"},
               price  : Amounts \cup {0},
               msg    : {"none", "success", "failure"},
               seen   : 0..Price]

TypeOK ==
    /\ protocol \in {"weixin", "alipay"}
    /\ refunded \in 0..Price
    /\ refund \in [Refunds -> [status : RefundStatus, price : Amounts \cup {0}]]
    /\ channel \in [Refunds -> {"none", "processing", "success", "closed"}]
    /\ tasks \in [Refunds -> Nat]
    /\ faults \in 0..MaxFaults
    /\ local \in [Requests -> LocalState]

(* Whatever overlaps, the refunds of the order behave as if each operation   *)
(* were atomic: one pending refund at a time, reserved within the price.    *)
Ledger == INSTANCE RefundLedger WITH
             state  <- [r \in Refunds |-> refund[r].status],
             amount <- [r \in Refunds |-> refund[r].price]

ImplementsLedger == Ledger!Spec

(* The refunded sum and the pending amount never exceed what was paid.      *)
WithinPrice == Ledger!WithinPrice

(* refund_price of the order is exactly the sum of its successful refunds:   *)
(* no callback, query or retry is counted twice or lost.                    *)
RefundedIsSum ==
    refunded = SumFunctionOnSet([r \in Refunds |-> refund[r].price],
                                {r \in Refunds : refund[r].status = "success"})

(* The merchant learns of every refund that is final, of none before, and   *)
(* has one task for each.                                                   *)
OneTaskPerRefund ==
    \A r \in Refunds :
       tasks[r] = IF refund[r].status \in {"success", "failure"} THEN 1 ELSE 0

(* A SUCCESS is only recorded of a refund the channel has made.             *)
SuccessIsRefunded == \A r \in Refunds : refund[r].status = "success" => channel[r] = "success"

(* Together: every refund is within the price and told once, and counts as   *)
(* made only if the channel made it, however the answers overlap.           *)
RefundAccounted == TypeOK /\ WithinPrice /\ OneTaskPerRefund /\ SuccessIsRefunded

(* "Only a definite CLOSED releases" the reservation (decisions.md:115): a   *)
(* refund recorded as FAILURE is not one the channel makes or has made.     *)
FailedIsNotRefunded ==
    \A r \in Refunds : refund[r].status = "failure" => channel[r] \notin {"processing", "success"}

(* With WeChat, which tells failures apart, that is so.                      *)
WeixinFailureIsClosed == protocol = "weixin" => FailedIsNotRefunded

(* "The result can later be had by the refund callback or by the polling"    *)
(* (refund.go:135): what the channel has decided is recorded in the end,     *)
(* whatever answers and callbacks are lost. With Alipay, which never calls   *)
(* back, by the polling alone.                                              *)
DecidedIsRecorded ==
    \A r \in Refunds : channel[r] \in {"success", "closed"} ~> refund[r].status \in {"success", "failure"}
=============================================================================
