------------------------------ MODULE TradeOrder ------------------------------
(***************************************************************************)
(* One order of the mall from its creation to its end                       *)
(* (src/internal/service/mall/trade/order_update.go, order_processors.go):  *)
(* payment, cancellation by the member and by the job, price adjustment,    *)
(* delivery, receipt, deletion; after-sales are in AfterSale.               *)
(*                                                                         *)
(* Every operation reads the order first and writes it later; `local' holds *)
(* what it read.  Only UpdateOrderPrice keeps its transaction open over     *)
(* another statement of the database, and with it the lock of the row.      *)
(***************************************************************************)
EXTENDS Integers

CONSTANTS Requests,     \* concurrent requests
          Job,          \* the run of CancelOrderBySystem and ReceiveOrderBySystem
          Price,        \* what the new order costs
          Adjustments,  \* the price adjustments an administrator may ask for
          MaxFaults     \* bound on database errors, cancelled calls and crashes

ASSUME TradeOrderAssumption ==
          /\ Price \in Nat \ {0}
          /\ Adjustments \subseteq Int
          /\ MaxFaults \in Nat

VARIABLES order,     \* the trade_order row
          pay,       \* its pay_order row, a PayRow; PayOrder models it in full
          released,  \* how often stock, coupon and points of the order were given back
          gone,      \* its coupon or one of its SKUs has been deleted
          faults,    \* errors and crashes so far
          local      \* what each request holds between two of its steps

vars == <<order, pay, released, gone, faults, local>>

PaySide == INSTANCE PayRow WITH row <- pay, Prices <- Nat \ {0}

Process == Requests \cup {Job}

OrderStatus == {"none", "unpaid", "undelivered", "delivered", "completed", "canceled", "deleted"}

Idle == [pc |-> "idle", price |-> 0, adjust |-> 0]

\* The open transaction of UpdateOrderPrice has locked the order.
OrderFree == \A p \in Process : local[p].pc \notin {"checkPay", "writePay", "commitPrice"}

Exists == order.status \notin {"none", "deleted"}

Goto(p, l) == local' = [local EXCEPT ![p] = l]
Advance(p, pc) == Goto(p, [local[p] EXCEPT !.pc = pc])

Init == /\ order = [status |-> "none", paid |-> FALSE, price |-> 0, adjust |-> 0]
        /\ PaySide!Init
        /\ released = 0
        /\ gone = FALSE
        /\ faults = 0
        /\ local = [p \in Process |-> Idle]

\* Order, items, stock, coupon, points and pay order: one transaction.
CreateOrder ==
    /\ order.status = "none"
    /\ order' = [order EXCEPT !.status = "unpaid", !.price = Price]
    /\ PaySide!Create(Price)
    /\ UNCHANGED <<released, gone, faults, local>>

-----------------------------------------------------------------------------
(* cancelUnpaidOrder: for the member, and for the job on expired orders.    *)

CancelRead(p) ==
    /\ local[p].pc = "idle"
    /\ order.status = "unpaid"
    /\ Advance(p, "askPay")
    /\ UNCHANGED <<order, pay, released, gone, faults>>

\* Mutant: only an expired pay order lets its order be cancelled.
PayClosed == pay.status = "closed"

PayNotSuccess == pay.status # "success"

CancelAskPay(p) ==
    /\ local[p].pc = "askPay"
    /\ IF PayNotSuccess THEN Advance(p, "casCancel") ELSE Goto(p, Idle)
    /\ UNCHANGED <<order, pay, released, gone, faults>>

\* An error of that question does not stop the cancellation.
CancelAskPayFails(p) ==
    /\ local[p].pc = "askPay"
    /\ faults < MaxFaults /\ faults' = faults + 1
    /\ Advance(p, "casCancel")
    /\ UNCHANGED <<order, pay, released, gone>>

\* Mutant: the status condition of the update dropped.
AnyStatus == Exists

StillUnpaid == order.status = "unpaid"

\* AfterCancelOrder, in the transaction of the update, fails for a deleted
\* coupon or SKU.
GiveBack == ~gone /\ released' = released + 1

CasCancel(p) ==
    /\ local[p].pc = "casCancel"
    /\ OrderFree
    /\ \/ /\ StillUnpaid /\ GiveBack
          /\ order' = [order EXCEPT !.status = "canceled"]
       \/ (~StillUnpaid \/ gone) /\ UNCHANGED <<order, released>>
    /\ Goto(p, Idle)
    /\ UNCHANGED <<pay, gone, faults>>

-----------------------------------------------------------------------------
(* UpdateOrderPaid: PayOrderProcessor.Handle.  Its callers promise nothing   *)
(* about the pay order.                                                     *)

PaidRead(p) ==
    /\ local[p].pc = "idle"
    /\ order.status = "unpaid" /\ ~order.paid
    /\ Goto(p, [pc |-> "validatePaid", price |-> order.price, adjust |-> 0])
    /\ UNCHANGED <<order, pay, released, gone, faults>>

\* Mutant: no look at the status of the pay order.
StatusUnchecked(p) == pay.price = local[p].price

PayOrderPaid(p) == pay.status = "success" /\ pay.price = local[p].price

ValidatePaid(p) ==
    /\ local[p].pc = "validatePaid"
    /\ IF PayOrderPaid(p) THEN Advance(p, "casPaid") ELSE Goto(p, Idle)
    /\ UNCHANGED <<order, pay, released, gone, faults>>

CasPaid(p) ==
    /\ local[p].pc = "casPaid"
    /\ OrderFree
    /\ order' = IF order.status = "unpaid"
                THEN [order EXCEPT !.status = "undelivered", !.paid = TRUE] ELSE order
    /\ Goto(p, Idle)
    /\ UNCHANGED <<pay, released, gone, faults>>

-----------------------------------------------------------------------------
(* UpdateOrderPrice: a transaction on the order around a call of the pay     *)
(* service that commits on its own.                                         *)

PositivePrice(adjust) == order.price + adjust > 0

PriceRead(p, adjust) ==
    /\ local[p].pc = "idle"
    /\ Exists /\ ~order.paid
    /\ order.adjust <= 0
    /\ PositivePrice(adjust)
    /\ Goto(p, [pc |-> "updatePrice", price |-> order.price + adjust,
                adjust |-> order.adjust + adjust])
    /\ UNCHANGED <<order, pay, released, gone, faults>>

PriceUpdate(p) ==
    /\ local[p].pc = "updatePrice"
    /\ OrderFree
    /\ Advance(p, "checkPay")
    /\ UNCHANGED <<order, pay, released, gone, faults>>

\* Mutant: the pay order is written whatever its status.
AnyPayStatus == TRUE

PayOrderWaiting == pay.status = "waiting"

PriceCheckPay(p) ==
    /\ local[p].pc = "checkPay"
    /\ IF PayOrderWaiting THEN Advance(p, "writePay") ELSE Goto(p, Idle)
    /\ UNCHANGED <<order, pay, released, gone, faults>>

PriceWritePay(p) ==
    /\ local[p].pc = "writePay"
    /\ PaySide!Reprice(local[p].price)
    /\ Advance(p, "commitPrice")
    /\ UNCHANGED <<order, released, gone, faults>>

PriceCommit(p) ==
    /\ local[p].pc = "commitPrice"
    /\ order' = IF Exists THEN [order EXCEPT !.price = local[p].price, !.adjust = local[p].adjust]
                ELSE order
    /\ Goto(p, Idle)
    /\ UNCHANGED <<pay, released, gone, faults>>

-----------------------------------------------------------------------------
(* Delivery, receipt, pick-up, deletion.                                    *)

\* DeliveryOrderProcessor writes the status whatever it was.
DeliveryOrder ==
    /\ Exists /\ OrderFree
    /\ order' = [order EXCEPT !.status = "delivered"]
    /\ UNCHANGED <<pay, released, gone, faults, local>>

ReceiveRead(p) ==
    /\ local[p].pc = "idle"
    /\ order.status = "delivered"
    /\ Advance(p, "casReceive")
    /\ UNCHANGED <<order, pay, released, gone, faults>>

CasReceive(p) ==
    /\ local[p].pc = "casReceive"
    /\ OrderFree
    /\ order' = IF order.status = "delivered" THEN [order EXCEPT !.status = "completed"] ELSE order
    /\ Goto(p, Idle)
    /\ UNCHANGED <<pay, released, gone, faults>>

PickUpRead(p) ==
    /\ local[p].pc = "idle"
    /\ order.status = "delivered"
    /\ Advance(p, "writePickUp")
    /\ UNCHANGED <<order, pay, released, gone, faults>>

WritePickUp(p) ==
    /\ local[p].pc = "writePickUp"
    /\ OrderFree
    /\ order' = IF Exists THEN [order EXCEPT !.status = "completed"] ELSE order
    /\ Goto(p, Idle)
    /\ UNCHANGED <<pay, released, gone, faults>>

DeleteRead(p) ==
    /\ local[p].pc = "idle"
    /\ order.status = "canceled"
    /\ Advance(p, "deleteOrder")
    /\ UNCHANGED <<order, pay, released, gone, faults>>

DeleteOrder(p) ==
    /\ local[p].pc = "deleteOrder"
    /\ OrderFree
    /\ order' = [order EXCEPT !.status = "deleted"]
    /\ Goto(p, Idle)
    /\ UNCHANGED <<pay, released, gone, faults>>

-----------------------------------------------------------------------------
\* The pay order is paid, is refunded, or expires, even after its payment; a
\* cancelled trade order does not close it.
PayOrderChanges ==
    /\ PaySide!Pay \/ PaySide!Refund \/ PaySide!Close
    /\ UNCHANGED <<order, released, gone, faults, local>>

\* An administrator deletes the coupon or a SKU of the order, and nothing
\* restores it.  Only the cancellation of an unpaid order asks for them here.
DeleteCouponOrSku ==
    /\ order.status = "unpaid"
    /\ ~gone /\ gone' = TRUE
    /\ UNCHANGED <<order, pay, released, faults, local>>

\* An error, a cancelled call or a crash: an open transaction is rolled back.
Fail(p) ==
    /\ local[p].pc # "idle"
    /\ faults < MaxFaults /\ faults' = faults + 1
    /\ Goto(p, Idle)
    /\ UNCHANGED <<order, pay, released, gone>>

CancelUnpaidOrder(p) ==
    CancelRead(p) \/ CancelAskPay(p) \/ CancelAskPayFails(p) \/ CasCancel(p)
UpdateOrderPaid(p) == PaidRead(p) \/ ValidatePaid(p) \/ CasPaid(p)
UpdateOrderPrice(p) ==
    \/ \E adjust \in Adjustments : PriceRead(p, adjust)
    \/ PriceUpdate(p) \/ PriceCheckPay(p) \/ PriceWritePay(p) \/ PriceCommit(p)
ReceiveOrder(p) == ReceiveRead(p) \/ CasReceive(p)
PickUpOrder(p) == PickUpRead(p) \/ WritePickUp(p)

Next == \/ CreateOrder \/ DeliveryOrder \/ PayOrderChanges \/ DeleteCouponOrSku
        \/ \E p \in Requests : \/ CancelUnpaidOrder(p) \/ UpdateOrderPaid(p)
                               \/ UpdateOrderPrice(p) \/ ReceiveOrder(p) \/ PickUpOrder(p)
                               \/ DeleteRead(p) \/ DeleteOrder(p)
                               \/ Fail(p)
        \/ CancelUnpaidOrder(Job) \/ ReceiveOrder(Job) \/ Fail(Job)

Spec == Init /\ [][Next]_vars

(***************************************************************************)
(* Fairness: a request goes on; the order's lock goes to each who waits     *)
(* for it; the scheduler starts the cancelling job again and again.         *)
(***************************************************************************)
Running(p) == \/ CancelAskPay(p) \/ ValidatePaid(p)
              \/ PriceCheckPay(p) \/ PriceWritePay(p) \/ PriceCommit(p)

Locking(p) == \/ CasCancel(p) \/ CasPaid(p) \/ PriceUpdate(p)
              \/ CasReceive(p) \/ WritePickUp(p) \/ DeleteOrder(p)

Fairness == /\ \A p \in Process : WF_vars(Running(p)) /\ SF_vars(Locking(p))
            /\ SF_vars(CancelRead(Job))

FairSpec == Spec /\ Fairness

-----------------------------------------------------------------------------
LocalState == [pc : {"idle", "askPay", "casCancel", "validatePaid", "casPaid", "updatePrice",
                     "checkPay", "writePay", "commitPrice", "casReceive", "writePickUp",
                     "deleteOrder"},
               price : Nat, adjust : Int]

TypeOK == /\ order \in [status : OrderStatus, paid : BOOLEAN, price : Nat, adjust : Int]
          /\ pay \in [status : {"none", "waiting", "success", "refund", "closed"},
                     price : Nat, paid : BOOLEAN]
          /\ released \in Nat
          /\ gone \in BOOLEAN
          /\ faults \in 0..MaxFaults
          /\ local \in [Process -> LocalState]

(* "Paid, yet the stock released" (order_update.go:1416) never happens: what  *)
(* a paid order took is not given back, however payment and cancellation    *)
(* overlap.                                                                 *)
PaidKeepsStock == order.paid => released = 0

(* Stock, coupon and points of an order are given back once at the most, and *)
(* a cancelled order has given them back.                                   *)
ReleasedOnce == /\ released <= 1
                /\ order.status \in {"canceled", "deleted"} => released = 1

(* Together: the stock of an order is with it or was given back, never both. *)
StockSettled == TypeOK /\ PaidKeepsStock /\ ReleasedOnce

(* A paid order rests on a payment that its pay order has accepted, and the  *)
(* two agree on the price unless a price adjustment was cut off between its  *)
(* two commits; the pay order's status may have gone on since.              *)
PaidIsBacked == order.paid => /\ pay.paid
                              /\ faults = 0 => pay.price = order.price

(* Once the order is paid no adjustment that began before changes its price  *)
(* or that of the pay order, although it checked pay_status before.         *)
PriceFixedOncePaid == [][order.paid => order'.price = order.price /\ pay'.price = pay.price]_vars

(* An order nobody pays for does not keep its stock for ever: the job        *)
(* cancels it, whatever its price adjustments do meanwhile, unless its       *)
(* coupon or an SKU is deleted, which rolls every cancellation back.         *)
UnpaidSettles ==
    order.status = "unpaid" ~> (order.status # "unpaid" \/ pay.status = "success" \/ gone)
===============================================================================
