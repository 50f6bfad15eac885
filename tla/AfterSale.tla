------------------------------ MODULE AfterSale ------------------------------
(***************************************************************************)
(* The after-sales of one paid order: application, decision, return of the  *)
(* goods, refund, completion (src/internal/service/mall/trade/after_sale.go *)
(* and the UpdateOrderItemWhenAfterSale... functions of order_update.go).   *)
(*                                                                         *)
(* Every operation reads the after-sale and later updates it on condition   *)
(* that its status is the one read.  The pay side is RefundLedger, which    *)
(* PayRefund implements.  order.refund_status, logs and logistics are data. *)
(***************************************************************************)
EXTENDS Integers, FiniteSets

CONSTANTS Items,          \* the order's items
          ItemPrice,      \* what each of them was paid with, in cents
          Asked,          \* the refund prices members ask for
          MaxAfterSales,  \* bound on the after-sales of the order
          Requests,       \* concurrent requests of the member and of administrators
          Notifier,       \* the delivery of refund notifications, which PayNotify models
          MaxFaults       \* bound on database errors, cancelled calls and crashes

ASSUME AfterSaleAssumption ==
          /\ IsFiniteSet(Items)
          /\ ItemPrice \in Nat \ {0}
          /\ Asked \subseteq Nat
          /\ MaxAfterSales \in Nat
          /\ MaxFaults \in Nat

VARIABLES order,      \* status and refund_price of the trade_order row
          item,       \* after_sale_status of each trade_order_item row
          as,         \* the trade_after_sale rows
          refunded,   \* refunded so far by the pay side
          payRefund,  \* the pay refund of each after-sale: its merchant refund id is the after-sale's
          amount,     \* and its amount
          faults,     \* errors and crashes so far
          local       \* what each process holds between two of its steps

vars == <<order, item, as, refunded, payRefund, amount, faults, local>>

AfterSales == 1..MaxAfterSales
Process == Requests \cup {Notifier}

Pay == INSTANCE RefundLedger WITH Refunds <- AfterSales, Price <- ItemPrice * Cardinality(Items),
                                  state <- payRefund

PaySide == <<refunded, payRefund, amount>>

Open == {"apply", "agree", "delivery", "wait"}
Dropped == {"canceled", "disagreed", "refused"}
AfterSaleStatus == {"none", "complete"} \cup Open \cup Dropped

NoItem == "none"
Idle == [pc |-> "idle", as |-> 0, from |-> "none", to |-> "none",
         item |-> NoItem, way |-> "none", price |-> 0, last |-> FALSE]

\* The transaction that completes an after-sale keeps its item locked while it
\* reads the order and the other items.
Completing == {"readItems", "commitComplete"}
ItemFree(i) == \A p \in Process : local[p].pc \in Completing => as[local[p].as].item # i

NewAfterSale(a) == as[a].status = "none" /\ \A b \in 1..(a - 1) : as[b].status # "none"

Goto(p, l) == local' = [local EXCEPT ![p] = l]

Init == /\ order = [status |-> "undelivered", refundPrice |-> 0]
        /\ item = [i \in Items |-> "none"]
        /\ as = [a \in AfterSales |-> [status |-> "none", item |-> NoItem, way |-> "none", price |-> 0]]
        /\ Pay!Init
        /\ faults = 0
        /\ local = [p \in Process |-> Idle]

-----------------------------------------------------------------------------
(* CreateAfterSale *)

WithinItemPrice(price) == price \in 0..ItemPrice

Applicable(i, way) ==
    /\ item[i] = "none"
    /\ order.status # "canceled"
    /\ way = "return" => order.status = "delivered"

\* The price asked for is part of the request; neither it nor the item's changes, so
\* it is chosen and compared where it is written.
ApplyRead(p, i, way) ==
    /\ local[p].pc = "idle"
    /\ Applicable(i, way)
    /\ Goto(p, [Idle EXCEPT !.pc = "create", !.item = i, !.way = way])
    /\ UNCHANGED <<order, item, as, PaySide, faults>>

\* Mutant: the item is written whatever its status.
AnyItem(i) == TRUE

ItemUnclaimed(i) == item[i] = "none"

\* The after-sale and its item in one transaction, which an item claimed in the
\* meantime rolls back.
CreateAfterSale(p) ==
    /\ local[p].pc = "create"
    /\ LET i == local[p].item
       IN  /\ ItemFree(i)
           /\ \/ /\ ItemUnclaimed(i)
                 /\ \E a \in AfterSales, price \in Asked :
                       /\ NewAfterSale(a) /\ WithinItemPrice(price)
                       /\ as' = [as EXCEPT ![a] = [status |-> "apply", item |-> i,
                                                   way |-> local[p].way, price |-> price]]
                 /\ item' = [item EXCEPT ![i] = "apply"]
              \/ ~ItemUnclaimed(i) /\ UNCHANGED <<item, as>>
    /\ Goto(p, Idle)
    /\ UNCHANGED <<order, PaySide, faults>>

-----------------------------------------------------------------------------
(* The decisions: each reads the status it starts from, then updates.        *)

Decide(p, a, from, to) ==
    /\ local[p].pc = "idle"
    /\ as[a].status \in from
    /\ Goto(p, [Idle EXCEPT !.pc = "update", !.as = a, !.from = as[a].status, !.to = to])
    /\ UNCHANGED <<order, item, as, PaySide, faults>>

\* Mutant: an after-sale is cancelled although its refund may be under way.
CancelableUntilPaid == {"apply", "agree", "delivery", "wait"}

Cancelable == {"apply", "agree", "delivery"}

CancelAfterSale(p, a)   == Decide(p, a, Cancelable, "canceled")
AgreeAfterSale(p, a)    == Decide(p, a, {"apply"}, IF as[a].way = "refund" THEN "wait" ELSE "agree")
DisagreeAfterSale(p, a) == Decide(p, a, {"apply"}, "disagreed")
DeliveryAfterSale(p, a) == Decide(p, a, {"agree"}, "delivery")
ReceiveAfterSale(p, a)  == Decide(p, a, {"delivery"}, "wait")
RefuseAfterSale(p, a)   == Decide(p, a, {"delivery"}, "refused")

\* Mutant: the update has no condition on the status.
AnyStatus(p) == TRUE

SameStatus(p) == as[local[p].as].status = local[p].from

\* With a decision against it the item may be applied for again.
UpdateAfterSale(p) ==
    /\ local[p].pc = "update"
    /\ LET a == local[p].as
       IN  /\ ItemFree(as[a].item)
           /\ \/ /\ SameStatus(p)
                 /\ as' = [as EXCEPT ![a].status = local[p].to]
                 /\ item' = IF local[p].to \in Dropped
                            THEN [item EXCEPT ![as[a].item] = "none"] ELSE item
              \/ ~SameStatus(p) /\ UNCHANGED <<item, as>>
    /\ Goto(p, Idle)
    /\ UNCHANGED <<order, PaySide, faults>>

-----------------------------------------------------------------------------
(* RefundAfterSale: at no price it completes the after-sale at once, else it *)
(* asks the pay side, which refuses a second refund of the same after-sale   *)
(* and one beside another pending refund of the order.                      *)

RefundRead(p, a) ==
    /\ local[p].pc = "idle"
    /\ as[a].status = "wait" /\ as[a].price > 0
    /\ Goto(p, [Idle EXCEPT !.pc = "createRefund", !.as = a])
    /\ UNCHANGED <<order, item, as, PaySide, faults>>

CreateRefund(p) ==
    /\ local[p].pc = "createRefund"
    /\ Pay!Reserve(local[p].as, as[local[p].as].price) \/ UNCHANGED PaySide
    /\ Goto(p, Idle)
    /\ UNCHANGED <<order, item, as, faults>>

-----------------------------------------------------------------------------
(* UpdateAfterSaleRefunded: called by RefundAfterSale at no price, and for   *)
(* every delivery of a refund notification, in any order and repeatedly.    *)

RefundConfirmed(a) == as[a].price > 0 => payRefund[a] = "success" /\ amount[a] = as[a].price

RefundedRead(p, a) ==
    /\ local[p].pc = "idle"
    /\ as[a].status = "wait"
    /\ RefundConfirmed(a)
    /\ Goto(p, [Idle EXCEPT !.pc = "casComplete", !.as = a])
    /\ UNCHANGED <<order, item, as, PaySide, faults>>

\* Mutant: a second notification completes the after-sale once more.
AnyCompletion(a) == TRUE

StillWaiting(a) == as[a].status = "wait"

\* After-sale and item are updated, and the order's sum so far is read.
CasComplete(p) ==
    /\ local[p].pc = "casComplete"
    /\ LET a == local[p].as
       IN  /\ ItemFree(as[a].item)
           /\ IF StillWaiting(a)
              THEN Goto(p, [local[p] EXCEPT !.pc = "readItems", !.price = order.refundPrice])
              ELSE Goto(p, Idle)
    /\ UNCHANGED <<order, item, as, PaySide, faults>>

\* Whether every other item is done, which another completion may have decided since.
ReadItems(p) ==
    LET others == Items \ {as[local[p].as].item} IN
    /\ local[p].pc = "readItems"
    /\ Goto(p, [local[p] EXCEPT !.pc = "commitComplete",
                                !.last = \A i \in others : item[i] = "success"])
    /\ UNCHANGED <<order, item, as, PaySide, faults>>

CommitComplete(p) ==
    /\ local[p].pc = "commitComplete"
    /\ LET a == local[p].as
       IN  /\ as' = [as EXCEPT ![a].status = "complete"]
           /\ item' = [item EXCEPT ![as[a].item] = "success"]
           /\ order' = [status |-> IF local[p].last THEN "canceled" ELSE order.status,
                        refundPrice |-> local[p].price + as[a].price]
    /\ Goto(p, Idle)
    /\ UNCHANGED <<PaySide, faults>>

-----------------------------------------------------------------------------
\* The order is delivered, whatever its status (TradeOrder); "delivered" stands for
\* received too, which is the same to an after-sale.
OrderMovesOn ==
    /\ order' = [order EXCEPT !.status = "delivered"]
    /\ UNCHANGED <<item, as, PaySide, faults, local>>

\* The channel decides on a refund (PayRefund).
RefundSettles ==
    /\ \E a \in AfterSales : Pay!Settle(a) \/ Pay!Release(a)
    /\ UNCHANGED <<order, item, as, faults, local>>

\* An error, a cancelled call or a crash: an open transaction is rolled back.
Fail(p) ==
    /\ local[p].pc # "idle"
    /\ faults < MaxFaults /\ faults' = faults + 1
    /\ Goto(p, Idle)
    /\ UNCHANGED <<order, item, as, PaySide>>

Apply(p) ==
    \/ \E i \in Items, way \in {"refund", "return"} : ApplyRead(p, i, way)
    \/ CreateAfterSale(p)

Change(p) ==
    \/ \E a \in AfterSales : \/ CancelAfterSale(p, a) \/ AgreeAfterSale(p, a)
                             \/ DisagreeAfterSale(p, a) \/ DeliveryAfterSale(p, a)
                             \/ ReceiveAfterSale(p, a) \/ RefuseAfterSale(p, a)
    \/ UpdateAfterSale(p)

RefundAfterSale(p) == (\E a \in AfterSales : RefundRead(p, a)) \/ CreateRefund(p)

UpdateAfterSaleRefunded(p) ==
    \/ \E a \in AfterSales : RefundedRead(p, a)
    \/ CasComplete(p) \/ ReadItems(p) \/ CommitComplete(p)

Next == \/ OrderMovesOn \/ RefundSettles
        \/ \E p \in Requests : Apply(p) \/ Change(p) \/ RefundAfterSale(p)
        \/ \E p \in Process : UpdateAfterSaleRefunded(p) \/ Fail(p)

Spec == Init /\ [][Next]_vars

-----------------------------------------------------------------------------
LocalState == [pc : {"idle", "create", "update", "createRefund", "casComplete"} \cup Completing,
               as : {0} \cup AfterSales, from : AfterSaleStatus, to : AfterSaleStatus,
               item : Items \cup {NoItem}, way : {"none", "refund", "return"},
               price : Nat, last : BOOLEAN]

TypeOK == /\ order \in [status : {"undelivered", "delivered", "canceled"}, refundPrice : Nat]
          /\ item \in [Items -> {"none", "apply", "success"}]
          /\ as \in [AfterSales -> [status : AfterSaleStatus, item : Items \cup {NoItem},
                                   way : {"none", "refund", "return"}, price : 0..ItemPrice]]
          /\ refunded \in Nat
          /\ payRefund \in [AfterSales -> Pay!States]
          /\ amount \in [AfterSales -> Nat]
          /\ faults \in 0..MaxFaults
          /\ local \in [Process -> LocalState]

(* An item is in one after-sale at a time and in none after a completed one, *)
(* however applications overlap: it is never refunded twice.                *)
OneActivePerItem ==
    \A a, b \in AfterSales :
       /\ as[a].status \in Open \cup {"complete"} /\ as[b].status \in Open \cup {"complete"}
       /\ as[a].item = as[b].item
       => a = b

(* The item says what its after-sales say, although each side is updated on  *)
(* a condition of its own.                                                  *)
ItemFollowsAfterSale ==
    \A i \in Items :
       /\ item[i] = "apply" <=> \E a \in AfterSales : as[a].item = i /\ as[a].status \in Open
       /\ item[i] = "success" <=> \E a \in AfterSales : as[a].item = i /\ as[a].status = "complete"

(* "A cancelled after-sale is refunded" (java-alignment-audit.md:316) never  *)
(* happens: money is only asked for an agreed after-sale, and the agreement *)
(* stands from then on.                                                     *)
RefundedIsAgreed == \A a \in AfterSales : payRefund[a] # "none" => as[a].status \in {"wait", "complete"}

(* A completed after-sale has had its price refunded.                       *)
CompleteIsRefunded ==
    \A a \in AfterSales : as[a].status = "complete" /\ as[a].price > 0
                           => payRefund[a] = "success" /\ amount[a] = as[a].price

(* Together: items and after-sales agree on who has claimed what.           *)
ItemsSettled == TypeOK /\ OneActivePerItem /\ ItemFollowsAfterSale

(* Together: agreement, pay refund and completion follow each other, and     *)
(* none runs ahead of the one before.                                       *)
RefundsAgreed == RefundedIsAgreed /\ CompleteIsRefunded

(* The order never counts more as refunded than was: repeated notifications  *)
(* add nothing (audit-findings.md:193).                                     *)
CountedIsRefunded == order.refundPrice <= refunded

(* A finished after-sale stays as it is, and what was applied for with it.   *)
FinalStays == [][\A a \in AfterSales : as[a].status \in Dropped \cup {"complete"} => as'[a] = as[a]]_vars

(* The after-sale that completes the last item cancels the order             *)
(* (order_update.go:1809).                                                  *)
LastItemCancels ==
    [][(\A i \in Items : item'[i] = "success") /\ (\E i \in Items : item[i] # "success")
       => order'.status = "canceled"]_vars
===============================================================================
