------------------------------ MODULE Checkout ------------------------------
(***************************************************************************)
(* The stock, the coupon and the points that the orders of one member take  *)
(* and give back (src/internal/service/mall/trade/order_update.go,          *)
(* order_processors.go, mall/product/sku.go, mall/promotion/coupon_user.go, *)
(* member/point.go).                                                       *)
(*                                                                         *)
(* CreateOrder and the cancellation of an unpaid order take and give back   *)
(* inside their own transaction.  CancelPaidOrder opens one too, but passes *)
(* its handlers a context without it: stock, coupon, points and refund      *)
(* commit one after the other, each on a connection of its own, while the   *)
(* order's own update is still open.  A transaction's effects are applied   *)
(* when it commits; the row locks it holds until then follow from `local'.  *)
(***************************************************************************)
EXTENDS Integers, Sequences, FiniteSets, Functions

CONSTANTS Orders,      \* orders the member may place, each by a request of its own
          Workers,     \* requests and jobs that cancel orders
          Skus,        \* the goods
          Basket,      \* the goods of each order, one of each kind, in order
          WithCoupon,  \* the orders placed with the member's coupon
          WithPoints,  \* the orders that may pay with the member's points
          Stock,       \* the stock of each of the goods at the start
          Points,      \* the member's points at the start
          MaxFaults,   \* bound on errors, cancelled calls and crashes
          MaxTorn      \* bound on the cut-off paid cancellations of one order

ASSUME CheckoutAssumption ==
          /\ IsFiniteSet(Orders) /\ IsFiniteSet(Workers) /\ Orders # {}
          /\ Orders \cap Workers = {}
          /\ Basket \in [Orders -> Seq(Skus)]
          /\ \A o \in Orders : \A i, j \in DOMAIN Basket[o] :
                Basket[o][i] = Basket[o][j] => i = j
          /\ WithCoupon \subseteq Orders /\ WithPoints \subseteq Orders
          /\ Stock \in Nat /\ Points \in Nat /\ MaxFaults \in Nat /\ MaxTorn \in Nat

VARIABLES stock,     \* product_sku.stock
          coupon,    \* the member's coupon: its status and the order that uses it
          points,    \* member_user.point
          orders,    \* the trade_order rows
          refunds,   \* the orders whose "order-<id>" pay refund exists
          torn,      \* <<order, n, stage>>: paid cancellations cut off after `stage'
          faults,    \* errors and crashes so far
          local      \* what each request holds between two of its steps

vars == <<stock, coupon, points, orders, refunds, torn, faults, local>>

Process == Orders \cup Workers

Idle(o) == [pc |-> "idle", order |-> o, next |-> 1, point |-> 0, seen |-> "none", held |-> FALSE]

Goto(p, l) == local' = [local EXCEPT ![p] = l]
Advance(p, pc) == Goto(p, [local[p] EXCEPT !.pc = pc])
End(p) == Goto(p, Idle(local[p].order))

Goods(o) == {Basket[o][i] : i \in DOMAIN Basket[o]}
AllTaken(p) == local[p].next > Len(Basket[local[p].order])
NextSku(p) == Basket[local[p].order][local[p].next]

\* UpdateSkuStock locks one row after the other until its transaction ends.
Stocking == {"take", "giveBack", "returnStock"}
HeldSkus(p) == IF local[p].pc \in Stocking
               THEN {Basket[local[p].order][i] : i \in 1..(local[p].next - 1)} ELSE {}
SkuFree(s) == \A q \in Process : s \notin HeldSkus(q)

\* A cancellation holds the order's row from its first update on.
OrderFree(o) == \A w \in Workers : ~(local[w].held /\ local[w].order = o)

Exists(o) == orders[o].status # "none"

NewOrder == [status |-> "none", paid |-> FALSE, cancelled |-> FALSE, point |-> 0]

Init == /\ stock = [s \in Skus |-> Stock]
        /\ coupon = [status |-> "unused", order |-> {}]
        /\ points = Points
        /\ orders = [o \in Orders |-> NewOrder]
        /\ refunds = {}
        /\ torn = {}
        /\ faults = 0
        /\ local = [p \in Process |->
                      IF p \in Orders THEN Idle(p) ELSE Idle(CHOOSE o \in Orders : TRUE)]

-----------------------------------------------------------------------------
(* CreateOrder: the price is calculated from the coupon and the points as   *)
(* they are now; then one transaction takes stock, coupon and points.       *)

CalculatePrice(o) ==
    /\ local[o].pc = "idle" /\ ~Exists(o)
    /\ o \in WithCoupon => coupon.status = "unused"
    /\ \E n \in 0..points : /\ n # 0 => o \in WithPoints
                            /\ Goto(o, [Idle(o) EXCEPT !.pc = "take", !.point = n])
    /\ UNCHANGED <<stock, coupon, points, orders, refunds, torn, faults>>

Available(s) == stock[s] >= 1

TakeSku(o) ==
    /\ local[o].pc = "take" /\ ~AllTaken(o)
    /\ SkuFree(NextSku(o))
    /\ IF Available(NextSku(o))
       THEN Goto(o, [local[o] EXCEPT !.next = @ + 1])
       ELSE End(o)
    /\ UNCHANGED <<stock, coupon, points, orders, refunds, torn, faults>>

\* Mutant: UseCoupon without the condition on the status.
NotDeleted(o) == o \in WithCoupon => coupon.status # "deleted"
CouponUsable(o) == o \in WithCoupon => coupon.status = "unused"
PointsSuffice(o) == points >= local[o].point

CommitCreate(o) ==
    /\ local[o].pc = "take" /\ AllTaken(o)
    /\ \/ /\ CouponUsable(o) /\ PointsSuffice(o)
          /\ stock' = [s \in Skus |-> IF s \in Goods(o) THEN stock[s] - 1 ELSE stock[s]]
          /\ coupon' = IF o \in WithCoupon THEN [status |-> "used", order |-> {o}] ELSE coupon
          /\ points' = points - local[o].point
          /\ orders' = [orders EXCEPT ![o].status = "unpaid", ![o].point = local[o].point]
       \/ /\ ~(CouponUsable(o) /\ PointsSuffice(o))
          /\ UNCHANGED <<stock, coupon, points, orders>>
    /\ End(o)
    /\ UNCHANGED <<refunds, torn, faults>>

-----------------------------------------------------------------------------
(* cancelUnpaidOrder: one transaction, which also gives back.               *)

CancelRead(w, o) ==
    /\ local[w].pc = "idle"
    /\ orders[o].status = "unpaid"
    /\ Goto(w, [Idle(o) EXCEPT !.pc = "cancel"])
    /\ UNCHANGED <<stock, coupon, points, orders, refunds, torn, faults>>

StillUnpaid(w) == orders[local[w].order].status = "unpaid"

CancelUpdate(w) ==
    /\ local[w].pc = "cancel"
    /\ OrderFree(local[w].order)
    /\ IF StillUnpaid(w) THEN Goto(w, [local[w] EXCEPT !.pc = "giveBack", !.held = TRUE])
                         ELSE End(w)
    /\ UNCHANGED <<stock, coupon, points, orders, refunds, torn, faults>>

GiveBackSku(w) ==
    /\ local[w].pc = "giveBack" /\ ~AllTaken(w)
    /\ SkuFree(NextSku(w))
    /\ Goto(w, [local[w] EXCEPT !.next = @ + 1])
    /\ UNCHANGED <<stock, coupon, points, orders, refunds, torn, faults>>

\* Mutant: only the first of the goods is given back.
OneRestocked(o) == [stock EXCEPT ![Basket[o][1]] = @ + 1]
Restocked(o) == [s \in Skus |-> IF s \in Goods(o) THEN stock[s] + 1 ELSE stock[s]]

\* Mutant: the points stay with the cancelled order.
NoPointsBack(o) == points
PointsBack(o) == points + orders[o].point

\* ReturnCouponForOrder gives the coupon back only if this order uses it.
UsesCoupon(o) == coupon = [status |-> "used", order |-> {o}]
Unused == [status |-> "unused", order |-> {}]

\* With a coupon that is gone the transaction is rolled back.
CommitCancel(w) ==
    LET o == local[w].order IN
    /\ local[w].pc = "giveBack" /\ AllTaken(w)
    /\ \/ /\ o \in WithCoupon => UsesCoupon(o)
          /\ stock' = Restocked(o)
          /\ coupon' = IF o \in WithCoupon THEN Unused ELSE coupon
          /\ points' = PointsBack(o)
          /\ orders' = [orders EXCEPT ![o].status = "canceled", ![o].cancelled = TRUE]
       \/ /\ o \in WithCoupon /\ ~UsesCoupon(o)
          /\ UNCHANGED <<stock, coupon, points, orders>>
    /\ End(w)
    /\ UNCHANGED <<refunds, torn, faults>>

-----------------------------------------------------------------------------
(* CancelPaidOrder: read, update of the order in a transaction that stays   *)
(* open, then stock, coupon, points and refund, then the commit.            *)

TornOf(o) == {t \in torn : t[1] = o}

\* The cancellation is cut off after `stage' has committed for good.
Tear(w, stage) == torn' = torn \cup {<<local[w].order, Cardinality(TornOf(local[w].order)) + 1, stage>>}

PaidAndOpen(o) == orders[o].paid /\ orders[o].status \notin {"canceled", "completed"}

CancelPaidRead(w, o) ==
    /\ local[w].pc = "idle"
    /\ PaidAndOpen(o)
    /\ Cardinality(TornOf(o)) < MaxTorn
    /\ Goto(w, [Idle(o) EXCEPT !.pc = "cancelPaid", !.seen = orders[o].status])
    /\ UNCHANGED <<stock, coupon, points, orders, refunds, torn, faults>>

\* Conditioned on the status read; that no row was changed stops nothing.
CancelPaidUpdate(w) ==
    LET o == local[w].order IN
    /\ local[w].pc = "cancelPaid"
    /\ OrderFree(o)
    /\ Goto(w, [local[w] EXCEPT !.pc = "returnStock", !.held = orders[o].status = local[w].seen])
    /\ UNCHANGED <<stock, coupon, points, orders, refunds, torn, faults>>

ReturnSku(w) ==
    /\ local[w].pc = "returnStock" /\ ~AllTaken(w)
    /\ SkuFree(NextSku(w))
    /\ Goto(w, [local[w] EXCEPT !.next = @ + 1])
    /\ UNCHANGED <<stock, coupon, points, orders, refunds, torn, faults>>

CommitStock(w) ==
    /\ local[w].pc = "returnStock" /\ AllTaken(w)
    /\ stock' = Restocked(local[w].order)
    /\ Advance(w, "returnCoupon")
    /\ UNCHANGED <<coupon, points, orders, refunds, torn, faults>>

ReturnCoupon(w) ==
    LET o == local[w].order IN
    /\ local[w].pc = "returnCoupon"
    /\ \/ /\ o \in WithCoupon => UsesCoupon(o)
          /\ coupon' = IF o \in WithCoupon THEN Unused ELSE coupon
          /\ Advance(w, "returnPoint")
          /\ UNCHANGED torn
       \/ /\ o \in WithCoupon /\ ~UsesCoupon(o)
          /\ Tear(w, "stock") /\ End(w)
          /\ UNCHANGED coupon
    /\ UNCHANGED <<stock, points, orders, refunds, faults>>

\* Mutant: the cancellation commits before the refund is asked for.
CommitFirst == "commitPaid"
AfterPoints == "refund"

ReturnPoint(w) ==
    /\ local[w].pc = "returnPoint"
    /\ points' = PointsBack(local[w].order)
    /\ Advance(w, AfterPoints)
    /\ UNCHANGED <<stock, coupon, orders, refunds, torn, faults>>

\* The number of the refund is the order's: a second one is refused.
CreateRefund(w) ==
    LET o == local[w].order IN
    /\ local[w].pc = "refund"
    /\ \/ /\ o \notin refunds
          /\ refunds' = refunds \cup {o}
          /\ Advance(w, "commitPaid")
          /\ UNCHANGED torn
       \/ /\ o \in refunds
          /\ Tear(w, "points") /\ End(w)
          /\ UNCHANGED refunds
    /\ UNCHANGED <<stock, coupon, points, orders, faults>>

CommitCancelPaid(w) ==
    LET o == local[w].order IN
    /\ local[w].pc = "commitPaid"
    /\ orders' = IF local[w].held
                 THEN [orders EXCEPT ![o].status = "canceled", ![o].cancelled = TRUE]
                 ELSE orders
    /\ End(w)
    /\ UNCHANGED <<stock, coupon, points, refunds, torn, faults>>

-----------------------------------------------------------------------------
(* The rest of the order's life, as far as cancellations depend on it;      *)
(* TradeOrder has it in full.                                              *)

Pay(o) ==
    /\ orders[o].status = "unpaid" /\ OrderFree(o)
    /\ orders' = [orders EXCEPT ![o].status = "undelivered", ![o].paid = TRUE]
    /\ UNCHANGED <<stock, coupon, points, refunds, torn, faults, local>>

\* DeliveryOrderProcessor writes by id.
Deliver(o) ==
    /\ Exists(o) /\ OrderFree(o)
    /\ orders[o].status # "delivered"
    /\ orders' = [orders EXCEPT ![o].status = "delivered"]
    /\ UNCHANGED <<stock, coupon, points, refunds, torn, faults, local>>

Receive(o) ==
    /\ orders[o].status = "delivered" /\ OrderFree(o)
    /\ orders' = [orders EXCEPT ![o].status = "completed"]
    /\ UNCHANGED <<stock, coupon, points, refunds, torn, faults, local>>

\* An administrator deletes the coupon, in whatever state it is.
DeleteCoupon ==
    /\ coupon.status # "deleted"
    /\ coupon' = [status |-> "deleted", order |-> {}]
    /\ UNCHANGED <<stock, points, orders, refunds, torn, faults, local>>

-----------------------------------------------------------------------------
\* What has been committed for good when a paid cancellation is cut off here.
Committed(p) == CASE local[p].pc = "returnCoupon" -> "stock"
                  [] local[p].pc = "returnPoint"  -> "coupon"
                  [] local[p].pc = "refund"       -> "points"
                  [] OTHER                        -> "nothing"

CutOff(p) == /\ IF Committed(p) = "nothing" THEN UNCHANGED torn ELSE Tear(p, Committed(p))
             /\ End(p)

\* An error, a cancelled call, a crash: the open transaction is rolled back.
Fail(p) ==
    /\ local[p].pc # "idle"
    /\ faults < MaxFaults /\ faults' = faults + 1
    /\ CutOff(p)
    /\ UNCHANGED <<stock, coupon, points, orders, refunds>>

\* p has taken goods and waits for those of q, and the other way round: the
\* database rolls one of the two transactions back.
WaitsFor(p, q) == /\ local[p].pc \in Stocking /\ ~AllTaken(p)
                  /\ NextSku(p) \in HeldSkus(q)

Deadlock(p, q) ==
    /\ WaitsFor(p, q) /\ WaitsFor(q, p)
    /\ CutOff(p)
    /\ UNCHANGED <<stock, coupon, points, orders, refunds, faults>>

CreateOrder(o) == CalculatePrice(o) \/ TakeSku(o) \/ CommitCreate(o)
CancelOrder(w) == \/ \E o \in Orders : CancelRead(w, o)
                  \/ CancelUpdate(w) \/ GiveBackSku(w) \/ CommitCancel(w)
CancelPaidOrder(w) == \/ \E o \in Orders : CancelPaidRead(w, o)
                      \/ CancelPaidUpdate(w) \/ ReturnSku(w) \/ CommitStock(w)
                      \/ ReturnCoupon(w) \/ ReturnPoint(w)
                      \/ CreateRefund(w) \/ CommitCancelPaid(w)

Next == \/ \E o \in Orders : CreateOrder(o) \/ Pay(o) \/ Deliver(o) \/ Receive(o)
        \/ \E w \in Workers : CancelOrder(w) \/ CancelPaidOrder(w)
        \/ DeleteCoupon
        \/ \E p \in Process : Fail(p)
        \/ \E p, q \in Process : Deadlock(p, q)

Spec == Init /\ [][Next]_vars

-----------------------------------------------------------------------------
Status == {"none", "unpaid", "undelivered", "delivered", "completed", "canceled"}
Stages == {"stock", "coupon", "points"}

LocalState ==
    [pc : {"idle", "take", "cancel", "giveBack", "cancelPaid", "returnStock", "returnCoupon",
           "returnPoint", "refund", "commitPaid"},
     order : Orders, next : Nat \ {0}, point : Nat, seen : Status, held : BOOLEAN]

TypeOK ==
    /\ stock \in [Skus -> Nat]
    /\ coupon \in [status : {"unused", "used", "deleted"}, order : SUBSET Orders]
    /\ points \in Nat
    /\ orders \in [Orders -> [status : Status, paid : BOOLEAN, cancelled : BOOLEAN, point : Nat]]
    /\ refunds \subseteq Orders
    /\ torn \subseteq Orders \X Nat \X Stages
    /\ faults \in 0..MaxFaults
    /\ local \in [Process -> LocalState]

\* The order has what it took: neither cancelled nor paid back.
Keeps(o) == Exists(o) /\ ~orders[o].cancelled /\ o \notin refunds

\* A paid cancellation has given the goods back, and asked for no refund yet.
Returning(w) == local[w].pc \in {"returnCoupon", "returnPoint", "refund"}

Keepers(s) == {o \in Orders : Keeps(o) /\ s \in Goods(o)}
Returners(s) == {w \in Workers : Returning(w) /\ s \in Goods(local[w].order)}
TornWith(s) == {t \in torn : s \in Goods(t[1])}

(* No unit of stock is lost or sold twice, however creations, cancellations, *)
(* lock waits, deadlocks and crashes interleave: what is missing is with the *)
(* orders that keep it, and what is too much was given back by a paid        *)
(* cancellation that is under way or was cut off (order_update.go:1513).    *)
StockAccounted ==
    \A s \in Skus : stock[s] + Cardinality(Keepers(s)) =
                    Stock + Cardinality(Returners(s)) + Cardinality(TornWith(s))

(* Together: goods are never oversold, and every unit can be told where it   *)
(* is.                                                                      *)
GoodsAccounted == TypeOK /\ StockAccounted

(* The coupon serves one order at a time: an order that keeps its discount   *)
(* still holds the coupon, unless it was deleted or given back by a paid     *)
(* cancellation that is under way or was cut off.                           *)
CouponServesOneOrder ==
    \A o \in WithCoupon :
       /\ Keeps(o)
       /\ TornOf(o) = {}
       /\ \A w \in Workers : local[w].order = o => local[w].pc \notin {"returnPoint", "refund"}
       => UsesCoupon(o) \/ coupon.status = "deleted"

\* Points of the orders that keep them, and points given back too often.
KeptPoints == SumFunctionOnSet([o \in Orders |-> orders[o].point], {o \in Orders : Keeps(o)})
ExtraPoints ==
    SumFunctionOnSet([w \in Workers |-> orders[local[w].order].point],
                     {w \in Workers : local[w].pc = "refund"})
    + SumFunctionOnSet([t \in torn |-> orders[t[1]].point], {t \in torn : t[3] = "points"})

(* Points are neither lost nor spent twice by two orders that were both      *)
(* priced with the same balance (point.go:133).                             *)
PointsAccounted == points + KeptPoints = Points + ExtraPoints

(* A paid order that says it is cancelled has its refund.                   *)
CancelledIsRefunded == \A o \in Orders : orders[o].cancelled /\ orders[o].paid => o \in refunds
=============================================================================
