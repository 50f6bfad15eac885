--------------------------- MODULE TradeOrderProofs ---------------------------
(***************************************************************************)
(* Safety of TradeOrder for any number of requests, any price and any       *)
(* adjustments.  The properties are not inductive: that a paid order keeps  *)
(* its stock rests on what every status allows (Stages), that its price is  *)
(* that of the pay order on who may hold the order's lock (Locks) and on    *)
(* what lies between the two commits of a price adjustment (Prices).        *)
(*                                                                         *)
(* Then Cart, from which orders are made: CartInv says, of each request that *)
(* no other write has met, what it has read and that the cart is still the  *)
(* one it began with (Follows), up to its own first write.                  *)
(***************************************************************************)
EXTENDS TradeOrder, Cart, SumTheorems, SequenceTheorems, TLAPS

Locked == {"checkPay", "writePay", "commitPrice"}

Stages == /\ order.status = "none" => \A p \in Process : local[p] = Idle
          /\ order.status \in {"none", "unpaid"} => ~order.paid /\ released = 0
          /\ order.paid => /\ released = 0
                           /\ order.status \in {"undelivered", "delivered", "completed"}
          /\ released <= 1
          /\ order.status \in {"canceled", "deleted"} => released = 1
          /\ \A p \in Process : local[p].pc = "deleteOrder" => released = 1

Locks == \A p, q \in Process : local[p].pc \in Locked /\ local[q].pc \in Locked => p = q

Paying == /\ pay.paid => pay.status \notin {"none", "waiting"}
          /\ pay.status = "success" => pay.paid
          /\ order.paid => pay.paid
          /\ \A p \in Process : /\ local[p].pc = "casPaid" => pay.paid
                                /\ local[p].pc \in {"writePay", "commitPrice"} => ~order.paid

Prices == faults = 0 =>
             /\ \A p \in Process : local[p].pc = "commitPrice" => pay.price = local[p].price
             /\ Exists /\ (\A p \in Process : local[p].pc # "commitPrice") => pay.price = order.price

IInv == TypeOK /\ Stages /\ Locks /\ Paying /\ Prices

-----------------------------------------------------------------------------
Orders == [status : OrderStatus, paid : BOOLEAN, price : Nat, adjust : Int]
PayStatus == {"none", "waiting", "success", "refund", "closed"}
Pays == [status : PayStatus, price : Nat, paid : BOOLEAN]
PCs == {"idle", "askPay", "casCancel", "validatePaid", "casPaid", "updatePrice", "checkPay",
        "writePay", "commitPrice", "casReceive", "writePickUp", "deleteOrder"}

LEMMA IdleTyped == Idle \in LocalState /\ Idle.pc = "idle"
BY DEF Idle, LocalState

LEMMA JobTyped == Job \in Process /\ \A p \in Requests : p \in Process
BY DEF Process

(* What a step of one process leaves of the others. *)
LEMMA GotoTyped ==
    ASSUME local \in [Process -> LocalState], NEW p \in Process, NEW l \in LocalState, Goto(p, l)
    PROVE  /\ local' \in [Process -> LocalState]
           /\ local'[p] = l
           /\ \A q \in Process : q # p => local'[q] = local[q]
BY DEF Goto

LEMMA AdvanceTyped ==
    ASSUME local \in [Process -> LocalState], NEW p \in Process, NEW pc \in PCs, Advance(p, pc)
    PROVE  /\ local' \in [Process -> LocalState]
           /\ local'[p].pc = pc /\ local'[p].price = local[p].price
           /\ \A q \in Process : q # p => local'[q] = local[q]
<1> DEFINE l == [local[p] EXCEPT !.pc = pc]
<1>1. l \in LocalState /\ l.pc = pc /\ l.price = local[p].price
  <2>1. local[p] \in LocalState
    OBVIOUS
  <2> QED BY ONLY <2>1, pc \in PCs DEF LocalState, PCs
<1>2. Goto(p, l)
  BY DEF Advance
<1> HIDE DEF l
<1> QED BY <1>1, <1>2, GotoTyped

(* The fields of an order after its status was written. *)
LEMMA StatusWritten ==
    ASSUME order \in Orders, NEW s \in OrderStatus
    PROVE  LET o == [order EXCEPT !.status = s]
           IN  o \in Orders /\ o.status = s /\ o.paid = order.paid /\ o.price = order.price
BY DEF Orders

LEMMA OrderPaidWritten ==
    ASSUME order \in Orders
    PROVE  LET o == [order EXCEPT !.status = "undelivered", !.paid = TRUE]
           IN  o \in Orders /\ o.status = "undelivered" /\ o.paid /\ o.price = order.price
BY DEF Orders, OrderStatus

LEMMA PriceWritten ==
    ASSUME order \in Orders, NEW price \in Nat, NEW adjust \in Int
    PROVE  LET o == [order EXCEPT !.price = price, !.adjust = adjust]
           IN  o \in Orders /\ o.status = order.status /\ o.paid = order.paid /\ o.price = price
BY DEF Orders

(* The fields of the pay order after one of PayRow's writes. *)
LEMMA PayWritten ==
    ASSUME NEW s \in PayStatus, NEW c \in Nat, NEW d \in BOOLEAN, PaySide!Written(s, c, d)
    PROVE  pay' \in Pays /\ pay'.status = s /\ pay'.price = c /\ pay'.paid = d
BY DEF PaySide!Written, Pays

LEMMA PayMoves ==
    ASSUME pay \in Pays, PayOrderChanges
    PROVE  /\ pay' \in Pays /\ pay'.price = pay.price /\ (pay.paid => pay'.paid)
           /\ pay'.status \in {"success", "refund", "closed"} /\ (pay'.status = "success" => pay'.paid)
<1>1. pay.price \in Nat /\ pay.paid \in BOOLEAN /\ {"success", "refund", "closed"} \subseteq PayStatus
  BY DEF Pays, PayStatus
<1>2. CASE PaySide!Pay
  <2>1. PaySide!Written("success", pay.price, TRUE)
    BY <1>2 DEF PaySide!Pay
  <2> QED BY <1>1, <2>1, PayWritten
<1>3. CASE PaySide!Refund
  <2>1. PaySide!Written("refund", pay.price, pay.paid)
    BY <1>3 DEF PaySide!Refund
  <2> QED BY <1>1, <2>1, PayWritten
<1>4. CASE PaySide!Close
  <2>1. PaySide!Written("closed", pay.price, pay.paid)
    BY <1>4 DEF PaySide!Close
  <2> QED BY <1>1, <2>1, PayWritten
<1> QED BY <1>2, <1>3, <1>4 DEF PayOrderChanges

LEMMA InitTyped == Init => TypeOK
<1> SUFFICES ASSUME Init PROVE TypeOK
  OBVIOUS
<1>1. gone \in BOOLEAN
  BY DEF Init
<1> QED BY <1>1, TradeOrderAssumption, IdleTyped DEF Init, PaySide!Init, TypeOK, OrderStatus

LEMMA TypedFields ==
    ASSUME TypeOK
    PROVE  /\ order \in Orders /\ order.status \in OrderStatus /\ order.price \in Nat
           /\ order.adjust \in Int
           /\ pay \in Pays /\ pay.status \in PayStatus
           /\ pay.price \in Nat /\ pay.paid \in BOOLEAN
           /\ released \in Nat /\ gone \in BOOLEAN /\ faults \in 0..MaxFaults
           /\ local \in [Process -> LocalState]
           /\ \A p \in Process : local[p].pc \in PCs /\ local[p].price \in Nat /\ local[p].adjust \in Int
BY DEF TypeOK, Orders, Pays, PayStatus, LocalState, PCs

-----------------------------------------------------------------------------
(* The shape of a step of one process. *)
To(p, pcs) == /\ local' \in [Process -> LocalState]
              /\ local'[p].pc \in pcs
              /\ \A q \in Process : q # p => local'[q] = local[q]

LEMMA ToIdle ==
    ASSUME TypeOK, NEW p \in Process, Goto(p, Idle)
    PROVE  To(p, {"idle"})
BY IdleTyped, GotoTyped, TypedFields DEF To

LEMMA ToPC ==
    ASSUME TypeOK, NEW p \in Process, NEW pc \in PCs, Advance(p, pc)
    PROVE  To(p, {pc}) /\ local'[p].price = local[p].price
BY AdvanceTyped, TypedFields DEF To

(* A step that writes nothing and neither locks the order nor claims that    *)
(* its pay order is paid nor that the order is cancelled.                   *)
LEMMA QuietStep ==
    ASSUME IInv, NEW p \in Process, To(p, PCs \ {"checkPay", "writePay", "commitPrice", "casPaid", "deleteOrder"}),
           order.status # "none" \/ local'[p] = Idle,
           local[p].pc # "commitPrice" \/ faults' # 0,
           UNCHANGED <<order, pay, released, gone>>,
           faults' \in faults..MaxFaults
    PROVE  IInv'
<1> USE TypedFields, TradeOrderAssumption DEF IInv, To
<1>1. TypeOK'
  BY DEF TypeOK
<1>2. Stages'
  BY DEF Stages
<1>3. Locks'
  BY DEF Locks, Locked
<1>4. Paying'
  BY DEF Paying
<1>5. Prices'
  BY DEF Prices, Exists
<1> QED BY <1>1, <1>2, <1>3, <1>4, <1>5

(* The same when the order is written without touching its price.           *)
LEMMA StatusStep ==
    ASSUME IInv, NEW p \in Process, To(p, {"idle"}), OrderFree,
           local[p].pc \in PCs, UNCHANGED <<pay, gone, faults>>,
           order' \in Orders, order'.price = order.price, order.status # "none",
           Exists' => Exists,
           order'.paid => /\ released' = 0 /\ pay.paid
                          /\ order'.status \in {"undelivered", "delivered", "completed"},
           order'.status # "none", order'.status = "unpaid" => released' = 0,
           released' \in {released, 1}, released <= released',
           order'.status \in {"canceled", "deleted"} => released' = 1
    PROVE  IInv'
<1> USE TypedFields, TradeOrderAssumption DEF IInv, To
<1>1. TypeOK'
  BY DEF TypeOK, Orders
<1>2. Stages'
  BY DEF Stages
<1>3. Locks'
  BY DEF Locks, Locked
<1>4. Paying'
  BY DEF Paying, OrderFree
<1>5. Prices'
  BY DEF Prices, Exists, OrderFree
<1> QED BY <1>1, <1>2, <1>3, <1>4, <1>5

(* An update that matches no row.                                          *)
LEMMA WrittenBack ==
    ASSUME IInv, NEW p \in Process, To(p, {"idle"}), OrderFree,
           UNCHANGED <<order, pay, released, gone, faults>>, order.status # "none"
    PROVE  IInv'
<1> local[p].pc # "commitPrice"
  BY DEF OrderFree
<1> QED BY QuietStep, TypedFields, TradeOrderAssumption DEF IInv, To, PCs

-----------------------------------------------------------------------------
(* One lemma per operation. *)
LEMMA CancelStep == ASSUME IInv, NEW p \in Process, CancelUnpaidOrder(p) PROVE IInv'
<1> USE TypedFields DEF IInv
<1>0. order.status = "none" => local[p].pc = "idle"
  BY IdleTyped DEF Stages
<1>1. CASE CancelRead(p)
  <2>1. To(p, {"askPay"})
    BY <1>1, ToPC DEF CancelRead, PCs
  <2> QED BY <1>1, <2>1, QuietStep DEF CancelRead, To, PCs
<1>2. CASE CancelAskPay(p)
  <2>1. To(p, {"idle", "casCancel"})
    BY <1>2, ToPC, ToIdle DEF CancelAskPay, PCs, To
  <2> QED BY <1>0, <1>2, <2>1, QuietStep DEF CancelAskPay, To, PCs
<1>3. CASE CancelAskPayFails(p)
  <2>1. To(p, {"casCancel"})
    BY <1>3, ToPC DEF CancelAskPayFails, PCs
  <2> QED BY <1>0, <1>3, <2>1, QuietStep, TradeOrderAssumption DEF CancelAskPayFails, To, PCs
<1>4. CASE CasCancel(p)
  <2>1. To(p, {"idle"})
    BY <1>4, ToIdle DEF CasCancel
  <2>2. order.status # "none"
    BY <1>0, <1>4 DEF CasCancel
  <2>3. CASE /\ StillUnpaid /\ GiveBack
             /\ order' = [order EXCEPT !.status = "canceled"]
    <3>1. /\ order' \in Orders /\ order'.status = "canceled"
          /\ order'.paid = order.paid /\ order'.price = order.price
      BY <1>4, <2>3, StatusWritten DEF CasCancel, OrderStatus
    <3>2. ~order.paid /\ released = 0 /\ released' = 1
      BY <1>4, <2>3 DEF CasCancel, GiveBack, StillUnpaid, Stages
    <3> QED BY <1>4, <2>1, <2>2, <2>3, <3>1, <3>2, StatusStep DEF CasCancel, Exists, StillUnpaid
  <2>4. CASE UNCHANGED <<order, released>>
    BY <1>4, <2>1, <2>2, <2>4, WrittenBack DEF CasCancel
  <2> QED BY <1>4, <2>3, <2>4 DEF CasCancel
<1> QED BY <1>1, <1>2, <1>3, <1>4 DEF CancelUnpaidOrder

LEMMA PaidStep == ASSUME IInv, NEW p \in Process, UpdateOrderPaid(p) PROVE IInv'
<1> USE TypedFields DEF IInv
<1>0. order.status = "none" => local[p].pc = "idle"
  BY IdleTyped DEF Stages
<1>1. CASE PaidRead(p)
  <2> DEFINE l == [pc |-> "validatePaid", price |-> order.price, adjust |-> 0]
  <2>1. l \in LocalState /\ l.pc = "validatePaid"
    BY DEF LocalState
  <2>2. Goto(p, l)
    BY <1>1 DEF PaidRead
  <2> HIDE DEF l
  <2>3. To(p, {"validatePaid"})
    BY <2>1, <2>2, GotoTyped DEF To
  <2> QED BY <1>1, <2>3, QuietStep DEF PaidRead, To, PCs
<1>2. CASE ValidatePaid(p)
  <2>1. CASE PayOrderPaid(p)
    <3>1. To(p, {"casPaid"})
      BY <1>2, <2>1, ToPC DEF ValidatePaid, PCs
    <3>2. pay.status = "success" /\ UNCHANGED <<order, pay, released, gone, faults>>
      BY <1>2, <2>1 DEF ValidatePaid, PayOrderPaid
    <3>3. TypeOK'
      BY <3>1, <3>2 DEF TypeOK, To
    <3>4. Stages'
      BY <1>0, <1>2, <3>1, <3>2 DEF Stages, To, ValidatePaid
    <3>5. Locks'
      BY <3>1 DEF Locks, Locked, To
    <3>6. Paying'
      BY <3>1, <3>2 DEF Paying, To
    <3>7. Prices'
      BY <1>2, <3>1, <3>2 DEF Prices, Exists, To, ValidatePaid
    <3> QED BY <3>3, <3>4, <3>5, <3>6, <3>7
  <2>2. CASE ~PayOrderPaid(p)
    <3>1. To(p, {"idle"})
      BY <1>2, <2>2, ToIdle DEF ValidatePaid
    <3> QED BY <1>0, <1>2, <3>1, QuietStep DEF ValidatePaid, To, PCs
  <2> QED BY <2>1, <2>2
<1>3. CASE CasPaid(p)
  <2>1. To(p, {"idle"})
    BY <1>3, ToIdle DEF CasPaid
  <2>2. order.status # "none" /\ pay.paid
    BY <1>0, <1>3 DEF CasPaid, Paying
  <2>3. CASE order.status = "unpaid"
    <3>1. /\ order' \in Orders /\ order'.status = "undelivered"
          /\ order'.paid /\ order'.price = order.price
      BY <1>3, <2>3, OrderPaidWritten DEF CasPaid
    <3>2. released' = 0 /\ released = 0
      BY <1>3, <2>3 DEF CasPaid, Stages
    <3> QED BY <1>3, <2>1, <2>2, <2>3, <3>1, <3>2, StatusStep DEF CasPaid, Exists
  <2>4. CASE order.status # "unpaid"
    BY <1>3, <2>1, <2>2, <2>4, WrittenBack DEF CasPaid
  <2> QED BY <2>3, <2>4
<1> QED BY <1>1, <1>2, <1>3 DEF UpdateOrderPaid

LEMMA PriceStep == ASSUME IInv, NEW p \in Process, UpdateOrderPrice(p) PROVE IInv'
<1> USE TypedFields DEF IInv
<1>0. order.status = "none" => local[p].pc = "idle"
  BY IdleTyped DEF Stages
<1>1. ASSUME NEW adjust \in Adjustments, PriceRead(p, adjust) PROVE IInv'
  <2> DEFINE l == [pc |-> "updatePrice", price |-> order.price + adjust,
                   adjust |-> order.adjust + adjust]
  <2>1. l \in LocalState /\ l.pc = "updatePrice"
    BY <1>1, TradeOrderAssumption DEF LocalState, PriceRead, PositivePrice
  <2>2. Goto(p, l)
    BY <1>1 DEF PriceRead
  <2> HIDE DEF l
  <2>3. To(p, {"updatePrice"})
    BY <2>1, <2>2, GotoTyped DEF To
  <2> QED BY <1>1, <2>3, QuietStep DEF PriceRead, Exists, To, PCs
<1>2. CASE PriceUpdate(p)
  <2>1. To(p, {"checkPay"})
    BY <1>2, ToPC DEF PriceUpdate, PCs
  <2>2. OrderFree /\ local[p].pc = "updatePrice" /\ UNCHANGED <<order, pay, released, gone, faults>>
    BY <1>2 DEF PriceUpdate
  <2>3. TypeOK'
    BY <2>1, <2>2 DEF TypeOK, To
  <2>4. Stages'
    BY <1>0, <2>1, <2>2 DEF Stages, To
  <2>5. Locks'
    BY <2>1, <2>2 DEF Locks, Locked, To, OrderFree
  <2>6. Paying'
    BY <2>1, <2>2 DEF Paying, To
  <2>7. Prices'
    BY <2>1, <2>2 DEF Prices, Exists, To
  <2> QED BY <2>3, <2>4, <2>5, <2>6, <2>7
<1>3. CASE PriceCheckPay(p)
  <2>1. CASE PayOrderWaiting
    <3>1. To(p, {"writePay"})
      BY <1>3, <2>1, ToPC DEF PriceCheckPay, PCs
    <3>2. /\ local[p].pc = "checkPay" /\ pay.status = "waiting"
          /\ UNCHANGED <<order, pay, released, gone, faults>>
      BY <1>3, <2>1 DEF PriceCheckPay, PayOrderWaiting
    <3>3. TypeOK'
      BY <3>1, <3>2 DEF TypeOK, To
    <3>4. Stages'
      BY <1>0, <3>1, <3>2 DEF Stages, To
    <3>5. Locks'
      BY <3>1, <3>2 DEF Locks, Locked, To
    <3>6. Paying'
      BY <3>1, <3>2 DEF Paying, To
    <3>7. Prices'
      BY <3>1, <3>2 DEF Prices, Exists, To
    <3> QED BY <3>3, <3>4, <3>5, <3>6, <3>7
  <2>2. CASE ~PayOrderWaiting
    <3>1. To(p, {"idle"})
      BY <1>3, <2>2, ToIdle DEF PriceCheckPay
    <3> QED BY <1>0, <1>3, <3>1, QuietStep, TradeOrderAssumption DEF PriceCheckPay, To, PCs
  <2> QED BY <2>1, <2>2
<1>4. CASE PriceWritePay(p)
  <2>1. To(p, {"commitPrice"}) /\ local'[p].price = local[p].price
    BY <1>4, ToPC DEF PriceWritePay, PCs
  <2>2. local[p].pc = "writePay" /\ UNCHANGED <<order, released, gone, faults>>
    BY <1>4 DEF PriceWritePay
  <2>3. /\ pay' \in Pays /\ pay'.status = pay.status /\ pay'.paid = pay.paid
        /\ pay'.price = local[p].price
    BY <1>4, PayWritten DEF PriceWritePay, PaySide!Reprice
  <2>4. TypeOK'
    BY <2>1, <2>2, <2>3 DEF TypeOK, To, Pays, PayStatus
  <2>5. Stages'
    BY <1>0, <2>1, <2>2 DEF Stages, To
  <2>6. Locks'
    BY <2>1, <2>2 DEF Locks, Locked, To
  <2>7. Paying'
    BY <2>1, <2>2, <2>3 DEF Paying, To
  <2>8. \A q \in Process : local'[q].pc = "commitPrice" => q = p
    BY <2>1, <2>2 DEF Locks, Locked, To
  <2>9. Prices'
    BY <2>1, <2>2, <2>3, <2>8 DEF Prices, Exists, To
  <2> QED BY <2>4, <2>5, <2>6, <2>7, <2>9
<1>5. CASE PriceCommit(p)
  <2>1. To(p, {"idle"})
    BY <1>5, ToIdle DEF PriceCommit
  <2>2. local[p].pc = "commitPrice" /\ UNCHANGED <<pay, released, gone, faults>>
    BY <1>5 DEF PriceCommit
  <2>3. /\ order' \in Orders /\ order'.status = order.status /\ order'.paid = order.paid
        /\ Exists => order'.price = local[p].price
    <3>1. CASE Exists
      <4>1. order \in Orders /\ local[p].price \in Nat /\ local[p].adjust \in Int
        OBVIOUS
      <4>2. order' = [order EXCEPT !.price = local[p].price, !.adjust = local[p].adjust]
        BY <1>5, <3>1 DEF PriceCommit
      <4> QED BY ONLY <4>1, <4>2, PriceWritten
    <3>2. CASE ~Exists
      BY <1>5, <3>2 DEF PriceCommit
    <3> QED BY <3>1, <3>2
  <2>4. TypeOK'
    BY <2>1, <2>2, <2>3 DEF TypeOK, To, Orders
  <2>5. Stages'
    BY <1>0, <2>1, <2>2, <2>3 DEF Stages, To
  <2>6. Locks'
    BY <2>1 DEF Locks, Locked, To
  <2>7. Paying'
    BY <2>1, <2>2, <2>3 DEF Paying, To
  <2>8. Prices'
    BY <2>1, <2>2, <2>3 DEF Prices, Exists, To
  <2> QED BY <2>4, <2>5, <2>6, <2>7, <2>8
<1> QED BY <1>1, <1>2, <1>3, <1>4, <1>5 DEF UpdateOrderPrice

LEMMA DeliveryStep == ASSUME IInv, DeliveryOrder PROVE IInv'
<1> USE TypedFields DEF IInv
<1>1. /\ Exists /\ OrderFree /\ UNCHANGED <<pay, released, gone, faults, local>>
      /\ order' \in Orders /\ order'.status = "delivered"
      /\ order'.paid = order.paid /\ order'.price = order.price
  BY StatusWritten DEF DeliveryOrder, OrderStatus
<1>2. TypeOK'
  BY <1>1 DEF TypeOK, Orders
<1>3. Stages'
  BY <1>1 DEF Stages, Exists
<1>4. Locks'
  BY <1>1 DEF Locks
<1>5. Paying'
  BY <1>1 DEF Paying, OrderFree
<1>6. Prices'
  BY <1>1 DEF Prices, Exists
<1> QED BY <1>2, <1>3, <1>4, <1>5, <1>6

LEMMA ReceiveStep == ASSUME IInv, NEW p \in Process, ReceiveOrder(p) PROVE IInv'
<1> USE TypedFields DEF IInv
<1>1. CASE ReceiveRead(p)
  <2>1. To(p, {"casReceive"})
    BY <1>1, ToPC DEF ReceiveRead, PCs
  <2> QED BY <1>1, <2>1, QuietStep, TradeOrderAssumption DEF ReceiveRead, To, PCs
<1>2. CASE CasReceive(p)
  <2>1. To(p, {"idle"})
    BY <1>2, ToIdle DEF CasReceive
  <2>2. order.status # "none"
    BY <1>2, IdleTyped DEF CasReceive, Stages
  <2>3. CASE order.status = "delivered"
    <3>1. /\ order' \in Orders /\ order'.status = "completed"
          /\ order'.paid = order.paid /\ order'.price = order.price
      BY <1>2, <2>3, StatusWritten DEF CasReceive, OrderStatus
    <3>2. order.paid => released = 0 /\ pay.paid
      BY DEF Stages, Paying
    <3> QED BY <1>2, <2>1, <2>2, <2>3, <3>1, <3>2, StatusStep DEF CasReceive, Exists
  <2>4. CASE order.status # "delivered"
    BY <1>2, <2>1, <2>2, <2>4, WrittenBack DEF CasReceive
  <2> QED BY <2>3, <2>4
<1> QED BY <1>1, <1>2 DEF ReceiveOrder

LEMMA PickUpStep == ASSUME IInv, NEW p \in Process, PickUpOrder(p) PROVE IInv'
<1> USE TypedFields DEF IInv
<1>1. CASE PickUpRead(p)
  <2>1. To(p, {"writePickUp"})
    BY <1>1, ToPC DEF PickUpRead, PCs
  <2> QED BY <1>1, <2>1, QuietStep, TradeOrderAssumption DEF PickUpRead, To, PCs
<1>2. CASE WritePickUp(p)
  <2>1. To(p, {"idle"})
    BY <1>2, ToIdle DEF WritePickUp
  <2>2. order.status # "none"
    BY <1>2, IdleTyped DEF WritePickUp, Stages
  <2>3. CASE Exists
    <3>1. /\ order' \in Orders /\ order'.status = "completed"
          /\ order'.paid = order.paid /\ order'.price = order.price
      BY <1>2, <2>3, StatusWritten DEF WritePickUp, OrderStatus
    <3>2. order.paid => released = 0 /\ pay.paid
      BY DEF Stages, Paying
    <3> QED BY <1>2, <2>1, <2>2, <2>3, <3>1, <3>2, StatusStep DEF WritePickUp
  <2>4. CASE ~Exists
    BY <1>2, <2>1, <2>2, <2>4, WrittenBack DEF WritePickUp
  <2> QED BY <2>3, <2>4
<1> QED BY <1>1, <1>2 DEF PickUpOrder

LEMMA DeleteStep == ASSUME IInv, NEW p \in Process, DeleteRead(p) \/ DeleteOrder(p) PROVE IInv'
<1> USE TypedFields DEF IInv
<1>1. CASE DeleteRead(p)
  <2>1. To(p, {"deleteOrder"})
    BY <1>1, ToPC DEF DeleteRead, PCs
  <2>2. order.status = "canceled" /\ local[p].pc = "idle" /\ UNCHANGED <<order, pay, released, gone, faults>>
    BY <1>1 DEF DeleteRead
  <2>3. TypeOK'
    BY <2>1, <2>2 DEF TypeOK, To
  <2>4. Stages'
    BY <2>1, <2>2 DEF Stages, To
  <2>5. Locks'
    BY <2>1 DEF Locks, Locked, To
  <2>6. Paying'
    BY <2>1, <2>2 DEF Paying, To
  <2>7. Prices'
    BY <2>1, <2>2 DEF Prices, Exists, To
  <2> QED BY <2>3, <2>4, <2>5, <2>6, <2>7
<1>2. CASE DeleteOrder(p)
  <2>1. To(p, {"idle"})
    BY <1>2, ToIdle DEF DeleteOrder
  <2>2. order.status # "none" /\ released = 1 /\ ~order.paid
    BY <1>2, IdleTyped DEF DeleteOrder, Stages
  <2>3. /\ order' \in Orders /\ order'.status = "deleted"
        /\ order'.paid = order.paid /\ order'.price = order.price
    BY <1>2, StatusWritten DEF DeleteOrder, OrderStatus
  <2> QED BY <1>2, <2>1, <2>2, <2>3, StatusStep DEF DeleteOrder, Exists
<1> QED BY <1>1, <1>2

LEMMA CreateStep == ASSUME IInv, CreateOrder PROVE IInv'
<1> USE TypedFields, TradeOrderAssumption DEF IInv
<1>1. UNCHANGED <<released, gone, faults, local>> /\ \A p \in Process : local[p] = Idle
  BY DEF CreateOrder, Stages
<1>2. ~order.paid /\ released = 0
  BY DEF CreateOrder, Stages
<1>3. /\ order' \in Orders /\ order'.status = "unpaid"
      /\ order'.paid = order.paid /\ order'.price = Price
  BY DEF CreateOrder, Orders, OrderStatus
<1>4. pay.status = "none" /\ pay' \in Pays /\ pay'.status = "waiting" /\ pay'.price = Price
      /\ pay'.paid = pay.paid
  BY PayWritten DEF CreateOrder, PaySide!Create, PayStatus
<1>5. TypeOK'
  BY <1>1, <1>3, <1>4 DEF TypeOK, Orders, Pays, PayStatus
<1>6. Stages'
  BY <1>1, <1>2, <1>3, IdleTyped DEF Stages
<1>7. Locks'
  BY <1>1 DEF Locks
<1>8. Paying'
  BY <1>1, <1>2, <1>3, <1>4, IdleTyped DEF Paying
<1>9. Prices'
  BY <1>1, <1>3, <1>4, IdleTyped DEF Prices
<1> QED BY <1>5, <1>6, <1>7, <1>8, <1>9

LEMMA PayOrderStep == ASSUME IInv, PayOrderChanges PROVE IInv'
<1> USE TypedFields DEF IInv
<1>1. /\ pay' \in Pays /\ pay'.price = pay.price /\ (pay.paid => pay'.paid)
      /\ pay'.status \in {"success", "refund", "closed"} /\ (pay'.status = "success" => pay'.paid)
  BY PayMoves
<1>2. UNCHANGED <<order, released, gone, faults, local>>
  BY DEF PayOrderChanges
<1>3. TypeOK' /\ Stages' /\ Locks'
  BY <1>1, <1>2 DEF TypeOK, Pays, PayStatus, Stages, Locks
<1>4. Paying' /\ Prices'
  BY <1>1, <1>2 DEF Paying, Prices, Exists
<1> QED BY <1>3, <1>4

LEMMA SourceStep == ASSUME IInv, DeleteCouponOrSku PROVE IInv'
<1>1. UNCHANGED <<order, pay, released, faults, local>> /\ gone' \in BOOLEAN
  BY DEF DeleteCouponOrSku
<1> QED BY <1>1 DEF IInv, TypeOK, Stages, Locks, Paying, Prices, Exists

LEMMA FailStep == ASSUME IInv, NEW p \in Process, Fail(p) PROVE IInv'
<1>1. To(p, {"idle"})
  BY ToIdle DEF Fail, IInv
<1>2. local'[p] = Idle
  BY IdleTyped, GotoTyped, TypedFields DEF Fail, IInv
<1> QED BY <1>1, <1>2, QuietStep, TypedFields, TradeOrderAssumption DEF Fail, IInv, To, PCs

LEMMA StutterStep == ASSUME IInv, UNCHANGED vars PROVE IInv'
BY DEF vars, IInv, TypeOK, Stages, Locks, Paying, Prices, Exists

LEMMA InitInductive == Init => IInv
BY InitTyped, IdleTyped
   DEF Init, PaySide!Init, IInv, Stages, Locks, Locked, Paying, Prices, Exists

LEMMA NextInductive == IInv /\ [Next]_vars => IInv'
<1> SUFFICES ASSUME IInv, [Next]_vars PROVE IInv'
  OBVIOUS
<1>1. ASSUME NEW p \in Process, CancelUnpaidOrder(p) \/ UpdateOrderPaid(p) \/ UpdateOrderPrice(p)
                                \/ ReceiveOrder(p) \/ PickUpOrder(p)
      PROVE IInv'
  BY <1>1, CancelStep, PaidStep, PriceStep, ReceiveStep, PickUpStep
<1>2. ASSUME NEW p \in Process, DeleteRead(p) \/ DeleteOrder(p) \/ Fail(p) PROVE IInv'
  BY <1>2, DeleteStep, FailStep
<1>3. CASE CreateOrder \/ DeliveryOrder \/ PayOrderChanges \/ DeleteCouponOrSku
  BY <1>3, CreateStep, DeliveryStep, PayOrderStep, SourceStep
<1>4. CASE UNCHANGED vars
  BY <1>4, StutterStep
<1> QED BY <1>1, <1>2, <1>3, <1>4, JobTyped DEF Next

(* Every reachable state satisfies the inductive invariant. *)
THEOREM Inductive == Spec => []IInv
<1> QED BY InitInductive, NextInductive, PTL DEF Spec

-----------------------------------------------------------------------------
(* Every order, pay order and request keeps its type (order_update.go,       *)
(* order_processors.go).                                                    *)
THEOREM TypeCorrect == Spec => []TypeOK
<1>1. IInv => TypeOK
  BY DEF IInv
<1> QED BY <1>1, Inductive, PTL

(* However many callbacks, cancellations and jobs overlap, a paid order      *)
(* keeps its stock, coupon and points.                                      *)
THEOREM PaidKeepsStockAlways == Spec => []PaidKeepsStock
<1>1. IInv => PaidKeepsStock
  BY DEF IInv, Stages, PaidKeepsStock
<1> QED BY <1>1, Inductive, PTL

(* AfterCancelOrder runs once for an order at the most.                      *)
THEOREM ReleasedOnceAlways == Spec => []ReleasedOnce
<1>1. IInv => ReleasedOnce
  BY DEF IInv, Stages, ReleasedOnce
<1> QED BY <1>1, Inductive, PTL

(* The stock of an order is with it or was given back, never both           *)
(* (order_update.go: cancelUnpaidOrder).                                    *)
THEOREM StockSettledAlways == Spec => []StockSettled
BY TypeCorrect, PaidKeepsStockAlways, ReleasedOnceAlways, PTL DEF StockSettled

(* A paid order rests on a payment that its pay order accepted, and on one    *)
(* of its price whatever the price adjustments do, if none is cut off       *)
(* between its two commits (order_update.go: UpdateOrderPrice).             *)
THEOREM PaidIsBackedAlways == Spec => []PaidIsBacked
<1>1. ASSUME IInv PROVE PaidIsBacked
  <2>1. order.paid => Exists /\ pay.paid
                      /\ \A p \in Process : local[p].pc # "commitPrice"
    BY <1>1 DEF IInv, Stages, Paying, Exists
  <2> QED BY <1>1, <2>1 DEF IInv, Prices, PaidIsBacked
<1> QED BY <1>1, Inductive, PTL

(* No step changes the price of a paid order or of its pay order. *)
THEOREM PriceFixedOncePaidAlways == Spec => PriceFixedOncePaid
<1>1. ASSUME IInv, [Next]_vars, order.paid PROVE order'.price = order.price /\ pay'.price = pay.price
  <2> USE TypedFields, <1>1 DEF IInv
  <2>1. \A p \in Process : ~PriceWritePay(p) /\ ~PriceCommit(p) /\ ~CreateOrder
    BY DEF PriceWritePay, PriceCommit, CreateOrder, Paying, Stages
  <2>2. \A s \in OrderStatus : [order EXCEPT !.status = s].price = order.price
    BY StatusWritten
  <2>3. [order EXCEPT !.status = "undelivered", !.paid = TRUE].price = order.price
    BY OrderPaidWritten
  <2>4. PayOrderChanges => pay'.price = pay.price
    BY PayMoves
  <2>5. ASSUME NEW p \in Process, CancelUnpaidOrder(p) \/ UpdateOrderPaid(p) \/ UpdateOrderPrice(p)
        PROVE order'.price = order.price /\ pay'.price = pay.price
    BY <2>1, <2>2, <2>3, <2>5 DEF CancelUnpaidOrder, CancelRead, CancelAskPay, CancelAskPayFails, CasCancel,
       UpdateOrderPaid, PaidRead, ValidatePaid, CasPaid, OrderStatus,
       UpdateOrderPrice, PriceRead, PriceUpdate, PriceCheckPay
  <2>6. ASSUME NEW p \in Process,
               ReceiveOrder(p) \/ PickUpOrder(p) \/ DeleteRead(p) \/ DeleteOrder(p) \/ Fail(p)
        PROVE order'.price = order.price /\ pay'.price = pay.price
    BY <2>2, <2>6 DEF ReceiveOrder, ReceiveRead, CasReceive, PickUpOrder, PickUpRead, WritePickUp,
       DeleteRead, DeleteOrder, Fail, OrderStatus
  <2>7. CASE CreateOrder \/ DeliveryOrder \/ PayOrderChanges \/ DeleteCouponOrSku
    BY <2>1, <2>2, <2>4, <2>7, JobTyped DEF DeliveryOrder, PayOrderChanges, DeleteCouponOrSku, OrderStatus
  <2>8. CASE UNCHANGED vars
    BY <2>8 DEF vars
  <2> QED BY <2>5, <2>6, <2>7, <2>8, JobTyped DEF Next
<1>2. IInv /\ [Next]_vars => [order.paid => order'.price = order.price /\ pay'.price = pay.price]_vars
  BY <1>1
<1> QED BY <1>2, Inductive, PTL DEF Spec, PriceFixedOncePaid

-----------------------------------------------------------------------------
(* The pay order seen from here is written only as PayRow allows, which is   *)
(* what PayOrder implements: a price adjustment never asks for a price of 0. *)
Positive == \A p \in Process : local[p].pc \in {"updatePrice", "checkPay", "writePay"}
                                => local[p].price # 0

LEMMA PositiveKept ==
    ASSUME TypeOK, Positive, [Next]_vars
    PROVE  Positive'
<1> USE TypedFields
<1>1. ASSUME NEW p \in Process, NEW l \in LocalState, Goto(p, l),
             l.pc \in {"updatePrice", "checkPay", "writePay"} => l.price # 0
      PROVE  Positive'
  BY <1>1, GotoTyped DEF Positive
<1>2. ASSUME NEW p \in Process, Goto(p, Idle) PROVE Positive'
  BY <1>1, <1>2, IdleTyped
<1>3. ASSUME NEW p \in Process, NEW pc \in PCs, Advance(p, pc),
             \/ pc \notin {"updatePrice", "checkPay", "writePay"}
             \/ local[p].pc \in {"updatePrice", "checkPay"}
      PROVE  Positive'
  BY <1>3, AdvanceTyped DEF Positive
<1>4. ASSUME NEW p \in Process, CancelUnpaidOrder(p) PROVE Positive'
  BY <1>2, <1>3, <1>4
     DEF CancelUnpaidOrder, CancelRead, CancelAskPay, CancelAskPayFails, CasCancel, PCs
<1>5. ASSUME NEW p \in Process, UpdateOrderPaid(p) PROVE Positive'
  <2>1. CASE PaidRead(p)
    <3>1. PICK l : l = [pc |-> "validatePaid", price |-> order.price, adjust |-> 0]
      OBVIOUS
    <3>2. l \in LocalState /\ l.pc = "validatePaid"
      BY <3>1 DEF LocalState
    <3>3. Goto(p, l)
      BY <2>1, <3>1 DEF PaidRead
    <3> QED BY <1>1, <3>2, <3>3
  <2>2. CASE ValidatePaid(p) \/ CasPaid(p)
    BY <1>2, <1>3, <2>2 DEF ValidatePaid, CasPaid, PCs
  <2> QED BY <1>5, <2>1, <2>2 DEF UpdateOrderPaid
<1>6. ASSUME NEW p \in Process, UpdateOrderPrice(p) PROVE Positive'
  <2>1. ASSUME NEW adjust \in Adjustments, PriceRead(p, adjust) PROVE Positive'
    <3>1. PICK l : l = [pc |-> "updatePrice", price |-> order.price + adjust,
                        adjust |-> order.adjust + adjust]
      OBVIOUS
    <3>2. l \in LocalState /\ l.price # 0
      BY <2>1, <3>1, TradeOrderAssumption DEF LocalState, PriceRead, PositivePrice
    <3>3. Goto(p, l)
      BY <2>1, <3>1 DEF PriceRead
    <3> QED BY <1>1, <3>2, <3>3
  <2>2. CASE PriceUpdate(p) \/ PriceCheckPay(p)
    BY <1>2, <1>3, <2>2 DEF PriceUpdate, PriceCheckPay, PCs
  <2>3. CASE PriceWritePay(p) \/ PriceCommit(p)
    BY <1>2, <1>3, <2>3 DEF PriceWritePay, PriceCommit, PCs
  <2> QED BY <1>6, <2>1, <2>2, <2>3 DEF UpdateOrderPrice
<1>7. ASSUME NEW p \in Process, ReceiveOrder(p) \/ PickUpOrder(p) PROVE Positive'
  BY <1>2, <1>3, <1>7 DEF ReceiveOrder, ReceiveRead, CasReceive, PickUpOrder, PickUpRead, WritePickUp, PCs
<1>8. ASSUME NEW p \in Process, DeleteRead(p) \/ DeleteOrder(p) \/ Fail(p) PROVE Positive'
  BY <1>2, <1>3, <1>8 DEF DeleteRead, DeleteOrder, Fail, PCs
<1>9. CASE CreateOrder \/ DeliveryOrder \/ PayOrderChanges \/ DeleteCouponOrSku \/ UNCHANGED vars
  BY <1>9 DEF CreateOrder, DeliveryOrder, PayOrderChanges, DeleteCouponOrSku, vars, Positive
<1> QED BY <1>4, <1>5, <1>6, <1>7, <1>8, <1>9, JobTyped DEF Next

LEMMA StepIsPayStep ==
    ASSUME TypeOK, Positive, [Next]_vars
    PROVE  [PaySide!Next]_pay
<1>1. CASE CreateOrder
  BY <1>1, TradeOrderAssumption DEF CreateOrder, PaySide!Next
<1>2. CASE PayOrderChanges
  BY <1>2 DEF PayOrderChanges, PaySide!Next
<1>3. CASE DeliveryOrder \/ DeleteCouponOrSku \/ UNCHANGED vars
  BY <1>3 DEF DeliveryOrder, DeleteCouponOrSku, vars
<1>4. ASSUME NEW p \in Process, UpdateOrderPrice(p) PROVE [PaySide!Next]_pay
  <2>1. CASE PriceWritePay(p)
    <3>1. local[p].price \in Nat \ {0}
      BY <2>1, TypedFields DEF PriceWritePay, Positive
    <3> QED BY <2>1, <3>1 DEF PriceWritePay, PaySide!Next
  <2>2. CASE ~PriceWritePay(p)
    BY <1>4, <2>2 DEF UpdateOrderPrice, PriceRead, PriceUpdate, PriceCheckPay, PriceCommit
  <2> QED BY <2>1, <2>2
<1>5. ASSUME NEW p \in Process, CancelUnpaidOrder(p) \/ UpdateOrderPaid(p) PROVE pay' = pay
  BY <1>5 DEF CancelUnpaidOrder, CancelRead, CancelAskPay, CancelAskPayFails, CasCancel,
              UpdateOrderPaid, PaidRead, ValidatePaid, CasPaid
<1>6. ASSUME NEW p \in Process,
             ReceiveOrder(p) \/ PickUpOrder(p) \/ DeleteRead(p) \/ DeleteOrder(p) \/ Fail(p)
      PROVE  pay' = pay
  BY <1>6 DEF ReceiveOrder, ReceiveRead, CasReceive, PickUpOrder, PickUpRead, WritePickUp,
              DeleteRead, DeleteOrder, Fail
<1> QED BY <1>1, <1>2, <1>3, <1>4, <1>5, <1>6, JobTyped DEF Next

(* Whatever a trade order's requests and jobs do to its pay order            *)
(* (order_update.go: CreateOrder, UpdateOrderPrice), the pay service may.    *)
THEOREM PayIsPayRow == Spec => PaySide!Spec
<1>1. Init => PaySide!Init /\ Positive
  <2>1. Init => PaySide!Init
    BY DEF Init
  <2>2. Init => \A p \in Process : local[p].pc = "idle"
    BY IdleTyped DEF Init
  <2> QED BY <2>1, <2>2 DEF Positive
<1>2. TypeOK /\ Positive /\ [Next]_vars => [PaySide!Next]_pay /\ Positive'
  BY PositiveKept, StepIsPayStep
<1> QED BY <1>1, <1>2, TypeCorrect, PTL DEF Spec, PaySide!Spec

-----------------------------------------------------------------------------
(* The cart: what it holds, and what one write makes of that.               *)

CartRow == [live : BOOLEAN, sku : Wares, count : Nat \ {0}]
Carts == Seq(CartRow)

\* What the row i adds to the SKU s; the sum over all rows is what the cart holds.
Amount(c, s, i) == IF c[i].live /\ c[i].sku = s THEN c[i].count ELSE 0
AmountsOf(c, s) == [i \in DOMAIN c |-> Amount(c, s, i)]
TotalOf(c, s) == SumFunctionOnSet(AmountsOf(c, s), DOMAIN c)

LEMMA CartFields ==
    ASSUME NEW c \in Carts
    PROVE  /\ Len(c) \in Nat /\ DOMAIN c = 1..Len(c) /\ IsFiniteSet(DOMAIN c)
           /\ \A i \in DOMAIN c : /\ c[i] \in CartRow /\ c[i].live \in BOOLEAN /\ c[i].sku \in Wares
                                  /\ c[i].count \in Nat \ {0}
<1>1. PICK S : S = CartRow
  OBVIOUS
<1>2. c \in Seq(S)
  BY <1>1 DEF Carts
<1>3. Len(c) \in Nat /\ DOMAIN c = 1..Len(c) /\ \A i \in DOMAIN c : c[i] \in S
  BY <1>2
<1>4. IsFiniteSet(DOMAIN c)
  BY <1>3, FS_Interval
<1> QED BY <1>1, <1>3, <1>4 DEF CartRow

LEMMA AmountIs ==
    ASSUME NEW c \in Carts, NEW s, NEW i \in DOMAIN c
    PROVE  AmountsOf(c, s)[i] = Amount(c, s, i) /\ Amount(c, s, i) \in Nat
BY CartFields DEF AmountsOf, Amount

LEMMA TotalIs == ASSUME NEW c \in Carts, NEW s PROVE TotalOf(c, s) \in Nat
<1>1. IsFiniteSet(DOMAIN c) /\ \A i \in DOMAIN c : AmountsOf(c, s)[i] \in Nat
  BY CartFields, AmountIs
<1> QED BY <1>1, SumIsNat DEF TotalOf

LEMMA HeldIs == ASSUME NEW c \in Carts, NEW s \in Wares PROVE Held(c)[s] = TotalOf(c, s)
<1> DEFINE U == {j \in RowsIn(c) : c[j].sku = s}
           f == [i \in U |-> c[i].count]
<1>1. Held(c)[s] = SumFunctionOnSet(f, U)
  BY DEF Held, SumFunction, SumFunctionOnSet, FoldFunction
<1>2. U \in SUBSET DOMAIN c
  BY DEF RowsIn
<1>3. \A i \in U : f[i] \in Int /\ AmountsOf(c, s)[i] = f[i]
  BY CartFields, AmountIs DEF Amount, RowsIn
<1>4. \A i \in DOMAIN c \ U : AmountsOf(c, s)[i] = 0
  BY AmountIs DEF Amount, RowsIn
<1>5. IsFiniteSet(DOMAIN c)
  BY CartFields
<1> HIDE DEF U, f
<1> QED BY <1>1, <1>2, <1>3, <1>4, <1>5, SumOfMembers DEF TotalOf

\* One row is written.
OneWritten(c, d, i) == DOMAIN d = DOMAIN c /\ \A j \in DOMAIN c \ {i} : d[j] = c[j]

LEMMA RowWritten ==
    ASSUME NEW c \in Carts, NEW i \in DOMAIN c, NEW e \in CartRow, NEW d, d = [c EXCEPT ![i] = e]
    PROVE  d \in Carts /\ OneWritten(c, d, i) /\ d[i] = e /\ Len(d) = Len(c)
<1>1. PICK S : S = CartRow
  OBVIOUS
<1>2. c \in Seq(S) /\ e \in S
  BY <1>1 DEF Carts
<1>3. i \in 1..Len(c) /\ DOMAIN c = 1..Len(c)
  BY CartFields
<1>4. d \in Seq(S) /\ Len(d) = Len(c)
  BY <1>2, <1>3, ExceptSeq
<1> QED BY <1>1, <1>3, <1>4 DEF Carts, OneWritten

LEMMA HeldAfterWrite ==
    ASSUME NEW c \in Carts, NEW d \in Carts, NEW i \in DOMAIN c, OneWritten(c, d, i), NEW s \in Wares
    PROVE  Held(d)[s] = Held(c)[s] + (Amount(d, s, i) - Amount(c, s, i))
<1>1. DOMAIN d = DOMAIN c /\ IsFiniteSet(DOMAIN c)
  BY CartFields DEF OneWritten
<1>2. \A j \in DOMAIN c : AmountsOf(c, s)[j] \in Int /\ AmountsOf(d, s)[j] \in Int
  BY <1>1, AmountIs
<1>3. \A j \in DOMAIN c \ {i} : AmountsOf(c, s)[j] = AmountsOf(d, s)[j]
  BY <1>1, AmountIs DEF OneWritten, Amount
<1>4. SumFunctionOnSet(AmountsOf(d, s), DOMAIN c)
        = SumFunctionOnSet(AmountsOf(c, s), DOMAIN c) + (AmountsOf(d, s)[i] - AmountsOf(c, s)[i])
  BY <1>1, <1>2, <1>3, SumChange
<1>5. AmountsOf(d, s)[i] = Amount(d, s, i) /\ AmountsOf(c, s)[i] = Amount(c, s, i)
  BY <1>1, AmountIs
<1> QED BY <1>1, <1>4, <1>5, HeldIs DEF TotalOf

LEMMA RowAppended ==
    ASSUME NEW c \in Carts, NEW e \in CartRow, NEW d, d = Append(c, e)
    PROVE  /\ d \in Carts /\ Len(d) = Len(c) + 1
           /\ \A i \in DOMAIN c : d[i] = c[i]
           /\ d[Len(c) + 1] = e
<1>1. PICK S : S = CartRow
  OBVIOUS
<1>2. c \in Seq(S) /\ e \in S
  BY <1>1 DEF Carts
<1>3. d \in Seq(S) /\ Len(d) = Len(c) + 1 /\ (\A i \in 1..Len(c) : d[i] = c[i]) /\ d[Len(c) + 1] = e
  BY <1>2, AppendProperties
<1>4. d \in Carts
  BY <1>1, <1>3 DEF Carts
<1> QED BY <1>3, <1>4, CartFields

LEMMA HeldAfterAppend ==
    ASSUME NEW c \in Carts, NEW e \in CartRow, NEW d, d = Append(c, e), NEW s \in Wares
    PROVE  Held(d)[s] = Held(c)[s] + (IF e.live /\ e.sku = s THEN e.count ELSE 0)
<1>3. Len(d) = Len(c) + 1 /\ (\A i \in DOMAIN c : d[i] = c[i]) /\ d[Len(c) + 1] = e
  BY RowAppended
<1>4. d \in Carts
  BY RowAppended
<1>5. PICK n \in Nat : n = Len(c) + 1 /\ n \notin DOMAIN c /\ DOMAIN d = DOMAIN c \cup {n}
  <2>1. Len(c) \in Nat /\ DOMAIN c = 1..Len(c) /\ DOMAIN d = 1..(Len(c) + 1)
    BY <1>3, <1>4, CartFields
  <2> QED BY <2>1
<1>6. IsFiniteSet(DOMAIN c)
  BY CartFields
<1>0. \A i \in DOMAIN c \cup {n} : AmountsOf(d, s)[i] = Amount(d, s, i) /\ Amount(d, s, i) \in Nat
  BY <1>4, <1>5, AmountIs
<1>7. \A i \in DOMAIN c \cup {n} : AmountsOf(d, s)[i] \in Int
  BY <1>0
<1>8. TotalOf(d, s) = AmountsOf(d, s)[n] + SumFunctionOnSet(AmountsOf(d, s), DOMAIN c)
  BY <1>5, <1>6, <1>7, SumAdd DEF TotalOf
<1>9. \A i \in DOMAIN c : AmountsOf(d, s)[i] = AmountsOf(c, s)[i]
  <2>1. \A i \in DOMAIN c : d[i] = c[i]
    BY <1>3, CartFields
  <2>2. \A i \in DOMAIN c : AmountsOf(c, s)[i] = Amount(c, s, i)
    BY AmountIs
  <2> QED BY <1>0, <2>1, <2>2 DEF Amount
<1>10. SumFunctionOnSet(AmountsOf(d, s), DOMAIN c) = TotalOf(c, s)
  BY <1>6, <1>9, SumSame DEF TotalOf
<1>11. AmountsOf(d, s)[n] = IF e.live /\ e.sku = s THEN e.count ELSE 0
  <2>1. d[n] = e
    BY <1>3, <1>5
  <2> QED BY <1>0, <2>1 DEF Amount
<1>12. TotalOf(c, s) \in Nat /\ AmountsOf(d, s)[n] \in Int
  BY <1>7, TotalIs
<1> QED BY <1>4, <1>8, <1>10, <1>11, <1>12, HeldIs

LEMMA HeldIsNat == ASSUME NEW c \in Carts, NEW s \in Wares PROVE Held(c)[s] \in Nat
BY HeldIs, TotalIs

LEMMA HeldSame ==
    ASSUME NEW c, NEW a, \A s \in Wares : Held(c)[s] = Asked(a)[s] PROVE Held(c) = Asked(a)
BY DEF Held, Asked

\* First() finds a live row of the SKU, or there is none.
LEMMA FirstRowIs ==
    ASSUME cart \in Carts, NEW s
    PROVE  \/ FirstRow(s) = 0 /\ \A i \in Rows : cart[i].sku # s
           \/ FirstRow(s) \in Rows /\ FirstRow(s) # 0 /\ cart[FirstRow(s)].sku = s
<1> DEFINE I == {i \in Rows : cart[i].sku = s}
<1>1. FirstRow(s) = IF I = {} THEN 0 ELSE Min(I)
  BY DEF FirstRow
<1>2. I \subseteq Rows /\ Rows \subseteq DOMAIN cart /\ DOMAIN cart \subseteq Nat \ {0}
  BY CartFields DEF Rows, RowsIn
<1>3. CASE I = {}
  BY <1>1, <1>3
<1>4. CASE I # {}
  <2>1. \E m \in I : \A n \in I : m <= n
    BY <1>2, <1>4, LeastNumber
  <2>2. Min(I) \in I
    BY <2>1 DEF Min
  <2> QED BY <1>1, <1>2, <1>4, <2>2
<1> QED BY <1>3, <1>4

LEMMA CartOfRows ==
    ASSUME NEW c \in Carts, NEW d, d \in [DOMAIN c -> CartRow]
    PROVE  d \in Carts /\ Len(d) = Len(c)
<1>1. PICK n \in Nat : n = Len(c) /\ DOMAIN c = 1..n
  BY CartFields
<1>2. d \in [1..n -> CartRow]
  BY <1>1
<1>3. d \in Carts
  BY <1>2, SeqDef DEF Carts
<1> QED BY <1>1, <1>2, <1>3, CartFields

LEMMA CartIsFunction == ASSUME NEW c \in Carts PROVE c \in [DOMAIN c -> CartRow]
<1>1. PICK n \in Nat : c \in [1..n -> CartRow]
  BY SeqDef DEF Carts
<1> QED BY <1>1

\* The count of a row.
CountSet(c, i, n) == [c EXCEPT ![i].count = n]
SkuSet(c, i, s, n) == [c EXCEPT ![i].sku = s, ![i].count = n]

LEMMA CountWritten ==
    ASSUME NEW c \in Carts, NEW i \in DOMAIN c, NEW n \in Nat \ {0}, NEW d, d = CountSet(c, i, n)
    PROVE  /\ d \in Carts /\ OneWritten(c, d, i) /\ Len(d) = Len(c)
           /\ d[i].live = c[i].live /\ d[i].sku = c[i].sku /\ d[i].count = n
<1>1. PICK r \in CartRow : r = c[i]
  BY CartFields
<1>2. PICK e : e = [r EXCEPT !.count = n]
  OBVIOUS
<1>3. e \in CartRow /\ e.live = r.live /\ e.sku = r.sku /\ e.count = n
  BY <1>2 DEF CartRow
<1>4. OneWritten(c, d, i) /\ d[i] = e
  <2>1. d = [c EXCEPT ![i].count = n]
    BY DEF CountSet
  <2>2. DOMAIN d = DOMAIN c
    BY <2>1
  <2>3. \A j \in DOMAIN c \ {i} : d[j] = c[j]
    BY <2>1, CartIsFunction
  <2>4. d[i] = e
    BY <1>1, <1>2, <2>1, CartIsFunction
  <2> QED BY <2>2, <2>3, <2>4 DEF OneWritten
<1>5. d = [j \in DOMAIN c |-> d[j]]
  BY DEF CountSet
<1>6. \A j \in DOMAIN c : d[j] \in CartRow
  BY <1>3, <1>4, CartIsFunction DEF OneWritten
<1>7. d \in [DOMAIN c -> CartRow]
  BY <1>5, <1>6
<1> QED BY <1>1, <1>3, <1>4, <1>7, CartOfRows

LEMMA SkuWritten ==
    ASSUME NEW c \in Carts, NEW i \in DOMAIN c, NEW s \in Wares, NEW n \in Nat \ {0},
           NEW d, d = SkuSet(c, i, s, n)
    PROVE  /\ d \in Carts /\ OneWritten(c, d, i) /\ Len(d) = Len(c)
           /\ d[i].live = c[i].live /\ d[i].sku = s /\ d[i].count = n
<1>1. PICK r \in CartRow : r = c[i]
  BY CartFields
<1>2. PICK e : e = [r EXCEPT !.sku = s, !.count = n]
  OBVIOUS
<1>3. e \in CartRow /\ e.live = r.live /\ e.sku = s /\ e.count = n
  BY <1>2 DEF CartRow
<1>4. OneWritten(c, d, i) /\ d[i] = e
  <2>1. d = [c EXCEPT ![i].sku = s, ![i].count = n]
    BY DEF SkuSet
  <2>2. DOMAIN d = DOMAIN c
    BY <2>1
  <2>3. \A j \in DOMAIN c \ {i} : d[j] = c[j]
    BY <2>1, CartIsFunction
  <2>4. d[i] = e
    BY <1>1, <1>2, <2>1, CartIsFunction
  <2> QED BY <2>2, <2>3, <2>4 DEF OneWritten
<1>5. d = [j \in DOMAIN c |-> d[j]]
  BY DEF SkuSet
<1>6. \A j \in DOMAIN c : d[j] \in CartRow
  BY <1>3, <1>4, CartIsFunction DEF OneWritten
<1>7. d \in [DOMAIN c -> CartRow]
  BY <1>5, <1>6
<1> QED BY <1>1, <1>3, <1>4, <1>7, CartOfRows

LEMMA RowsRemoved ==
    ASSUME cart \in Carts, NEW I, NEW d, d = Removing(I)
    PROVE  /\ d \in Carts /\ Len(d) = Len(cart) /\ DOMAIN d = DOMAIN cart
           /\ \A i \in DOMAIN cart \ I : d[i] = cart[i]
           /\ \A i \in DOMAIN cart \cap I : ~d[i].live
<1>1. DOMAIN d = DOMAIN cart /\ d \in [DOMAIN cart -> CartRow]
  <2>1. ASSUME NEW i \in DOMAIN cart PROVE d[i] \in CartRow
    <3>1. PICK r \in CartRow : r = cart[i]
      BY CartFields
    <3>2. PICK e : e = [r EXCEPT !.live = FALSE]
      OBVIOUS
    <3>3. e \in CartRow
      BY <3>2, Zenon DEF CartRow
    <3>4. d[i] = IF i \in I THEN e ELSE r
      BY <3>1, <3>2 DEF Removing
    <3> QED BY <3>3, <3>4
  <2> QED BY <2>1 DEF Removing
<1>2. \A i \in DOMAIN cart \ I : d[i] = cart[i]
  BY DEF Removing
<1>3. ASSUME NEW i \in DOMAIN cart \cap I PROVE ~d[i].live
  <2>1. PICK r \in CartRow : r = cart[i]
    BY CartFields
  <2>2. d[i] = [r EXCEPT !.live = FALSE]
    BY <2>1 DEF Removing
  <2> QED BY <2>2 DEF CartRow
<1> QED BY <1>1, <1>2, <1>3, CartOfRows

-----------------------------------------------------------------------------
(* What a request has read, and the cart it began with.                     *)

TapRow == [pc : {"add", "count", "reset", "repoint", "merge", "remove"}, row : Nat, sku : Wares,
           count : Nat \ {0}, into : Nat, new : Nat \ {0}]

Pointing(l, n) == /\ l.row \in 0..n /\ l.into \in 0..n
                  /\ l.pc # "add" => l.row # 0
                  /\ l.pc = "merge" => l.into # 0

\* The request l began with the cart a.rows, nobody has written since, and now there is c.
Follows(c, a, l) ==
    /\ a.rows \in Carts /\ a.sku = l.sku /\ a.on = l.count
    /\ a.off = IF l.pc = "add" THEN 0 ELSE l.row
    /\ l.row # 0 => l.row \in RowsIn(a.rows)
    /\ l.pc \in {"add", "repoint"} /\ (l.pc = "add" => l.row = 0) =>
          \A i \in RowsIn(a.rows) : a.rows[i].sku # l.sku
    /\ l.pc = "add" /\ l.row # 0 =>
          a.rows[l.row].sku = l.sku /\ l.new = a.rows[l.row].count + l.count
    /\ l.pc = "count" => a.rows[l.row].sku = l.sku
    /\ l.pc \in {"reset", "repoint", "merge", "remove"} => a.rows[l.row].sku # l.sku
    /\ l.pc \in {"merge", "remove"} => /\ l.into \in RowsIn(a.rows) /\ a.rows[l.into].sku = l.sku
                                       /\ l.new = a.rows[l.into].count + l.count
    /\ c = IF l.pc = "remove" THEN CountSet(a.rows, l.into, l.new) ELSE a.rows

CartInv ==
    /\ cart \in Carts
    /\ DOMAIN alone \subseteq Taps /\ DOMAIN tap \subseteq Taps
    /\ \A t \in DOMAIN tap : tap[t] \in TapRow /\ Pointing(tap[t], Len(cart))
    /\ \A t \in DOMAIN alone \cap DOMAIN tap : Follows(cart, alone[t], tap[t])

LEMMA CartInvTyped == CartInv => CartTypeOK
BY DEF CartInv, CartTypeOK, Carts, CartRow, TapRow, Pointing

LEMMA CartInitOK == CartInit => CartInv
<1> SUFFICES ASSUME CartInit PROVE CartInv
  OBVIOUS
<1>1. PICK S : S = CartRow
  OBVIOUS
<1>2. << >> \in Seq(S)
  BY EmptySeq
<1>3. DOMAIN tap = {} /\ DOMAIN alone = {}
  BY DEF CartInit
<1> QED BY <1>1, <1>2, <1>3 DEF CartInv, CartInit, Carts

LEMMA TapFields ==
    ASSUME NEW l \in TapRow
    PROVE  /\ l.pc \in {"add", "count", "reset", "repoint", "merge", "remove"} /\ l.row \in Nat
           /\ l.sku \in Wares /\ l.count \in Nat \ {0} /\ l.into \in Nat /\ l.new \in Nat \ {0}
           /\ DOMAIN l = {"pc", "row", "sku", "count", "into", "new"}
BY DEF TapRow

LEMMA PointsOn ==
    ASSUME NEW l, NEW m \in Nat, NEW n \in Nat, m <= n, Pointing(l, m) PROVE Pointing(l, n)
BY DEF Pointing

\* A request that begins.
LEMMA BeginKeeps ==
    ASSUME CartInv, NEW t \in Taps, NEW l \in TapRow, Pointing(l, Len(cart)), NEW off, Begin(t, l, off),
           NEW a, a = [rows |-> cart, off |-> off, sku |-> l.sku, on |-> l.count], Follows(cart, a, l)
    PROVE  CartInv'
<1>1. cart' = cart /\ DOMAIN tap' = DOMAIN tap \cup {t} /\ DOMAIN alone' = DOMAIN alone \cup {t}
  BY DEF Begin, Continues
<1>2. tap'[t] = l /\ alone'[t] = a
  BY DEF Begin, Continues
<1>3. /\ \A u \in DOMAIN tap \ {t} : tap'[u] = tap[u]
      /\ \A u \in DOMAIN alone \ {t} : alone'[u] = alone[u]
  BY DEF Begin, Continues
<1> QED BY <1>1, <1>2, <1>3 DEF CartInv

\* A request that is over, whether it has written or not.
LEMMA DoneKeeps ==
    ASSUME CartInv, NEW t \in Taps, Done(t), cart' \in Carts, Len(cart) <= Len(cart'),
           Meets(t) \/ (Spoils(t) /\ cart' = cart)
    PROVE  CartInv'
<1>1. DOMAIN tap' = DOMAIN tap \ {t} /\ \A u \in DOMAIN tap' : tap'[u] = tap[u]
  BY DEF Done, Restrict
<1>2. DOMAIN alone' \subseteq DOMAIN alone /\ \A u \in DOMAIN alone' : alone'[u] = alone[u]
  BY DEF Meets, Spoils, Restrict
<1>3. cart' = cart \/ DOMAIN alone' \cap DOMAIN tap' = {}
  BY <1>1 DEF Meets, Restrict
<1>4. Len(cart) \in Nat /\ Len(cart') \in Nat
  BY CartFields DEF CartInv
<1>5. \A u \in DOMAIN tap' : tap'[u] \in TapRow /\ Pointing(tap'[u], Len(cart'))
  BY <1>1, <1>4, PointsOn DEF CartInv
<1>6. \A u \in DOMAIN alone' \cap DOMAIN tap' : Follows(cart', alone'[u], tap'[u])
  BY <1>1, <1>2, <1>3 DEF CartInv
<1> QED BY <1>1, <1>2, <1>5, <1>6 DEF CartInv

\* A request that goes on, and the other requests under way.
LEMMA GoesOnKeeps ==
    ASSUME CartInv, NEW t \in Taps, NEW l \in TapRow, Pointing(l, Len(cart)), Continues(t, l),
           cart' \in Carts, Len(cart') = Len(cart), DOMAIN alone' \subseteq DOMAIN alone,
           \A u \in DOMAIN alone' : alone'[u] = alone[u],
           cart' = cart \/ DOMAIN alone' \subseteq {t},
           t \in DOMAIN alone' => Follows(cart', alone[t], l)
    PROVE  CartInv'
<1>1. DOMAIN tap' = DOMAIN tap \cup {t} /\ tap'[t] = l /\ \A u \in DOMAIN tap \ {t} : tap'[u] = tap[u]
  BY DEF Continues
<1>2. \A u \in DOMAIN tap' : tap'[u] \in TapRow /\ Pointing(tap'[u], Len(cart'))
  BY <1>1 DEF CartInv
<1>3. ASSUME NEW u \in DOMAIN alone' \cap DOMAIN tap' PROVE Follows(cart', alone'[u], tap'[u])
  <2>1. CASE u = t
    BY <1>1, <2>1
  <2>2. CASE u # t
    BY <1>1, <2>2 DEF CartInv
  <2> QED BY <2>1, <2>2
<1> QED BY <1>1, <1>2, <1>3 DEF CartInv

LEMMA RowsLive ==
    ASSUME cart \in Carts, NEW i \in Rows
    PROVE  i \in DOMAIN cart /\ i \in Nat \ {0} /\ i \in 0..Len(cart) /\ cart[i] \in CartRow /\ cart[i].live
BY CartFields DEF Rows, RowsIn

LEMMA ReadForAddKeeps ==
    ASSUME CartInv, NEW t \in Taps, NEW s \in Wares, NEW n \in 1..MaxAsked, ReadForAdd(t, s, n) PROVE CartInv'
<1>1. cart \in Carts /\ n \in Nat \ {0}
  BY CartAssumption DEF CartInv
<1>2. PICK i : i = FirstRow(s)
  OBVIOUS
<1>3. \/ i = 0 /\ \A j \in Rows : cart[j].sku # s
      \/ i \in Rows /\ i # 0 /\ cart[i].sku = s
  BY <1>1, <1>2, FirstRowIs
<1>4. PICK new \in Nat \ {0} : new = IF i = 0 THEN n ELSE cart[i].count + n
  <2>1. i # 0 => cart[i].count \in Nat
    BY <1>1, <1>3, RowsLive DEF CartRow
  <2> QED BY <1>1, <2>1
<1>5. PICK l : l = [pc |-> "add", row |-> i, sku |-> s, count |-> n, into |-> i, new |-> new]
  OBVIOUS
<1>6. i \in Nat /\ i \in 0..Len(cart)
  BY <1>1, <1>3, RowsLive, CartFields
<1>7. l \in TapRow
  BY <1>1, <1>4, <1>5, <1>6 DEF TapRow
<1>8. Pointing(l, Len(cart))
  BY <1>5, <1>6 DEF Pointing
<1>9. Begin(t, l, 0)
  BY <1>2, <1>4, <1>5 DEF ReadForAdd
<1>10. PICK a : a = [rows |-> cart, off |-> 0, sku |-> l.sku, on |-> l.count]
  OBVIOUS
<1>11. Follows(cart, a, l)
  BY <1>1, <1>3, <1>4, <1>5, <1>10 DEF Follows, Rows
<1> QED BY <1>7, <1>8, <1>9, <1>10, <1>11, BeginKeeps

LEMMA ReadForCountKeeps ==
    ASSUME CartInv, NEW t \in Taps, NEW i \in Rows, NEW n \in 1..MaxAsked, ReadForCount(t, i, n) PROVE CartInv'
<1>1. cart \in Carts /\ n \in Nat \ {0}
  BY CartAssumption DEF CartInv
<1>2. i \in Nat \ {0} /\ i \in 0..Len(cart) /\ cart[i].sku \in Wares
  BY <1>1, RowsLive DEF CartRow
<1>3. PICK l : l = [pc |-> "count", row |-> i, sku |-> cart[i].sku, count |-> n, into |-> 0, new |-> n]
  OBVIOUS
<1>4. l \in TapRow
  BY <1>1, <1>2, <1>3 DEF TapRow
<1>5. Pointing(l, Len(cart))
  BY <1>2, <1>3 DEF Pointing
<1>6. Begin(t, l, i)
  BY <1>3 DEF ReadForCount
<1>7. PICK a : a = [rows |-> cart, off |-> i, sku |-> l.sku, on |-> l.count]
  OBVIOUS
<1>8. Follows(cart, a, l)
  BY <1>1, <1>3, <1>7 DEF Follows, Rows
<1> QED BY <1>4, <1>5, <1>6, <1>7, <1>8, BeginKeeps

LEMMA ReadForResetKeeps ==
    ASSUME CartInv, NEW t \in Taps, NEW i \in Rows, NEW s \in Wares, NEW n \in 1..MaxAsked,
           ReadForReset(t, i, s, n)
    PROVE  CartInv'
<1>1. cart \in Carts /\ n \in Nat \ {0}
  BY CartAssumption DEF CartInv
<1>2. i \in Nat \ {0} /\ i \in 0..Len(cart)
  BY <1>1, RowsLive
<1>3. PICK l : l = [pc |-> "reset", row |-> i, sku |-> s, count |-> n, into |-> 0, new |-> n]
  OBVIOUS
<1>4. l \in TapRow
  BY <1>1, <1>2, <1>3 DEF TapRow
<1>5. Pointing(l, Len(cart))
  BY <1>2, <1>3 DEF Pointing
<1>6. Begin(t, l, i) /\ s # cart[i].sku
  BY <1>3 DEF ReadForReset
<1>7. PICK a : a = [rows |-> cart, off |-> i, sku |-> l.sku, on |-> l.count]
  OBVIOUS
<1>8. Follows(cart, a, l)
  BY <1>1, <1>3, <1>6, <1>7 DEF Follows, Rows
<1> QED BY <1>4, <1>5, <1>6, <1>7, <1>8, BeginKeeps

\* What a tap under way knows.
LEMMA TapIs ==
    ASSUME CartInv, NEW t, NEW pc, Stands(t, pc)
    PROVE  /\ t \in DOMAIN tap /\ tap[t] \in TapRow /\ Pointing(tap[t], Len(cart)) /\ tap[t].pc = pc
           /\ cart \in Carts /\ Len(cart) \in Nat
           /\ t \in DOMAIN alone => Follows(cart, alone[t], tap[t])
BY CartFields DEF CartInv, Stands

LEMMA FindExistingKeeps == ASSUME CartInv, NEW t \in Taps, FindExisting(t) PROVE CartInv'
<1>1. Stands(t, "reset") /\ cart' = cart /\ alone' = alone
  BY DEF FindExisting
<1>2. PICK l \in TapRow : l = tap[t] /\ l.pc = "reset" /\ Pointing(l, Len(cart))
  BY <1>1, TapIs
<1>3. cart \in Carts /\ (t \in DOMAIN alone => Follows(cart, alone[t], l))
  BY <1>1, <1>2, TapIs
<1>4. PICK i : i = FirstRow(l.sku)
  OBVIOUS
<1>5. \/ i = 0 /\ \A j \in Rows : cart[j].sku # l.sku
      \/ i \in Rows /\ i # 0 /\ cart[i].sku = l.sku
  BY <1>3, <1>4, FirstRowIs
<1>6. CASE i = 0
  <2>1. PICK k : k = [l EXCEPT !.pc = "repoint"]
    OBVIOUS
  <2>2. Continues(t, k)
    BY <1>2, <1>4, <1>6, <2>1 DEF FindExisting
  <2>3. k \in TapRow
    BY <2>1 DEF TapRow
  <2>4. /\ k.pc = "repoint" /\ k.row = l.row /\ k.sku = l.sku /\ k.count = l.count
        /\ k.into = l.into /\ k.new = l.new
    BY <2>1, TapFields
  <2>5. Pointing(k, Len(cart))
    BY <1>2, <2>4 DEF Pointing
  <2>6. \A j \in Rows : cart[j].sku # l.sku
    BY <1>5, <1>6, <1>3, RowsLive
  <2>7. t \in DOMAIN alone => Follows(cart, alone[t], k)
    BY <1>2, <1>3, <2>4, <2>6 DEF Follows, Rows
  <2> QED BY <1>1, <1>3, <2>2, <2>3, <2>5, <2>7, GoesOnKeeps
<1>7. CASE i # 0
  <2>0. i \in Rows /\ cart[i].sku = l.sku
    BY <1>5, <1>7
  <2>1. PICK n \in Nat \ {0} : n = cart[i].count + l.count
    BY <1>3, <2>0, RowsLive, TapFields DEF CartRow
  <2>2. PICK k : k = [l EXCEPT !.pc = "merge", !.into = i, !.new = n]
    OBVIOUS
  <2>3. Continues(t, k)
    BY <1>2, <1>4, <1>7, <2>1, <2>2 DEF FindExisting
  <2>4. i \in Nat \ {0} /\ i \in 0..Len(cart)
    BY <1>3, <2>0, RowsLive
  <2>5. k \in TapRow
    BY <2>2, <2>4 DEF TapRow
  <2>6. /\ k.pc = "merge" /\ k.row = l.row /\ k.sku = l.sku /\ k.count = l.count
        /\ k.into = i /\ k.new = n
    BY <2>2, TapFields
  <2>7. Pointing(k, Len(cart))
    BY <1>2, <2>4, <2>6 DEF Pointing
  <2>8. t \in DOMAIN alone => Follows(cart, alone[t], k)
    BY <1>2, <1>3, <2>0, <2>1, <2>6 DEF Follows, Rows
  <2> QED BY <1>1, <1>3, <2>3, <2>5, <2>7, <2>8, GoesOnKeeps
<1> QED BY <1>6, <1>7

\* A count is written to a row that is live, and to no other.
LEMMA WithCountIs ==
    ASSUME cart \in Carts, NEW i \in DOMAIN cart, NEW n \in Nat \ {0}, NEW d, d = WithCount(i, n)
    PROVE  d \in Carts /\ Len(d) = Len(cart) /\ (cart[i].live => d = CountSet(cart, i, n))
<1>1. PICK c \in Carts : c = cart
  OBVIOUS
<1>2. PICK e : e = CountSet(c, i, n)
  OBVIOUS
<1>3. i \in DOMAIN c
  BY <1>1
<1>4. e \in Carts /\ Len(e) = Len(c)
  BY <1>2, <1>3, CountWritten
<1>5. d = IF c[i].live THEN e ELSE c
  BY <1>1, <1>2 DEF WithCount, CountSet
<1> QED BY <1>1, <1>2, <1>4, <1>5

LEMMA MergeKeeps == ASSUME CartInv, NEW t \in Taps, Merge(t) PROVE CartInv'
<1>1. Stands(t, "merge") /\ cart' = MergedCart(tap[t]) /\ Meets(t)
  BY DEF Merge
<1>2. PICK l \in TapRow : l = tap[t] /\ l.pc = "merge" /\ Pointing(l, Len(cart))
  BY <1>1, TapIs
<1>3. cart \in Carts /\ (t \in DOMAIN alone => Follows(cart, alone[t], l))
  BY <1>1, <1>2, TapIs
<1>4. l.into \in DOMAIN cart /\ l.new \in Nat \ {0}
  BY <1>2, <1>3, CartFields, TapFields DEF Pointing
<1>5. cart' = WithCount(l.into, l.new)
  BY <1>1, <1>2 DEF MergedCart
<1>6. cart' \in Carts /\ Len(cart') = Len(cart)
  BY <1>3, <1>4, <1>5, WithCountIs
<1>7. PICK k : k = [l EXCEPT !.pc = "remove"]
  OBVIOUS
<1>8. Continues(t, k)
  BY <1>2, <1>7 DEF Merge
<1>9. k \in TapRow
  BY <1>7 DEF TapRow
<1>10. /\ k.pc = "remove" /\ k.row = l.row /\ k.sku = l.sku /\ k.count = l.count
       /\ k.into = l.into /\ k.new = l.new
  BY <1>7, TapFields
<1>11. Pointing(k, Len(cart))
  BY <1>2, <1>10 DEF Pointing
<1>12. /\ DOMAIN alone' \subseteq DOMAIN alone /\ DOMAIN alone' \subseteq {t}
       /\ \A u \in DOMAIN alone' : alone'[u] = alone[u]
  BY <1>1 DEF Meets, Restrict
<1>13. t \in DOMAIN alone => Follows(cart', alone[t], k)
  <2>1. SUFFICES ASSUME t \in DOMAIN alone PROVE Follows(cart', alone[t], k)
    OBVIOUS
  <2>2. PICK a : a = alone[t]
    OBVIOUS
  <2>3. Follows(cart, a, l)
    BY <1>3, <2>1, <2>2
  <2>4. cart = a.rows /\ l.into \in RowsIn(a.rows)
    BY <1>2, <2>3 DEF Follows
  <2>5. cart' = CountSet(a.rows, l.into, l.new)
    BY <1>3, <1>4, <1>5, <2>4, WithCountIs DEF RowsIn
  <2> QED BY <1>2, <1>10, <2>2, <2>3, <2>5 DEF Follows
<1> QED BY <1>6, <1>8, <1>9, <1>11, <1>12, <1>13, GoesOnKeeps

\* The writes that end a request leave a cart.
LEMMA AddCartWrites ==
    ASSUME CartInv, NEW t, AddCart(t) PROVE cart' \in Carts /\ Len(cart) <= Len(cart')
<1>1. PICK l \in TapRow : l = tap[t] /\ Pointing(l, Len(cart))
  BY TapIs DEF AddCart
<1>2. cart \in Carts /\ Len(cart) \in Nat
  BY CartFields DEF CartInv
<1>3. CASE l.row # 0
  <2>1. cart' = WithCount(l.row, l.new)
    BY <1>1, <1>3 DEF AddCart
  <2>2. l.row \in DOMAIN cart /\ l.new \in Nat \ {0}
    BY <1>1, <1>2, <1>3, CartFields, TapFields DEF Pointing
  <2> QED BY <1>2, <2>1, <2>2, WithCountIs
<1>4. CASE l.row = 0
  <2>1. PICK e : e = [live |-> TRUE, sku |-> l.sku, count |-> l.count]
    OBVIOUS
  <2>2. e \in CartRow
    BY <2>1, TapFields DEF CartRow
  <2>3. cart' = Append(cart, e)
    BY <1>1, <1>4, <2>1 DEF AddCart
  <2>4. PICK c \in Carts : c = cart
    BY <1>2
  <2>5. PICK d : d = cart'
    OBVIOUS
  <2>6. d = Append(c, e)
    BY <2>3, <2>4, <2>5
  <2>7. d \in Carts /\ Len(d) = Len(c) + 1
    BY <2>2, <2>6, RowAppended
  <2> QED BY <1>2, <2>4, <2>5, <2>7
<1> QED BY <1>3, <1>4

LEMMA UpdateCountWrites ==
    ASSUME CartInv, NEW t, UpdateCartCount(t) PROVE cart' \in Carts /\ Len(cart) <= Len(cart')
<1>1. PICK l \in TapRow : l = tap[t] /\ Pointing(l, Len(cart)) /\ l.pc = "count"
  BY TapIs DEF UpdateCartCount
<1>2. cart \in Carts /\ Len(cart) \in Nat
  BY CartFields DEF CartInv
<1>3. cart' = WithCount(l.row, l.count)
  BY <1>1 DEF UpdateCartCount
<1>4. l.row \in DOMAIN cart /\ l.count \in Nat \ {0}
  BY <1>1, <1>2, CartFields, TapFields DEF Pointing
<1> QED BY <1>2, <1>3, <1>4, WithCountIs

LEMMA RepointWrites ==
    ASSUME CartInv, NEW t, Repoint(t) PROVE cart' \in Carts /\ Len(cart) <= Len(cart')
<1>1. PICK l \in TapRow : l = tap[t] /\ Pointing(l, Len(cart)) /\ l.pc = "repoint"
  BY TapIs DEF Repoint
<1>2. PICK c \in Carts : c = cart /\ Len(c) \in Nat
  BY CartFields DEF CartInv
<1>3. l.row \in DOMAIN c /\ l.count \in Nat \ {0} /\ l.sku \in Wares
  BY <1>1, <1>2, CartFields, TapFields DEF Pointing
<1>4. PICK d : d = SkuSet(c, l.row, l.sku, l.count)
  OBVIOUS
<1>5. cart' = d \/ cart' = c
  BY <1>1, <1>2, <1>4 DEF Repoint, SkuSet
<1>6. d \in Carts /\ Len(d) = Len(c)
  BY <1>3, <1>4, SkuWritten
<1> QED BY <1>2, <1>5, <1>6

LEMMA RemoveWrites ==
    ASSUME CartInv, NEW I PROVE Removing(I) \in Carts /\ Len(Removing(I)) = Len(cart)
BY RowsRemoved DEF CartInv

LEMMA CartStepKeeps == ASSUME CartInv, [CartNext]_cartVars PROVE CartInv'
<1>1. CASE UNCHANGED cartVars
  BY <1>1 DEF cartVars, CartInv
<1>2. CASE CartNext
  <2>0. PICK t \in Taps :
           \/ \E s \in Wares, n \in 1..MaxAsked :
                 \/ ReadForAdd(t, s, n)
                 \/ \E i \in Rows : ReadForReset(t, i, s, n)
           \/ \E i \in Rows, n \in 1..MaxAsked : ReadForCount(t, i, n)
           \/ AddCart(t) \/ UpdateCartCount(t) \/ FindExisting(t) \/ Repoint(t) \/ Merge(t)
           \/ RemoveMerged(t) \/ DeleteCart(t) \/ StockRefuses(t) \/ StatementFails(t) \/ TapDies(t)
    BY <1>2 DEF CartNext
  <2>1. CASE \E s \in Wares, n \in 1..MaxAsked :
                \/ ReadForAdd(t, s, n)
                \/ \E i \in Rows : ReadForReset(t, i, s, n)
    BY <2>1, ReadForAddKeeps, ReadForResetKeeps
  <2>2. CASE \E i \in Rows, n \in 1..MaxAsked : ReadForCount(t, i, n)
    BY <2>2, ReadForCountKeeps
  <2>3. CASE AddCart(t)
    BY <2>3, AddCartWrites, DoneKeeps DEF AddCart
  <2>4. CASE UpdateCartCount(t)
    BY <2>4, UpdateCountWrites, DoneKeeps DEF UpdateCartCount
  <2>5. CASE FindExisting(t)
    BY <2>5, FindExistingKeeps
  <2>6. CASE Repoint(t)
    BY <2>6, RepointWrites, DoneKeeps DEF Repoint
  <2>7. CASE Merge(t)
    BY <2>7, MergeKeeps
  <2>8. CASE RemoveMerged(t)
    <3>1. Done(t) /\ Meets(t) /\ cart' \in Carts /\ Len(cart') = Len(cart)
      BY <2>8, RemoveWrites DEF RemoveMerged
    <3>2. Len(cart) <= Len(cart')
      BY <3>1, CartFields
    <3> QED BY <3>1, <3>2, DoneKeeps
  <2>9. CASE DeleteCart(t)
    <3>1. Meets(t) /\ t \notin DOMAIN tap /\ tap' = tap /\ cart' \in Carts /\ Len(cart') = Len(cart)
      BY <2>9, RemoveWrites DEF DeleteCart
    <3>2. DOMAIN alone' \subseteq DOMAIN alone /\ DOMAIN alone' \cap DOMAIN tap' = {}
      BY <3>1 DEF Meets, Restrict
    <3> QED BY <3>1, <3>2 DEF CartInv
  <2>10. CASE cart' = cart /\ Done(t) /\ Spoils(t)
    <3>1. cart \in Carts /\ Len(cart) <= Len(cart)
      BY CartFields DEF CartInv
    <3> QED BY <2>10, <3>1, DoneKeeps
  <2>11. CASE StatementFails(t) /\ ~Done(t)
    <3>1. cart' = cart /\ Spoils(t) /\ cart \in Carts
      BY <2>11 DEF StatementFails, CartInv
    <3>2. DOMAIN alone' = DOMAIN alone \ {t} /\ \A u \in DOMAIN alone' : alone'[u] = alone[u]
      BY <3>1 DEF Spoils, Restrict
    <3>3. PICK l \in TapRow : l = tap[t] /\ Pointing(l, Len(cart)) /\ l.pc \in {"merge", "reset"}
      BY <2>11, TapIs DEF StatementFails
    <3>4. PICK pc \in {"remove", "repoint"} : Continues(t, [tap[t] EXCEPT !.pc = pc])
      BY <2>11 DEF StatementFails
    <3>5. PICK k : k = [l EXCEPT !.pc = pc]
      OBVIOUS
    <3>6. k \in TapRow /\ k.row = l.row /\ k.into = l.into /\ k.pc = pc
      BY <3>5, TapFields DEF TapRow
    <3>7. Pointing(k, Len(cart)) /\ Continues(t, k)
      BY <3>3, <3>4, <3>5, <3>6 DEF Pointing
    <3>8. cart' \in Carts /\ Len(cart') = Len(cart)
      BY <3>1
    <3>9. t \notin DOMAIN alone' /\ DOMAIN alone' \subseteq DOMAIN alone
      BY <3>2
    <3> QED BY <3>1, <3>2, <3>6, <3>7, <3>8, <3>9, GoesOnKeeps
  <2> QED BY <2>0, <2>1, <2>2, <2>3, <2>4, <2>5, <2>6, <2>7, <2>8, <2>9, <2>10, <2>11
          DEF StockRefuses, StatementFails, TapDies
<1> QED BY <1>1, <1>2

-----------------------------------------------------------------------------
(* A request that met nobody does what was asked, and makes no second row.  *)

AsAsked(d, a) == Held(d) = Asked(a) /\ (OneRowEach(a.rows) => OneRowEach(d))

LEMMA AskedIs ==
    ASSUME NEW a, NEW s \in Wares
    PROVE  Asked(a)[s] = Held(a.rows)[s]
                         - (IF a.off # 0 /\ a.rows[a.off].sku = s THEN a.rows[a.off].count ELSE 0)
                         + (IF a.sku = s THEN a.on ELSE 0)
BY DEF Asked

LEMMA AddAsAsked ==
    ASSUME CartInv, NEW t \in DOMAIN alone, AddCart(t), NEW a, a = alone[t] PROVE AsAsked(cart', a)
<1>1. PICK l \in TapRow : l = tap[t] /\ l.pc = "add" /\ Pointing(l, Len(cart)) /\ Follows(cart, a, l)
  BY TapIs DEF AddCart
<1>2. PICK c \in Carts : c = cart /\ c = a.rows
  BY <1>1 DEF Follows
<1>3. a.off = 0 /\ a.sku = l.sku /\ a.on = l.count /\ l.sku \in Wares /\ l.count \in Nat \ {0}
  BY <1>1, TapFields DEF Follows
<1>4. \A s \in Wares : Asked(a)[s] = Held(c)[s] + (IF l.sku = s THEN l.count ELSE 0)
  <2>1. ASSUME NEW s \in Wares PROVE Asked(a)[s] = Held(c)[s] + (IF l.sku = s THEN l.count ELSE 0)
    <3>1. PICK h \in Nat : h = Held(c)[s]
      BY HeldIsNat
    <3> QED BY <1>2, <1>3, <3>1, AskedIs
  <2> QED BY <2>1
<1>5. PICK d : d = cart'
  OBVIOUS
<1>6. CASE l.row = 0
  <2>1. PICK e : e = [live |-> TRUE, sku |-> l.sku, count |-> l.count]
    OBVIOUS
  <2>2. e \in CartRow /\ e.live /\ e.sku = l.sku /\ e.count = l.count
    BY <1>3, <2>1 DEF CartRow
  <2>0. e \in CartRow
    BY <2>2
  <2>3. d = Append(c, e)
    BY <1>1, <1>2, <1>5, <1>6, <2>1 DEF AddCart
  <2>4. d \in Carts /\ Len(d) = Len(c) + 1 /\ (\A i \in DOMAIN c : d[i] = c[i]) /\ d[Len(c) + 1] = e
    <3>1. d \in Carts /\ Len(d) = Len(c) + 1
      BY <2>0, <2>3, RowAppended
    <3>2. d[Len(c) + 1] = e
      BY <2>0, <2>3, RowAppended
    <3>3. ASSUME NEW i \in DOMAIN c PROVE d[i] = c[i]
      BY <2>0, <2>3, RowAppended
    <3> QED BY <3>1, <3>2, <3>3
  <2>5. Held(d) = Asked(a)
    <3>1. ASSUME NEW s \in Wares PROVE Held(d)[s] = Asked(a)[s]
      <4>1. Held(d)[s] = Held(c)[s] + (IF e.live /\ e.sku = s THEN e.count ELSE 0)
        BY <2>0, <2>3, HeldAfterAppend, ZenonT(40)
      <4> QED BY <1>4, <2>2, <4>1
    <3> QED BY <3>1, HeldSame
  <2>6. \A i \in RowsIn(c) : c[i].sku # l.sku
    BY <1>1, <1>2, <1>6 DEF Follows
  <2>7. PICK n \in Nat : n = Len(c) + 1 /\ DOMAIN d = DOMAIN c \cup {n} /\ n \notin DOMAIN c
    <3>1. d \in Carts /\ Len(d) = Len(c) + 1
      BY <1>3, <2>4
    <3>2. Len(c) \in Nat /\ DOMAIN c = 1..Len(c) /\ DOMAIN d = 1..Len(d)
      BY <3>1, CartFields
    <3> QED BY <3>1, <3>2
  <2>8. (\A i \in DOMAIN c : d[i] = c[i]) /\ d[n] = e
    BY <1>3, <2>4, <2>7
  <2>9. OneRowEach(c) => OneRowEach(d)
    BY <2>2, <2>6, <2>7, <2>8 DEF OneRowEach, RowsIn
  <2> QED BY <1>2, <1>5, <2>5, <2>9 DEF AsAsked
<1>7. CASE l.row # 0
  <2>1. PICK r \in DOMAIN c : r = l.row /\ c[r].live /\ c[r].sku = l.sku /\ l.new = c[r].count + l.count
    BY <1>1, <1>2, <1>7 DEF Follows, RowsIn
  <2>2. PICK m \in Nat \ {0}, n \in Nat \ {0} : m = c[r].count /\ n = l.new
    BY <2>1, CartFields, TapFields
  <2>3. d = CountSet(c, r, n)
    BY <1>1, <1>2, <1>5, <1>7, <2>1, <2>2, WithCountIs, SMTT(20) DEF AddCart
  <2>4. /\ d \in Carts /\ OneWritten(c, d, r)
        /\ d[r].live = c[r].live /\ d[r].sku = c[r].sku /\ d[r].count = n
    BY <2>3, CountWritten
  <2>5. ASSUME NEW s \in Wares PROVE Held(d)[s] = Asked(a)[s]
    <3>1. Held(d)[s] = Held(c)[s] + (Amount(d, s, r) - Amount(c, s, r))
      BY <2>4, HeldAfterWrite
    <3>2. PICK h \in Nat : h = Held(c)[s]
      BY HeldIsNat
    <3>3. Amount(d, s, r) - Amount(c, s, r) = IF l.sku = s THEN l.count ELSE 0
      BY <1>3, <2>1, <2>2, <2>4 DEF Amount
    <3> QED BY <1>4, <3>1, <3>2, <3>3
  <2>6. OneRowEach(c) => OneRowEach(d)
    BY <2>4 DEF OneRowEach, RowsIn, OneWritten
  <2> QED BY <1>2, <1>5, <2>5, <2>6, HeldSame DEF AsAsked
<1> QED BY <1>6, <1>7

LEMMA CountAsAsked ==
    ASSUME CartInv, NEW t \in DOMAIN alone, UpdateCartCount(t), NEW a, a = alone[t] PROVE AsAsked(cart', a)
<1>1. PICK l \in TapRow : l = tap[t] /\ l.pc = "count" /\ Pointing(l, Len(cart)) /\ Follows(cart, a, l)
  BY TapIs DEF UpdateCartCount
<1>2. PICK c \in Carts : c = cart /\ c = a.rows
  BY <1>1 DEF Follows
<1>3. PICK r \in DOMAIN c : r = l.row /\ c[r].live /\ c[r].sku = l.sku
  BY <1>1, <1>2 DEF Follows, RowsIn, Pointing
<1>4. r # 0 /\ a.off = r /\ a.sku = l.sku /\ a.on = l.count
  BY <1>1, <1>3 DEF Follows, Pointing
<1>5. PICK m \in Nat \ {0}, n \in Nat \ {0} : m = c[r].count /\ n = l.count
  BY CartFields, TapFields
<1>6. PICK d : d = cart'
  OBVIOUS
<1>7. d = CountSet(c, r, n)
  BY <1>1, <1>2, <1>3, <1>5, <1>6, WithCountIs DEF UpdateCartCount
<1>8. /\ d \in Carts /\ OneWritten(c, d, r)
      /\ d[r].live = c[r].live /\ d[r].sku = c[r].sku /\ d[r].count = n
  BY <1>7, CountWritten
<1>9. ASSUME NEW s \in Wares PROVE Held(d)[s] = Asked(a)[s]
  <2>1. Held(d)[s] = Held(c)[s] + (Amount(d, s, r) - Amount(c, s, r))
    BY <1>8, HeldAfterWrite
  <2>2. PICK h \in Nat : h = Held(c)[s]
    BY HeldIsNat
  <2>3. Asked(a)[s] = h - (IF l.sku = s THEN m ELSE 0) + (IF l.sku = s THEN n ELSE 0)
    BY <1>2, <1>3, <1>4, <1>5, <2>2, AskedIs
  <2>4. /\ Amount(d, s, r) = IF l.sku = s THEN n ELSE 0
        /\ Amount(c, s, r) = IF l.sku = s THEN m ELSE 0
    BY <1>3, <1>5, <1>8 DEF Amount
  <2> QED BY <2>1, <2>2, <2>3, <2>4
<1>10. OneRowEach(c) => OneRowEach(d)
  BY <1>8 DEF OneRowEach, RowsIn, OneWritten
<1> QED BY <1>2, <1>6, <1>9, <1>10, HeldSame DEF AsAsked

LEMMA RepointAsAsked ==
    ASSUME CartInv, NEW t \in DOMAIN alone, Repoint(t), NEW a, a = alone[t] PROVE AsAsked(cart', a)
<1>1. PICK l \in TapRow : l = tap[t] /\ l.pc = "repoint" /\ Pointing(l, Len(cart)) /\ Follows(cart, a, l)
  BY TapIs DEF Repoint
<1>2. PICK c \in Carts : c = cart /\ c = a.rows
  BY <1>1 DEF Follows
<1>3. PICK r \in DOMAIN c : r = l.row /\ c[r].live /\ c[r].sku # l.sku
  BY <1>1, <1>2 DEF Follows, RowsIn, Pointing
<1>4. r # 0 /\ a.off = r /\ a.sku = l.sku /\ a.on = l.count
  BY <1>1, <1>3 DEF Follows, Pointing
<1>5. PICK m \in Nat \ {0}, n \in Nat \ {0}, w \in Wares : m = c[r].count /\ n = l.count /\ w = l.sku
  BY CartFields, TapFields
<1>6. PICK d : d = cart'
  OBVIOUS
<1>7. d = SkuSet(c, r, w, n)
  BY <1>1, <1>2, <1>3, <1>5, <1>6 DEF Repoint, SkuSet
<1>8. d \in Carts /\ OneWritten(c, d, r) /\ d[r].live /\ d[r].sku = w /\ d[r].count = n
  BY <1>3, <1>7, SkuWritten
<1>9. ASSUME NEW s \in Wares PROVE Held(d)[s] = Asked(a)[s]
  <2>1. Held(d)[s] = Held(c)[s] + (Amount(d, s, r) - Amount(c, s, r))
    BY <1>8, HeldAfterWrite
  <2>2. PICK h \in Nat : h = Held(c)[s]
    BY HeldIsNat
  <2>3. Asked(a)[s] = h - (IF c[r].sku = s THEN m ELSE 0) + (IF w = s THEN n ELSE 0)
    BY <1>2, <1>3, <1>4, <1>5, <2>2, AskedIs
  <2>4. /\ Amount(d, s, r) = IF w = s THEN n ELSE 0
        /\ Amount(c, s, r) = IF c[r].sku = s THEN m ELSE 0
    BY <1>3, <1>5, <1>8 DEF Amount
  <2> QED BY <2>1, <2>2, <2>3, <2>4
<1>10. \A i \in RowsIn(c) : c[i].sku # w
  BY <1>1, <1>2, <1>5 DEF Follows
<1>11. OneRowEach(c) => OneRowEach(d)
  BY <1>8, <1>10 DEF OneRowEach, RowsIn, OneWritten
<1> QED BY <1>2, <1>6, <1>9, <1>11, HeldSame DEF AsAsked

LEMMA MergeAsAsked ==
    ASSUME CartInv, NEW t \in DOMAIN alone, RemoveMerged(t), NEW a, a = alone[t] PROVE AsAsked(cart', a)
<1>1. PICK l \in TapRow : l = tap[t] /\ l.pc = "remove" /\ Pointing(l, Len(cart)) /\ Follows(cart, a, l)
  BY TapIs DEF RemoveMerged
<1>2. PICK b \in Carts : b = a.rows /\ cart = CountSet(b, l.into, l.new)
  BY <1>1 DEF Follows
<1>3. PICK r \in DOMAIN b : r = l.row /\ b[r].live /\ b[r].sku # l.sku
  BY <1>1, <1>2 DEF Follows, RowsIn, Pointing
<1>4. PICK i \in DOMAIN b : i = l.into /\ b[i].live /\ b[i].sku = l.sku
  BY <1>1, <1>2 DEF Follows, RowsIn
<1>5. i # r /\ r # 0 /\ a.off = r /\ a.sku = l.sku /\ a.on = l.count
  BY <1>1, <1>3, <1>4 DEF Follows, Pointing
<1>6. PICK m \in Nat \ {0}, k \in Nat \ {0}, n \in Nat \ {0} :
         m = b[r].count /\ k = b[i].count /\ n = l.count /\ l.new = k + n
  <2>1. b[r].count \in Nat \ {0} /\ b[i].count \in Nat \ {0} /\ l.count \in Nat \ {0}
    BY CartFields, TapFields
  <2>2. l.new = a.rows[l.into].count + l.count
    BY <1>1 DEF Follows
  <2> QED BY <1>2, <1>4, <2>1, <2>2
<1>7. PICK j \in Nat \ {0} : j = k + n
  OBVIOUS
<1>8. PICK c \in Carts : c = cart /\ c = CountSet(b, i, j)
  BY <1>2, <1>4, <1>6, <1>7 DEF CartInv
<1>9. OneWritten(b, c, i) /\ c[i].live = b[i].live /\ c[i].sku = b[i].sku /\ c[i].count = j
  BY <1>8, CountWritten
<1>10. PICK d : d = cart'
  OBVIOUS
<1>11. /\ d \in Carts /\ DOMAIN d = DOMAIN c /\ r \in DOMAIN c /\ c[r] = b[r] /\ ~d[r].live
       /\ \A x \in DOMAIN c \ {r} : d[x] = c[x]
  <2>1. d = Removing({r})
    BY <1>1, <1>3, <1>10 DEF RemoveMerged
  <2>2. r \in DOMAIN c /\ c[r] = b[r]
    BY <1>5, <1>9 DEF OneWritten
  <2> QED BY <1>8, <2>1, <2>2, RowsRemoved
<1>12. ASSUME NEW s \in Wares PROVE Held(d)[s] = Asked(a)[s]
  <2>1. Held(c)[s] = Held(b)[s] + (Amount(c, s, i) - Amount(b, s, i))
    BY <1>9, HeldAfterWrite
  <2>2. Held(d)[s] = Held(c)[s] + (Amount(d, s, r) - Amount(c, s, r))
    BY <1>11, HeldAfterWrite DEF OneWritten
  <2>3. PICK h \in Nat : h = Held(b)[s]
    BY HeldIsNat
  <2>4. Asked(a)[s] = h - (IF b[r].sku = s THEN m ELSE 0) + (IF l.sku = s THEN n ELSE 0)
    BY <1>2, <1>5, <1>6, <2>3, AskedIs
  <2>5. /\ Amount(c, s, i) = IF l.sku = s THEN j ELSE 0
        /\ Amount(b, s, i) = IF l.sku = s THEN k ELSE 0
    BY <1>4, <1>6, <1>9 DEF Amount
  <2>6. /\ Amount(d, s, r) = 0
        /\ Amount(c, s, r) = IF b[r].sku = s THEN m ELSE 0
    BY <1>3, <1>6, <1>11 DEF Amount
  <2> QED BY <1>7, <2>1, <2>2, <2>3, <2>4, <2>5, <2>6
<1>13. OneRowEach(b) => OneRowEach(d)
  <2>1. DOMAIN c = DOMAIN b /\ \A x \in DOMAIN b : c[x].live = b[x].live /\ c[x].sku = b[x].sku
    BY <1>9 DEF OneWritten
  <2>2. \A x \in RowsIn(d) : x \in RowsIn(b) /\ d[x].sku = b[x].sku
    BY <1>11, <2>1 DEF RowsIn
  <2> QED BY <2>2 DEF OneRowEach
<1> QED BY <1>2, <1>10, <1>12, <1>13, HeldSame DEF AsAsked

\* A request that ends without having met anybody has written last.
LEMMA EndsWithWrite ==
    ASSUME CartInv, CartNext, NEW t \in DOMAIN alone, t \in DOMAIN tap \ DOMAIN tap', t \in DOMAIN alone'
    PROVE  AddCart(t) \/ UpdateCartCount(t) \/ Repoint(t) \/ RemoveMerged(t)
<1>0. PICK u \in Taps :
         \/ \E s \in Wares, n \in 1..MaxAsked :
               \/ ReadForAdd(u, s, n)
               \/ \E i \in Rows : ReadForReset(u, i, s, n)
         \/ \E i \in Rows, n \in 1..MaxAsked : ReadForCount(u, i, n)
         \/ AddCart(u) \/ UpdateCartCount(u) \/ FindExisting(u) \/ Repoint(u) \/ Merge(u)
         \/ RemoveMerged(u) \/ DeleteCart(u) \/ StockRefuses(u) \/ StatementFails(u) \/ TapDies(u)
  BY DEF CartNext
<1>1. \A l : ~Continues(u, l)
  BY DEF Continues
<1>2. ASSUME NEW l, NEW off, Begin(u, l, off) PROVE FALSE
  BY <1>1, <1>2 DEF Begin
<1>3. Done(u) /\ ~Spoils(u) => t = u
  BY DEF Done, Restrict
<1>4. ~(Done(u) /\ Spoils(u))
  BY DEF Done, Spoils, Restrict
<1>5. tap' # tap
  OBVIOUS
<1>6. ~DeleteCart(u) /\ ~FindExisting(u) /\ ~Merge(u)
  BY <1>1, <1>5 DEF DeleteCart, FindExisting, Merge
<1>7. ~StockRefuses(u) /\ ~StatementFails(u) /\ ~TapDies(u)
  BY <1>1, <1>4 DEF StockRefuses, StatementFails, TapDies
<1>8. AddCart(u) \/ UpdateCartCount(u) \/ Repoint(u) \/ RemoveMerged(u)
  BY <1>0, <1>2, <1>6, <1>7 DEF ReadForAdd, ReadForReset, ReadForCount
<1>9. Done(u)
  BY <1>8 DEF AddCart, UpdateCartCount, Repoint, RemoveMerged
<1>10. t = u
  BY <1>3, <1>4, <1>9
<1> QED BY <1>8, <1>10

LEMMA StepIsAtomic ==
    ASSUME CartInv, [CartNext]_cartVars
    PROVE  [\A t \in DOMAIN alone :
              (t \in DOMAIN tap \ DOMAIN tap' /\ t \in DOMAIN alone')
                 => Held(cart') = Asked(alone[t])
                    /\ (OneRowEach(alone[t].rows) => OneRowEach(cart'))]_cartVars
<1>1. CASE UNCHANGED cartVars
  BY <1>1
<1>2. CASE CartNext
  <2>1. SUFFICES ASSUME NEW t \in DOMAIN alone, t \in DOMAIN tap \ DOMAIN tap', t \in DOMAIN alone'
                 PROVE  AsAsked(cart', alone[t])
    BY DEF AsAsked
  <2>2. AddCart(t) \/ UpdateCartCount(t) \/ Repoint(t) \/ RemoveMerged(t)
    BY <1>2, <2>1, EndsWithWrite
  <2> QED BY <2>2, AddAsAsked, CountAsAsked, RepointAsAsked, MergeAsAsked
<1> QED BY <1>1, <1>2

(* For any number of requests, SKUs and counts (cart.go:108): a request that *)
(* meets no other write does what it would do in a single step, in whichever *)
(* of the three ways it goes about it.                                      *)
THEOREM CartExplainedAlways == CartSpec => CartExplained
<1>1. CartInit => CartInv
  BY CartInitOK
<1>2. CartInv /\ [CartNext]_cartVars => CartInv'
  BY CartStepKeeps
<1>3. CartInv => CartTypeOK
  BY CartInvTyped
<1>4. CartInv /\ [CartNext]_cartVars =>
        [\A t \in DOMAIN alone :
              (t \in DOMAIN tap \ DOMAIN tap' /\ t \in DOMAIN alone')
                 => Held(cart') = Asked(alone[t])
                    /\ (OneRowEach(alone[t].rows) => OneRowEach(cart'))]_cartVars
  BY StepIsAtomic
<1> QED BY <1>1, <1>2, <1>3, <1>4, PTL DEF CartSpec, CartExplained, AloneIsAtomic
=============================================================================
