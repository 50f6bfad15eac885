--------------------------- MODULE AfterSaleProofs ---------------------------
(***************************************************************************)
(* Safety of AfterSale for any number of items, after-sales and requests.   *)
(* The invariants of the rows rest on what every request between two steps  *)
(* may rely on (Locals): above all that an agreed after-sale leaves "wait"  *)
(* only by its completion, and that the lock of the item keeps the one who  *)
(* completes it alone.                                                      *)
(***************************************************************************)
EXTENDS AfterSale, SumTheorems, TLAPS

USE DEF Completing

Live(a) == as[a].status \in Open \cup {"complete"}

Undecided == {"apply", "agree", "delivery"}
Decisions == {"agree", "delivery", "wait"} \cup Dropped

Rows == \A a \in AfterSales : as[a].status # "none" => as[a].item \in Items

Locals ==
    \A p \in Process :
       /\ local[p].pc = "create" => local[p].item \in Items
       /\ local[p].pc \in {"update", "createRefund", "casComplete"} \cup Completing
          => local[p].as \in AfterSales
       /\ local[p].pc = "update" => local[p].from \in Undecided /\ local[p].to \in Decisions
       /\ local[p].pc \in {"createRefund", "casComplete"}
          => as[local[p].as].status \in {"wait", "complete"}
       /\ local[p].pc \in {"casComplete"} \cup Completing => RefundConfirmed(local[p].as)
       /\ local[p].pc \in Completing => as[local[p].as].status = "wait"

Locks == \A p, q \in Process :
            /\ local[p].pc \in Completing /\ local[q].pc \in Completing
            /\ as[local[p].as].item = as[local[q].as].item
            => p = q

IInv == /\ TypeOK /\ Rows /\ Locals /\ Locks
        /\ OneActivePerItem /\ ItemFollowsAfterSale /\ RefundedIsAgreed /\ CompleteIsRefunded

-----------------------------------------------------------------------------
Rec == [status : AfterSaleStatus, item : Items \cup {NoItem},
        way : {"none", "refund", "return"}, price : 0..ItemPrice]
PCs == {"idle", "create", "update", "createRefund", "casComplete"} \cup Completing

LEMMA Statuses ==
    /\ Open \subseteq AfterSaleStatus /\ Dropped \subseteq AfterSaleStatus
    /\ Undecided \subseteq Open /\ Decisions \subseteq AfterSaleStatus
    /\ {"none", "complete"} \subseteq AfterSaleStatus
    /\ "none" \notin Open \cup {"complete"} \cup Dropped
    /\ "complete" \notin Open \cup Dropped
    /\ Open \cap Dropped = {}
    /\ "wait" \in Open /\ "apply" \in Open /\ "wait" \notin Undecided
BY DEF Open, Dropped, AfterSaleStatus, Undecided, Decisions

LEMMA IdleTyped == Idle \in LocalState /\ Idle.pc = "idle"
BY DEF Idle, LocalState, AfterSaleStatus, NoItem

LEMMA TypedFields ==
    ASSUME TypeOK
    PROVE  /\ item \in [Items -> {"none", "apply", "success"}]
           /\ as \in [AfterSales -> Rec]
           /\ \A a \in AfterSales : /\ as[a].status \in AfterSaleStatus /\ as[a].price \in 0..ItemPrice
                                    /\ as[a].item \in Items \cup {NoItem}
           /\ payRefund \in [AfterSales -> Pay!States] /\ amount \in [AfterSales -> Nat]
           /\ refunded \in Nat /\ faults \in 0..MaxFaults
           /\ order.status \in {"undelivered", "delivered", "canceled"} /\ order.refundPrice \in Nat
           /\ local \in [Process -> LocalState]
           /\ \A p \in Process : local[p].pc \in PCs /\ local[p].price \in Nat
BY DEF TypeOK, LocalState, PCs, Rec

LEMMA PricesNatural == \A n \in 0..ItemPrice : n \in Nat
BY AfterSaleAssumption

LEMMA SumsNatural == \A m, n \in Nat : m + n \in Nat
OBVIOUS

(* What a step of one process leaves of the others. *)
LEMMA GotoTyped ==
    ASSUME local \in [Process -> LocalState], NEW p \in Process, NEW l \in LocalState, Goto(p, l)
    PROVE  /\ local' \in [Process -> LocalState]
           /\ local'[p] = l
           /\ \A q \in Process : q # p => local'[q] = local[q]
BY DEF Goto

(* An after-sale whose status was written. *)
LEMMA StatusWritten ==
    ASSUME as \in [AfterSales -> Rec], NEW a \in AfterSales, NEW s \in AfterSaleStatus,
           as' = [as EXCEPT ![a].status = s]
    PROVE  /\ as' \in [AfterSales -> Rec]
           /\ as'[a].status = s /\ as'[a].item = as[a].item /\ as'[a].price = as[a].price
           /\ \A b \in AfterSales : b # a => as'[b] = as[b]
<1> DEFINE r == [as[a] EXCEPT !.status = s]
<1>1. r \in Rec /\ r.status = s /\ r.item = as[a].item /\ r.price = as[a].price
  <2>1. as[a] \in Rec
    OBVIOUS
  <2> QED BY ONLY <2>1, s \in AfterSaleStatus DEF Rec
<1>2. as' = [as EXCEPT ![a] = r]
  OBVIOUS
<1> HIDE DEF r
<1> QED BY <1>1, <1>2

-----------------------------------------------------------------------------
(* A step that writes neither the after-sales nor the pay side, and after    *)
(* which its process promises what Locals and Locks demand.                 *)
LEMMA QuietStep ==
    ASSUME IInv, NEW p \in Process, NEW l \in LocalState, Goto(p, l),
           UNCHANGED <<item, as, payRefund, amount, refunded>>,
           order' \in [status : {"undelivered", "delivered", "canceled"}, refundPrice : Nat],
           faults' \in 0..MaxFaults,
           l.pc = "create" => l.item \in Items,
           l.pc \in {"update", "createRefund", "casComplete"} \cup Completing => l.as \in AfterSales,
           l.pc = "update" => l.from \in Undecided /\ l.to \in Decisions,
           l.pc \in {"createRefund", "casComplete"} => as[l.as].status \in {"wait", "complete"},
           l.pc \in {"casComplete"} \cup Completing => RefundConfirmed(l.as),
           l.pc \in Completing => as[l.as].status = "wait" /\ ItemFree(as[l.as].item)
    PROVE  IInv'
<1>0. TypeOK /\ Rows /\ Locals /\ Locks
  BY DEF IInv
<1>1. /\ local' \in [Process -> LocalState] /\ local'[p] = l
      /\ \A q \in Process : q # p => local'[q] = local[q]
  BY <1>0, GotoTyped, TypedFields
<1>2. TypeOK'
  BY <1>0, <1>1 DEF TypeOK
<1>3. Rows'
  BY <1>0 DEF Rows
<1>4. OneActivePerItem' /\ RefundedIsAgreed' /\ CompleteIsRefunded'
  BY DEF IInv, OneActivePerItem, RefundedIsAgreed, CompleteIsRefunded
<1>5. ItemFollowsAfterSale'
  <2>1. ItemFollowsAfterSale
    BY DEF IInv
  <2> QED BY <2>1 DEF ItemFollowsAfterSale
<1>6. \A a \in AfterSales : RefundConfirmed(a)' <=> RefundConfirmed(a)
  BY DEF RefundConfirmed
<1>7. Locals'
  BY <1>0, <1>1, <1>6 DEF Locals
<1>8. Locks'
  <2>1. Locks /\ as' = as
    BY <1>0
  <2>2. ASSUME NEW q \in Process, q # p, local[q].pc \in Completing, l.pc \in Completing
        PROVE  as[local[q].as].item # as[l.as].item
    BY <2>2 DEF ItemFree
  <2> SUFFICES ASSUME NEW q \in Process, NEW r \in Process,
                      local'[q].pc \in Completing, local'[r].pc \in Completing,
                      as[local'[q].as].item = as[local'[r].as].item
               PROVE  q = r
    BY <2>1 DEF Locks
  <2>3. CASE q = p /\ r # p
    BY ONLY <1>1, <2>2, <2>3, r \in Process, local'[q].pc \in Completing,
            local'[r].pc \in Completing, as[local'[q].as].item = as[local'[r].as].item
  <2>4. CASE q # p /\ r = p
    BY ONLY <1>1, <2>2, <2>4, q \in Process, local'[q].pc \in Completing,
            local'[r].pc \in Completing, as[local'[q].as].item = as[local'[r].as].item
  <2>5. CASE q # p /\ r # p
    BY <1>1, <2>1, <2>5 DEF Locks
  <2> QED BY <2>3, <2>4, <2>5
<1> QED BY <1>2, <1>3, <1>4, <1>5, <1>7, <1>8 DEF IInv

(* Back to idle with nothing written. *)
LEMMA IdleStep ==
    ASSUME IInv, NEW p \in Process, Goto(p, Idle),
           UNCHANGED <<order, item, as, payRefund, amount, refunded>>, faults' \in 0..MaxFaults
    PROVE  IInv'
<1>1. order' \in [status : {"undelivered", "delivered", "canceled"}, refundPrice : Nat]
  BY DEF IInv, TypeOK
<1> QED BY <1>1, IdleTyped, QuietStep

-----------------------------------------------------------------------------
(* What a request holds after each of its reads. *)
LEMMA ApplyTyped ==
    ASSUME NEW i \in Items, NEW way \in {"refund", "return"}
    PROVE  LET l == [Idle EXCEPT !.pc = "create", !.item = i, !.way = way]
           IN  l \in LocalState /\ l.pc = "create" /\ l.item = i
<1>1. Idle \in LocalState
  BY IdleTyped
<1> QED BY ONLY <1>1, i \in Items, way \in {"refund", "return"} DEF LocalState

LEMMA RefundTyped ==
    ASSUME NEW a \in AfterSales, NEW pc \in PCs
    PROVE  LET l == [Idle EXCEPT !.pc = pc, !.as = a]
           IN  l \in LocalState /\ l.pc = pc /\ l.as = a
<1>1. Idle \in LocalState
  BY IdleTyped
<1> QED BY ONLY <1>1, a \in AfterSales, pc \in PCs DEF LocalState, PCs

LEMMA ReadTyped ==
    ASSUME NEW m \in LocalState, NEW price \in Nat
    PROVE  LET l == [m EXCEPT !.pc = "readItems", !.price = price]
           IN  l \in LocalState /\ l.pc = "readItems" /\ l.as = m.as /\ l.price = price
BY DEF LocalState

LEMMA CommitTyped ==
    ASSUME NEW m \in LocalState, NEW last \in BOOLEAN
    PROVE  LET l == [m EXCEPT !.pc = "commitComplete", !.last = last]
           IN  l \in LocalState /\ l.pc = "commitComplete" /\ l.as = m.as /\ l.price = m.price
BY DEF LocalState

LEMMA OrderTyped ==
    ASSUME TypeOK, order' = order
    PROVE  order' \in [status : {"undelivered", "delivered", "canceled"}, refundPrice : Nat]
BY DEF TypeOK

-----------------------------------------------------------------------------
(* One lemma per operation. *)
LEMMA ApplyReadStep ==
    ASSUME IInv, NEW p \in Process, NEW i \in Items, NEW way \in {"refund", "return"},
           ApplyRead(p, i, way)
    PROVE  IInv'
<1> DEFINE l == [Idle EXCEPT !.pc = "create", !.item = i, !.way = way]
<1>1. l \in LocalState /\ l.pc = "create" /\ l.item = i
  BY ApplyTyped
<1>2. Goto(p, l) /\ UNCHANGED <<order, item, as, payRefund, amount, refunded, faults>>
  BY DEF ApplyRead, PaySide
<1>3. TypeOK /\ faults \in 0..MaxFaults
  BY TypedFields DEF IInv
<1> HIDE DEF l
<1> QED BY <1>1, <1>2, <1>3, OrderTyped, QuietStep

LEMMA DecideStep ==
    ASSUME IInv, NEW p \in Process, NEW a \in AfterSales, NEW from, NEW to \in Decisions,
           from \subseteq Undecided, Decide(p, a, from, to)
    PROVE  IInv'
<1>0. TypeOK /\ faults \in 0..MaxFaults /\ as[a].status \in Undecided
  BY TypedFields DEF IInv, Decide
<1>1. PICK f \in AfterSaleStatus : f = as[a].status
  BY <1>0, Statuses
<1> DEFINE l == [Idle EXCEPT !.pc = "update", !.as = a, !.from = f, !.to = to]
<1>2. l \in LocalState /\ l.pc = "update" /\ l.as = a /\ l.from = f /\ l.to = to
  <2>1. to \in AfterSaleStatus
    BY Statuses
  <2>2. Idle \in LocalState
    BY IdleTyped
  <2> QED BY ONLY <2>1, <2>2, a \in AfterSales, f \in AfterSaleStatus DEF LocalState
<1>3. Goto(p, l) /\ UNCHANGED <<order, item, as, payRefund, amount, refunded, faults>>
  BY <1>1 DEF Decide, PaySide
<1> HIDE DEF l
<1> QED BY <1>0, <1>1, <1>2, <1>3, OrderTyped, QuietStep

LEMMA RefundReadStep ==
    ASSUME IInv, NEW p \in Process, NEW a \in AfterSales, RefundRead(p, a)
    PROVE  IInv'
<1> DEFINE l == [Idle EXCEPT !.pc = "createRefund", !.as = a]
<1>1. l \in LocalState /\ l.pc = "createRefund" /\ l.as = a
  BY RefundTyped DEF PCs
<1>2. Goto(p, l) /\ UNCHANGED <<order, item, as, payRefund, amount, refunded, faults>>
  BY DEF RefundRead, PaySide
<1>3. TypeOK /\ faults \in 0..MaxFaults /\ as[a].status = "wait"
  BY TypedFields DEF IInv, RefundRead
<1> HIDE DEF l
<1> QED BY <1>1, <1>2, <1>3, OrderTyped, QuietStep

LEMMA RefundedReadStep ==
    ASSUME IInv, NEW p \in Process, NEW a \in AfterSales, RefundedRead(p, a)
    PROVE  IInv'
<1> DEFINE l == [Idle EXCEPT !.pc = "casComplete", !.as = a]
<1>1. l \in LocalState /\ l.pc = "casComplete" /\ l.as = a
  BY RefundTyped DEF PCs
<1>2. Goto(p, l) /\ UNCHANGED <<order, item, as, payRefund, amount, refunded, faults>>
  BY DEF RefundedRead, PaySide
<1>3. TypeOK /\ faults \in 0..MaxFaults /\ as[a].status = "wait" /\ RefundConfirmed(a)
  BY TypedFields DEF IInv, RefundedRead
<1> HIDE DEF l
<1> QED BY <1>1, <1>2, <1>3, OrderTyped, QuietStep

LEMMA CasCompleteStep ==
    ASSUME IInv, NEW p \in Process, CasComplete(p)
    PROVE  IInv'
<1> DEFINE a == local[p].as
           l == [local[p] EXCEPT !.pc = "readItems", !.price = order.refundPrice]
<1>0. /\ TypeOK /\ faults \in 0..MaxFaults /\ local[p] \in LocalState /\ order.refundPrice \in Nat
      /\ a \in AfterSales /\ RefundConfirmed(a)
  BY TypedFields DEF IInv, CasComplete, Locals
<1>1. l \in LocalState /\ l.pc = "readItems" /\ l.as = a
  BY <1>0, ReadTyped
<1>2. UNCHANGED <<order, item, as, payRefund, amount, refunded, faults>> /\ ItemFree(as[a].item)
  BY DEF CasComplete, PaySide
<1>3. CASE StillWaiting(a)
  <2>1. Goto(p, l) /\ as[a].status = "wait"
    BY <1>3 DEF CasComplete, StillWaiting
  <2> HIDE DEF l, a
  <2> QED BY <1>0, <1>1, <1>2, <2>1, OrderTyped, QuietStep
<1>4. CASE ~StillWaiting(a)
  <2>1. Goto(p, Idle)
    BY <1>4 DEF CasComplete
  <2> QED BY <1>0, <1>2, <2>1, IdleStep
<1> QED BY <1>3, <1>4

\* A request that reads the items has locked its own already.
LEMMA ReadItemsStep ==
    ASSUME IInv, NEW p \in Process, ReadItems(p)
    PROVE  IInv'
<1> DEFINE a == local[p].as
           last == \A i \in Items \ {as[a].item} : item[i] = "success"
           l == [local[p] EXCEPT !.pc = "commitComplete", !.last = last]
<1>0. /\ TypeOK /\ Rows /\ Locals /\ Locks /\ OneActivePerItem /\ ItemFollowsAfterSale
      /\ RefundedIsAgreed /\ CompleteIsRefunded /\ local[p] \in LocalState
      /\ local[p].pc \in Completing /\ l.pc \in Completing
  BY TypedFields DEF IInv, ReadItems
<1>1. l \in LocalState /\ l.pc = "commitComplete" /\ l.as = a
  <2>1. last \in BOOLEAN
    OBVIOUS
  <2> HIDE DEF last
  <2> QED BY <1>0, <2>1, CommitTyped
<1>2. Goto(p, l) /\ UNCHANGED <<order, item, as, payRefund, amount, refunded, faults>>
  BY DEF ReadItems, PaySide
<1> HIDE DEF l
<1>3. local' \in [Process -> LocalState] /\ local'[p] = l /\ \A q \in Process : q # p => local'[q] = local[q]
  BY <1>0, <1>1, <1>2, GotoTyped, TypedFields
<1>4. \A q \in Process : /\ local'[q].pc \in Completing <=> local[q].pc \in Completing
                         /\ local'[q].as = local[q].as
                         /\ local[q].pc \notin Completing => local'[q] = local[q]
  BY <1>0, <1>1, <1>3
<1>5. TypeOK' /\ Rows'
  BY <1>0, <1>2, <1>3 DEF TypeOK, Rows
<1>6. Locals'
  <2>1. as' = as /\ \A b \in AfterSales : RefundConfirmed(b)' <=> RefundConfirmed(b)
    BY <1>2 DEF RefundConfirmed
  <2>2. Locals /\ "update" \notin Completing /\ "create" \notin Completing
    BY <1>0
  <2> QED BY ONLY <1>4, <2>1, <2>2 DEF Locals
<1>7. Locks'
  BY <1>0, <1>2, <1>4 DEF Locks
<1>8. OneActivePerItem' /\ RefundedIsAgreed' /\ CompleteIsRefunded'
  BY <1>0, <1>2 DEF OneActivePerItem, RefundedIsAgreed, CompleteIsRefunded
<1>9. ItemFollowsAfterSale'
  <2>1. ItemFollowsAfterSale /\ UNCHANGED <<item, as>>
    BY <1>0, <1>2
  <2> QED BY ONLY <2>1 DEF ItemFollowsAfterSale
<1> QED BY <1>0, <1>5, <1>6, <1>7, <1>8, <1>9 DEF IInv

LEMMA FailStep == ASSUME IInv, NEW p \in Process, Fail(p) PROVE IInv'
<1>1. Goto(p, Idle) /\ UNCHANGED <<order, item, as, payRefund, amount, refunded>>
  BY DEF Fail, PaySide
<1>2. faults' \in 0..MaxFaults
  BY TypedFields, AfterSaleAssumption DEF Fail, IInv
<1> QED BY <1>1, <1>2, IdleStep

-----------------------------------------------------------------------------
(* What the rows and the other requests keep when one after-sale a of item i *)
(* is written by a process that returns to idle.                            *)
OneWritten(p, a, i) ==
    /\ as' \in [AfterSales -> Rec] /\ as'[a].item = i
    /\ \A b \in AfterSales : b # a => as'[b] = as[b]
    /\ as[a].status = "none" \/ (as[a].item = i /\ as'[a].price = as[a].price)
    /\ local' \in [Process -> LocalState] /\ local'[p].pc = "idle"
    /\ \A q \in Process : q # p => local'[q] = local[q]
    /\ UNCHANGED <<payRefund, amount>>

LEMMA OthersKept ==
    ASSUME Rows, Locals, Locks, NEW p \in Process, NEW a \in AfterSales, NEW i \in Items,
           OneWritten(p, a, i),
           as[a].status \in {"wait", "complete"} => as'[a].status \in {"wait", "complete"},
           \A q \in Process : q # p /\ local[q].pc \in Completing => local[q].as # a
    PROVE  Rows' /\ Locals' /\ Locks'
<1>1. Rows'
  BY DEF Rows, OneWritten
<1>2. ASSUME NEW q \in Process, q # p
      PROVE  /\ local'[q] = local[q]
             /\ local[q].pc \in {"createRefund", "casComplete"} => as'[local[q].as].status \in {"wait", "complete"}
             /\ local[q].pc \in {"casComplete"} \cup Completing => RefundConfirmed(local[q].as)'
             /\ local[q].pc \in Completing => as'[local[q].as] = as[local[q].as]
  <2>1. local'[q] = local[q]
    BY <1>2 DEF OneWritten
  <2>2. CASE local[q].pc \in {"createRefund", "casComplete"} \cup Completing
    <3>1. PICK b \in AfterSales : b = local[q].as
      BY <2>2 DEF Locals
    <3>2. CASE b # a
      <4>1. as'[b] = as[b]
        BY <3>2 DEF OneWritten
      <4>2. RefundConfirmed(b) => RefundConfirmed(b)'
        BY <4>1 DEF RefundConfirmed, OneWritten
      <4> QED BY <2>1, <3>1, <4>1, <4>2 DEF Locals
    <3>3. CASE b = a
      <4>1. as[a].status \in {"wait", "complete"} /\ local[q].pc \notin Completing
        BY <1>2, <2>2, <3>1, <3>3 DEF Locals
      <4>2. RefundConfirmed(a) => RefundConfirmed(a)'
        BY <4>1 DEF RefundConfirmed, OneWritten
      <4> QED BY <2>1, <2>2, <3>1, <3>3, <4>1, <4>2 DEF Locals
    <3> QED BY <3>2, <3>3
  <2> QED BY <2>1, <2>2
<1>3. Locals'
  <2>1. ASSUME NEW q \in Process, q # p
        PROVE  /\ local'[q].pc = "create" => local'[q].item \in Items
               /\ local'[q].pc \in {"update", "createRefund", "casComplete"} \cup Completing
                  => local'[q].as \in AfterSales
               /\ local'[q].pc = "update" => local'[q].from \in Undecided /\ local'[q].to \in Decisions
               /\ local'[q].pc \in Completing => as'[local'[q].as].status = "wait"
    <3>1. /\ local[q].pc = "create" => local[q].item \in Items
          /\ local[q].pc \in {"update", "createRefund", "casComplete"} \cup Completing
             => local[q].as \in AfterSales
          /\ local[q].pc = "update" => local[q].from \in Undecided /\ local[q].to \in Decisions
          /\ local[q].pc \in Completing => as[local[q].as].status = "wait"
      BY DEF Locals
    <3> QED BY <1>2, <2>1, <3>1
  <2>2. local'[p].pc = "idle"
    BY DEF OneWritten
  <2> QED BY <1>2, <2>1, <2>2 DEF Locals
<1>4. Locks'
  <2>1. local'[p].pc = "idle"
    BY DEF OneWritten
  <2>2. ASSUME NEW q \in Process, NEW o \in Process,
               local'[q].pc \in Completing, local'[o].pc \in Completing,
               as'[local'[q].as].item = as'[local'[o].as].item
        PROVE  q = o
    <3>1. q # p /\ o # p
      BY <2>1, <2>2
    <3>2. /\ local[q].pc \in Completing /\ local[o].pc \in Completing
          /\ as[local[q].as].item = as[local[o].as].item
      BY <1>2, <2>2, <3>1
    <3> QED BY <3>2 DEF Locks
  <2> QED BY <2>2 DEF Locks
<1> QED BY <1>1, <1>3, <1>4

LEMMA OtherItems ==
    ASSUME ItemFollowsAfterSale, NEW p \in Process, NEW a \in AfterSales, NEW i \in Items,
           OneWritten(p, a, i), NEW j \in Items, j # i, item'[j] = item[j]
    PROVE  /\ item'[j] = "apply" <=> \E b \in AfterSales : as'[b].item = j /\ as'[b].status \in Open
           /\ item'[j] = "success" <=> \E b \in AfterSales : as'[b].item = j /\ as'[b].status = "complete"
<1>1. ASSUME NEW b \in AfterSales
      PROVE  /\ (as'[b].item = j /\ as'[b].status \in Open) <=> (as[b].item = j /\ as[b].status \in Open)
             /\ (as'[b].item = j /\ as'[b].status = "complete") <=> (as[b].item = j /\ as[b].status = "complete")
  <2>1. CASE b = a
    BY <2>1, Statuses DEF OneWritten
  <2>2. CASE b # a
    BY <2>2 DEF OneWritten
  <2> QED BY <2>1, <2>2
<1>2. /\ item[j] = "apply" <=> \E b \in AfterSales : as[b].item = j /\ as[b].status \in Open
      /\ item[j] = "success" <=> \E b \in AfterSales : as[b].item = j /\ as[b].status = "complete"
  BY DEF ItemFollowsAfterSale
<1> QED BY <1>1, <1>2

-----------------------------------------------------------------------------
(* The steps that write an after-sale: back to idle, one after-sale and its  *)
(* item changed.                                                            *)
LEMMA CreateStep == ASSUME IInv, NEW p \in Process, CreateAfterSale(p) PROVE IInv'
<1>0. /\ TypeOK /\ Rows /\ Locals /\ Locks /\ OneActivePerItem /\ ItemFollowsAfterSale
      /\ RefundedIsAgreed /\ CompleteIsRefunded
  BY DEF IInv
<1>1. PICK i \in Items : i = local[p].item
  BY <1>0 DEF Locals, CreateAfterSale
<1>2. Goto(p, Idle) /\ UNCHANGED <<order, payRefund, amount, refunded, faults>>
  BY DEF CreateAfterSale, PaySide
<1>3. CASE ~ItemUnclaimed(i)
  <2>1. UNCHANGED <<item, as>>
    BY <1>1, <1>3 DEF CreateAfterSale
  <2> QED BY <1>0, <1>2, <2>1, IdleStep, TypedFields
<1>4. CASE ItemUnclaimed(i)
  <2>1. PICK a \in AfterSales, price \in Asked, way \in {"none", "refund", "return"} :
           /\ NewAfterSale(a) /\ WithinItemPrice(price)
           /\ as' = [as EXCEPT ![a] = [status |-> "apply", item |-> i, way |-> way, price |-> price]]
    <3>1. local[p].way \in {"none", "refund", "return"}
      BY <1>0 DEF TypeOK, LocalState
    <3> QED BY <1>1, <1>4, <3>1, ZenonT(40) DEF CreateAfterSale
  <2>2. item' = [item EXCEPT ![i] = "apply"] /\ item[i] = "none"
    BY <1>1, <1>4 DEF CreateAfterSale, ItemUnclaimed
  <2>3. as[a].status = "none"
    BY <2>1 DEF NewAfterSale
  <2>4. /\ as' \in [AfterSales -> Rec]
        /\ as'[a].status = "apply" /\ as'[a].item = i
        /\ \A b \in AfterSales : b # a => as'[b] = as[b]
    <3> DEFINE r == [status |-> "apply", item |-> i, way |-> way, price |-> price]
    <3>1. r \in Rec /\ r.status = "apply" /\ r.item = i
      BY <2>1, Statuses DEF Rec, WithinItemPrice
    <3> HIDE DEF r
    <3> QED BY <1>0, <2>1, <3>1, TypedFields DEF r
  <2>5. /\ local' \in [Process -> LocalState] /\ local'[p].pc = "idle"
        /\ \A q \in Process : q # p => local'[q] = local[q]
    BY <1>0, <1>2, GotoTyped, IdleTyped, TypedFields
  <2>6. item' \in [Items -> {"none", "apply", "success"}] /\ item'[i] = "apply"
        /\ \A j \in Items : j # i => item'[j] = item[j]
    BY <1>0, <2>2, TypedFields
  <2>7. TypeOK'
    BY <1>0, <1>2, <2>4, <2>5, <2>6 DEF TypeOK, Rec
  <2>8. OneWritten(p, a, i)
    BY <1>2, <2>3, <2>4, <2>5 DEF OneWritten
  <2>9. Rows' /\ Locals' /\ Locks'
    <3>1. \A q \in Process : local[q].pc \in Completing => local[q].as # a
      BY <1>0, <2>3 DEF Locals
    <3> QED BY <1>0, <2>3, <2>8, <3>1, OthersKept
  <2>11. \A b \in AfterSales : as[b].item = i => as[b].status \notin Open \cup {"complete"}
    BY <1>0, <2>2 DEF ItemFollowsAfterSale
  <2>12. OneActivePerItem'
    BY <1>0, <2>4, <2>11 DEF OneActivePerItem
  <2>13. ItemFollowsAfterSale'
    <3>1. ASSUME NEW j \in Items, j # i
          PROVE  /\ item'[j] = "apply" <=> \E b \in AfterSales : as'[b].item = j /\ as'[b].status \in Open
                 /\ item'[j] = "success" <=> \E b \in AfterSales : as'[b].item = j /\ as'[b].status = "complete"
      BY <1>0, <2>6, <2>8, <3>1, OtherItems
    <3>2. \E b \in AfterSales : as'[b].item = i /\ as'[b].status \in Open
      BY <2>4, Statuses
    <3>3. \A b \in AfterSales : as'[b].item = i => as'[b].status # "complete"
      BY <2>4, <2>11
    <3> QED BY <2>6, <3>1, <3>2, <3>3 DEF ItemFollowsAfterSale
  <2>14. RefundedIsAgreed' /\ CompleteIsRefunded'
    BY <1>0, <1>2, <2>3, <2>4 DEF RefundedIsAgreed, CompleteIsRefunded
  <2> QED BY <2>7, <2>9, <2>12, <2>13, <2>14 DEF IInv
<1> QED BY <1>3, <1>4

LEMMA UpdateStep == ASSUME IInv, NEW p \in Process, UpdateAfterSale(p) PROVE IInv'
<1>0. /\ TypeOK /\ Rows /\ Locals /\ Locks /\ OneActivePerItem /\ ItemFollowsAfterSale
      /\ RefundedIsAgreed /\ CompleteIsRefunded
  BY DEF IInv
<1>1. PICK a \in AfterSales : a = local[p].as
  BY <1>0 DEF Locals, UpdateAfterSale
<1>2. Goto(p, Idle) /\ UNCHANGED <<order, payRefund, amount, refunded, faults>>
  BY DEF UpdateAfterSale, PaySide
<1>3. CASE ~SameStatus(p)
  <2>1. UNCHANGED <<item, as>>
    BY <1>3 DEF UpdateAfterSale
  <2> QED BY <1>0, <1>2, <2>1, IdleStep, TypedFields
<1>4. CASE SameStatus(p)
  <2>1. PICK to \in Decisions : to = local[p].to
    BY <1>0 DEF Locals, UpdateAfterSale
  <2>2. PICK i \in Items : i = as[a].item
    BY <1>0, <1>1, <1>4, Statuses DEF Rows, SameStatus, Locals, UpdateAfterSale
  <2>3. as[a].status \in Undecided /\ ItemFree(i)
    BY <1>0, <1>1, <1>4, <2>2 DEF SameStatus, Locals, UpdateAfterSale
  <2>4. /\ as' = [as EXCEPT ![a].status = to]
        /\ item' = IF to \in Dropped THEN [item EXCEPT ![i] = "none"] ELSE item
    BY <1>1, <1>4, <2>1, <2>2 DEF UpdateAfterSale
  <2>5. /\ as' \in [AfterSales -> Rec]
        /\ as'[a].status = to /\ as'[a].item = i
        /\ \A b \in AfterSales : b # a => as'[b] = as[b]
    BY <1>0, <2>2, <2>4, StatusWritten, Statuses, TypedFields
  <2>6. /\ local' \in [Process -> LocalState] /\ local'[p].pc = "idle"
        /\ \A q \in Process : q # p => local'[q] = local[q]
    BY <1>0, <1>2, GotoTyped, IdleTyped, TypedFields
  <2>7. item[i] = "apply"
    BY <1>0, <2>2, <2>3, Statuses DEF ItemFollowsAfterSale
  <2>8. /\ item' \in [Items -> {"none", "apply", "success"}]
        /\ item'[i] = IF to \in Dropped THEN "none" ELSE "apply"
        /\ \A j \in Items : j # i => item'[j] = item[j]
    BY <1>0, <2>4, <2>7, TypedFields
  <2>9. TypeOK'
    BY <1>0, <1>2, <2>5, <2>6, <2>8 DEF TypeOK, Rec
  <2>10. OneWritten(p, a, i)
    <3>1. as'[a].price = as[a].price
      BY <1>0, <2>4, StatusWritten, Statuses, TypedFields
    <3> QED BY <1>2, <2>2, <2>5, <2>6, <3>1 DEF OneWritten
  <2>11. Rows' /\ Locals' /\ Locks'
    <3>1. as[a].status \notin {"wait", "complete"}
      BY <2>3, Statuses
    <3>2. \A q \in Process : local[q].pc \in Completing => local[q].as # a
      BY <2>2, <2>3 DEF ItemFree
    <3> QED BY <1>0, <2>10, <3>1, <3>2, OthersKept
  <2>13. \A b \in AfterSales : b # a /\ as[b].item = i => as[b].status \notin Open \cup {"complete"}
    BY <1>0, <2>2, <2>3, Statuses DEF OneActivePerItem
  <2>14. OneActivePerItem'
    BY <1>0, <2>5, <2>13 DEF OneActivePerItem
  <2>15. ItemFollowsAfterSale'
    <3>1. ASSUME NEW j \in Items, j # i
          PROVE  /\ item'[j] = "apply" <=> \E b \in AfterSales : as'[b].item = j /\ as'[b].status \in Open
                 /\ item'[j] = "success" <=> \E b \in AfterSales : as'[b].item = j /\ as'[b].status = "complete"
      BY <1>0, <2>8, <2>10, <3>1, OtherItems
    <3>2. \A b \in AfterSales : as'[b].item = i => as'[b].status # "complete"
      BY <2>5, <2>13, Statuses DEF Decisions
    <3>3. CASE to \in Dropped
      <4>1. \A b \in AfterSales : as'[b].item = i => as'[b].status \notin Open
        BY <2>5, <2>13, <3>3, Statuses
      <4> QED BY <2>8, <3>1, <3>2, <3>3, <4>1 DEF ItemFollowsAfterSale
    <3>4. CASE to \notin Dropped
      <4>1. as'[a].item = i /\ as'[a].status \in Open
        BY <2>5, <3>4 DEF Decisions, Open
      <4> QED BY <2>8, <3>1, <3>2, <3>4, <4>1 DEF ItemFollowsAfterSale
    <3> QED BY <3>3, <3>4
  <2>16. RefundedIsAgreed' /\ CompleteIsRefunded'
    <3>1. as[a].status \notin {"wait", "complete"} /\ to # "complete"
      BY <2>3, Statuses DEF Decisions
    <3> QED BY <1>0, <1>2, <2>5, <3>1 DEF RefundedIsAgreed, CompleteIsRefunded
  <2> QED BY <2>9, <2>11, <2>14, <2>15, <2>16 DEF IInv
<1> QED BY <1>3, <1>4

LEMMA CommitStep == ASSUME IInv, NEW p \in Process, CommitComplete(p) PROVE IInv'
<1>0. /\ TypeOK /\ Rows /\ Locals /\ Locks /\ OneActivePerItem /\ ItemFollowsAfterSale
      /\ RefundedIsAgreed /\ CompleteIsRefunded
  BY DEF IInv
<1>1. PICK a \in AfterSales : a = local[p].as
  BY <1>0 DEF Locals, CommitComplete
<1>2. Goto(p, Idle) /\ UNCHANGED <<payRefund, amount, refunded, faults>>
  BY DEF CommitComplete, PaySide
<1>3. as[a].status = "wait" /\ RefundConfirmed(a)
  BY <1>0, <1>1 DEF Locals, CommitComplete
<1>4. PICK i \in Items : i = as[a].item
  BY <1>0, <1>3 DEF Rows
<1>5. /\ as' = [as EXCEPT ![a].status = "complete"]
      /\ item' = [item EXCEPT ![i] = "success"]
  BY <1>1, <1>4 DEF CommitComplete
<1>6. /\ as' \in [AfterSales -> Rec]
      /\ as'[a].status = "complete" /\ as'[a].item = i /\ as'[a].price = as[a].price
      /\ \A b \in AfterSales : b # a => as'[b] = as[b]
  BY <1>0, <1>4, <1>5, StatusWritten, Statuses, TypedFields
<1>7. /\ local' \in [Process -> LocalState] /\ local'[p].pc = "idle"
      /\ \A q \in Process : q # p => local'[q] = local[q]
  BY <1>0, <1>2, GotoTyped, IdleTyped, TypedFields
<1>8. /\ item' \in [Items -> {"none", "apply", "success"}] /\ item'[i] = "success"
      /\ \A j \in Items : j # i => item'[j] = item[j]
  BY <1>0, <1>5, TypedFields
<1>9. order' \in [status : {"undelivered", "delivered", "canceled"}, refundPrice : Nat]
  <2>1. order.status \in {"undelivered", "delivered", "canceled"} /\ local[p].price \in Nat
    BY <1>0, TypedFields
  <2>2. as[a].price \in Nat
    <3>1. as[a].price \in 0..ItemPrice
      BY <1>0, TypedFields
    <3> QED BY <3>1, PricesNatural
  <2>3. order' = [status |-> IF local[p].last THEN "canceled" ELSE order.status,
                  refundPrice |-> local[p].price + as[a].price]
    BY <1>1 DEF CommitComplete
  <2>4. local[p].price + as[a].price \in Nat
    BY <2>1, <2>2, SumsNatural
  <2> QED BY ONLY <2>1, <2>3, <2>4
<1>10. TypeOK'
  BY <1>0, <1>2, <1>6, <1>7, <1>8, <1>9 DEF TypeOK, Rec
<1>11. OneWritten(p, a, i)
  BY <1>2, <1>4, <1>6, <1>7 DEF OneWritten
<1>12. Rows' /\ Locals' /\ Locks'
  <2>1. local[p].pc \in Completing
    BY DEF CommitComplete
  <2>2. \A q \in Process : q # p /\ local[q].pc \in Completing => local[q].as # a
    BY <1>0, <1>1, <2>1 DEF Locks
  <2> QED BY <1>0, <1>6, <1>11, <2>2, OthersKept
<1>13. \A b \in AfterSales : b # a /\ as[b].item = i => as[b].status \notin Open \cup {"complete"}
  BY <1>0, <1>3, <1>4, Statuses DEF OneActivePerItem
<1>14. OneActivePerItem'
  BY <1>0, <1>6, <1>13 DEF OneActivePerItem
<1>15. ItemFollowsAfterSale'
  <2>1. ASSUME NEW j \in Items, j # i
        PROVE  /\ item'[j] = "apply" <=> \E b \in AfterSales : as'[b].item = j /\ as'[b].status \in Open
               /\ item'[j] = "success" <=> \E b \in AfterSales : as'[b].item = j /\ as'[b].status = "complete"
    BY <1>0, <1>8, <1>11, <2>1, OtherItems
  <2>2. \A b \in AfterSales : as'[b].item = i => as'[b].status \notin Open
    BY <1>6, <1>13, Statuses
  <2> QED BY <1>6, <1>8, <2>1, <2>2 DEF ItemFollowsAfterSale
<1>16. RefundedIsAgreed' /\ CompleteIsRefunded'
  BY <1>0, <1>2, <1>3, <1>6 DEF RefundedIsAgreed, CompleteIsRefunded, RefundConfirmed
<1> QED BY <1>10, <1>12, <1>14, <1>15, <1>16 DEF IInv

-----------------------------------------------------------------------------
(* The pay side changes one refund that has not succeeded yet.               *)
LEMMA PayWritten ==
    ASSUME IInv, NEW a \in AfterSales, payRefund[a] # "success",
           payRefund' \in [AfterSales -> Pay!States], amount' \in [AfterSales -> Nat], refunded' \in Nat,
           \A b \in AfterSales : b # a => payRefund'[b] = payRefund[b] /\ amount'[b] = amount[b],
           as[a].status \in {"wait", "complete"},
           UNCHANGED <<order, item, as, faults>>,
           local' \in [Process -> LocalState],
           \A q \in Process : local'[q] = local[q] \/ local'[q].pc = "idle"
    PROVE  IInv'
<1>0. /\ TypeOK /\ Rows /\ Locals /\ Locks /\ OneActivePerItem /\ ItemFollowsAfterSale
      /\ RefundedIsAgreed /\ CompleteIsRefunded
  BY DEF IInv
<1>1. TypeOK'
  BY <1>0 DEF TypeOK
<1>2. Rows' /\ OneActivePerItem'
  BY <1>0 DEF Rows, OneActivePerItem
<1>3. ItemFollowsAfterSale'
  <2>1. ItemFollowsAfterSale /\ item' = item /\ as' = as
    BY <1>0
  <2> QED BY ONLY <2>1 DEF ItemFollowsAfterSale
<1>4. RefundedIsAgreed' /\ CompleteIsRefunded'
  BY <1>0 DEF RefundedIsAgreed, CompleteIsRefunded
<1>5. ASSUME NEW b \in AfterSales, RefundConfirmed(b) PROVE RefundConfirmed(b)'
  BY <1>5 DEF RefundConfirmed
<1>6. Locals'
  BY <1>0, <1>5 DEF Locals
<1>7. Locks'
  BY <1>0 DEF Locks
<1> QED BY <1>1, <1>2, <1>3, <1>4, <1>6, <1>7 DEF IInv

LEMMA CreateRefundStep == ASSUME IInv, NEW p \in Process, CreateRefund(p) PROVE IInv'
<1>0. TypeOK /\ Locals
  BY DEF IInv
<1>1. PICK a \in AfterSales : a = local[p].as
  BY <1>0 DEF Locals, CreateRefund
<1>2. Goto(p, Idle) /\ UNCHANGED <<order, item, as, faults>>
  BY DEF CreateRefund
<1>3. CASE UNCHANGED PaySide
  <2>1. UNCHANGED <<payRefund, amount, refunded>>
    BY <1>3 DEF PaySide
  <2> QED BY <1>0, <1>2, <2>1, IdleStep, TypedFields
<1>4. CASE Pay!Reserve(a, as[a].price)
  <2>1. /\ payRefund[a] = "none" /\ as[a].price \in Nat
        /\ payRefund' = [payRefund EXCEPT ![a] = "waiting"]
        /\ amount' = [amount EXCEPT ![a] = as[a].price]
        /\ refunded' = refunded
    <3>1. /\ payRefund[a] = "none"
          /\ payRefund' = [payRefund EXCEPT ![a] = "waiting"]
          /\ amount' = [amount EXCEPT ![a] = as[a].price]
          /\ refunded' = refunded
      BY ONLY <1>4 DEF Pay!Reserve
    <3>2. as[a].price \in 0..ItemPrice
      BY <1>0, TypedFields
    <3>3. as[a].price \in Nat
      BY <3>2, PricesNatural
    <3> QED BY ONLY <3>1, <3>3
  <2>2. /\ payRefund' \in [AfterSales -> Pay!States] /\ amount' \in [AfterSales -> Nat] /\ refunded' \in Nat
        /\ \A b \in AfterSales : b # a => payRefund'[b] = payRefund[b] /\ amount'[b] = amount[b]
    BY <1>0, <2>1, TypedFields DEF Pay!States
  <2>3. as[a].status \in {"wait", "complete"}
    BY <1>0, <1>1 DEF Locals, CreateRefund
  <2>4. /\ local' \in [Process -> LocalState]
        /\ \A q \in Process : local'[q] = local[q] \/ local'[q].pc = "idle"
    BY <1>0, <1>2, GotoTyped, IdleTyped, TypedFields
  <2> QED BY <1>2, <2>1, <2>2, <2>3, <2>4, PayWritten
<1> QED BY <1>1, <1>3, <1>4 DEF CreateRefund

LEMMA SettleStep == ASSUME IInv, RefundSettles PROVE IInv'
<1>0. TypeOK /\ RefundedIsAgreed
  BY DEF IInv
<1>1. PICK a \in AfterSales : Pay!Settle(a) \/ Pay!Release(a)
  BY DEF RefundSettles
<1>2. UNCHANGED <<order, item, as, faults, local>>
  BY DEF RefundSettles
<1>3. /\ payRefund[a] = "waiting" /\ amount' = amount
      /\ \E s \in {"success", "failure"} : payRefund' = [payRefund EXCEPT ![a] = s]
      /\ refunded' \in Nat
  BY <1>0, <1>1, TypedFields DEF Pay!Settle, Pay!Release
<1>4. /\ payRefund' \in [AfterSales -> Pay!States] /\ amount' \in [AfterSales -> Nat]
      /\ \A b \in AfterSales : b # a => payRefund'[b] = payRefund[b] /\ amount'[b] = amount[b]
  BY <1>0, <1>3, TypedFields DEF Pay!States
<1>5. as[a].status \in {"wait", "complete"}
  BY <1>0, <1>3 DEF RefundedIsAgreed
<1>6. local' \in [Process -> LocalState] /\ \A q \in Process : local'[q] = local[q]
  BY <1>0, <1>2, TypedFields
<1> QED BY <1>2, <1>3, <1>4, <1>5, <1>6, PayWritten

LEMMA OrderStep == ASSUME IInv, OrderMovesOn PROVE IInv'
<1>1. UNCHANGED <<item, as, refunded, payRefund, amount, faults, local>>
  BY DEF OrderMovesOn, PaySide
<1>2. order' \in [status : {"undelivered", "delivered", "canceled"}, refundPrice : Nat]
  BY DEF IInv, TypeOK, OrderMovesOn
<1>3. TypeOK'
  BY <1>1, <1>2 DEF IInv, TypeOK
<1>4. Rows' /\ Locks' /\ OneActivePerItem' /\ RefundedIsAgreed' /\ CompleteIsRefunded'
  BY <1>1 DEF IInv, Rows, Locks, OneActivePerItem, RefundedIsAgreed, CompleteIsRefunded
<1>5. ItemFollowsAfterSale'
  BY <1>1 DEF IInv, ItemFollowsAfterSale
<1>6. Locals'
  BY <1>1 DEF IInv, Locals, RefundConfirmed
<1> QED BY <1>3, <1>4, <1>5, <1>6 DEF IInv

LEMMA StutterStep == ASSUME IInv, UNCHANGED vars PROVE IInv'
<1>1. UNCHANGED <<order, item, as, refunded, payRefund, amount, faults, local>>
  BY DEF vars
<1>2. TypeOK' /\ Rows' /\ Locks' /\ OneActivePerItem' /\ RefundedIsAgreed' /\ CompleteIsRefunded'
  BY <1>1 DEF IInv, TypeOK, Rows, Locks, OneActivePerItem, RefundedIsAgreed, CompleteIsRefunded
<1>3. ItemFollowsAfterSale'
  BY <1>1 DEF IInv, ItemFollowsAfterSale
<1>4. Locals'
  BY <1>1 DEF IInv, Locals, RefundConfirmed
<1> QED BY <1>2, <1>3, <1>4 DEF IInv

LEMMA InitInductive == Init => IInv
<1> SUFFICES ASSUME Init PROVE IInv
  OBVIOUS
<1>1. /\ payRefund = [a \in AfterSales |-> "none"] /\ amount = [a \in AfterSales |-> 0] /\ refunded = 0
  BY DEF Init, Pay!Init
<1>2. \A a \in AfterSales : as[a].status = "none" /\ as[a].item = NoItem
  BY DEF Init
<1>3. \A p \in Process : local[p].pc = "idle"
  BY IdleTyped DEF Init
<1>4. TypeOK
  <2>1. 0 \in 0..ItemPrice /\ 0 \in 0..MaxFaults
    BY AfterSaleAssumption
  <2>2. as \in [AfterSales -> [status : AfterSaleStatus, item : Items \cup {NoItem},
                               way : {"none", "refund", "return"}, price : 0..ItemPrice]]
    BY <2>1, Statuses DEF Init
  <2>3. local \in [Process -> LocalState]
    BY IdleTyped DEF Init
  <2> QED BY <1>1, <2>1, <2>2, <2>3 DEF Init, TypeOK, Pay!States
<1>5. Rows /\ OneActivePerItem /\ RefundedIsAgreed /\ CompleteIsRefunded
  BY <1>1, <1>2, Statuses DEF Rows, OneActivePerItem, RefundedIsAgreed, CompleteIsRefunded
<1>6. ItemFollowsAfterSale
  BY <1>2, Statuses DEF Init, ItemFollowsAfterSale
<1>7. Locals /\ Locks
  BY <1>3 DEF Locals, Locks
<1> QED BY <1>4, <1>5, <1>6, <1>7 DEF IInv

LEMMA ChangeStep == ASSUME IInv, NEW p \in Process, Change(p) PROVE IInv'
<1>1. CASE UpdateAfterSale(p)
  BY <1>1, UpdateStep
<1>2. ASSUME NEW a \in AfterSales,
             \/ CancelAfterSale(p, a) \/ AgreeAfterSale(p, a) \/ DisagreeAfterSale(p, a)
             \/ DeliveryAfterSale(p, a) \/ ReceiveAfterSale(p, a) \/ RefuseAfterSale(p, a)
      PROVE  IInv'
  <2>1. PICK from \in SUBSET Undecided, to \in Decisions : Decide(p, a, from, to)
    BY <1>2 DEF CancelAfterSale, AgreeAfterSale, DisagreeAfterSale, DeliveryAfterSale,
       ReceiveAfterSale, RefuseAfterSale, Cancelable, Undecided, Decisions, Dropped
  <2> QED BY <2>1, DecideStep
<1> QED BY <1>1, <1>2 DEF Change

LEMMA NextInductive == IInv /\ [Next]_vars => IInv'
<1> SUFFICES ASSUME IInv, [Next]_vars PROVE IInv'
  OBVIOUS
<1>1. Requests \subseteq Process
  BY DEF Process
<1>2. ASSUME NEW p \in Process, Apply(p) PROVE IInv'
  BY <1>2, ApplyReadStep, CreateStep DEF Apply
<1>3. ASSUME NEW p \in Process, RefundAfterSale(p) PROVE IInv'
  BY <1>3, RefundReadStep, CreateRefundStep DEF RefundAfterSale
<1>4. ASSUME NEW p \in Process, UpdateAfterSaleRefunded(p) PROVE IInv'
  BY <1>4, RefundedReadStep, CasCompleteStep, ReadItemsStep, CommitStep DEF UpdateAfterSaleRefunded
<1>5. CASE OrderMovesOn \/ RefundSettles \/ UNCHANGED vars
  BY <1>5, OrderStep, SettleStep, StutterStep
<1> QED BY <1>1, <1>2, <1>3, <1>4, <1>5, ChangeStep, FailStep DEF Next

(* Every reachable state satisfies the inductive invariant. *)
THEOREM Inductive == Spec => []IInv
<1> QED BY InitInductive, NextInductive, PTL DEF Spec

-----------------------------------------------------------------------------
(* Every row, refund and request keeps its type; no refund price exceeds     *)
(* what its item was paid with (after_sale.go:130).                         *)
THEOREM TypeCorrect == Spec => []TypeOK
<1>1. IInv => TypeOK
  BY DEF IInv
<1> QED BY <1>1, Inductive, PTL

(* However applications, decisions and completions overlap, an item is in    *)
(* one after-sale at a time and never refunded twice.                       *)
THEOREM OneActivePerItemAlways == Spec => []OneActivePerItem
<1>1. IInv => OneActivePerItem
  BY DEF IInv
<1> QED BY <1>1, Inductive, PTL

(* after_sale_status of an item and the status of its after-sales agree.     *)
THEOREM ItemFollowsAfterSaleAlways == Spec => []ItemFollowsAfterSale
<1>1. IInv => ItemFollowsAfterSale
  BY DEF IInv
<1> QED BY <1>1, Inductive, PTL

(* No cancelled, refused or still undecided after-sale has a pay refund.     *)
THEOREM RefundedIsAgreedAlways == Spec => []RefundedIsAgreed
<1>1. IInv => RefundedIsAgreed
  BY DEF IInv
<1> QED BY <1>1, Inductive, PTL

(* UpdateAfterSaleRefunded completes what has been refunded, and only that.  *)
THEOREM CompleteIsRefundedAlways == Spec => []CompleteIsRefunded
<1>1. IInv => CompleteIsRefunded
  BY DEF IInv
<1> QED BY <1>1, Inductive, PTL

(* Items and after-sales agree on who has claimed what (after_sale.go:       *)
(* CreateAfterSale, updateAfterSale).                                       *)
THEOREM ItemsSettledAlways == Spec => []ItemsSettled
BY TypeCorrect, OneActivePerItemAlways, ItemFollowsAfterSaleAlways, PTL DEF ItemsSettled

(* Agreement, pay refund and completion follow each other (after_sale.go:    *)
(* RefundAfterSale, UpdateAfterSaleRefunded).                               *)
THEOREM RefundsAgreedAlways == Spec => []RefundsAgreed
BY RefundedIsAgreedAlways, CompleteIsRefundedAlways, PTL DEF RefundsAgreed

-----------------------------------------------------------------------------
AsWritten(a) == /\ as[a].status \notin Dropped \cup {"complete"}
                /\ \A b \in AfterSales : b # a => as'[b] = as[b]

(* Whoever writes an after-sale writes one that is new, undecided or waiting. *)
LEMMA WhoWrites ==
    ASSUME IInv, [Next]_vars
    PROVE  as' = as \/ \E a \in AfterSales : AsWritten(a)
<1>0. TypeOK /\ Locals
  BY DEF IInv
<1>1. as \in [AfterSales -> Rec]
  BY <1>0, TypedFields
<1>2. ASSUME NEW p \in Process, CreateAfterSale(p) PROVE as' = as \/ \E a \in AfterSales : AsWritten(a)
  <2>1. CASE \E a \in AfterSales : NewAfterSale(a) /\ \E r : as' = [as EXCEPT ![a] = r]
    <3>1. PICK a \in AfterSales : NewAfterSale(a) /\ \E r : as' = [as EXCEPT ![a] = r]
      BY <2>1
    <3>2. as[a].status = "none"
      BY <3>1 DEF NewAfterSale
    <3>3. \A b \in AfterSales : b # a => as'[b] = as[b]
      BY <1>1, <3>1
    <3> QED BY <3>2, <3>3, Statuses DEF AsWritten
  <2> QED BY <1>2, <2>1 DEF CreateAfterSale
<1>3. ASSUME NEW p \in Process, UpdateAfterSale(p) PROVE as' = as \/ \E a \in AfterSales : AsWritten(a)
  <2>1. PICK a \in AfterSales : a = local[p].as
    BY <1>0, <1>3 DEF Locals, UpdateAfterSale
  <2>2. local[p].from \in Undecided
    BY <1>0, <1>3 DEF Locals, UpdateAfterSale
  <2>3. CASE SameStatus(p)
    <3>1. as[a].status \in Undecided
      BY <2>1, <2>2, <2>3 DEF SameStatus
    <3>2. as' = [as EXCEPT ![a].status = local[p].to]
      BY <1>3, <2>1, <2>3 DEF UpdateAfterSale
    <3>3. \A b \in AfterSales : b # a => as'[b] = as[b]
      BY <1>1, <3>2
    <3> QED BY <3>1, <3>3, Statuses DEF AsWritten, Undecided, Dropped
  <2> QED BY <1>3, <2>3 DEF UpdateAfterSale
<1>4. ASSUME NEW p \in Process, CommitComplete(p) PROVE as' = as \/ \E a \in AfterSales : AsWritten(a)
  <2>1. PICK a \in AfterSales : a = local[p].as /\ as[a].status = "wait"
    BY <1>0, <1>4 DEF Locals, CommitComplete
  <2>2. as' = [as EXCEPT ![a].status = "complete"]
    BY <1>4, <2>1 DEF CommitComplete
  <2>3. \A b \in AfterSales : b # a => as'[b] = as[b]
    BY <1>1, <2>2
  <2> QED BY <2>1, <2>3, Statuses DEF AsWritten, Dropped
<1>5. CASE OrderMovesOn \/ RefundSettles \/ UNCHANGED vars
  BY <1>5 DEF OrderMovesOn, RefundSettles, vars
<1>6. ASSUME NEW p \in Process, Apply(p) PROVE as' = as \/ \E a \in AfterSales : AsWritten(a)
  BY <1>2, <1>6 DEF Apply, ApplyRead
<1>7. ASSUME NEW p \in Process, Change(p) PROVE as' = as \/ \E a \in AfterSales : AsWritten(a)
  BY <1>3, <1>7 DEF Change, CancelAfterSale, AgreeAfterSale, DisagreeAfterSale, DeliveryAfterSale,
                    ReceiveAfterSale, RefuseAfterSale, Decide
<1>8. ASSUME NEW p \in Process, RefundAfterSale(p) \/ Fail(p) PROVE as' = as
  BY <1>8 DEF RefundAfterSale, RefundRead, CreateRefund, Fail
<1>9. ASSUME NEW p \in Process, UpdateAfterSaleRefunded(p)
      PROVE as' = as \/ \E a \in AfterSales : AsWritten(a)
  BY <1>4, <1>9 DEF UpdateAfterSaleRefunded, RefundedRead, CasComplete, ReadItems
<1> QED BY <1>5, <1>6, <1>7, <1>8, <1>9 DEF Next, Process

(* A finished after-sale is never written again, whatever was read before it *)
(* was finished.                                                            *)
THEOREM FinalStaysAlways == Spec => FinalStays
<1>1. IInv /\ [Next]_vars
      => [\A a \in AfterSales : as[a].status \in Dropped \cup {"complete"} => as'[a] = as[a]]_vars
  BY WhoWrites DEF AsWritten
<1> QED BY <1>1, Inductive, PTL DEF Spec, FinalStays

-----------------------------------------------------------------------------
(* The sum.  What the order counts is at most the prices of the completed    *)
(* after-sales, even where two completions write over each other; and each   *)
(* of these was refunded.                                                   *)
CompletePrices == [a \in AfterSales |-> IF as[a].status = "complete" THEN as[a].price ELSE 0]
PaidAmounts == [a \in AfterSales |-> IF payRefund[a] = "success" THEN amount[a] ELSE 0]
CompletedSum == SumFunctionOnSet(CompletePrices, AfterSales)

Counted ==
    /\ order.refundPrice <= CompletedSum
    /\ \A p \in Process : local[p].pc \in Completing => local[p].price <= CompletedSum
    /\ refunded = SumFunctionOnSet(PaidAmounts, AfterSales)

LEMMA SumsTyped ==
    ASSUME TypeOK
    PROVE  /\ IsFiniteSet(AfterSales)
           /\ \A a \in AfterSales : CompletePrices[a] \in Nat /\ PaidAmounts[a] \in Nat
           /\ CompletedSum \in Nat /\ SumFunctionOnSet(PaidAmounts, AfterSales) \in Nat
<1>1. IsFiniteSet(AfterSales)
  BY AfterSaleAssumption, FS_Interval DEF AfterSales
<1>2. \A a \in AfterSales : as[a].price \in Nat /\ amount[a] \in Nat
  BY TypedFields, PricesNatural
<1>3. \A a \in AfterSales : CompletePrices[a] \in Nat /\ PaidAmounts[a] \in Nat
  BY <1>2 DEF CompletePrices, PaidAmounts
<1> QED BY <1>1, <1>3, SumIsNat DEF CompletedSum

(* A step that completes nothing and pays nothing.                           *)
LEMMA NothingCounted ==
    ASSUME IInv, IInv', Counted, order'.refundPrice = order.refundPrice,
           CompletePrices' = CompletePrices, PaidAmounts' = PaidAmounts, refunded' = refunded,
           \A p \in Process : local'[p].pc \in Completing =>
              \/ local'[p].price = order.refundPrice
              \/ local[p].pc \in Completing /\ local'[p].price = local[p].price
    PROVE  Counted'
BY DEF Counted, CompletedSum

(* A request that goes on without completing anything.                       *)
LEMMA OthersAtCommit ==
    ASSUME IInv, NEW p \in Process, NEW l \in LocalState, Goto(p, l),
           l.pc \in Completing => l.price = order.refundPrice
    PROVE  \A q \in Process : local'[q].pc \in Completing =>
              \/ local'[q].price = order.refundPrice
              \/ local[q].pc \in Completing /\ local'[q].price = local[q].price
<1>1. /\ local'[p] = l /\ \A q \in Process : q # p => local'[q] = local[q]
  BY GotoTyped, TypedFields DEF IInv
<1> QED BY <1>1

LEMMA CommitCounted ==
    ASSUME IInv, IInv', Counted, NEW p \in Process, CommitComplete(p)
    PROVE  Counted'
<1>0. TypeOK /\ TypeOK' /\ Locals
  BY DEF IInv
<1>1. PICK a \in AfterSales : a = local[p].as /\ as[a].status = "wait" /\ local[p].pc \in Completing
  BY <1>0 DEF Locals, CommitComplete
<1>2. /\ as' = [as EXCEPT ![a].status = "complete"]
      /\ order'.refundPrice = local[p].price + as[a].price
      /\ UNCHANGED <<refunded, payRefund, amount>> /\ Goto(p, Idle)
  BY <1>1 DEF CommitComplete, PaySide
<1>3. /\ as'[a].status = "complete" /\ as'[a].price = as[a].price
      /\ \A b \in AfterSales : b # a => as'[b] = as[b]
  BY <1>0, <1>2, TypedFields, StatusWritten, Statuses
<1>4. /\ \A b \in AfterSales \ {a} : CompletePrices[b] = CompletePrices'[b]
      /\ CompletePrices[a] = 0 /\ CompletePrices'[a] = as[a].price
  BY <1>1, <1>3 DEF CompletePrices
<1>5. CompletedSum' = CompletedSum + as[a].price
  <2>1. PICK n \in Nat : n = as[a].price
    BY <1>0, TypedFields, PricesNatural
  <2>2. IsFiniteSet(AfterSales) /\ \A b \in AfterSales : CompletePrices[b] \in Nat
    BY <1>0, SumsTyped
  <2>3. CompletePrices[a] = 0 /\ CompletePrices'[a] = n
    BY <1>4, <2>1
  <2>4. SumFunctionOnSet(CompletePrices', AfterSales) = SumFunctionOnSet(CompletePrices, AfterSales) + n
    BY <1>4, <2>2, <2>3, SumGains
  <2> QED BY <2>1, <2>4 DEF CompletedSum
<1>6. as[a].price \in Nat /\ CompletedSum \in Nat /\ \A q \in Process : local[q].price \in Nat
  BY <1>0, TypedFields, PricesNatural, SumsTyped
<1>7. /\ local'[p] = Idle /\ Idle.pc = "idle"
      /\ \A q \in Process : q # p => local'[q] = local[q]
  BY <1>0, <1>2, GotoTyped, IdleTyped, TypedFields
<1>8. order'.refundPrice <= CompletedSum'
  <2>1. local[p].price <= CompletedSum /\ local[p].price \in Nat
    BY <1>1, <1>6 DEF Counted
  <2>2. \A m, n, k \in Nat : m <= n => m + k <= n + k
    OBVIOUS
  <2> QED BY <1>2, <1>5, <1>6, <2>1, <2>2
<1>9. \A q \in Process : local'[q].pc \in Completing => local'[q].price <= CompletedSum'
  <2> SUFFICES ASSUME NEW q \in Process, local'[q].pc \in Completing
               PROVE  local'[q].price <= CompletedSum'
    OBVIOUS
  <2>1. local'[q] = local[q]
    BY <1>7
  <2>2. local[q].price <= CompletedSum /\ local[q].price \in Nat
    BY <1>6, <2>1 DEF Counted
  <2>3. \A m, n, k \in Nat : m <= n => m <= n + k
    OBVIOUS
  <2> QED BY <1>5, <1>6, <2>1, <2>2, <2>3
<1>10. refunded' = SumFunctionOnSet(PaidAmounts', AfterSales)
  <2>1. PaidAmounts' = PaidAmounts
    BY <1>2 DEF PaidAmounts
  <2> QED BY <1>2, <2>1 DEF Counted
<1> QED BY <1>8, <1>9, <1>10 DEF Counted

(* The pay side: reserved or released, a refund adds nothing; settled, it    *)
(* adds its amount to the sum on either side.                               *)
LEMMA PayCounted ==
    ASSUME IInv, IInv', Counted, NEW a \in AfterSales,
           \/ Pay!Reserve(a, as[a].price) \/ Pay!Settle(a) \/ Pay!Release(a) \/ UNCHANGED PaySide,
           UNCHANGED as, order'.refundPrice = order.refundPrice,
           \A p \in Process : local'[p].pc \notin Completing \/ local'[p] = local[p]
    PROVE  Counted'
<1>0. TypeOK /\ TypeOK'
  BY DEF IInv
<1>1. CompletePrices' = CompletePrices
  BY DEF CompletePrices
<1>2. payRefund \in [AfterSales -> Pay!States] /\ amount \in [AfterSales -> Nat]
  BY <1>0, TypedFields
<1>3. ASSUME refunded' = refunded, \A b \in AfterSales : PaidAmounts'[b] = PaidAmounts[b]
      PROVE  Counted'
  <2>1. PaidAmounts' = PaidAmounts
    BY <1>3 DEF PaidAmounts
  <2> QED BY <1>1, <1>3, <2>1, NothingCounted
<1>4. CASE Pay!Reserve(a, as[a].price)
  <2>1. /\ payRefund[a] = "none" /\ payRefund' = [payRefund EXCEPT ![a] = "waiting"]
        /\ amount' = [amount EXCEPT ![a] = as[a].price] /\ refunded' = refunded
    BY <1>4 DEF Pay!Reserve
  <2> QED BY <1>2, <1>3, <2>1 DEF PaidAmounts
<1>5. CASE Pay!Release(a)
  <2>1. /\ payRefund[a] = "waiting" /\ payRefund' = [payRefund EXCEPT ![a] = "failure"]
        /\ amount' = amount /\ refunded' = refunded
    BY <1>5 DEF Pay!Release
  <2> QED BY <1>2, <1>3, <2>1 DEF PaidAmounts
<1>6. CASE Pay!Settle(a)
  <2>1. /\ payRefund[a] = "waiting" /\ payRefund' = [payRefund EXCEPT ![a] = "success"]
        /\ amount' = amount /\ refunded' = refunded + amount[a]
    BY <1>6 DEF Pay!Settle
  <2>2. /\ PaidAmounts[a] = 0 /\ PaidAmounts'[a] = amount[a]
        /\ \A b \in AfterSales \ {a} : PaidAmounts[b] = PaidAmounts'[b]
    BY <1>2, <2>1 DEF PaidAmounts
  <2>3. /\ IsFiniteSet(AfterSales) /\ \A b \in AfterSales : PaidAmounts[b] \in Nat
        /\ amount[a] \in Nat
    BY <1>0, <1>2, SumsTyped
  <2>4. SumFunctionOnSet(PaidAmounts', AfterSales) = SumFunctionOnSet(PaidAmounts, AfterSales) + amount[a]
    BY <2>2, <2>3, SumGains
  <2>5. refunded' = SumFunctionOnSet(PaidAmounts', AfterSales)
    BY <2>1, <2>4 DEF Counted
  <2> QED BY <1>1, <2>5 DEF Counted, CompletedSum
<1>7. CASE UNCHANGED PaySide
  BY <1>3, <1>7 DEF PaySide, PaidAmounts
<1> QED BY <1>4, <1>5, <1>6, <1>7

LEMMA CountedKept ==
    ASSUME IInv, IInv', Counted, [Next]_vars
    PROVE  Counted'
<1>0. TypeOK /\ Locals /\ as \in [AfterSales -> Rec] /\ Requests \subseteq Process
  BY IdleTyped, TypedFields DEF IInv, Process
<1>1. ASSUME \A a \in AfterSales : as'[a] = as[a] \/ (as[a].status # "complete" /\ as'[a].status # "complete"),
             UNCHANGED PaySide, order'.refundPrice = order.refundPrice,
             \A p \in Process : local'[p].pc \in Completing =>
                \/ local'[p].price = order.refundPrice
                \/ local[p].pc \in Completing /\ local'[p].price = local[p].price
      PROVE  Counted'
  <2>1. \A a \in AfterSales : CompletePrices'[a] = CompletePrices[a]
    BY <1>1 DEF CompletePrices
  <2>2. CompletePrices' = CompletePrices /\ PaidAmounts' = PaidAmounts /\ refunded' = refunded
    BY <1>1, <2>1 DEF CompletePrices, PaidAmounts, PaySide
  <2> QED BY <1>1, <2>2, NothingCounted
<1>2. ASSUME NEW p \in Process, NEW l \in LocalState, Goto(p, l), l.pc \notin Completing,
             UNCHANGED <<order, as, PaySide>>
      PROVE  Counted'
  BY <1>0, <1>1, <1>2, OthersAtCommit
<1>3. CASE UNCHANGED vars
  <2>1. UNCHANGED <<order, as, PaySide, local>>
    BY <1>3 DEF vars, PaySide
  <2> QED BY <1>1, <2>1
<1>4. CASE OrderMovesOn
  <2>1. order'.refundPrice = order.refundPrice /\ UNCHANGED <<as, PaySide, local>>
    BY <1>0, <1>4 DEF OrderMovesOn, TypeOK
  <2> QED BY <1>1, <2>1
<1>5. CASE RefundSettles
  BY <1>5, PayCounted DEF RefundSettles
<1>6. ASSUME NEW p \in Process, Fail(p) PROVE Counted'
  BY <1>0, <1>2, <1>6, IdleTyped DEF Fail
<1>7. ASSUME NEW p \in Process, Apply(p) PROVE Counted'
  <2>1. ASSUME NEW i \in Items, NEW way \in {"refund", "return"}, ApplyRead(p, i, way) PROVE Counted'
    <3> DEFINE l == [Idle EXCEPT !.pc = "create", !.item = i, !.way = way]
    <3>1. l \in LocalState /\ l.pc = "create"
      BY IdleTyped DEF LocalState, Idle
    <3>2. Goto(p, l) /\ UNCHANGED <<order, as, PaySide>>
      BY <2>1 DEF ApplyRead
    <3> HIDE DEF l
    <3> QED BY <1>2, <3>1, <3>2
  <2>2. CASE CreateAfterSale(p)
    <3>1. /\ Goto(p, Idle) /\ UNCHANGED <<order, PaySide>>
          /\ \/ UNCHANGED as
             \/ \E a \in AfterSales, r \in Rec : as[a].status = "none" /\ r.status = "apply"
                                                 /\ as' = [as EXCEPT ![a] = r]
      <4>1. CASE UNCHANGED as
        BY <2>2, <4>1 DEF CreateAfterSale
      <4>2. CASE \E a \in AfterSales, price \in Asked :
                    /\ NewAfterSale(a) /\ WithinItemPrice(price)
                    /\ as' = [as EXCEPT ![a] = [status |-> "apply", item |-> local[p].item,
                                               way |-> local[p].way, price |-> price]]
        <5>1. PICK a \in AfterSales, price \in Asked :
                 /\ as[a].status = "none" /\ price \in 0..ItemPrice
                 /\ as' = [as EXCEPT ![a] = [status |-> "apply", item |-> local[p].item,
                                            way |-> local[p].way, price |-> price]]
          BY <4>2 DEF NewAfterSale, WithinItemPrice
        <5>2. local[p].item \in Items \cup {NoItem} /\ local[p].way \in {"none", "refund", "return"}
          BY <1>0 DEF TypeOK, LocalState
        <5> DEFINE r == [status |-> "apply", item |-> local[p].item, way |-> local[p].way, price |-> price]
        <5>3. r \in Rec /\ r.status = "apply"
          BY <5>1, <5>2, Statuses DEF Rec
        <5> HIDE DEF r
        <5>4. as' = [as EXCEPT ![a] = r]
          BY <5>1 DEF r
        <5> QED BY <2>2, <5>1, <5>3, <5>4 DEF CreateAfterSale
      <4> QED BY <2>2, <4>1, <4>2 DEF CreateAfterSale
    <3>2. \A a \in AfterSales : as'[a] = as[a] \/ (as[a].status # "complete" /\ as'[a].status # "complete")
      BY <1>0, <3>1
    <3> QED BY <1>0, <1>1, <3>1, <3>2, IdleTyped, OthersAtCommit
  <2> QED BY <1>7, <2>1, <2>2 DEF Apply
<1>8. ASSUME NEW p \in Process, Change(p) PROVE Counted'
  <2>1. CASE UpdateAfterSale(p)
    <3>1. local[p].as \in AfterSales /\ local[p].from \in Undecided /\ local[p].to \in Decisions
      BY <1>0, <2>1 DEF Locals, UpdateAfterSale
    <3>2. /\ Goto(p, Idle) /\ UNCHANGED <<order, PaySide>>
          /\ \/ UNCHANGED as
             \/ /\ as[local[p].as].status = local[p].from
                /\ as' = [as EXCEPT ![local[p].as].status = local[p].to]
      BY <2>1 DEF UpdateAfterSale, SameStatus
    <3>3. "complete" \notin Undecided /\ "complete" \notin Decisions /\ Decisions \subseteq AfterSaleStatus
      BY Statuses DEF Undecided, Decisions, Dropped
    <3>4. \A a \in AfterSales : as'[a] = as[a] \/ (as[a].status # "complete" /\ as'[a].status # "complete")
      <4>1. CASE UNCHANGED as
        BY <4>1
      <4>2. CASE /\ as[local[p].as].status = local[p].from
                 /\ as' = [as EXCEPT ![local[p].as].status = local[p].to]
        <5>1. /\ as'[local[p].as].status = local[p].to
              /\ \A b \in AfterSales : b # local[p].as => as'[b] = as[b]
          BY <1>0, <3>1, <3>3, <4>2, StatusWritten
        <5> QED BY <3>1, <3>3, <4>2, <5>1
      <4> QED BY <3>2, <4>1, <4>2
    <3> QED BY <1>0, <1>1, <3>2, <3>4, IdleTyped, OthersAtCommit
  <2>2. ASSUME NEW a \in AfterSales, NEW from, NEW to \in Decisions, from \subseteq Undecided,
               Decide(p, a, from, to)
        PROVE  Counted'
    <3> DEFINE l == [Idle EXCEPT !.pc = "update", !.as = a, !.from = as[a].status, !.to = to]
    <3>1. as[a].status \in AfterSaleStatus /\ to \in AfterSaleStatus
      BY <1>0, Statuses, TypedFields
    <3>2. l \in LocalState /\ l.pc = "update"
      BY <3>1, IdleTyped DEF LocalState, Idle
    <3>3. Goto(p, l) /\ UNCHANGED <<order, as, PaySide>>
      BY <2>2 DEF Decide
    <3> HIDE DEF l
    <3> QED BY <1>2, <3>2, <3>3
  <2>3. ASSUME NEW a \in AfterSales,
               \/ CancelAfterSale(p, a) \/ AgreeAfterSale(p, a) \/ DisagreeAfterSale(p, a)
               \/ DeliveryAfterSale(p, a) \/ ReceiveAfterSale(p, a) \/ RefuseAfterSale(p, a)
        PROVE  Counted'
    <3>1. PICK from \in SUBSET Undecided, to \in Decisions : Decide(p, a, from, to)
      BY <2>3 DEF CancelAfterSale, AgreeAfterSale, DisagreeAfterSale, DeliveryAfterSale,
         ReceiveAfterSale, RefuseAfterSale, Cancelable, Undecided, Decisions, Dropped
    <3> QED BY <2>2, <3>1
  <2> QED BY <1>8, <2>1, <2>3 DEF Change
<1>9. ASSUME NEW p \in Process, RefundAfterSale(p) PROVE Counted'
  <2>1. ASSUME NEW a \in AfterSales, RefundRead(p, a) PROVE Counted'
    <3> DEFINE l == [Idle EXCEPT !.pc = "createRefund", !.as = a]
    <3>1. l \in LocalState /\ l.pc = "createRefund"
      BY IdleTyped DEF LocalState, Idle
    <3>2. Goto(p, l) /\ UNCHANGED <<order, as, PaySide>>
      BY <2>1 DEF RefundRead
    <3> HIDE DEF l
    <3> QED BY <1>2, <3>1, <3>2
  <2>2. CASE CreateRefund(p)
    <3>1. local[p].as \in AfterSales
      BY <1>0, <2>2 DEF Locals, CreateRefund
    <3>2. \A q \in Process : local'[q].pc \notin Completing \/ local'[q] = local[q]
      <4>1. local'[p] = Idle /\ \A q \in Process : q # p => local'[q] = local[q]
        BY <1>0, <2>2, GotoTyped, IdleTyped, TypedFields DEF CreateRefund
      <4> QED BY <4>1, IdleTyped
    <3> QED BY <2>2, <3>1, <3>2, PayCounted DEF CreateRefund
  <2> QED BY <1>9, <2>1, <2>2 DEF RefundAfterSale
<1>10. ASSUME NEW p \in Process, UpdateAfterSaleRefunded(p) PROVE Counted'
  <2>1. ASSUME NEW a \in AfterSales, RefundedRead(p, a) PROVE Counted'
    <3> DEFINE l == [Idle EXCEPT !.pc = "casComplete", !.as = a]
    <3>1. l \in LocalState /\ l.pc = "casComplete"
      BY IdleTyped DEF LocalState, Idle
    <3>2. Goto(p, l) /\ UNCHANGED <<order, as, PaySide>>
      BY <2>1 DEF RefundedRead
    <3> HIDE DEF l
    <3> QED BY <1>2, <3>1, <3>2
  <2>2. CASE CasComplete(p)
    <3>1. UNCHANGED <<order, as, PaySide>>
      BY <2>2 DEF CasComplete
    <3>2. CASE Goto(p, Idle)
      BY <1>0, <1>2, <3>1, <3>2, IdleTyped
    <3>3. CASE ~Goto(p, Idle)
      <4> DEFINE l == [local[p] EXCEPT !.pc = "readItems", !.price = order.refundPrice]
      <4>1. l \in LocalState /\ l.price = order.refundPrice
        <5>1. local[p] \in LocalState /\ order.refundPrice \in Nat
          BY <1>0, TypedFields
        <5> QED BY <5>1, ReadTyped
      <4>2. Goto(p, l)
        BY <2>2, <3>3 DEF CasComplete
      <4> HIDE DEF l
      <4> QED BY <1>1, <3>1, <4>1, <4>2, OthersAtCommit
    <3> QED BY <3>2, <3>3
  <2>3. CASE ReadItems(p)
    <3> DEFINE last == \A i \in Items \ {as[local[p].as].item} : item[i] = "success"
               l == [local[p] EXCEPT !.pc = "commitComplete", !.last = last]
    <3>1. l \in LocalState /\ l.price = local[p].price
      <4>1. local[p] \in LocalState /\ last \in BOOLEAN
        BY <1>0, TypedFields
      <4> HIDE DEF last
      <4> QED BY <4>1, CommitTyped
    <3>2. Goto(p, l) /\ UNCHANGED <<order, as, PaySide>> /\ local[p].pc \in Completing
      BY <2>3 DEF ReadItems
    <3> HIDE DEF l
    <3>3. local'[p] = l /\ \A q \in Process : q # p => local'[q] = local[q]
      BY <1>0, <3>1, <3>2, GotoTyped, TypedFields
    <3> QED BY <1>1, <3>1, <3>2, <3>3
  <2> QED BY <1>10, <2>1, <2>2, <2>3, CommitCounted DEF UpdateAfterSaleRefunded
<1> QED BY <1>0, <1>3, <1>4, <1>5, <1>6, <1>7, <1>8, <1>9, <1>10 DEF Next

(* Each completed after-sale was refunded with its price, so that the order  *)
(* counts no more than the pay side refunded, for any number of after-sales, *)
(* repeated notifications and overlapping completions (order_update.go:1809). *)
THEOREM CountedIsRefundedAlways == Spec => []CountedIsRefunded
<1>1. Init => Counted
  <2> SUFFICES ASSUME Init PROVE Counted
    OBVIOUS
  <2>1. TypeOK
    BY InitInductive DEF IInv
  <2>2. order.refundPrice = 0 /\ refunded = 0 /\ \A a \in AfterSales : PaidAmounts[a] = 0
    BY DEF Init, Pay!Init, PaidAmounts
  <2>3. SumFunctionOnSet(PaidAmounts, AfterSales) = 0
    BY <2>1, <2>2, SumsTyped, SumOfZeros
  <2>4. \A p \in Process : local[p].pc = "idle"
    BY IdleTyped DEF Init
  <2>5. CompletedSum \in Nat
    BY <2>1, SumsTyped
  <2> QED BY <2>2, <2>3, <2>4, <2>5 DEF Counted
<1>2. IInv /\ IInv' /\ Counted /\ [Next]_vars => Counted'
  BY CountedKept
<1>3. IInv /\ Counted => CountedIsRefunded
  <2> SUFFICES ASSUME IInv, Counted PROVE CountedIsRefunded
    OBVIOUS
  <2>1. TypeOK /\ CompleteIsRefunded
    BY DEF IInv
  <2>2. \A a \in AfterSales : CompletePrices[a] <= PaidAmounts[a]
    <3> SUFFICES ASSUME NEW a \in AfterSales PROVE CompletePrices[a] <= PaidAmounts[a]
      OBVIOUS
    <3>1. PICK n \in Nat : n = as[a].price
      BY <2>1, TypedFields, PricesNatural
    <3>2. PICK m \in Nat : m = amount[a]
      BY <2>1, TypedFields
    <3>3. /\ CompletePrices[a] = IF as[a].status = "complete" THEN n ELSE 0
          /\ PaidAmounts[a] = IF payRefund[a] = "success" THEN m ELSE 0
      BY <3>1, <3>2 DEF CompletePrices, PaidAmounts
    <3>4. as[a].status = "complete" /\ n > 0 => payRefund[a] = "success" /\ m = n
      BY <2>1, <3>1, <3>2 DEF CompleteIsRefunded
    <3>5. PICK c, d \in Nat : c = CompletePrices[a] /\ d = PaidAmounts[a]
      BY <2>1, SumsTyped
    <3>6. c = 0 \/ (c = n /\ n > 0 /\ d = n)
      <4>1. CASE as[a].status # "complete"
        BY <3>3, <3>5, <4>1
      <4>2. CASE n = 0
        BY <3>3, <3>5, <4>2
      <4>3. CASE as[a].status = "complete" /\ n # 0
        <5>1. n > 0
          BY <4>3
        <5>2. c = n
          BY <3>3, <3>5, <4>3
        <5>3. d = n
          BY <3>3, <3>4, <3>5, <4>3, <5>1
        <5> QED BY <5>1, <5>2, <5>3
      <4> QED BY <4>1, <4>2, <4>3
    <3>7. c <= d
      BY <3>6
    <3> QED BY <3>5, <3>7
  <2>3. CompletedSum <= SumFunctionOnSet(PaidAmounts, AfterSales)
    <3>1. \A a \in AfterSales : CompletePrices[a] \in Int /\ PaidAmounts[a] \in Int
      BY <2>1, SumsTyped
    <3> HIDE DEF CompletePrices, PaidAmounts
    <3> QED BY <2>1, <2>2, <3>1, SumsTyped, SumAtMost DEF CompletedSum
  <2>4. CompletedSum \in Nat /\ refunded \in Nat /\ order.refundPrice \in Nat
    BY <2>1, SumsTyped, TypedFields
  <2> QED BY <2>3, <2>4 DEF Counted, CountedIsRefunded
<1> QED BY <1>1, <1>2, <1>3, Inductive, PTL DEF Spec
===============================================================================
