--------------------------- MODULE CheckoutProofs ---------------------------
(***************************************************************************)
(* What holds of Checkout for every number of orders, workers and goods:    *)
(* types, the accounts of stock and points, and the coupon's one order.     *)
(*                                                                         *)
(* Rows relates the fields of an order, Working says what a request knows   *)
(* of the order it works on, Locks that the locked rows belong to one       *)
(* request each and that what a creation took is there until it commits,    *)
(* Numbered that a cut-off cancellation is a new member of `torn'.  Settled *)
(* follows what an order has taken of its member's points and given back.   *)
(*                                                                         *)
(* Then PriceCalculation, which a creation runs first: CalculationInv says of *)
(* each line that its columns explain its price, and of each stage which    *)
(* columns are still empty and which hold what was granted.                 *)
(***************************************************************************)
EXTENDS Checkout, PriceCalculation, SumTheorems, SequenceTheorems, TLAPS

PCs == {"idle", "take", "cancel", "giveBack", "cancelPaid", "returnStock", "returnCoupon",
        "returnPoint", "refund", "commitPaid"}

Rows == \A o \in Orders :
    /\ ~Exists(o) => orders[o] = NewOrder
    /\ orders[o].status = "unpaid" => ~orders[o].paid /\ ~orders[o].cancelled
    /\ o \in refunds => orders[o].paid

PaidPcs == {"cancelPaid", "returnStock", "returnCoupon", "returnPoint", "refund", "commitPaid"}

Working ==
    /\ \A o \in Orders : /\ local[o].order = o /\ local[o].pc \in {"idle", "take"}
                         /\ ~local[o].held
                         /\ local[o].pc = "take" => ~Exists(o)
    /\ \A w \in Workers :
          /\ local[w].pc # "take"
          /\ local[w].pc = "giveBack" =>
                local[w].held /\ orders[local[w].order].status = "unpaid"
          /\ local[w].pc \in PaidPcs => orders[local[w].order].paid
          /\ local[w].pc = "commitPaid" => local[w].order \in refunds

Locks ==
    /\ \A v, w \in Workers :
          local[v].held /\ local[w].held /\ local[v].order = local[w].order => v = w
    /\ \A p \in Process : local[p].next <= Len(Basket[local[p].order]) + 1
    /\ \A p \in Process : local[p].pc \in {"idle", "cancel", "cancelPaid"} => local[p].next = 1
    /\ \A p, q \in Process : p # q => HeldSkus(p) \cap HeldSkus(q) = {}
    /\ \A o \in Orders : \A s \in HeldSkus(o) : stock[s] >= 1

Numbered == /\ IsFiniteSet(torn)
            /\ \A t \in torn : t[2] <= Cardinality(TornOf(t[1]))

Base == TypeOK /\ Rows /\ Working /\ Locks /\ Numbered /\ CancelledIsRefunded

IInv == Base /\ StockAccounted /\ CouponServesOneOrder

-----------------------------------------------------------------------------
(* What the operators on records and baskets return. *)

LEMMA BasketFacts ==
    ASSUME NEW o \in Orders
    PROVE  /\ Len(Basket[o]) \in Nat
           /\ \A i \in 1..Len(Basket[o]) : Basket[o][i] \in Skus
           /\ Goods(o) = {Basket[o][i] : i \in 1..Len(Basket[o])}
           /\ \A i, j \in 1..Len(Basket[o]) : Basket[o][i] = Basket[o][j] => i = j
<1>1. Basket[o] \in Seq(Skus)
  BY CheckoutAssumption
<1>2. Len(Basket[o]) \in Nat /\ DOMAIN Basket[o] = 1..Len(Basket[o])
  BY <1>1, LenProperties
<1>3. \A i \in 1..Len(Basket[o]) : Basket[o][i] \in Skus
  BY <1>1, ElementOfSeq
<1>4. \A i, j \in DOMAIN Basket[o] : Basket[o][i] = Basket[o][j] => i = j
  BY CheckoutAssumption
<1>5. Goods(o) = {Basket[o][i] : i \in 1..Len(Basket[o])}
  BY <1>2 DEF Goods
<1>6. \A i, j \in 1..Len(Basket[o]) : Basket[o][i] = Basket[o][j] => i = j
  BY <1>2, <1>4
<1> QED BY <1>2, <1>3, <1>5, <1>6

LEMMA GoodsAreSkus == ASSUME NEW o \in Orders PROVE Goods(o) \subseteq Skus
BY BasketFacts

LEMMA Fields ==
    ASSUME NEW l \in LocalState
    PROVE  /\ l.pc \in PCs /\ l.order \in Orders /\ l.next \in Nat \ {0}
           /\ l.point \in Nat /\ l.seen \in Status /\ l.held \in BOOLEAN
BY DEF LocalState, PCs

LEMMA IdleFields ==
    ASSUME NEW o \in Orders
    PROVE  /\ Idle(o) \in LocalState /\ Idle(o).pc = "idle" /\ Idle(o).order = o
           /\ Idle(o).next = 1 /\ Idle(o).held = FALSE
BY DEF LocalState, Idle, Status

LEMMA WithPc ==
    ASSUME NEW l \in LocalState, NEW pc \in PCs
    PROVE  LET m == [l EXCEPT !.pc = pc]
           IN  /\ m \in LocalState /\ m.pc = pc /\ m.order = l.order
               /\ m.next = l.next /\ m.held = l.held /\ m.point = l.point
BY DEF LocalState, PCs

LEMMA WithNext ==
    ASSUME NEW l \in LocalState
    PROVE  LET m == [l EXCEPT !.next = @ + 1]
           IN  /\ m \in LocalState /\ m.pc = l.pc /\ m.order = l.order
               /\ m.next = l.next + 1 /\ m.held = l.held
BY DEF LocalState

Rec == [status : Status, paid : BOOLEAN, cancelled : BOOLEAN, point : Nat]

LEMMA RowFields ==
    ASSUME NEW r \in Rec
    PROVE  /\ r.status \in Status /\ r.paid \in BOOLEAN /\ r.cancelled \in BOOLEAN /\ r.point \in Nat
BY DEF Rec

-----------------------------------------------------------------------------
(* The step of one request: where it goes, and that the others stay. *)
Moves(p, pc, order, next, held) ==
    /\ local' \in [Process -> LocalState]
    /\ local'[p].pc = pc /\ local'[p].order = order
    /\ local'[p].next = next /\ local'[p].held = held
    /\ \A q \in Process : q # p => local'[q] = local[q]

LEMMA Typed ==
    ASSUME TypeOK
    PROVE  /\ stock \in [Skus -> Nat] /\ points \in Nat
           /\ orders \in [Orders -> Rec]
           /\ refunds \subseteq Orders
           /\ torn \subseteq Orders \X Nat \X Stages
           /\ faults \in 0..MaxFaults
           /\ local \in [Process -> LocalState]
BY DEF TypeOK, Rec

LEMMA GotoMoves ==
    ASSUME TypeOK, NEW p \in Process, NEW l \in LocalState, Goto(p, l)
    PROVE  Moves(p, l.pc, l.order, l.next, l.held)
BY Typed DEF Goto, Moves

LEMMA EndMoves ==
    ASSUME TypeOK, NEW p \in Process, End(p)
    PROVE  Moves(p, "idle", local[p].order, 1, FALSE)
<1>1. local[p] \in LocalState
  BY Typed
<1> QED BY <1>1, Fields, IdleFields, GotoMoves DEF End

LEMMA AdvanceMoves ==
    ASSUME TypeOK, NEW p \in Process, NEW pc \in PCs, Advance(p, pc)
    PROVE  Moves(p, pc, local[p].order, local[p].next, local[p].held)
<1> DEFINE m == [local[p] EXCEPT !.pc = pc]
<1>1. local[p] \in LocalState
  BY Typed
<1>2. /\ m \in LocalState /\ m.pc = pc /\ m.order = local[p].order
      /\ m.next = local[p].next /\ m.held = local[p].held
  BY <1>1, WithPc
<1>3. Goto(p, m)
  BY DEF Advance
<1> HIDE DEF m
<1> QED BY <1>2, <1>3, GotoMoves

LEMMA Procs == /\ \A o \in Orders : o \in Process /\ o \notin Workers
               /\ \A w \in Workers : w \in Process /\ w \notin Orders
BY CheckoutAssumption DEF Process

-----------------------------------------------------------------------------
(* What each step does to the request that takes it. *)

LEMMA StartMoves ==
    ASSUME TypeOK, NEW p \in Process, NEW o \in Orders
    PROVE  /\ \A n \in Nat : Goto(p, [Idle(o) EXCEPT !.pc = "take", !.point = n])
                 => Moves(p, "take", o, 1, FALSE)
           /\ Goto(p, [Idle(o) EXCEPT !.pc = "cancel"]) => Moves(p, "cancel", o, 1, FALSE)
           /\ \A st \in Status : Goto(p, [Idle(o) EXCEPT !.pc = "cancelPaid", !.seen = st])
                 => Moves(p, "cancelPaid", o, 1, FALSE)
<1> DEFINE l == Idle(o)
<1>1. l \in LocalState /\ l.order = o /\ l.next = 1 /\ l.held = FALSE
  BY IdleFields
<1> HIDE DEF l
<1>2. ASSUME NEW n \in Nat, Goto(p, [l EXCEPT !.pc = "take", !.point = n])
      PROVE  Moves(p, "take", o, 1, FALSE)
  <2> DEFINE m == [l EXCEPT !.pc = "take", !.point = n]
  <2>1. "take" \in PCs
    BY DEF PCs
  <2>2. m \in LocalState /\ m.pc = "take" /\ m.order = o /\ m.next = 1 /\ m.held = FALSE
    BY <1>1 DEF LocalState
  <2>3. Goto(p, m)
    BY <1>2
  <2> HIDE DEF m
  <2> QED BY <2>2, <2>3, GotoMoves
<1>3. ASSUME Goto(p, [l EXCEPT !.pc = "cancel"])
      PROVE  Moves(p, "cancel", o, 1, FALSE)
  <2> DEFINE m == [l EXCEPT !.pc = "cancel"]
  <2>1. "cancel" \in PCs
    BY DEF PCs
  <2>2. m \in LocalState /\ m.pc = "cancel" /\ m.order = o /\ m.next = 1 /\ m.held = FALSE
    BY <1>1, <2>1, WithPc
  <2>3. Goto(p, m)
    BY <1>3
  <2> HIDE DEF m
  <2> QED BY <2>2, <2>3, GotoMoves
<1>4. ASSUME NEW st \in Status, Goto(p, [l EXCEPT !.pc = "cancelPaid", !.seen = st])
      PROVE  Moves(p, "cancelPaid", o, 1, FALSE)
  <2> DEFINE m == [l EXCEPT !.pc = "cancelPaid", !.seen = st]
  <2>1. "cancelPaid" \in PCs
    BY DEF PCs
  <2>2. m \in LocalState /\ m.pc = "cancelPaid" /\ m.order = o /\ m.next = 1 /\ m.held = FALSE
    BY <1>1 DEF LocalState
  <2>3. Goto(p, m)
    BY <1>4
  <2> HIDE DEF m
  <2> QED BY <2>2, <2>3, GotoMoves
<1> QED BY <1>2, <1>3, <1>4 DEF l

LEMMA NextMoves ==
    ASSUME TypeOK, NEW p \in Process, Goto(p, [local[p] EXCEPT !.next = @ + 1])
    PROVE  Moves(p, local[p].pc, local[p].order, local[p].next + 1, local[p].held)
<1> DEFINE m == [local[p] EXCEPT !.next = @ + 1]
<1>1. local[p] \in LocalState
  BY Typed
<1>2. /\ m \in LocalState /\ m.pc = local[p].pc /\ m.order = local[p].order
      /\ m.next = local[p].next + 1 /\ m.held = local[p].held
  BY <1>1, WithNext
<1>3. Goto(p, m)
  OBVIOUS
<1> HIDE DEF m
<1> QED BY <1>2, <1>3, GotoMoves

LEMMA HoldMoves ==
    ASSUME TypeOK, NEW p \in Process, NEW pc \in PCs, NEW held \in BOOLEAN,
           Goto(p, [local[p] EXCEPT !.pc = pc, !.held = held])
    PROVE  Moves(p, pc, local[p].order, local[p].next, held)
<1> DEFINE m == [local[p] EXCEPT !.pc = pc, !.held = held]
<1>1. local[p] \in LocalState
  BY Typed
<1>2. /\ m \in LocalState /\ m.pc = pc /\ m.order = local[p].order
      /\ m.next = local[p].next /\ m.held = held
  BY <1>1 DEF LocalState, PCs
<1>3. Goto(p, m)
  OBVIOUS
<1> HIDE DEF m
<1> QED BY <1>2, <1>3, GotoMoves

-----------------------------------------------------------------------------
(* The rows a request holds, before and after its step. *)
HeldAt(pc, order, next) == IF pc \in Stocking THEN {Basket[order][i] : i \in 1..(next - 1)} ELSE {}

LEMMA HeldMoves ==
    ASSUME NEW p \in Process, NEW pc, NEW order, NEW next, NEW held,
           Moves(p, pc, order, next, held)
    PROVE  /\ HeldSkus(p)' = HeldAt(pc, order, next)
           /\ \A q \in Process : q # p => HeldSkus(q)' = HeldSkus(q)
           /\ \A q \in Process : HeldSkus(q) = HeldAt(local[q].pc, local[q].order, local[q].next)
BY DEF Moves, HeldSkus, HeldAt

LEMMA HeldGrows ==
    ASSUME NEW order \in Orders, NEW next \in Nat \ {0}, NEW pc \in Stocking,
           next <= Len(Basket[order])
    PROVE  HeldAt(pc, order, next + 1) = HeldAt(pc, order, next) \cup {Basket[order][next]}
<1>1. 1..((next + 1) - 1) = (1..(next - 1)) \cup {next}
  OBVIOUS
<1> QED BY <1>1 DEF HeldAt

LEMMA HeldAll ==
    ASSUME NEW order \in Orders, NEW next \in Nat, NEW pc \in Stocking,
           next = Len(Basket[order]) + 1
    PROVE  HeldAt(pc, order, next) = Goods(order)
<1>1. Len(Basket[order]) \in Nat /\ Goods(order) = {Basket[order][i] : i \in 1..Len(Basket[order])}
  BY BasketFacts
<1>2. next - 1 = Len(Basket[order])
  BY <1>1
<1> QED BY <1>1, <1>2 DEF HeldAt

LEMMA HeldFirst == ASSUME NEW pc, NEW order PROVE HeldAt(pc, order, 1) = {}
<1>1. 1..(1 - 1) = {}
  OBVIOUS
<1> QED BY <1>1 DEF HeldAt

-----------------------------------------------------------------------------
(* Working and Locks after the step of p: what p must bring along, and what *)
(* must stay true for the requests that do not move.                        *)
Fits(p, pc, order, next, held) ==
    /\ p \in Orders => /\ order = p /\ pc \in {"idle", "take"} /\ held = FALSE
                       /\ pc = "take" => ~Exists(p)'
    /\ p \in Workers => /\ pc # "take"
                        /\ pc = "giveBack" => held /\ orders'[order].status = "unpaid"
                        /\ pc \in PaidPcs => orders'[order].paid
                        /\ pc = "commitPaid" => order \in refunds'
    /\ next <= Len(Basket[order]) + 1
    /\ pc \in {"idle", "cancel", "cancelPaid"} => next = 1
    /\ held => OrderFree(order) \/ (local[p].held /\ local[p].order = order)

HeldFits(p, pc, order, next) ==
    LET H == HeldAt(pc, order, next)
    IN  /\ \A q \in Process : q # p => H \cap HeldSkus(q) = {}
        /\ p \in Orders => \A s \in H : stock'[s] >= 1

OthersStay(p) ==
    /\ \A o \in Orders : o # p /\ local[o].pc = "take" => ~Exists(o)'
    /\ \A w \in Workers : w # p /\ local[w].pc = "giveBack" =>
          orders'[local[w].order].status = "unpaid"
    /\ \A o \in Orders : orders[o].paid => orders'[o].paid
    /\ refunds \subseteq refunds'
    /\ \A o \in Orders : o # p => \A s \in HeldSkus(o) : stock'[s] >= 1

LEMMA WorkingStep ==
    ASSUME TypeOK, Working, NEW p \in Process, NEW pc, NEW order, NEW next, NEW held,
           Moves(p, pc, order, next, held), Fits(p, pc, order, next, held), OthersStay(p)
    PROVE  Working'
<1>1. ASSUME NEW o \in Orders
      PROVE  /\ local'[o].order = o /\ local'[o].pc \in {"idle", "take"}
             /\ ~local'[o].held
             /\ local'[o].pc = "take" => ~Exists(o)'
  <2>1. CASE o = p
    BY <2>1 DEF Moves, Fits
  <2>2. CASE o # p
    <3>1. local'[o] = local[o]
      BY <2>2, Procs DEF Moves
    <3> QED BY <3>1, <2>2 DEF OthersStay, Working
  <2> QED BY <2>1, <2>2
<1>2. ASSUME NEW w \in Workers
      PROVE  /\ local'[w].pc # "take"
             /\ local'[w].pc = "giveBack" =>
                   local'[w].held /\ orders'[local'[w].order].status = "unpaid"
             /\ local'[w].pc \in PaidPcs => orders'[local'[w].order].paid
             /\ local'[w].pc = "commitPaid" => local'[w].order \in refunds'
  <2>1. CASE w = p
    BY <2>1 DEF Moves, Fits
  <2>2. CASE w # p
    <3>1. local'[w] = local[w]
      BY <2>2, Procs DEF Moves
    <3>2. local[w].order \in Orders
      BY Procs, Typed, Fields
    <3> QED BY <3>1, <3>2, <2>2 DEF OthersStay, Working
  <2> QED BY <2>1, <2>2
<1> QED BY <1>1, <1>2 DEF Working

LEMMA LocksStep ==
    ASSUME TypeOK, Locks, NEW p \in Process, NEW pc, NEW order, NEW next, NEW held,
           Working, Moves(p, pc, order, next, held), Fits(p, pc, order, next, held),
           HeldFits(p, pc, order, next), OthersStay(p)
    PROVE  Locks'
<1>1. ASSUME NEW v \in Workers, NEW w \in Workers,
             local'[v].held, local'[w].held, local'[v].order = local'[w].order
      PROVE  v = w
  <2>1. CASE v # p /\ w # p
    BY <1>1, <2>1, Procs DEF Moves, Locks
  <2>2. ASSUME NEW u \in Workers, u # p, p \in Workers, local'[u].held, local'[p].held,
               local'[u].order = local'[p].order
        PROVE  FALSE
    <3>1. local'[u] = local[u] /\ local'[p].order = order /\ local'[p].held = held
      BY <2>2, Procs DEF Moves
    <3>2. OrderFree(order) \/ (local[p].held /\ local[p].order = order)
      BY <2>2, <3>1 DEF Fits
    <3> QED BY <2>2, <3>1, <3>2 DEF OrderFree, Locks
  <2> QED BY <1>1, <2>1, <2>2
<1>2. ASSUME NEW q \in Process
      PROVE  /\ local'[q].next <= Len(Basket[local'[q].order]) + 1
             /\ local'[q].pc \in {"idle", "cancel", "cancelPaid"} => local'[q].next = 1
  <2>1. CASE q = p
    BY <2>1 DEF Moves, Fits
  <2>2. CASE q # p
    BY <2>2 DEF Moves, Locks
  <2> QED BY <2>1, <2>2
<1>3. /\ HeldSkus(p)' = HeldAt(pc, order, next)
      /\ \A q \in Process : q # p => HeldSkus(q)' = HeldSkus(q)
  BY HeldMoves
<1>4. ASSUME NEW q \in Process, NEW r \in Process, q # r
      PROVE  HeldSkus(q)' \cap HeldSkus(r)' = {}
  <2>1. CASE q # p /\ r # p
    BY <1>3, <1>4, <2>1 DEF Locks
  <2>2. CASE q = p
    BY <1>3, <1>4, <2>2 DEF HeldFits
  <2>3. CASE r = p
    BY <1>3, <1>4, <2>3 DEF HeldFits
  <2> QED BY <2>1, <2>2, <2>3
<1>5. ASSUME NEW o \in Orders, NEW s \in HeldSkus(o)'
      PROVE  stock'[s] >= 1
  <2>1. CASE o = p
    BY <1>3, <1>5, <2>1 DEF HeldFits
  <2>2. CASE o # p
    BY <1>3, <1>5, <2>2, Procs DEF OthersStay
  <2> QED BY <2>1, <2>2
<1> QED BY <1>1, <1>2, <1>4, <1>5 DEF Locks

-----------------------------------------------------------------------------
(* The sets of the account of the stock. *)

LEMMA FiniteSets ==
    ASSUME TypeOK, Numbered, NEW s
    PROVE  /\ IsFiniteSet(Keepers(s)) /\ IsFiniteSet(Returners(s)) /\ IsFiniteSet(TornWith(s))
           /\ Cardinality(Keepers(s)) \in Nat /\ Cardinality(Returners(s)) \in Nat
           /\ Cardinality(TornWith(s)) \in Nat
<1>1. Keepers(s) \subseteq Orders /\ Returners(s) \subseteq Workers /\ TornWith(s) \subseteq torn
  BY DEF Keepers, Returners, TornWith
<1>2. IsFiniteSet(Orders) /\ IsFiniteSet(Workers) /\ IsFiniteSet(torn)
  BY CheckoutAssumption DEF Numbered
<1>3. IsFiniteSet(Keepers(s)) /\ IsFiniteSet(Returners(s)) /\ IsFiniteSet(TornWith(s))
  BY <1>1, <1>2, FS_Subset
<1> QED BY <1>3, FS_CardinalityType

LEMMA TornFinite ==
    ASSUME Numbered, NEW o
    PROVE  IsFiniteSet(TornOf(o)) /\ Cardinality(TornOf(o)) \in Nat
<1>1. TornOf(o) \subseteq torn /\ IsFiniteSet(torn)
  BY DEF TornOf, Numbered
<1> QED BY <1>1, FS_Subset, FS_CardinalityType

LEMMA TornAdded ==
    ASSUME TypeOK, Numbered, NEW o \in Orders, NEW part \in Stages,
           torn' = torn \cup {<<o, Cardinality(TornOf(o)) + 1, part>>}
    PROVE  \E t : /\ t \notin torn /\ torn' = torn \cup {t}
                  /\ t[1] = o /\ t[3] = part /\ t \in Orders \X Nat \X Stages
                  /\ Numbered'
<1> DEFINE n == Cardinality(TornOf(o)) + 1
           t == <<o, n, part>>
<1>2. IsFiniteSet(TornOf(o)) /\ Cardinality(TornOf(o)) \in Nat
  BY TornFinite
<1>3. torn' = torn \cup {t}
  OBVIOUS
<1>4. t[1] = o /\ t[2] = n /\ t[3] = part /\ t \in Orders \X Nat \X Stages
  BY <1>2
<1>5. t \notin torn
  BY <1>2, <1>4 DEF Numbered
<1>6. TornOf(o)' = TornOf(o) \cup {t}
  <2> HIDE DEF t, n
  <2> QED BY <1>3, <1>4 DEF TornOf
<1>7. t \notin TornOf(o)
  BY <1>5 DEF TornOf
<1>8. Cardinality(TornOf(o) \cup {t}) = n
  BY <1>2, <1>7, FS_AddElement
<1>9. Numbered'
  <2>1. IsFiniteSet(torn')
    BY <1>3, FS_AddElement DEF Numbered
  <2>2. ASSUME NEW u \in torn' PROVE u[2] <= Cardinality(TornOf(u[1])')
    <3>1. CASE u[1] = o
      <4>1. Cardinality(TornOf(u[1])') = n
        <5>1. TornOf(u[1])' = TornOf(o)'
          BY <3>1 DEF TornOf
        <5> QED BY <5>1, <1>6, <1>8
      <4>2. u = t \/ u[2] <= Cardinality(TornOf(o))
        BY <2>2, <1>3, <3>1 DEF Numbered
      <4>3. CASE u = t
        BY <4>1, <4>3, <1>4, <1>2
      <4>4. CASE u # t
        <5>1. u \in torn
          BY <2>2, <1>3, <4>4
        <5>2. u[2] \in Nat
          BY <5>1, Typed
        <5> QED BY <4>1, <4>2, <4>4, <5>2, <1>2
      <4> QED BY <4>3, <4>4
    <3>2. CASE u[1] # o
      <4>1. TornOf(u[1])' = TornOf(u[1])
        <5> HIDE DEF t
        <5> QED BY <1>3, <1>4, <3>2 DEF TornOf
      <4>2. u \in torn
        BY <2>2, <1>3, <1>4, <3>2
      <4> QED BY <4>1, <4>2 DEF Numbered
    <3> QED BY <3>1, <3>2
  <2> QED BY <2>1, <2>2 DEF Numbered
<1> QED BY <1>3, <1>4, <1>5, <1>9

LEMMA TearAdds ==
    ASSUME TypeOK, Numbered, NEW w \in Process, NEW part \in Stages, Tear(w, part)
    PROVE  \E t : /\ t \notin torn /\ torn' = torn \cup {t}
                  /\ t[1] = local[w].order /\ t[3] = part /\ t \in Orders \X Nat \X Stages
                  /\ Numbered'
<1>1. local[w].order \in Orders
  BY Typed, Fields
<1> QED BY <1>1, TornAdded DEF Tear

ReturnPcs == {"returnCoupon", "returnPoint", "refund"}

\* The goods p has given back without a refund yet.
Owes(p, pc, order, s) == p \in Workers /\ pc \in ReturnPcs /\ s \in Goods(order)

LEMMA ReturnersMove ==
    ASSUME NEW p \in Process, NEW pc, NEW order, NEW next, NEW held,
           Moves(p, pc, order, next, held), NEW s
    PROVE  /\ \A w \in Workers : w # p => (w \in Returners(s)' <=> w \in Returners(s))
           /\ p \in Returners(s)' <=> Owes(p, pc, order, s)
           /\ p \in Returners(s) <=> Owes(p, local[p].pc, local[p].order, s)
BY Procs DEF Moves, Returners, Returning, Owes, ReturnPcs

LEMMA ReturnersSubset == \A s : Returners(s) \subseteq Workers /\ Returners(s)' \subseteq Workers
BY DEF Returners

LEMMA ReturnersSame ==
    ASSUME NEW p \in Process, NEW pc, NEW order, NEW next, NEW held,
           Moves(p, pc, order, next, held), NEW s,
           Owes(p, pc, order, s) <=> Owes(p, local[p].pc, local[p].order, s)
    PROVE  Returners(s)' = Returners(s)
BY ReturnersMove, ReturnersSubset

LEMMA EndReturners ==
    ASSUME TypeOK, NEW p \in Process, End(p), local[p].pc \notin ReturnPcs, NEW s
    PROVE  Returners(s)' = Returners(s)
<1>1. /\ local'[p].pc = "idle"
      /\ \A q \in Process : q # p => local'[q] = local[q]
  BY EndMoves DEF Moves
<1> QED BY <1>1, Procs DEF Returners, Returning, ReturnPcs

LEMMA KeepersSame ==
    ASSUME orders' = orders, refunds' = refunds, NEW s
    PROVE  Keepers(s)' = Keepers(s)
BY DEF Keepers, Keeps, Exists

LEMMA AccountSame ==
    ASSUME StockAccounted, stock' = stock,
           \A s \in Skus : /\ Keepers(s)' = Keepers(s) /\ Returners(s)' = Returners(s)
                           /\ TornWith(s)' = TornWith(s)
    PROVE  StockAccounted'
BY DEF StockAccounted

\* The order o counts on its coupon.
Counts(o) == /\ Keeps(o)
             /\ TornOf(o) = {}
             /\ \A w \in Workers : local[w].order = o => local[w].pc \notin {"returnPoint", "refund"}

LEMMA CouponStep ==
    ASSUME CouponServesOneOrder,
           \A o \in WithCoupon : Counts(o)' =>
               \/ Counts(o) /\ (UsesCoupon(o) => UsesCoupon(o)' \/ coupon'.status = "deleted")
                          /\ (coupon.status = "deleted" => coupon'.status = "deleted")
               \/ UsesCoupon(o)'
    PROVE  CouponServesOneOrder'
BY DEF CouponServesOneOrder, Counts

LEMMA CountsMove ==
    ASSUME NEW p \in Process, NEW pc, NEW order, NEW next, NEW held,
           Moves(p, pc, order, next, held), NEW o \in Orders,
           Counts(o)', Keeps(o)' => Keeps(o), torn \subseteq torn',
           p \in Workers => local[p].pc \notin {"returnPoint", "refund"} \/ local[p].order # o
    PROVE  Counts(o)
<1>1. TornOf(o) = {}
  BY DEF Counts, TornOf
<1>2. Keeps(o)
  BY DEF Counts
<1>3. ASSUME NEW w \in Workers, local[w].order = o
      PROVE  local[w].pc \notin {"returnPoint", "refund"}
  <2>1. CASE w = p
    BY <2>1, <1>3
  <2>2. CASE w # p
    <3>1. local'[w] = local[w]
      BY <2>2, Procs DEF Moves
    <3> QED BY <3>1, <1>3 DEF Counts
  <2> QED BY <2>1, <2>2
<1> QED BY <1>1, <1>2, <1>3 DEF Counts

-----------------------------------------------------------------------------
(* A step that only moves one request on, and gives nothing back. *)
LEMMA QuietStep ==
    ASSUME IInv, NEW p \in Process, NEW pc, NEW order, NEW next, NEW held,
           Moves(p, pc, order, next, held), Fits(p, pc, order, next, held),
           HeldFits(p, pc, order, next),
           pc \notin ReturnPcs, local[p].pc \notin ReturnPcs,
           faults' \in 0..MaxFaults,
           UNCHANGED <<stock, coupon, points, orders, refunds, torn>>
    PROVE  IInv'
<1>1. TypeOK'
  BY DEF IInv, Base, TypeOK, Moves
<1>2. OthersStay(p)
  BY DEF IInv, Base, OthersStay, Working, Locks, Exists
<1>3. Working' /\ Locks'
  BY <1>2, WorkingStep, LocksStep DEF IInv, Base
<1>4. Rows' /\ CancelledIsRefunded' /\ Numbered'
  BY DEF IInv, Base, Rows, Exists, CancelledIsRefunded, Numbered, TornOf
<1>5. StockAccounted'
  <2>1. ASSUME NEW s PROVE Keepers(s)' = Keepers(s) /\ TornWith(s)' = TornWith(s)
    BY KeepersSame DEF TornWith
  <2>2. ASSUME NEW s PROVE Returners(s)' = Returners(s)
    BY ReturnersSame DEF Owes
  <2> QED BY <2>1, <2>2, AccountSame DEF IInv
<1>6. CouponServesOneOrder'
  <2>1. ASSUME NEW o \in WithCoupon, Counts(o)'
        PROVE  Counts(o) /\ (UsesCoupon(o) => UsesCoupon(o)')
    <3>1. Keeps(o)' => Keeps(o)
      BY DEF Keeps, Exists
    <3>2. o \in Orders
      BY CheckoutAssumption
    <3>3. Counts(o)
      BY <2>1, <3>1, <3>2, CountsMove DEF ReturnPcs
    <3> QED BY <3>3 DEF UsesCoupon
  <2> QED BY <2>1, CouponStep DEF IInv
<1> QED BY <1>1, <1>3, <1>4, <1>5, <1>6 DEF IInv, Base

LEMMA HeldNothing ==
    ASSUME NEW p, NEW pc, NEW order, NEW next, next = 1 \/ pc \notin Stocking
    PROVE  HeldFits(p, pc, order, next)
<1>1. HeldAt(pc, order, next) = {}
  BY HeldFirst DEF HeldAt
<1> QED BY <1>1 DEF HeldFits

LEMMA HeldOneMore ==
    ASSUME IInv, NEW p \in Process, local[p].pc \in Stocking, ~AllTaken(p),
           SkuFree(NextSku(p)), stock' = stock,
           p \in Orders => stock[NextSku(p)] >= 1
    PROVE  /\ HeldFits(p, local[p].pc, local[p].order, local[p].next + 1)
           /\ local[p].next + 1 <= Len(Basket[local[p].order]) + 1
<1>1. local[p].order \in Orders /\ local[p].next \in Nat \ {0}
  BY Typed, Fields DEF IInv, Base
<1>2. Len(Basket[local[p].order]) \in Nat
  BY <1>1, BasketFacts
<1>3. local[p].next <= Len(Basket[local[p].order])
  BY <1>1, <1>2 DEF AllTaken
<1>4. HeldAt(local[p].pc, local[p].order, local[p].next + 1) = HeldSkus(p) \cup {NextSku(p)}
  BY <1>1, <1>3, HeldGrows DEF NextSku, HeldSkus, HeldAt
<1>5. \A q \in Process : q # p => (HeldSkus(p) \cup {NextSku(p)}) \cap HeldSkus(q) = {}
  BY DEF IInv, Base, Locks, SkuFree
<1>6. p \in Orders => \A s \in HeldSkus(p) \cup {NextSku(p)} : stock'[s] >= 1
  BY DEF IInv, Base, Locks
<1> QED BY <1>1, <1>2, <1>3, <1>4, <1>5, <1>6 DEF HeldFits

LEMMA BasketRoom == \A o \in Orders : 1 <= Len(Basket[o]) + 1
BY BasketFacts

LEMMA EndQuiet ==
    ASSUME IInv, NEW p \in Process, End(p), local[p].pc \notin ReturnPcs,
           faults' \in 0..MaxFaults,
           UNCHANGED <<stock, coupon, points, orders, refunds, torn>>
    PROVE  IInv'
<1>1. Moves(p, "idle", local[p].order, 1, FALSE)
  BY EndMoves DEF IInv, Base
<1>2. local[p].order \in Orders
  BY Typed, Fields DEF IInv, Base
<1>3. Fits(p, "idle", local[p].order, 1, FALSE)
  BY <1>2, BasketRoom DEF Fits, IInv, Base, Working, PaidPcs
<1>4. HeldFits(p, "idle", local[p].order, 1)
  BY HeldNothing
<1> QED BY <1>1, <1>3, <1>4, QuietStep DEF ReturnPcs

LEMMA FaultsStay == ASSUME IInv, UNCHANGED faults PROVE faults' \in 0..MaxFaults
BY DEF IInv, Base, TypeOK

LEMMA CalculatePriceStep ==
    ASSUME IInv, NEW o \in Orders, CalculatePrice(o)
    PROVE  IInv'
<1>1. /\ ~Exists(o) /\ local[o].pc = "idle" /\ o \in Process
      /\ UNCHANGED <<stock, coupon, points, orders, refunds, torn, faults>>
  BY Procs DEF CalculatePrice
<1>2. Moves(o, "take", o, 1, FALSE)
  <2>1. PICK n \in 0..points : Goto(o, [Idle(o) EXCEPT !.pc = "take", !.point = n])
    BY DEF CalculatePrice
  <2>2. n \in Nat
    OBVIOUS
  <2> QED BY <1>1, <2>1, <2>2, StartMoves DEF IInv, Base
<1>3. Fits(o, "take", o, 1, FALSE)
  BY <1>1, BasketRoom, Procs DEF Fits, Exists
<1>4. HeldFits(o, "take", o, 1)
  BY HeldNothing
<1> QED BY <1>1, <1>2, <1>3, <1>4, QuietStep, FaultsStay DEF ReturnPcs

LEMMA TakeSkuStep ==
    ASSUME IInv, NEW o \in Orders, TakeSku(o)
    PROVE  IInv'
<1>1. /\ local[o].pc = "take" /\ ~AllTaken(o) /\ SkuFree(NextSku(o)) /\ o \in Process
      /\ UNCHANGED <<stock, coupon, points, orders, refunds, torn, faults>>
  BY Procs DEF TakeSku
<1>2. faults' \in 0..MaxFaults
  BY <1>1, FaultsStay
<1>3. CASE Available(NextSku(o))
  <2>1. Moves(o, "take", local[o].order, local[o].next + 1, local[o].held)
    BY <1>1, <1>3, NextMoves DEF TakeSku, IInv, Base
  <2>2. /\ HeldFits(o, "take", local[o].order, local[o].next + 1)
        /\ local[o].next + 1 <= Len(Basket[local[o].order]) + 1
    BY <1>1, <1>3, HeldOneMore DEF Stocking, Available
  <2>3. Fits(o, "take", local[o].order, local[o].next + 1, local[o].held)
    BY <1>1, <2>2, Procs DEF Fits, IInv, Base, Working, Exists
  <2> QED BY <1>1, <1>2, <2>1, <2>2, <2>3, QuietStep DEF ReturnPcs
<1>4. CASE ~Available(NextSku(o))
  <2>1. End(o)
    BY <1>4 DEF TakeSku
  <2> QED BY <1>1, <1>2, <2>1, EndQuiet DEF ReturnPcs
<1> QED BY <1>3, <1>4

LEMMA CancelReadStep ==
    ASSUME IInv, NEW w \in Workers, NEW o \in Orders, CancelRead(w, o)
    PROVE  IInv'
<1>1. /\ local[w].pc = "idle" /\ w \in Process
      /\ UNCHANGED <<stock, coupon, points, orders, refunds, torn, faults>>
  BY Procs DEF CancelRead
<1>2. Moves(w, "cancel", o, 1, FALSE)
  BY <1>1, StartMoves DEF CancelRead, IInv, Base
<1>3. Fits(w, "cancel", o, 1, FALSE)
  BY <1>1, BasketRoom, Procs DEF Fits, PaidPcs
<1>4. HeldFits(w, "cancel", o, 1)
  BY HeldNothing
<1> QED BY <1>1, <1>2, <1>3, <1>4, QuietStep, FaultsStay DEF ReturnPcs

LEMMA CancelUpdateStep ==
    ASSUME IInv, NEW w \in Workers, CancelUpdate(w)
    PROVE  IInv'
<1>1. /\ local[w].pc = "cancel" /\ OrderFree(local[w].order) /\ w \in Process
      /\ UNCHANGED <<stock, coupon, points, orders, refunds, torn, faults>>
  BY Procs DEF CancelUpdate
<1>2. faults' \in 0..MaxFaults
  BY <1>1, FaultsStay
<1>3. CASE StillUnpaid(w)
  <2> DEFINE held == TRUE
  <2>6. held \in BOOLEAN /\ held
    OBVIOUS
  <2>7. Goto(w, [local[w] EXCEPT !.pc = "giveBack", !.held = held])
    BY <1>3 DEF CancelUpdate
  <2> HIDE DEF held
  <2>1. "giveBack" \in PCs
    BY DEF PCs
  <2>2. Moves(w, "giveBack", local[w].order, local[w].next, held)
    BY <1>1, <2>1, <2>6, <2>7, HoldMoves DEF IInv, Base
  <2>3. local[w].next = 1
    BY <1>1 DEF IInv, Base, Locks
  <2>4. Fits(w, "giveBack", local[w].order, local[w].next, held)
    BY <1>1, <1>3, <2>3, <2>6, Procs DEF Fits, PaidPcs, StillUnpaid, IInv, Base, Locks
  <2>5. HeldFits(w, "giveBack", local[w].order, local[w].next)
    BY <2>3, HeldNothing
  <2> QED BY <1>1, <1>2, <2>2, <2>4, <2>5, QuietStep DEF ReturnPcs
<1>4. CASE ~StillUnpaid(w)
  <2>1. End(w)
    BY <1>4 DEF CancelUpdate
  <2> QED BY <1>1, <1>2, <2>1, EndQuiet DEF ReturnPcs
<1> QED BY <1>3, <1>4

LEMMA GiveBackSkuStep ==
    ASSUME IInv, NEW w \in Workers, GiveBackSku(w) \/ ReturnSku(w)
    PROVE  IInv'
<1>1. /\ local[w].pc \in {"giveBack", "returnStock"}
      /\ ~AllTaken(w) /\ SkuFree(NextSku(w)) /\ w \in Process
      /\ Goto(w, [local[w] EXCEPT !.next = @ + 1])
      /\ UNCHANGED <<stock, coupon, points, orders, refunds, torn, faults>>
  BY Procs DEF GiveBackSku, ReturnSku
<1>2. Moves(w, local[w].pc, local[w].order, local[w].next + 1, local[w].held)
  BY <1>1, NextMoves DEF IInv, Base
<1>3. /\ HeldFits(w, local[w].pc, local[w].order, local[w].next + 1)
      /\ local[w].next + 1 <= Len(Basket[local[w].order]) + 1
  BY <1>1, HeldOneMore, Procs DEF Stocking
<1>4. Fits(w, local[w].pc, local[w].order, local[w].next + 1, local[w].held)
  BY <1>1, <1>3, Procs DEF Fits, IInv, Base, Working, PaidPcs
<1> QED BY <1>1, <1>2, <1>3, <1>4, QuietStep, FaultsStay DEF ReturnPcs

LEMMA CancelPaidReadStep ==
    ASSUME IInv, NEW w \in Workers, NEW o \in Orders, CancelPaidRead(w, o)
    PROVE  IInv'
<1>1. /\ local[w].pc = "idle" /\ w \in Process /\ orders[o].paid
      /\ UNCHANGED <<stock, coupon, points, orders, refunds, torn, faults>>
  BY Procs DEF CancelPaidRead, PaidAndOpen
<1>2. Moves(w, "cancelPaid", o, 1, FALSE)
  <2>1. orders[o].status \in Status
    BY Typed, RowFields DEF IInv, Base
  <2> QED BY <1>1, <2>1, StartMoves DEF CancelPaidRead, IInv, Base
<1>3. Fits(w, "cancelPaid", o, 1, FALSE)
  BY <1>1, BasketRoom, Procs DEF Fits, PaidPcs
<1>4. HeldFits(w, "cancelPaid", o, 1)
  BY HeldNothing
<1> QED BY <1>1, <1>2, <1>3, <1>4, QuietStep, FaultsStay DEF ReturnPcs

LEMMA CancelPaidUpdateStep ==
    ASSUME IInv, NEW w \in Workers, CancelPaidUpdate(w)
    PROVE  IInv'
<1> DEFINE held == orders[local[w].order].status = local[w].seen
<1>1. /\ local[w].pc = "cancelPaid" /\ OrderFree(local[w].order) /\ w \in Process
      /\ UNCHANGED <<stock, coupon, points, orders, refunds, torn, faults>>
  BY Procs DEF CancelPaidUpdate
<1>2. Goto(w, [local[w] EXCEPT !.pc = "returnStock", !.held = held])
  BY DEF CancelPaidUpdate
<1>3. held \in BOOLEAN
  OBVIOUS
<1> HIDE DEF held
<1>4. "returnStock" \in PCs
  BY DEF PCs
<1>5. Moves(w, "returnStock", local[w].order, local[w].next, held)
  BY <1>1, <1>2, <1>3, <1>4, HoldMoves DEF IInv, Base
<1>6. local[w].next = 1
  BY <1>1 DEF IInv, Base, Locks
<1>7. Fits(w, "returnStock", local[w].order, local[w].next, held)
  BY <1>1, <1>6, Procs DEF Fits, PaidPcs, IInv, Base, Locks, Working
<1>8. HeldFits(w, "returnStock", local[w].order, local[w].next)
  BY <1>6, HeldNothing
<1> QED BY <1>1, <1>5, <1>7, <1>8, QuietStep, FaultsStay DEF ReturnPcs

-----------------------------------------------------------------------------
(* The write of one order's row. *)
Writes(o, status, paid, cancelled) ==
    /\ orders' \in [Orders -> Rec]
    /\ orders'[o].status = status /\ orders'[o].paid = paid /\ orders'[o].cancelled = cancelled
    /\ \A q \in Orders : q # o => orders'[q] = orders[q]

LEMMA LocksSame ==
    ASSUME Locks, stock' = stock, local' = local
    PROVE  Locks'
<1>1. \A p \in Process : HeldSkus(p)' = HeldSkus(p)
  BY DEF HeldSkus
<1> QED BY <1>1, Procs DEF Locks

LEMMA NumberedSame == ASSUME Numbered, torn' = torn PROVE Numbered'
BY DEF Numbered, TornOf

LEMMA RowWrites ==
    ASSUME orders \in [Orders -> Rec], NEW o \in Orders, NEW r \in Rec,
           orders' = [orders EXCEPT ![o] = r]
    PROVE  Writes(o, r.status, r.paid, r.cancelled)
BY DEF Writes

\* A write that leaves every request where it is, and what the order keeps.
LEMMA WriteStep ==
    ASSUME IInv, NEW o \in Orders, NEW status \in Status, NEW paid \in BOOLEAN,
           Writes(o, status, paid, orders[o].cancelled),
           Exists(o), OrderFree(o), status \notin {"none", "unpaid"},
           orders[o].paid => paid,
           orders[o].paid \/ orders[o].status = "unpaid" \/ ~paid,
           UNCHANGED <<stock, coupon, points, refunds, torn, faults, local>>
    PROVE  IInv'
<1>1. TypeOK'
  BY DEF IInv, Base, TypeOK, Writes, Rec
<1>2. Rows'
  <2>1. ASSUME NEW q \in Orders
        PROVE  /\ ~Exists(q)' => orders'[q] = NewOrder
               /\ orders'[q].status = "unpaid" => ~orders'[q].paid /\ ~orders'[q].cancelled
               /\ q \in refunds' => orders'[q].paid
    <3>1. CASE q = o
      BY <3>1 DEF IInv, Base, Rows, Writes, Exists
    <3>2. CASE q # o
      BY <3>2 DEF IInv, Base, Rows, Writes, Exists
    <3> QED BY <3>1, <3>2
  <2> QED BY <2>1 DEF Rows
<1>3. \A q \in Orders : Exists(q)' <=> Exists(q)
  BY DEF Writes, Exists
<1>4. \A w \in Workers : local[w].order \in Orders
  BY Typed, Fields, Procs DEF IInv, Base
<1>5. Working'
  <2>1. \A w \in Workers : local[w].pc = "giveBack" => local[w].order # o
    BY DEF IInv, Base, Working, OrderFree
  <2>2. \A q \in Orders : orders[q].paid => orders'[q].paid
    BY DEF Writes
  <2> QED BY <1>3, <1>4, <2>1, <2>2 DEF IInv, Base, Working, Writes
<1>6. Locks' /\ Numbered'
  BY LocksSame, NumberedSame DEF IInv, Base
<1>7. CancelledIsRefunded'
  <2>1. orders[o].cancelled /\ paid => o \in refunds
    BY DEF IInv, Base, CancelledIsRefunded, Rows
  <2> QED BY <2>1 DEF IInv, Base, CancelledIsRefunded, Writes
<1>8. \A q \in Orders : Keeps(q)' <=> Keeps(q)
  BY <1>3 DEF Keeps, Writes
<1>9. StockAccounted'
  <2>1. ASSUME NEW s PROVE /\ Keepers(s)' = Keepers(s) /\ Returners(s)' = Returners(s)
                           /\ TornWith(s)' = TornWith(s)
    BY <1>8 DEF Keepers, Returners, Returning, TornWith
  <2> QED BY <2>1, AccountSame DEF IInv
<1>10. CouponServesOneOrder'
  <2>1. WithCoupon \subseteq Orders
    BY CheckoutAssumption
  <2> QED BY <1>8, <2>1 DEF IInv, CouponServesOneOrder, TornOf, UsesCoupon
<1> QED BY <1>1, <1>2, <1>5, <1>6, <1>7, <1>9, <1>10 DEF IInv, Base

LEMMA PayStep ==
    ASSUME IInv, NEW o \in Orders, Pay(o) PROVE IInv'
<1> DEFINE r == [orders[o] EXCEPT !.status = "undelivered", !.paid = TRUE]
<1>1. orders \in [Orders -> Rec] /\ orders[o] \in Rec
  BY Typed DEF IInv, Base
<1>2. r \in Rec /\ r.status = "undelivered" /\ r.paid = TRUE /\ r.cancelled = orders[o].cancelled
  BY <1>1 DEF Rec, Status
<1>3. orders' = [orders EXCEPT ![o] = r]
  BY DEF Pay
<1> HIDE DEF r
<1>4. Writes(o, "undelivered", r.paid, orders[o].cancelled)
  BY <1>1, <1>2, <1>3, RowWrites
<1>5. r.paid \in BOOLEAN
  BY <1>2
<1> QED BY <1>2, <1>4, <1>5, WriteStep DEF Pay, Exists, Status

LEMMA DeliverStep ==
    ASSUME IInv, NEW o \in Orders, Deliver(o) \/ Receive(o) PROVE IInv'
<1>1. orders \in [Orders -> Rec] /\ orders[o] \in Rec
  BY Typed DEF IInv, Base
<1>2. ASSUME NEW status \in {"delivered", "completed"},
             Exists(o), OrderFree(o), orders' = [orders EXCEPT ![o].status = status],
             UNCHANGED <<stock, coupon, points, refunds, torn, faults, local>>
      PROVE  IInv'
  <2> DEFINE r == [orders[o] EXCEPT !.status = status]
  <2>1. /\ r \in Rec /\ r.status = status
        /\ r.paid = orders[o].paid /\ r.cancelled = orders[o].cancelled
    BY <1>1 DEF Rec, Status
  <2>2. orders' = [orders EXCEPT ![o] = r]
    BY <1>2
  <2> HIDE DEF r
  <2>3. Writes(o, status, orders[o].paid, orders[o].cancelled)
    BY <1>1, <2>1, <2>2, RowWrites
  <2>4. orders[o].paid \in BOOLEAN /\ status \in Status
    BY <1>1, RowFields DEF Status
  <2> QED BY <1>2, <2>3, <2>4, WriteStep
<1> QED BY <1>2 DEF Deliver, Receive, Exists

LEMMA DeleteCouponStep ==
    ASSUME IInv, DeleteCoupon PROVE IInv'
<1>1. TypeOK'
  BY DEF IInv, Base, TypeOK, DeleteCoupon
<1>2. UNCHANGED <<stock, orders, refunds, torn, local>>
  BY DEF DeleteCoupon
<1>3. Rows' /\ Working' /\ Locks' /\ Numbered' /\ CancelledIsRefunded'
  <2>1. Locks' /\ Numbered'
    BY <1>2, LocksSame, NumberedSame DEF IInv, Base
  <2>2. Rows' /\ CancelledIsRefunded'
    BY <1>2 DEF IInv, Base, Rows, Exists, CancelledIsRefunded
  <2>3. Working'
    BY <1>2 DEF IInv, Base, Working, Exists
  <2> QED BY <2>1, <2>2, <2>3
<1>4. StockAccounted'
  <2>1. ASSUME NEW s PROVE /\ Keepers(s)' = Keepers(s) /\ Returners(s)' = Returners(s)
                           /\ TornWith(s)' = TornWith(s)
    BY <1>2, KeepersSame DEF Returners, Returning, TornWith
  <2> QED BY <1>2, <2>1, AccountSame DEF IInv
<1>5. CouponServesOneOrder'
  BY DEF DeleteCoupon, CouponServesOneOrder
<1> QED BY <1>1, <1>3, <1>4, <1>5 DEF IInv, Base

-----------------------------------------------------------------------------
(* The steps of a paid cancellation that commit something for good. *)

LEMMA CardAdd ==
    ASSUME NEW S, NEW T, NEW x, IsFiniteSet(S), x \notin S, T = S \cup {x}
    PROVE  Cardinality(T) = Cardinality(S) + 1 /\ Cardinality(S) \in Nat
BY FS_AddElement, FS_CardinalityType

LEMMA CardRemove ==
    ASSUME NEW S, NEW T, NEW x, IsFiniteSet(S), x \in S, T = S \ {x}
    PROVE  Cardinality(T) = Cardinality(S) - 1 /\ Cardinality(S) \in Nat
BY FS_RemoveElement, FS_CardinalityType

LEMMA TearStep ==
    ASSUME IInv, NEW w \in Workers, local[w].pc \in ReturnPcs, NEW part \in Stages,
           Tear(w, part), End(w), faults' \in 0..MaxFaults,
           UNCHANGED <<stock, coupon, points, orders, refunds>>
    PROVE  IInv'
<1> DEFINE o == local[w].order
<1>1. w \in Process /\ w \notin Orders /\ o \in Orders
  BY Procs, Typed, Fields DEF IInv, Base
<1>2. Moves(w, "idle", o, 1, FALSE)
  BY <1>1, EndMoves DEF IInv, Base
<1>3. PICK t : /\ t \notin torn /\ torn' = torn \cup {t}
               /\ t[1] = o /\ t \in Orders \X Nat \X Stages
               /\ Numbered'
  BY <1>1, TearAdds DEF IInv, Base
<1>4. TypeOK'
  BY <1>2, <1>3 DEF IInv, Base, TypeOK, Moves
<1>5. Fits(w, "idle", o, 1, FALSE) /\ HeldFits(w, "idle", o, 1)
  BY <1>1, BasketRoom, HeldNothing DEF Fits, PaidPcs
<1>6. OthersStay(w)
  BY DEF IInv, Base, OthersStay, Working, Locks, Exists
<1>7. Working' /\ Locks'
  BY <1>1, <1>2, <1>5, <1>6, WorkingStep, LocksStep DEF IInv, Base
<1>8. Rows' /\ CancelledIsRefunded'
  BY DEF IInv, Base, Rows, Exists, CancelledIsRefunded
<1>9. StockAccounted'
  <2>1. ASSUME NEW s \in Skus
        PROVE  stock'[s] + Cardinality(Keepers(s)') =
                  Stock + Cardinality(Returners(s)') + Cardinality(TornWith(s)')
    <3>1. Keepers(s)' = Keepers(s)
      BY KeepersSame
    <3>2. /\ IsFiniteSet(Returners(s)) /\ IsFiniteSet(TornWith(s))
          /\ Cardinality(Returners(s)) \in Nat /\ Cardinality(TornWith(s)) \in Nat
          /\ Cardinality(Keepers(s)) \in Nat
      BY FiniteSets DEF IInv, Base
    <3>3. stock[s] + Cardinality(Keepers(s)) =
             Stock + Cardinality(Returners(s)) + Cardinality(TornWith(s))
      BY DEF IInv, StockAccounted
    <3>6. stock'[s] = stock[s] /\ stock[s] \in Nat /\ Stock \in Nat
      BY Typed, CheckoutAssumption DEF IInv, Base
    <3>4. CASE s \in Goods(o)
      <4>1. w \in Returners(s)
        BY <3>4, <1>1, <1>2, ReturnersMove DEF Owes
      <4>2. Returners(s)' = Returners(s) \ {w}
        <5>1. w \notin Returners(s)'
          BY <1>2 DEF Moves, Returners, Returning
        <5>2. \A v \in Workers : v # w => (v \in Returners(s)' <=> v \in Returners(s))
          BY <1>1, <1>2, ReturnersMove
        <5>3. \A v : v \in Returners(s)' <=> v \in Returners(s) /\ v # w
          BY <5>1, <5>2, ReturnersSubset
        <5> QED BY <5>3
      <4>3. Cardinality(Returners(s)') = Cardinality(Returners(s)) - 1
        BY <3>2, <4>1, <4>2, CardRemove
      <4>4. TornWith(s)' = TornWith(s) \cup {t} /\ t \notin TornWith(s)
        BY <1>3, <3>4 DEF TornWith
      <4>5. Cardinality(TornWith(s)') = Cardinality(TornWith(s)) + 1
        BY <3>2, <4>4, CardAdd
      <4> QED BY <3>1, <3>2, <3>3, <3>6, <4>3, <4>5
    <3>5. CASE s \notin Goods(o)
      <4>1. Returners(s)' = Returners(s)
        BY <3>5, <1>1, <1>2, ReturnersSame DEF Owes
      <4>2. TornWith(s)' = TornWith(s)
        BY <1>3, <3>5 DEF TornWith
      <4> QED BY <3>1, <3>3, <4>1, <4>2
    <3> QED BY <3>4, <3>5
  <2> QED BY <2>1 DEF StockAccounted
<1>10. CouponServesOneOrder'
  <2>1. ASSUME NEW q \in WithCoupon, Counts(q)'
        PROVE  Counts(q) /\ (UsesCoupon(q) => UsesCoupon(q)')
    <3>1. q # o
      BY <2>1, <1>3 DEF Counts, TornOf
    <3>2. Keeps(q)' => Keeps(q)
      BY DEF Keeps, Exists
    <3>3. q \in Orders
      BY CheckoutAssumption
    <3>4. Counts(q)
      BY <1>1, <1>2, <1>3, <2>1, <3>1, <3>2, <3>3, CountsMove
    <3> QED BY <3>4 DEF UsesCoupon
  <2> QED BY <2>1, CouponStep DEF IInv
<1> QED BY <1>3, <1>4, <1>7, <1>8, <1>9, <1>10 DEF IInv, Base

LEMMA PaidExists ==
    ASSUME IInv, NEW w \in Workers, local[w].pc \in PaidPcs
    PROVE  LET o == local[w].order
           IN  o \in Orders /\ Exists(o) /\ orders[o].paid /\ orders[o].status # "unpaid"
               /\ (o \notin refunds => Keeps(o))
<1> DEFINE o == local[w].order
<1>1. o \in Orders
  BY Procs, Typed, Fields DEF IInv, Base
<1>2. orders[o].paid
  BY DEF IInv, Base, Working
<1>3. /\ orders[o].status = "unpaid" => ~orders[o].paid
      /\ ~Exists(o) => orders[o] = NewOrder
      /\ orders[o].cancelled /\ orders[o].paid => o \in refunds
  BY <1>1 DEF IInv, Base, Rows, CancelledIsRefunded
<1>4. Exists(o)
  BY <1>2, <1>3 DEF NewOrder
<1> HIDE DEF o
<1>5. /\ o \in Orders /\ Exists(o) /\ orders[o].paid /\ orders[o].status # "unpaid"
      /\ (o \notin refunds => Keeps(o))
  BY <1>1, <1>2, <1>3, <1>4 DEF Keeps
<1> QED BY <1>5 DEF o

LEMMA RestockedFacts ==
    ASSUME stock \in [Skus -> Nat], NEW o
    PROVE  /\ Restocked(o) \in [Skus -> Nat]
           /\ \A s \in Skus : s \in Goods(o) => Restocked(o)[s] = stock[s] + 1
           /\ \A s \in Skus : s \notin Goods(o) => Restocked(o)[s] = stock[s]
<1>1. \A s \in Skus : stock[s] \in Nat /\ stock[s] + 1 \in Nat
  OBVIOUS
<1> QED BY <1>1 DEF Restocked

LEMMA HeldAreSkus ==
    ASSUME IInv, NEW q \in Orders
    PROVE  HeldSkus(q) \subseteq Skus
<1>1. /\ local[q].order \in Orders /\ local[q].next \in Nat \ {0} /\ q \in Process
      /\ local[q].next <= Len(Basket[local[q].order]) + 1
  BY Procs, Typed, Fields DEF IInv, Base, Locks
<1>2. Len(Basket[local[q].order]) \in Nat
  BY <1>1, BasketFacts
<1>3. \A i \in 1..(local[q].next - 1) : i \in 1..Len(Basket[local[q].order])
  BY <1>1, <1>2
<1> QED BY <1>1, <1>3, BasketFacts DEF HeldSkus

\* What giving goods back leaves to the creations under way.
LEMMA RestockedEnough ==
    ASSUME IInv, NEW w \in Workers, NEW o \in Orders, stock' = Restocked(o)
    PROVE  \A q \in Orders : \A s \in HeldSkus(q) : stock'[s] >= 1
<1>1. ASSUME NEW q \in Orders, NEW s \in HeldSkus(q) PROVE stock'[s] >= 1
  <2>1. s \in Skus
    BY <1>1, HeldAreSkus
  <2>2. stock[s] >= 1
    BY <1>1 DEF IInv, Base, Locks
  <2>3. stock \in [Skus -> Nat]
    BY Typed DEF IInv, Base
  <2> QED BY <2>1, <2>2, <2>3, RestockedFacts
<1> QED BY <1>1

LEMMA CommitStockStep ==
    ASSUME IInv, NEW w \in Workers, CommitStock(w) PROVE IInv'
<1> DEFINE o == local[w].order
<1>1. /\ w \in Process /\ w \notin Orders /\ local[w].pc = "returnStock"
      /\ stock' = Restocked(o)
      /\ UNCHANGED <<coupon, points, orders, refunds, torn, faults>>
  BY Procs DEF CommitStock
<1>2. /\ o \in Orders /\ orders[o].paid
      /\ local[w].next <= Len(Basket[o]) + 1
  BY <1>1, PaidExists DEF PaidPcs, IInv, Base, Locks
<1>3. Moves(w, "returnCoupon", o, local[w].next, local[w].held)
  BY <1>1, AdvanceMoves DEF CommitStock, IInv, Base, PCs
<1>4. TypeOK'
  <2>1. stock' \in [Skus -> Nat]
    BY <1>1, Typed, RestockedFacts DEF IInv, Base
  <2> QED BY <1>1, <1>3, <2>1 DEF IInv, Base, TypeOK, Moves
<1>5. /\ Fits(w, "returnCoupon", o, local[w].next, local[w].held)
      /\ HeldFits(w, "returnCoupon", o, local[w].next)
  BY <1>1, <1>2, HeldNothing DEF Fits, Stocking
<1>6. OthersStay(w)
  <2>1. \A q \in Orders : \A s \in HeldSkus(q) : stock'[s] >= 1
    BY <1>1, <1>2, RestockedEnough
  <2> QED BY <1>1, <2>1 DEF IInv, Base, OthersStay, Working, Exists
<1>7. Working' /\ Locks'
  BY <1>1, <1>3, <1>5, <1>6, WorkingStep, LocksStep DEF IInv, Base
<1>8. Rows' /\ CancelledIsRefunded' /\ Numbered'
  BY <1>1, NumberedSame DEF IInv, Base, Rows, Exists, CancelledIsRefunded
<1>9. StockAccounted'
  <2>1. ASSUME NEW s \in Skus
        PROVE  stock'[s] + Cardinality(Keepers(s)') =
                  Stock + Cardinality(Returners(s)') + Cardinality(TornWith(s)')
    <3>1. Keepers(s)' = Keepers(s) /\ TornWith(s)' = TornWith(s)
      BY <1>1, KeepersSame DEF TornWith
    <3>2. /\ IsFiniteSet(Returners(s)) /\ Cardinality(Returners(s)) \in Nat
          /\ Cardinality(Keepers(s)) \in Nat /\ Cardinality(TornWith(s)) \in Nat
      BY FiniteSets DEF IInv, Base
    <3>3. stock[s] + Cardinality(Keepers(s)) =
             Stock + Cardinality(Returners(s)) + Cardinality(TornWith(s))
      BY DEF IInv, StockAccounted
    <3>4. stock \in [Skus -> Nat] /\ Stock \in Nat
      BY Typed, CheckoutAssumption DEF IInv, Base
    <3>5. CASE s \in Goods(o)
      <4>1. w \notin Returners(s)
        BY <1>1, <1>3, ReturnersMove DEF Owes, ReturnPcs
      <4>2. Returners(s)' = Returners(s) \cup {w}
        BY <3>5, <1>1, <1>3, ReturnersMove, ReturnersSubset DEF Owes, ReturnPcs
      <4>3. Cardinality(Returners(s)') = Cardinality(Returners(s)) + 1
        BY <3>2, <4>1, <4>2, CardAdd
      <4>4. stock'[s] = stock[s] + 1
        BY <1>1, <3>4, <3>5, RestockedFacts
      <4> QED BY <3>1, <3>2, <3>3, <3>4, <4>3, <4>4
    <3>6. CASE s \notin Goods(o)
      <4>1. Returners(s)' = Returners(s)
        BY <3>6, <1>1, <1>3, ReturnersSame DEF Owes
      <4>2. stock'[s] = stock[s]
        BY <1>1, <3>4, <3>6, RestockedFacts
      <4> QED BY <3>1, <3>3, <4>1, <4>2
    <3> QED BY <3>5, <3>6
  <2> QED BY <2>1 DEF StockAccounted
<1>10. CouponServesOneOrder'
  <2>1. ASSUME NEW q \in WithCoupon, Counts(q)'
        PROVE  Counts(q) /\ (UsesCoupon(q) => UsesCoupon(q)')
    <3>1. Keeps(q)' => Keeps(q)
      BY <1>1 DEF Keeps, Exists
    <3>2. q \in Orders
      BY CheckoutAssumption
    <3>3. Counts(q)
      BY <1>1, <1>3, <2>1, <3>1, <3>2, CountsMove
    <3> QED BY <1>1, <3>3 DEF UsesCoupon
  <2> QED BY <1>1, <2>1, CouponStep DEF IInv
<1> QED BY <1>4, <1>7, <1>8, <1>9, <1>10 DEF IInv, Base

CouponType == [status : {"unused", "used", "deleted"}, order : SUBSET Orders]

LEMMA PaidMove ==
    ASSUME IInv, NEW w \in Workers, local[w].pc \in ReturnPcs,
           NEW pc \in {"returnPoint", "refund", "commitPaid"}, Advance(w, pc),
           coupon' \in CouponType, points' \in Nat,
           refunds' = refunds \/ refunds' = refunds \cup {local[w].order},
           pc = "commitPaid" => local[w].order \in refunds',
           UNCHANGED <<stock, orders, torn, faults>>
    PROVE  /\ Base' /\ w \in Process /\ w \notin Orders /\ local[w].order \in Orders
           /\ Moves(w, pc, local[w].order, local[w].next, local[w].held)
<1> DEFINE o == local[w].order
<1>1. w \in Process /\ w \notin Orders
  BY Procs
<1>2. o \in Orders /\ orders[o].paid /\ local[w].next <= Len(Basket[o]) + 1
  BY <1>1, PaidExists DEF PaidPcs, ReturnPcs, IInv, Base, Locks
<1>3. Moves(w, pc, o, local[w].next, local[w].held)
  BY <1>1, AdvanceMoves DEF IInv, Base, PCs
<1>4. TypeOK'
  BY <1>2, <1>3 DEF IInv, Base, TypeOK, Moves, CouponType
<1>5. /\ Fits(w, pc, o, local[w].next, local[w].held)
      /\ HeldFits(w, pc, o, local[w].next)
  BY <1>1, <1>2, HeldNothing DEF Fits, Stocking
<1>6. OthersStay(w)
  BY DEF IInv, Base, OthersStay, Working, Locks, Exists
<1>7. Working' /\ Locks'
  BY <1>1, <1>3, <1>5, <1>6, WorkingStep, LocksStep DEF IInv, Base
<1>8. Rows' /\ CancelledIsRefunded' /\ Numbered'
  BY <1>2, NumberedSame DEF IInv, Base, Rows, Exists, CancelledIsRefunded
<1> QED BY <1>1, <1>2, <1>3, <1>4, <1>7, <1>8 DEF Base

LEMMA PaidMoveAccount ==
    ASSUME IInv, NEW w \in Workers, local[w].pc \in ReturnPcs,
           NEW pc \in ReturnPcs, w \in Process,
           Moves(w, pc, local[w].order, local[w].next, local[w].held),
           UNCHANGED <<stock, orders, refunds, torn>>
    PROVE  StockAccounted'
<1>1. ASSUME NEW s
      PROVE  Keepers(s)' = Keepers(s) /\ TornWith(s)' = TornWith(s) /\ Returners(s)' = Returners(s)
  BY KeepersSame, ReturnersSame DEF TornWith, Owes
<1> QED BY <1>1, AccountSame DEF IInv

LEMMA CouponTyped == ASSUME IInv PROVE coupon \in CouponType /\ Unused \in CouponType
BY DEF IInv, Base, TypeOK, CouponType, Unused

\* A coupon that one order uses no other order uses.
LEMMA OneUser ==
    ASSUME NEW o, NEW q, UsesCoupon(o), UsesCoupon(q)
    PROVE  o = q /\ coupon.status # "deleted"
BY DEF UsesCoupon

LEMMA ReturnCouponStep ==
    ASSUME IInv, NEW w \in Workers, ReturnCoupon(w) PROVE IInv'
<1> DEFINE o == local[w].order
<1>1. /\ local[w].pc = "returnCoupon"
      /\ UNCHANGED <<stock, points, orders, refunds, faults>>
  BY DEF ReturnCoupon
<1>2. CASE /\ o \in WithCoupon => UsesCoupon(o)
           /\ coupon' = IF o \in WithCoupon THEN Unused ELSE coupon
           /\ Advance(w, "returnPoint")
           /\ UNCHANGED torn
  <2>1. coupon' \in CouponType /\ points' \in Nat
    BY <1>1, <1>2, CouponTyped, Typed DEF IInv, Base
  <2>2. /\ Base' /\ w \in Process /\ o \in Orders
        /\ Moves(w, "returnPoint", o, local[w].next, local[w].held)
    BY <1>1, <1>2, <2>1, PaidMove DEF ReturnPcs
  <2>3. StockAccounted'
    BY <1>1, <1>2, <2>2, PaidMoveAccount DEF ReturnPcs
  <2>4. CouponServesOneOrder'
    <3>1. ASSUME NEW q \in WithCoupon, Counts(q)'
          PROVE  Counts(q) /\ q # o
      <4>1. q # o
        BY <2>2, <3>1 DEF Counts, Moves
      <4>2. Keeps(q)' => Keeps(q)
        BY <1>1 DEF Keeps, Exists
      <4>3. q \in Orders
        BY CheckoutAssumption
      <4> QED BY <1>1, <1>2, <2>2, <3>1, <4>1, <4>2, <4>3, CountsMove
    <3>2. CASE o \in WithCoupon
      <4>1. \A q \in WithCoupon : ~Counts(q)'
        BY <1>2, <3>1, <3>2, OneUser DEF IInv, CouponServesOneOrder, Counts
      <4> QED BY <4>1 DEF CouponServesOneOrder, Counts
    <3>3. CASE o \notin WithCoupon
      BY <1>2, <3>1, <3>3, CouponStep DEF IInv, UsesCoupon
    <3> QED BY <3>2, <3>3
  <2> QED BY <2>2, <2>3, <2>4 DEF IInv
<1>3. CASE Tear(w, "stock") /\ End(w) /\ UNCHANGED coupon
  BY <1>1, <1>3, FaultsStay, TearStep DEF ReturnPcs, Stages
<1> QED BY <1>2, <1>3 DEF ReturnCoupon

LEMMA PointTyped ==
    ASSUME IInv, NEW o \in Orders
    PROVE  PointsBack(o) \in Nat
<1>1. orders[o] \in Rec /\ points \in Nat
  BY Typed DEF IInv, Base
<1> QED BY <1>1, RowFields DEF PointsBack

LEMMA ReturnPointStep ==
    ASSUME IInv, NEW w \in Workers, ReturnPoint(w) PROVE IInv'
<1> DEFINE o == local[w].order
<1>1. /\ local[w].pc = "returnPoint" /\ points' = PointsBack(o) /\ Advance(w, "refund")
      /\ UNCHANGED <<stock, coupon, orders, refunds, torn, faults>>
  BY DEF ReturnPoint, AfterPoints
<1>2. o \in Orders
  BY <1>1, PaidExists DEF PaidPcs
<1>3. coupon' \in CouponType /\ points' \in Nat
  BY <1>1, <1>2, CouponTyped, PointTyped
<1>4. /\ Base' /\ w \in Process
      /\ Moves(w, "refund", o, local[w].next, local[w].held)
  BY <1>1, <1>3, PaidMove DEF ReturnPcs
<1>5. StockAccounted'
  BY <1>1, <1>4, PaidMoveAccount DEF ReturnPcs
<1>6. CouponServesOneOrder'
  <2>1. ASSUME NEW q \in WithCoupon, Counts(q)'
        PROVE  Counts(q)
    <3>1. q # o
      BY <1>4, <2>1 DEF Counts, Moves
    <3>2. Keeps(q)' => Keeps(q)
      BY <1>1 DEF Keeps, Exists
    <3>3. q \in Orders
      BY CheckoutAssumption
    <3> QED BY <1>1, <1>4, <2>1, <3>1, <3>2, <3>3, CountsMove
  <2> QED BY <1>1, <2>1, CouponStep DEF IInv, UsesCoupon
<1> QED BY <1>4, <1>5, <1>6 DEF IInv

LEMMA CreateRefundStep ==
    ASSUME IInv, NEW w \in Workers, CreateRefund(w) PROVE IInv'
<1>1. /\ local[w].pc = "refund"
      /\ UNCHANGED <<stock, coupon, points, orders, faults>>
  BY DEF CreateRefund
<1>4. PICK o \in Orders : o = local[w].order
  BY <1>1, PaidExists DEF PaidPcs
<1>2. CASE o \notin refunds /\ refunds' = refunds \cup {o} /\ Advance(w, "commitPaid") /\ UNCHANGED torn
  <2>1. coupon' \in CouponType /\ points' \in Nat
    BY <1>1, CouponTyped, Typed DEF IInv, Base
  <2>2. /\ Base' /\ w \in Process
        /\ Moves(w, "commitPaid", o, local[w].next, local[w].held)
    BY <1>1, <1>2, <1>4, <2>1, PaidMove DEF ReturnPcs
  <2>3. Keeps(o) /\ ~Keeps(o)' /\ \A q \in Orders : q # o => (Keeps(q)' <=> Keeps(q))
    BY <1>1, <1>2, <1>4, PaidExists DEF PaidPcs, Keeps, Exists
  <2>4. StockAccounted'
    <3>1. ASSUME NEW s \in Skus
          PROVE  stock'[s] + Cardinality(Keepers(s)') =
                    Stock + Cardinality(Returners(s)') + Cardinality(TornWith(s)')
      <4>1. TornWith(s)' = TornWith(s) /\ stock'[s] = stock[s]
        BY <1>1, <1>2 DEF TornWith
      <4>2. /\ IsFiniteSet(Returners(s)) /\ IsFiniteSet(Keepers(s))
            /\ Cardinality(Returners(s)) \in Nat /\ Cardinality(Keepers(s)) \in Nat
            /\ Cardinality(TornWith(s)) \in Nat
        BY FiniteSets DEF IInv, Base
      <4>3. stock[s] + Cardinality(Keepers(s)) =
               Stock + Cardinality(Returners(s)) + Cardinality(TornWith(s))
        BY DEF IInv, StockAccounted
      <4>4. stock[s] \in Nat /\ Stock \in Nat
        BY Typed, CheckoutAssumption DEF IInv, Base
      <4>5. CASE s \in Goods(o)
        <5>1. w \in Returners(s)
          BY <4>5, <1>1, <1>4 DEF Returners, Returning
        <5>2. w \notin Returners(s)'
          BY <2>2 DEF Moves, Returners, Returning
        <5>3. \A v \in Workers : v # w => (v \in Returners(s)' <=> v \in Returners(s))
          BY <2>2, ReturnersMove
        <5>4. Returners(s)' = Returners(s) \ {w}
          BY <5>2, <5>3, ReturnersSubset
        <5>5. o \in Keepers(s) /\ Keepers(s)' = Keepers(s) \ {o}
          BY <2>2, <2>3, <4>5 DEF Keepers
        <5>6. Cardinality(Returners(s)') = Cardinality(Returners(s)) - 1
          BY <4>2, <5>1, <5>4, CardRemove
        <5>7. Cardinality(Keepers(s)') = Cardinality(Keepers(s)) - 1
          BY <4>2, <5>5, CardRemove
        <5> QED BY <4>1, <4>2, <4>3, <4>4, <5>6, <5>7
      <4>6. CASE s \notin Goods(o)
        <5>1. Returners(s)' = Returners(s)
          BY <4>6, <1>4, <2>2, ReturnersSame DEF Owes
        <5>2. Keepers(s)' = Keepers(s)
          BY <2>3, <4>6 DEF Keepers
        <5> QED BY <4>1, <4>3, <5>1, <5>2
      <4> QED BY <4>5, <4>6
    <3> QED BY <3>1 DEF StockAccounted
  <2>5. CouponServesOneOrder'
    <3>1. ASSUME NEW q \in WithCoupon, Counts(q)'
          PROVE  Counts(q)
      <4>1. q # o
        BY <2>3, <3>1 DEF Counts
      <4>2. q \in Orders
        BY CheckoutAssumption
      <4>3. Keeps(q)' => Keeps(q)
        BY <2>3, <4>1, <4>2
      <4> QED BY <1>2, <1>4, <2>2, <3>1, <4>1, <4>2, <4>3, CountsMove
    <3> QED BY <1>1, <3>1, CouponStep DEF IInv, UsesCoupon
  <2> QED BY <2>2, <2>4, <2>5 DEF IInv
<1>3. CASE Tear(w, "points") /\ End(w) /\ UNCHANGED refunds
  BY <1>1, <1>3, FaultsStay, TearStep DEF ReturnPcs, Stages
<1> QED BY <1>2, <1>3, <1>4 DEF CreateRefund

LEMMA CommitCancelPaidStep ==
    ASSUME IInv, NEW w \in Workers, CommitCancelPaid(w) PROVE IInv'
<1>1. /\ local[w].pc = "commitPaid" /\ End(w) /\ w \in Process
      /\ UNCHANGED <<stock, coupon, points, refunds, torn, faults>>
  BY Procs DEF CommitCancelPaid
<1>2. PICK o \in Orders : o = local[w].order
  BY <1>1, PaidExists DEF PaidPcs
<1>3. CASE ~local[w].held
  BY <1>1, <1>3, FaultsStay, EndQuiet DEF CommitCancelPaid, ReturnPcs
<1>4. CASE local[w].held
  <2> DEFINE r == [orders[o] EXCEPT !.status = "canceled", !.cancelled = TRUE]
  <2>1. orders \in [Orders -> Rec] /\ orders[o] \in Rec
    BY Typed DEF IInv, Base
  <2>2. r \in Rec /\ r.status = "canceled" /\ r.paid = orders[o].paid /\ r.cancelled
    BY <2>1 DEF Rec, Status
  <2>3. orders' = [orders EXCEPT ![o] = r]
    BY <1>2, <1>4 DEF CommitCancelPaid
  <2> HIDE DEF r
  <2>4. Writes(o, "canceled", orders[o].paid, r.cancelled)
    BY <2>1, <2>2, <2>3, RowWrites
  <2>5. orders[o].paid /\ Exists(o) /\ o \in refunds /\ orders[o].status # "unpaid"
    BY <1>1, <1>2, PaidExists DEF PaidPcs, IInv, Base, Working
  <2>6. Moves(w, "idle", o, 1, FALSE)
    BY <1>1, <1>2, EndMoves DEF IInv, Base
  <2>7. TypeOK'
    BY <1>1, <2>4, <2>6 DEF IInv, Base, TypeOK, Moves, Writes, Rec
  <2>8. Fits(w, "idle", o, 1, FALSE) /\ HeldFits(w, "idle", o, 1)
    BY BasketRoom, Procs, HeldNothing DEF Fits, PaidPcs
  <2>9. OthersStay(w)
    <3>1. \A v \in Workers : v # w /\ local[v].pc = "giveBack" => local[v].order # o
      BY <1>2, <1>4, <2>5 DEF IInv, Base, Working
    <3>2. \A v \in Workers : local[v].order \in Orders
      BY Procs, Typed, Fields DEF IInv, Base
    <3>3. \A q \in Orders : (Exists(q)' <=> Exists(q)) /\ (orders[q].paid => orders'[q].paid)
      BY <2>4, <2>5 DEF Writes, Exists
    <3> QED BY <1>1, <2>4, <3>1, <3>2, <3>3 DEF OthersStay, IInv, Base, Working, Locks, Writes
  <2>10. Working' /\ Locks'
    BY <1>1, <2>6, <2>8, <2>9, WorkingStep, LocksStep DEF IInv, Base
  <2>11. Numbered'
    BY <1>1, NumberedSame DEF IInv, Base
  <2>12. Rows' /\ CancelledIsRefunded'
    <3>1. ASSUME NEW q \in Orders
          PROVE  /\ ~Exists(q)' => orders'[q] = NewOrder
                 /\ orders'[q].status = "unpaid" => ~orders'[q].paid /\ ~orders'[q].cancelled
                 /\ q \in refunds' => orders'[q].paid
                 /\ orders'[q].cancelled /\ orders'[q].paid => q \in refunds'
      <4>1. CASE q = o
        BY <1>1, <2>4, <2>5, <4>1 DEF Writes, Exists
      <4>2. CASE q # o
        BY <1>1, <2>4, <4>2 DEF IInv, Base, Rows, CancelledIsRefunded, Writes, Exists
      <4> QED BY <4>1, <4>2
    <3> QED BY <3>1 DEF Rows, CancelledIsRefunded
  <2>13. \A q \in Orders : Keeps(q)' <=> Keeps(q)
    BY <1>1, <2>4, <2>5 DEF Keeps, Exists, Writes
  <2>14. StockAccounted'
    <3>1. ASSUME NEW s PROVE Keepers(s)' = Keepers(s) /\ TornWith(s)' = TornWith(s)
      BY <1>1, <2>13 DEF Keepers, TornWith
    <3>2. ASSUME NEW s PROVE Returners(s)' = Returners(s)
      BY <1>1, EndReturners DEF ReturnPcs, IInv, Base
    <3> QED BY <1>1, <3>1, <3>2, AccountSame DEF IInv
  <2>15. CouponServesOneOrder'
    <3>1. ASSUME NEW q \in WithCoupon, Counts(q)'
          PROVE  Counts(q)
      <4>1. q \in Orders
        BY CheckoutAssumption
      <4> QED BY <1>1, <2>6, <2>13, <3>1, <4>1, CountsMove
    <3> QED BY <1>1, <3>1, CouponStep DEF IInv, UsesCoupon
  <2> QED BY <2>7, <2>10, <2>11, <2>12, <2>14, <2>15 DEF IInv, Base
<1> QED BY <1>3, <1>4

-----------------------------------------------------------------------------
(* The commits of creations and of cancellations of unpaid orders. *)

LEMMA AllHeld ==
    ASSUME IInv, NEW p \in Process, local[p].pc \in Stocking, AllTaken(p)
    PROVE  HeldSkus(p) = Goods(local[p].order)
<1>1. local[p].order \in Orders /\ local[p].next \in Nat
      /\ local[p].next <= Len(Basket[local[p].order]) + 1
  BY Typed, Fields DEF IInv, Base, Locks
<1>2. Len(Basket[local[p].order]) \in Nat
  BY <1>1, BasketFacts
<1>3. local[p].next = Len(Basket[local[p].order]) + 1
  BY <1>1, <1>2 DEF AllTaken
<1> QED BY <1>1, <1>3, HeldAll DEF HeldSkus, HeldAt

LEMMA CommitCreateStep ==
    ASSUME IInv, NEW o \in Orders, CommitCreate(o) PROVE IInv'
<1>1. /\ local[o].pc = "take" /\ AllTaken(o) /\ End(o) /\ o \in Process /\ o \notin Workers
      /\ UNCHANGED <<refunds, torn, faults>>
  BY Procs DEF CommitCreate
<1>2. local[o].order = o /\ ~Exists(o)
  BY <1>1 DEF IInv, Base, Working
<1>3. CASE UNCHANGED <<stock, coupon, points, orders>>
  BY <1>1, <1>3, FaultsStay, EndQuiet DEF ReturnPcs
<1>4. CASE /\ CouponUsable(o) /\ PointsSuffice(o)
           /\ stock' = [s \in Skus |-> IF s \in Goods(o) THEN stock[s] - 1 ELSE stock[s]]
           /\ coupon' = IF o \in WithCoupon THEN [status |-> "used", order |-> {o}] ELSE coupon
           /\ points' = points - local[o].point
           /\ orders' = [orders EXCEPT ![o].status = "unpaid", ![o].point = local[o].point]
  <2> DEFINE n == local[o].point
             r == [orders[o] EXCEPT !.status = "unpaid", !.point = n]
  <2>1. /\ orders \in [Orders -> Rec] /\ orders[o] \in Rec /\ n \in Nat /\ points \in Nat
        /\ stock \in [Skus -> Nat]
    BY <1>1, Typed, Fields DEF IInv, Base
  <2>2. /\ r \in Rec /\ r.status = "unpaid"
        /\ r.paid = orders[o].paid /\ r.cancelled = orders[o].cancelled
    <3> HIDE DEF n
    <3> QED BY <2>1 DEF Rec, Status
  <2>3. orders' = [orders EXCEPT ![o] = r]
    BY <1>4
  <2>4. ~orders[o].paid /\ ~orders[o].cancelled /\ o \notin refunds
    BY <1>2 DEF IInv, Base, Rows, NewOrder
  <2>5. points - n \in Nat
    BY <1>4, <2>1 DEF PointsSuffice
  <2> HIDE DEF r, n
  <2>6. Writes(o, "unpaid", orders[o].paid, orders[o].cancelled)
    BY <2>1, <2>2, <2>3, RowWrites
  <2>7. Moves(o, "idle", o, 1, FALSE)
    BY <1>1, <1>2, EndMoves DEF IInv, Base
  <2>8. HeldSkus(o) = Goods(o) /\ \A s \in Goods(o) : stock[s] >= 1
    BY <1>1, <1>2, AllHeld DEF Stocking, IInv, Base, Locks
  <2>9. /\ stock' \in [Skus -> Nat]
        /\ \A s \in Skus : s \in Goods(o) => stock'[s] = stock[s] - 1
        /\ \A s \in Skus : s \notin Goods(o) => stock'[s] = stock[s]
    <3>1. \A s \in Skus : stock[s] \in Nat /\ (s \in Goods(o) => stock[s] - 1 \in Nat)
      BY <2>1, <2>8
    <3> QED BY <1>4, <3>1
  <2>10. coupon' \in CouponType
    BY <1>4, CouponTyped DEF CouponType
  <2>11. points' \in Nat
    BY <1>4, <2>5 DEF n
  <2>12. TypeOK'
    BY <1>1, <2>6, <2>7, <2>9, <2>10, <2>11 DEF IInv, Base, TypeOK, Moves, Writes, Rec, CouponType
  <2>13. Fits(o, "idle", o, 1, FALSE) /\ HeldFits(o, "idle", o, 1)
    BY BasketRoom, Procs, HeldNothing DEF Fits
  <2>14. OthersStay(o)
    <3>1. \A w \in Workers : local[w].pc = "giveBack" => local[w].order # o
      BY <1>2 DEF IInv, Base, Working, Exists
    <3>2. \A w \in Workers : local[w].order \in Orders
      BY Procs, Typed, Fields DEF IInv, Base
    <3>3. ASSUME NEW q \in Orders, q # o, NEW s \in HeldSkus(q) PROVE stock'[s] >= 1
      <4>1. s \notin Goods(o)
        BY <3>3, <2>8, Procs DEF IInv, Base, Locks
      <4>2. stock[s] >= 1
        BY <3>3 DEF IInv, Base, Locks
      <4>3. s \in Skus
        BY <3>3, HeldAreSkus
      <4> QED BY <4>1, <4>2, <4>3, <2>9
    <3>4. \A q \in Orders : q # o => (Exists(q)' <=> Exists(q))
      BY <2>6 DEF Writes, Exists
    <3>5. \A q \in Orders : orders[q].paid => orders'[q].paid
      BY <2>6 DEF Writes
    <3> QED BY <1>1, <2>6, <3>1, <3>2, <3>3, <3>4, <3>5 DEF OthersStay, IInv, Base, Working, Writes
  <2>15. Working' /\ Locks'
    BY <1>1, <2>7, <2>13, <2>14, WorkingStep, LocksStep DEF IInv, Base
  <2>16. Numbered'
    BY <1>1, NumberedSame DEF IInv, Base
  <2>17. Rows' /\ CancelledIsRefunded'
    <3>1. ASSUME NEW q \in Orders
          PROVE  /\ ~Exists(q)' => orders'[q] = NewOrder
                 /\ orders'[q].status = "unpaid" => ~orders'[q].paid /\ ~orders'[q].cancelled
                 /\ q \in refunds' => orders'[q].paid
                 /\ orders'[q].cancelled /\ orders'[q].paid => q \in refunds'
      <4>1. CASE q = o
        BY <1>1, <2>4, <2>6, <4>1 DEF Writes, Exists
      <4>2. CASE q # o
        BY <1>1, <2>6, <4>2 DEF IInv, Base, Rows, CancelledIsRefunded, Writes, Exists
      <4> QED BY <4>1, <4>2
    <3> QED BY <3>1 DEF Rows, CancelledIsRefunded
  <2>18. ~Keeps(o) /\ Keeps(o)' /\ \A q \in Orders : q # o => (Keeps(q)' <=> Keeps(q))
    BY <1>1, <1>2, <2>4, <2>6 DEF Keeps, Exists, Writes
  <2>19. StockAccounted'
    <3>1. ASSUME NEW s \in Skus
          PROVE  stock'[s] + Cardinality(Keepers(s)') =
                    Stock + Cardinality(Returners(s)') + Cardinality(TornWith(s)')
      <4>1. TornWith(s)' = TornWith(s)
        BY <1>1 DEF TornWith
      <4>2. Returners(s)' = Returners(s)
        BY <1>1, <2>7, ReturnersSame DEF Owes
      <4>3. /\ IsFiniteSet(Keepers(s)) /\ Cardinality(Keepers(s)) \in Nat
            /\ Cardinality(Returners(s)) \in Nat /\ Cardinality(TornWith(s)) \in Nat
        BY FiniteSets DEF IInv, Base
      <4>4. stock[s] + Cardinality(Keepers(s)) =
               Stock + Cardinality(Returners(s)) + Cardinality(TornWith(s))
        BY DEF IInv, StockAccounted
      <4>5. stock[s] \in Nat /\ Stock \in Nat
        BY <2>1, CheckoutAssumption
      <4>6. CASE s \in Goods(o)
        <5>1. o \notin Keepers(s) /\ Keepers(s)' = Keepers(s) \cup {o}
          BY <2>18, <4>6 DEF Keepers
        <5>2. Cardinality(Keepers(s)') = Cardinality(Keepers(s)) + 1
          BY <4>3, <5>1, CardAdd
        <5> QED BY <2>9, <4>1, <4>2, <4>3, <4>4, <4>5, <4>6, <5>2
      <4>7. CASE s \notin Goods(o)
        <5>1. Keepers(s)' = Keepers(s)
          BY <2>18, <4>7 DEF Keepers
        <5> QED BY <2>9, <4>1, <4>2, <4>4, <4>7, <5>1
      <4> QED BY <4>6, <4>7
    <3> QED BY <3>1 DEF StockAccounted
  <2>20. CouponServesOneOrder'
    <3>1. ASSUME NEW q \in WithCoupon, Counts(q)', q # o
          PROVE  Counts(q)
      <4>1. q \in Orders
        BY CheckoutAssumption
      <4>2. Keeps(q)' => Keeps(q)
        BY <2>18, <3>1, <4>1
      <4> QED BY <1>1, <2>7, <3>1, <4>1, <4>2, CountsMove
    <3>2. CASE o \in WithCoupon
      <4>1. \A q \in WithCoupon : q # o => ~Counts(q)'
        BY <1>4, <3>1, <3>2 DEF IInv, CouponServesOneOrder, Counts, CouponUsable, UsesCoupon
      <4>2. UsesCoupon(o)'
        BY <1>4, <3>2 DEF UsesCoupon
      <4> QED BY <4>1, <4>2 DEF CouponServesOneOrder, Counts
    <3>3. CASE o \notin WithCoupon
      BY <1>4, <3>1, <3>3, CouponStep DEF IInv, UsesCoupon
    <3> QED BY <3>2, <3>3
  <2> QED BY <2>12, <2>15, <2>16, <2>17, <2>19, <2>20 DEF IInv, Base
<1> QED BY <1>3, <1>4 DEF CommitCreate

LEMMA CommitCancelStep ==
    ASSUME IInv, NEW w \in Workers, CommitCancel(w) PROVE IInv'
<1>1. /\ local[w].pc = "giveBack" /\ End(w) /\ w \in Process /\ w \notin Orders
      /\ UNCHANGED <<refunds, torn, faults>>
  BY Procs DEF CommitCancel
<1>2. PICK o \in Orders : o = local[w].order
  BY <1>1, Typed, Fields DEF IInv, Base
<1>3. CASE UNCHANGED <<stock, coupon, points, orders>>
  BY <1>1, <1>3, FaultsStay, EndQuiet DEF ReturnPcs
<1>4. CASE /\ o \in WithCoupon => UsesCoupon(o)
           /\ stock' = Restocked(o)
           /\ coupon' = IF o \in WithCoupon THEN Unused ELSE coupon
           /\ points' = PointsBack(o)
           /\ orders' = [orders EXCEPT ![o].status = "canceled", ![o].cancelled = TRUE]
  <2> DEFINE r == [orders[o] EXCEPT !.status = "canceled", !.cancelled = TRUE]
  <2>1. orders \in [Orders -> Rec] /\ orders[o] \in Rec /\ stock \in [Skus -> Nat]
    BY Typed DEF IInv, Base
  <2>2. r \in Rec /\ r.status = "canceled" /\ r.paid = orders[o].paid /\ r.cancelled
    BY <2>1 DEF Rec, Status
  <2>3. orders' = [orders EXCEPT ![o] = r]
    BY <1>4
  <2> HIDE DEF r
  <2>4. Writes(o, "canceled", orders[o].paid, r.cancelled)
    BY <2>1, <2>2, <2>3, RowWrites
  <2>5. /\ local[w].held /\ orders[o].status = "unpaid" /\ Exists(o)
        /\ ~orders[o].paid /\ ~orders[o].cancelled /\ o \notin refunds
    BY <1>1, <1>2 DEF IInv, Base, Working, Rows, Exists
  <2>6. Moves(w, "idle", o, 1, FALSE)
    BY <1>1, <1>2, EndMoves DEF IInv, Base
  <2>7. /\ stock' \in [Skus -> Nat] /\ coupon' \in CouponType /\ points' \in Nat
    BY <1>4, <2>1, RestockedFacts, CouponTyped, PointTyped
  <2>8. TypeOK'
    BY <1>1, <2>4, <2>6, <2>7 DEF IInv, Base, TypeOK, Moves, Writes, Rec, CouponType
  <2>9. Fits(w, "idle", o, 1, FALSE) /\ HeldFits(w, "idle", o, 1)
    BY <1>1, BasketRoom, HeldNothing DEF Fits, PaidPcs
  <2>10. OthersStay(w)
    <3>1. \A v \in Workers : v # w /\ local[v].pc = "giveBack" => local[v].order # o
      BY <1>2, <2>5 DEF IInv, Base, Working, Locks
    <3>2. \A v \in Workers : local[v].order \in Orders
      BY Procs, Typed, Fields DEF IInv, Base
    <3>3. \A q \in Orders : (Exists(q)' <=> Exists(q)) /\ (orders[q].paid => orders'[q].paid)
      BY <2>4, <2>5 DEF Writes, Exists
    <3>4. \A q \in Orders : \A s \in HeldSkus(q) : stock'[s] >= 1
      BY <1>4, RestockedEnough
    <3> QED BY <1>1, <2>4, <3>1, <3>2, <3>3, <3>4 DEF OthersStay, IInv, Base, Working, Writes
  <2>11. Working' /\ Locks'
    BY <1>1, <2>6, <2>9, <2>10, WorkingStep, LocksStep DEF IInv, Base
  <2>12. Numbered'
    BY <1>1, NumberedSame DEF IInv, Base
  <2>13. Rows' /\ CancelledIsRefunded'
    <3>1. ASSUME NEW q \in Orders
          PROVE  /\ ~Exists(q)' => orders'[q] = NewOrder
                 /\ orders'[q].status = "unpaid" => ~orders'[q].paid /\ ~orders'[q].cancelled
                 /\ q \in refunds' => orders'[q].paid
                 /\ orders'[q].cancelled /\ orders'[q].paid => q \in refunds'
      <4>1. CASE q = o
        BY <1>1, <2>4, <2>5, <4>1 DEF Writes, Exists
      <4>2. CASE q # o
        BY <1>1, <2>4, <4>2 DEF IInv, Base, Rows, CancelledIsRefunded, Writes, Exists
      <4> QED BY <4>1, <4>2
    <3> QED BY <3>1 DEF Rows, CancelledIsRefunded
  <2>14. Keeps(o) /\ ~Keeps(o)' /\ \A q \in Orders : q # o => (Keeps(q)' <=> Keeps(q))
    BY <1>1, <2>2, <2>4, <2>5 DEF Keeps, Exists, Writes
  <2>15. StockAccounted'
    <3>1. ASSUME NEW s \in Skus
          PROVE  stock'[s] + Cardinality(Keepers(s)') =
                    Stock + Cardinality(Returners(s)') + Cardinality(TornWith(s)')
      <4>1. TornWith(s)' = TornWith(s)
        BY <1>1 DEF TornWith
      <4>2. Returners(s)' = Returners(s)
        BY <1>1, EndReturners DEF ReturnPcs, IInv, Base
      <4>3. /\ IsFiniteSet(Keepers(s)) /\ Cardinality(Keepers(s)) \in Nat
            /\ Cardinality(Returners(s)) \in Nat /\ Cardinality(TornWith(s)) \in Nat
        BY FiniteSets DEF IInv, Base
      <4>4. stock[s] + Cardinality(Keepers(s)) =
               Stock + Cardinality(Returners(s)) + Cardinality(TornWith(s))
        BY DEF IInv, StockAccounted
      <4>5. stock[s] \in Nat /\ Stock \in Nat
        BY <2>1, CheckoutAssumption
      <4>6. CASE s \in Goods(o)
        <5>1. o \in Keepers(s) /\ Keepers(s)' = Keepers(s) \ {o}
          BY <2>14, <4>6 DEF Keepers
        <5>2. Cardinality(Keepers(s)') = Cardinality(Keepers(s)) - 1
          BY <4>3, <5>1, CardRemove
        <5>3. stock'[s] = stock[s] + 1
          BY <1>4, <2>1, <4>6, RestockedFacts
        <5> QED BY <4>1, <4>2, <4>3, <4>4, <4>5, <5>2, <5>3
      <4>7. CASE s \notin Goods(o)
        <5>1. Keepers(s)' = Keepers(s)
          BY <2>14, <4>7 DEF Keepers
        <5>2. stock'[s] = stock[s]
          BY <1>4, <2>1, <4>7, RestockedFacts
        <5> QED BY <4>1, <4>2, <4>4, <5>1, <5>2
      <4> QED BY <4>6, <4>7
    <3> QED BY <3>1 DEF StockAccounted
  <2>16. CouponServesOneOrder'
    <3>1. ASSUME NEW q \in WithCoupon, Counts(q)'
          PROVE  Counts(q) /\ q # o
      <4>1. q # o
        BY <2>14, <3>1 DEF Counts
      <4>2. q \in Orders
        BY CheckoutAssumption
      <4>3. Keeps(q)' => Keeps(q)
        BY <2>14, <4>1, <4>2
      <4> QED BY <1>1, <2>6, <3>1, <4>1, <4>2, <4>3, CountsMove
    <3>2. CASE o \in WithCoupon
      <4>1. \A q \in WithCoupon : ~Counts(q)'
        BY <1>4, <3>1, <3>2, OneUser DEF IInv, CouponServesOneOrder, Counts
      <4> QED BY <4>1 DEF CouponServesOneOrder, Counts
    <3>3. CASE o \notin WithCoupon
      BY <1>4, <3>1, <3>3, CouponStep DEF IInv, UsesCoupon
    <3> QED BY <3>2, <3>3
  <2> QED BY <2>8, <2>11, <2>12, <2>13, <2>15, <2>16 DEF IInv, Base
<1> QED BY <1>2, <1>3, <1>4 DEF CommitCancel

LEMMA CutOffStep ==
    ASSUME IInv, NEW p \in Process, CutOff(p), faults' \in 0..MaxFaults,
           UNCHANGED <<stock, coupon, points, orders, refunds>>
    PROVE  IInv'
<1>1. CASE local[p].pc \in ReturnPcs
  <2>1. p \in Workers
    BY <1>1 DEF IInv, Base, Working, Process, ReturnPcs
  <2>2. Committed(p) \in Stages /\ Committed(p) # "nothing"
    BY <1>1 DEF Committed, Stages, ReturnPcs
  <2> QED BY <1>1, <2>1, <2>2, TearStep DEF CutOff
<1>2. CASE local[p].pc \notin ReturnPcs
  <2>1. Committed(p) = "nothing"
    BY <1>2 DEF Committed, ReturnPcs
  <2> QED BY <1>2, <2>1, EndQuiet DEF CutOff
<1> QED BY <1>1, <1>2

LEMMA FailStep ==
    ASSUME IInv, NEW p \in Process, Fail(p) PROVE IInv'
<1>1. faults' \in 0..MaxFaults
  BY CheckoutAssumption DEF Fail, IInv, Base, TypeOK
<1> QED BY <1>1, CutOffStep DEF Fail

LEMMA DeadlockStep ==
    ASSUME IInv, NEW p \in Process, NEW q \in Process, Deadlock(p, q) PROVE IInv'
BY CutOffStep, FaultsStay DEF Deadlock

LEMMA StutterStep ==
    ASSUME IInv, UNCHANGED vars PROVE IInv'
<1>1. UNCHANGED <<stock, coupon, points, orders, refunds, torn, faults, local>>
  BY DEF vars
<1>2. TypeOK' /\ Rows' /\ CancelledIsRefunded' /\ Working'
  BY <1>1 DEF IInv, Base, TypeOK, Rows, CancelledIsRefunded, Exists, Working
<1>3. Locks' /\ Numbered'
  BY <1>1, LocksSame, NumberedSame DEF IInv, Base
<1>4. StockAccounted'
  <2>1. ASSUME NEW s PROVE /\ Keepers(s)' = Keepers(s) /\ Returners(s)' = Returners(s)
                           /\ TornWith(s)' = TornWith(s)
    BY <1>1, KeepersSame DEF Returners, Returning, TornWith
  <2> QED BY <1>1, <2>1, AccountSame DEF IInv
<1>5. CouponServesOneOrder'
  BY <1>1 DEF IInv, CouponServesOneOrder, Keeps, Exists, TornOf, UsesCoupon
<1> QED BY <1>2, <1>3, <1>4, <1>5 DEF IInv, Base

-----------------------------------------------------------------------------
LEMMA InitIInv == ASSUME Init PROVE IInv
<1>1. \A o \in Orders : orders[o] = NewOrder /\ orders[o].status = "none" /\ ~orders[o].paid
                       /\ ~orders[o].cancelled
  BY DEF Init, NewOrder
<1>2. \A p \in Process : \E o \in Orders : local[p] = Idle(o) /\ (p \in Orders => o = p)
  <2>1. (CHOOSE o \in Orders : TRUE) \in Orders
    BY CheckoutAssumption
  <2> QED BY <2>1 DEF Init
<1>3. ASSUME NEW p \in Process
      PROVE  /\ local[p] \in LocalState /\ local[p].pc = "idle"
             /\ local[p].next = 1 /\ ~local[p].held
             /\ local[p].order \in Orders /\ (p \in Orders => local[p].order = p)
  <2>1. PICK o \in Orders : local[p] = Idle(o) /\ (p \in Orders => o = p)
    BY <1>2
  <2> QED BY <2>1, IdleFields
<1>4. TypeOK
  <2>1. orders \in [Orders -> Rec]
    BY DEF Init, NewOrder, Rec, Status
  <2>2. local \in [Process -> LocalState]
    <3>1. local = [p \in Process |-> local[p]]
      BY DEF Init
    <3> QED BY <1>3, <3>1
  <2>3. stock \in [Skus -> Nat] /\ points \in Nat /\ faults \in 0..MaxFaults
    BY CheckoutAssumption DEF Init
  <2>4. coupon \in CouponType
    BY DEF Init, CouponType
  <2>5. refunds \subseteq Orders /\ torn \subseteq Orders \X Nat \X Stages
    BY DEF Init
  <2> QED BY <2>1, <2>2, <2>3, <2>4, <2>5 DEF TypeOK, Rec, CouponType
<1>5. Rows /\ CancelledIsRefunded
  BY <1>1 DEF Rows, CancelledIsRefunded, Exists, Init
<1>6. Working
  BY <1>1, <1>3, Procs DEF Working, Exists, PaidPcs
<1>7. \A p \in Process : HeldSkus(p) = {}
  BY <1>3 DEF HeldSkus, Stocking
<1>8. Locks
  BY <1>3, <1>7, BasketRoom, Procs DEF Locks
<1>9. Numbered
  BY FS_EmptySet DEF Init, Numbered
<1>10. StockAccounted
  <2>1. ASSUME NEW s PROVE Keepers(s) = {} /\ Returners(s) = {} /\ TornWith(s) = {}
    BY <1>1, <1>3, Procs DEF Keepers, Keeps, Exists, Returners, Returning, TornWith, Init
  <2>2. \A s \in Skus : stock[s] = Stock /\ Stock \in Nat
    BY CheckoutAssumption DEF Init
  <2> QED BY <2>1, <2>2, FS_EmptySet DEF StockAccounted
<1>11. CouponServesOneOrder
  BY <1>1, CheckoutAssumption DEF CouponServesOneOrder, Keeps, Exists
<1> QED BY <1>4, <1>5, <1>6, <1>8, <1>9, <1>10, <1>11 DEF IInv, Base

LEMMA NextIInv == ASSUME IInv, [Next]_vars PROVE IInv'
<1>1. ASSUME NEW o \in Orders, CreateOrder(o) PROVE IInv'
  BY <1>1, CalculatePriceStep, TakeSkuStep, CommitCreateStep DEF CreateOrder
<1>2. ASSUME NEW o \in Orders, Pay(o) \/ Deliver(o) \/ Receive(o) PROVE IInv'
  BY <1>2, PayStep, DeliverStep
<1>3. ASSUME NEW w \in Workers, CancelOrder(w) PROVE IInv'
  BY <1>3, CancelReadStep, CancelUpdateStep, GiveBackSkuStep, CommitCancelStep DEF CancelOrder
<1>4. ASSUME NEW w \in Workers, CancelPaidOrder(w) PROVE IInv'
  BY <1>4, CancelPaidReadStep, CancelPaidUpdateStep, GiveBackSkuStep, CommitStockStep,
     ReturnCouponStep, ReturnPointStep, CreateRefundStep, CommitCancelPaidStep DEF CancelPaidOrder
<1>5. ASSUME NEW p \in Process, Fail(p) PROVE IInv'
  BY <1>5, FailStep
<1>6. ASSUME NEW p \in Process, NEW q \in Process, Deadlock(p, q) PROVE IInv'
  BY <1>6, DeadlockStep
<1> QED BY <1>1, <1>2, <1>3, <1>4, <1>5, <1>6, DeleteCouponStep, StutterStep DEF Next

THEOREM Invariant == Spec => []IInv
<1>1. Init => IInv
  BY InitIInv
<1>2. IInv /\ [Next]_vars => IInv'
  BY NextIInv
<1> QED BY <1>1, <1>2, PTL DEF Spec

(* Every row, request and counter keeps its type: in particular the stock    *)
(* never becomes negative, though each row is only checked when it is locked *)
(* (sku.go:372) and points are only deducted if they suffice (point.go:133). *)
THEOREM TypeCorrect == Spec => []TypeOK
<1>1. IInv => TypeOK
  BY DEF IInv, Base
<1> QED BY <1>1, Invariant, PTL

(* For every number of orders, requests and goods, no unit of stock is lost  *)
(* or sold twice but by cut-off paid cancellations (order_update.go:1513).   *)
THEOREM StockAccountedAlways == Spec => []StockAccounted
<1>1. IInv => StockAccounted
  BY DEF IInv
<1> QED BY <1>1, Invariant, PTL

(* Goods are never oversold, and every unit can be told where it is          *)
(* (order_update.go: CreateOrder, cancelUnpaidOrder, CancelPaidOrder).      *)
THEOREM GoodsAccountedAlways == Spec => []GoodsAccounted
BY TypeCorrect, StockAccountedAlways, PTL DEF GoodsAccounted

(* For every number of orders that want it, the member's coupon serves one   *)
(* order at a time (coupon_user.go:248).                                     *)
THEOREM CouponServesOneOrderAlways == Spec => []CouponServesOneOrder
<1>1. IInv => CouponServesOneOrder
  BY DEF IInv
<1> QED BY <1>1, Invariant, PTL

(* No order that was paid says it is cancelled before its refund exists,     *)
(* whatever is cut off in between (order_update.go:1458).                    *)
THEOREM CancelledIsRefundedAlways == Spec => []CancelledIsRefunded
<1>1. IInv => CancelledIsRefunded
  BY DEF IInv, Base
<1> QED BY <1>1, Invariant, PTL

-----------------------------------------------------------------------------
(* The account of the points: what the orders hold, what the cancellations   *)
(* that are about to ask for a refund have given back too early, and what    *)
(* those that were cut off there gave back for good.                         *)
PointsHeld == [o \in Orders |-> IF Keeps(o) THEN orders[o].point ELSE 0]
PointsDue == [w \in Workers |-> IF local[w].pc = "refund" THEN orders[local[w].order].point ELSE 0]
PointsTorn == [t \in torn |-> IF t[3] = "points" THEN orders[t[1]].point ELSE 0]

TotalHeld == SumFunctionOnSet(PointsHeld, Orders)
TotalDue == SumFunctionOnSet(PointsDue, Workers)
TotalTorn == SumFunctionOnSet(PointsTorn, torn)

Account == points + TotalHeld = Points + TotalDue + TotalTorn
TornPaid == \A t \in torn : orders[t[1]].paid

LEMMA RowsTyped ==
    ASSUME IInv
    PROVE  /\ IsFiniteSet(Orders) /\ IsFiniteSet(Workers) /\ IsFiniteSet(torn)
           /\ \A o \in Orders : orders[o].point \in Nat
           /\ \A w \in Workers : w \in Process /\ local[w].order \in Orders
           /\ \A t \in torn : t[1] \in Orders
           /\ points \in Nat /\ Points \in Nat
<1>1. TypeOK /\ IsFiniteSet(torn)
  BY DEF IInv, Base, Numbered
<1>2. \A o \in Orders : orders[o].point \in Nat
  BY <1>1, Typed, RowFields
<1>3. \A w \in Workers : w \in Process /\ local[w].order \in Orders
  BY <1>1, Typed, Fields, Procs
<1>4. \A t \in torn : t[1] \in Orders
  BY <1>1, Typed
<1> QED BY <1>1, <1>2, <1>3, <1>4, Typed, CheckoutAssumption

LEMMA PointsTyped ==
    ASSUME IInv
    PROVE  /\ \A o \in Orders : PointsHeld[o] \in Nat
           /\ \A w \in Workers : PointsDue[w] \in Nat
           /\ \A t \in torn : PointsTorn[t] \in Nat
           /\ TotalHeld \in Nat /\ TotalDue \in Nat /\ TotalTorn \in Nat
<1>1. \A o \in Orders : PointsHeld[o] \in Nat
  BY RowsTyped DEF PointsHeld
<1>2. ASSUME NEW w \in Workers PROVE PointsDue[w] \in Nat
  <2>1. orders[local[w].order].point \in Nat
    BY RowsTyped
  <2> QED BY <2>1 DEF PointsDue
<1>3. ASSUME NEW t \in torn PROVE PointsTorn[t] \in Nat
  <2>1. orders[t[1]].point \in Nat
    BY RowsTyped
  <2> QED BY <2>1 DEF PointsTorn
<1> QED BY <1>1, <1>2, <1>3, RowsTyped, SumIsNat DEF TotalHeld, TotalDue, TotalTorn

\* Orders that exist keep the points they were placed with.
PointsFixed == \A o \in Orders : orders[o].paid => orders'[o].paid /\ orders'[o].point = orders[o].point

LEMMA HeldSame ==
    ASSUME \A o \in Orders : PointsHeld'[o] = PointsHeld[o]
    PROVE  TotalHeld' = TotalHeld
<1>1. PointsHeld' = PointsHeld
  BY DEF PointsHeld
<1> QED BY <1>1 DEF TotalHeld

LEMMA DueSame ==
    ASSUME \A w \in Workers : PointsDue'[w] = PointsDue[w]
    PROVE  TotalDue' = TotalDue
<1>1. PointsDue' = PointsDue
  BY DEF PointsDue
<1> QED BY <1>1 DEF TotalDue

LEMMA TornSame ==
    ASSUME IInv, TornPaid, PointsFixed, torn' = torn
    PROVE  TornPaid' /\ TotalTorn' = TotalTorn
<1>1. \A t \in torn : /\ orders'[t[1]].paid /\ orders'[t[1]].point = orders[t[1]].point
  BY RowsTyped DEF TornPaid, PointsFixed
<1>2. PointsTorn' = PointsTorn
  BY <1>1 DEF PointsTorn
<1>3. TornPaid'
  BY <1>1 DEF TornPaid
<1> QED BY <1>2, <1>3 DEF TotalTorn

\* One order takes or releases its points.
LEMMA HeldTaken ==
    ASSUME IInv, NEW o \in Orders, NEW n \in Nat, PointsHeld[o] = 0, PointsHeld'[o] = n,
           \A q \in Orders \ {o} : PointsHeld[q] = PointsHeld'[q]
    PROVE  TotalHeld' = TotalHeld + n
<1>1. SumFunctionOnSet(PointsHeld', Orders) = SumFunctionOnSet(PointsHeld, Orders) + n
  BY RowsTyped, PointsTyped, SumGains
<1> QED BY <1>1 DEF TotalHeld

LEMMA HeldReleased ==
    ASSUME IInv, NEW o \in Orders, NEW n \in Nat, PointsHeld[o] = n, PointsHeld'[o] = 0,
           \A q \in Orders \ {o} : PointsHeld[q] = PointsHeld'[q]
    PROVE  TotalHeld' = TotalHeld + (-n)
<1>1. \A q \in Orders : PointsHeld'[q] \in Nat
  <2>1. \A q \in Orders \ {o} : PointsHeld'[q] \in Nat
    BY PointsTyped
  <2> QED BY <2>1
<1>2. SumFunctionOnSet(PointsHeld, Orders) = SumFunctionOnSet(PointsHeld', Orders) + n
  BY <1>1, RowsTyped, SumGains
<1>3. PICK h \in Nat : h = SumFunctionOnSet(PointsHeld', Orders)
  BY <1>1, RowsTyped, SumIsNat
<1> QED BY <1>2, <1>3 DEF TotalHeld

LEMMA DueTaken ==
    ASSUME IInv, NEW w \in Workers, NEW n \in Nat, PointsDue[w] = 0, PointsDue'[w] = n,
           \A v \in Workers \ {w} : PointsDue[v] = PointsDue'[v]
    PROVE  TotalDue' = TotalDue + n
<1>1. SumFunctionOnSet(PointsDue', Workers) = SumFunctionOnSet(PointsDue, Workers) + n
  BY RowsTyped, PointsTyped, SumGains
<1> QED BY <1>1 DEF TotalDue

LEMMA DueReleased ==
    ASSUME IInv, NEW w \in Workers, NEW n \in Nat, PointsDue[w] = n, PointsDue'[w] = 0,
           \A v \in Workers \ {w} : PointsDue[v] = PointsDue'[v]
    PROVE  TotalDue' = TotalDue + (-n)
<1>1. \A v \in Workers : PointsDue'[v] \in Nat
  <2>1. \A v \in Workers \ {w} : PointsDue'[v] \in Nat
    BY PointsTyped
  <2> QED BY <2>1
<1>2. SumFunctionOnSet(PointsDue, Workers) = SumFunctionOnSet(PointsDue', Workers) + n
  BY <1>1, RowsTyped, SumGains
<1>3. PICK d \in Nat : d = SumFunctionOnSet(PointsDue', Workers)
  BY <1>1, RowsTyped, SumIsNat
<1> QED BY <1>2, <1>3 DEF TotalDue

LEMMA TornTaken ==
    ASSUME IInv, TornPaid, UNCHANGED orders, NEW o \in Orders, orders[o].paid,
           NEW t, t \notin torn, torn' = torn \cup {t}, t[1] = o, NEW n \in Nat,
           n = IF t[3] = "points" THEN orders[o].point ELSE 0
    PROVE  TornPaid' /\ TotalTorn' = TotalTorn + n
<1>1. TornPaid'
  BY DEF TornPaid
<1>2. \A u \in torn : PointsTorn'[u] = PointsTorn[u]
  BY DEF PointsTorn
<1>3. PointsTorn'[t] = n
  BY DEF PointsTorn
<1>4. \A u \in torn \cup {t} : PointsTorn'[u] \in Int
  <2>1. ASSUME NEW u \in torn PROVE PointsTorn'[u] \in Int
    <3>1. PICK k \in Nat : k = PointsTorn[u]
      BY PointsTyped
    <3> QED BY <1>2, <3>1
  <2> QED BY <1>3, <2>1
<1>5. SumFunctionOnSet(PointsTorn', torn \cup {t}) = PointsTorn'[t] + SumFunctionOnSet(PointsTorn', torn)
  BY <1>4, RowsTyped, SumAdd
<1>6. SumFunctionOnSet(PointsTorn', torn) = SumFunctionOnSet(PointsTorn, torn)
  BY <1>2, RowsTyped, SumSame
<1>7. TotalTorn' = n + TotalTorn
  BY <1>3, <1>5, <1>6 DEF TotalTorn
<1>8. TotalTorn \in Nat
  BY PointsTyped
<1> QED BY <1>1, <1>7, <1>8

-----------------------------------------------------------------------------
(* The account after each step. *)
Settled == Account /\ TornPaid

LEMMA AccountOf ==
    ASSUME IInv, Settled, TornPaid',
           NEW i \in Int, NEW j \in Int, NEW k \in Int, NEW n \in Int,
           points' = points + i, TotalHeld' = TotalHeld + j,
           TotalDue' = TotalDue + k, TotalTorn' = TotalTorn + n, i + j = k + n
    PROVE  Settled'
<1>1. /\ points \in Nat /\ Points \in Nat /\ TotalHeld \in Nat /\ TotalDue \in Nat /\ TotalTorn \in Nat
  BY RowsTyped, PointsTyped
<1>2. points + TotalHeld = Points + TotalDue + TotalTorn
  BY DEF Settled, Account
<1>3. (points + i) + (TotalHeld + j) = Points + (TotalDue + k) + (TotalTorn + n)
  BY <1>1, <1>2
<1> QED BY <1>3 DEF Settled, Account

LEMMA AccountStays ==
    ASSUME IInv, Settled, PointsFixed, UNCHANGED <<points, torn>>,
           \A o \in Orders : PointsHeld'[o] = PointsHeld[o],
           \A w \in Workers : PointsDue'[w] = PointsDue[w]
    PROVE  Settled'
<1>1. TornPaid' /\ TotalTorn' = TotalTorn /\ TotalHeld' = TotalHeld /\ TotalDue' = TotalDue
  BY TornSame, HeldSame, DueSame DEF Settled
<1> QED BY <1>1 DEF Settled, Account

\* A request moves on, away from the refund.
LEMMA DueOf ==
    ASSUME NEW p \in Process, NEW pc, NEW order, NEW next, NEW held,
           Moves(p, pc, order, next, held), UNCHANGED orders
    PROVE  /\ \A w \in Workers \ {p} : PointsDue[w] = PointsDue'[w]
           /\ p \in Workers => /\ PointsDue[p] = IF local[p].pc = "refund"
                                                 THEN orders[local[p].order].point ELSE 0
                               /\ PointsDue'[p] = IF pc = "refund" THEN orders[order].point ELSE 0
<1>1. \A w \in Workers \ {p} : local'[w] = local[w]
  BY Procs DEF Moves
<1>2. local'[p].pc = pc /\ local'[p].order = order
  BY DEF Moves
<1> QED BY <1>1, <1>2 DEF PointsDue

LEMMA LocalStep ==
    ASSUME IInv, Settled, NEW p \in Process, NEW pc, NEW order, NEW next, NEW held,
           Moves(p, pc, order, next, held), pc # "refund", local[p].pc # "refund",
           UNCHANGED <<points, orders, refunds, torn>>
    PROVE  Settled'
<1>1. \A w \in Workers : PointsDue'[w] = PointsDue[w]
  BY DueOf
<1>2. \A o \in Orders : PointsHeld'[o] = PointsHeld[o]
  BY DEF PointsHeld, Keeps, Exists
<1> QED BY <1>1, <1>2, AccountStays DEF PointsFixed

\* A row is written that holds its points as before.
LEMMA RowStep ==
    ASSUME IInv, Settled, NEW o \in Orders, NEW r, orders' = [orders EXCEPT ![o] = r],
           orders[o].paid => r.paid, r.point = orders[o].point,
           Keeps(o)' <=> Keeps(o), UNCHANGED <<points, refunds, torn>>,
           \A w \in Workers : \/ local'[w] = local[w]
                              \/ local'[w].pc # "refund" /\ local[w].pc # "refund"
    PROVE  Settled'
<1>1. orders \in [Orders -> Rec]
  BY Typed DEF IInv, Base
<1>2. orders'[o] = r /\ \A q \in Orders : q # o => orders'[q] = orders[q]
  BY <1>1
<1>3. \A q \in Orders : orders'[q].point = orders[q].point /\ (orders[q].paid => orders'[q].paid)
  BY <1>2
<1>4. \A q \in Orders : Keeps(q)' <=> Keeps(q)
  BY <1>2 DEF Keeps, Exists
<1>5. \A q \in Orders : PointsHeld'[q] = PointsHeld[q]
  BY <1>3, <1>4 DEF PointsHeld
<1>6. \A w \in Workers : PointsDue'[w] = PointsDue[w]
  BY <1>3, RowsTyped DEF PointsDue
<1> QED BY <1>3, <1>5, <1>6, AccountStays DEF PointsFixed

-----------------------------------------------------------------------------
LEMMA EndSettled ==
    ASSUME IInv, Settled, NEW p \in Process, End(p), local[p].pc # "refund",
           UNCHANGED <<points, orders, refunds, torn>>
    PROVE  Settled'
<1>1. Moves(p, "idle", local[p].order, 1, FALSE)
  BY EndMoves DEF IInv, Base
<1> QED BY <1>1, LocalStep

\* Cut off after `part': only what gave points back is counted.
LEMMA TearSettled ==
    ASSUME IInv, Settled, NEW w \in Workers, local[w].pc \in ReturnPcs, NEW part \in Stages,
           local[w].pc = "refund" <=> part = "points",
           Tear(w, part), End(w), UNCHANGED <<points, orders, refunds>>
    PROVE  Settled'
<1>1. PICK o \in Orders : o = local[w].order /\ orders[o].paid
  BY PaidExists DEF PaidPcs, ReturnPcs
<1>2. w \in Process
  BY Procs
<1>3. PICK t : t \notin torn /\ torn' = torn \cup {t} /\ t[1] = o /\ t[3] = part
  BY <1>1, <1>2, TearAdds DEF IInv, Base
<1>4. PICK n \in Nat : n = IF part = "points" THEN orders[o].point ELSE 0
  BY RowsTyped
<1>5. TornPaid' /\ TotalTorn' = TotalTorn + n
  BY <1>1, <1>3, <1>4, TornTaken DEF Settled
<1>6. Moves(w, "idle", o, 1, FALSE)
  BY <1>1, <1>2, EndMoves DEF IInv, Base
<1>7. /\ \A v \in Workers \ {w} : PointsDue[v] = PointsDue'[v]
      /\ PointsDue[w] = n /\ PointsDue'[w] = 0
  BY <1>1, <1>2, <1>4, <1>6, DueOf
<1>8. TotalDue' = TotalDue + (-n)
  BY <1>7, DueReleased
<1>9. TotalHeld' = TotalHeld
  <2>1. \A q \in Orders : PointsHeld'[q] = PointsHeld[q]
    BY DEF PointsHeld, Keeps, Exists
  <2> QED BY <2>1, HeldSame
<1>10. points' = points + 0 /\ TotalHeld' = TotalHeld + 0 /\ 0 + 0 = (-n) + n /\ -n \in Int
  BY <1>9, RowsTyped, PointsTyped
<1> QED BY <1>5, <1>8, <1>10, AccountOf

LEMMA CommitCreateSettled ==
    ASSUME IInv, Settled, NEW o \in Orders, CommitCreate(o)
    PROVE  Settled'
<1>1. /\ local[o].pc = "take" /\ End(o) /\ o \in Process /\ o \notin Workers
      /\ UNCHANGED <<refunds, torn>>
  BY Procs DEF CommitCreate
<1>2. ~Exists(o) /\ orders[o] = NewOrder
  BY <1>1 DEF IInv, Base, Working, Rows
<1>3. CASE UNCHANGED <<stock, coupon, points, orders>>
  BY <1>1, <1>3, EndSettled
<1>4. CASE /\ points' = points - local[o].point
           /\ orders' = [orders EXCEPT ![o].status = "unpaid", ![o].point = local[o].point]
  <2>1. PICK n \in Nat : n = local[o].point
    BY <1>1, Typed, Fields DEF IInv, Base
  <2> DEFINE r == [orders[o] EXCEPT !.status = "unpaid", !.point = n]
  <2>2. r.status = "unpaid" /\ r.point = n /\ ~r.cancelled
    BY <1>2 DEF NewOrder
  <2>3. orders' = [orders EXCEPT ![o] = r]
    BY <1>4, <2>1
  <2> HIDE DEF r
  <2>4. orders \in [Orders -> Rec]
    BY Typed DEF IInv, Base
  <2>5. orders'[o] = r /\ \A q \in Orders : q # o => orders'[q] = orders[q]
    BY <2>3, <2>4
  <2>6. ~orders[o].paid /\ o \notin refunds
    BY <1>2 DEF NewOrder, IInv, Base, Rows
  <2>7. Keeps(o)' /\ ~Keeps(o)
    BY <1>1, <1>2, <2>2, <2>5, <2>6 DEF Keeps, Exists
  <2>8. PointsHeld[o] = 0 /\ PointsHeld'[o] = n
    BY <2>2, <2>5, <2>7 DEF PointsHeld
  <2>9. \A q \in Orders \ {o} : PointsHeld[q] = PointsHeld'[q]
    BY <1>1, <2>5 DEF PointsHeld, Keeps, Exists
  <2>10. TotalHeld' = TotalHeld + n
    BY <2>8, <2>9, HeldTaken
  <2>11. ASSUME NEW w \in Workers PROVE PointsDue'[w] = PointsDue[w]
    <3>1. local'[w] = local[w]
      BY <1>1, EndMoves, Procs DEF Moves, IInv, Base
    <3>2. CASE local[w].pc = "refund"
      <4>1. orders[local[w].order].paid /\ local[w].order \in Orders
        BY <3>2, PaidExists DEF PaidPcs
      <4> QED BY <2>5, <2>6, <3>1, <4>1 DEF PointsDue
    <3> QED BY <3>1, <3>2 DEF PointsDue
  <2>12. TotalDue' = TotalDue
    BY <2>11, DueSame
  <2>13. TornPaid' /\ TotalTorn' = TotalTorn
    <3>1. PointsFixed
      BY <2>5, <2>6 DEF PointsFixed
    <3> QED BY <1>1, <3>1, TornSame DEF Settled
  <2>14. /\ points' = points + (-n) /\ TotalDue' = TotalDue + 0 /\ TotalTorn' = TotalTorn + 0
         /\ (-n) + n = 0 + 0 /\ -n \in Int
    BY <1>4, <2>1, <2>12, <2>13, RowsTyped, PointsTyped
  <2> QED BY <2>10, <2>13, <2>14, AccountOf
<1> QED BY <1>3, <1>4 DEF CommitCreate

LEMMA CommitCancelSettled ==
    ASSUME IInv, Settled, NEW w \in Workers, CommitCancel(w)
    PROVE  Settled'
<1>1. /\ local[w].pc = "giveBack" /\ End(w) /\ w \in Process /\ UNCHANGED <<refunds, torn>>
  BY Procs DEF CommitCancel
<1>2. PICK o \in Orders : o = local[w].order
  BY RowsTyped
<1>3. CASE UNCHANGED <<stock, coupon, points, orders>>
  BY <1>1, <1>3, EndSettled
<1>4. CASE /\ points' = PointsBack(o)
           /\ orders' = [orders EXCEPT ![o].status = "canceled", ![o].cancelled = TRUE]
  <2>1. PICK n \in Nat : n = orders[o].point
    BY RowsTyped
  <2> DEFINE r == [orders[o] EXCEPT !.status = "canceled", !.cancelled = TRUE]
  <2>2. orders \in [Orders -> Rec] /\ orders[o] \in Rec
    BY Typed DEF IInv, Base
  <2>3. r.cancelled /\ r.point = n
    BY <2>1, <2>2 DEF Rec
  <2>4. orders' = [orders EXCEPT ![o] = r]
    BY <1>4
  <2> HIDE DEF r
  <2>5. orders'[o] = r /\ \A q \in Orders : q # o => orders'[q] = orders[q]
    BY <2>2, <2>4
  <2>6. /\ orders[o].status = "unpaid" /\ Exists(o)
        /\ ~orders[o].paid /\ ~orders[o].cancelled /\ o \notin refunds
    BY <1>1, <1>2 DEF IInv, Base, Working, Rows, Exists
  <2>7. PointsHeld[o] = n /\ PointsHeld'[o] = 0
    BY <2>1, <2>3, <2>5, <2>6 DEF PointsHeld, Keeps
  <2>8. \A q \in Orders \ {o} : PointsHeld[q] = PointsHeld'[q]
    BY <1>1, <2>5 DEF PointsHeld, Keeps, Exists
  <2>9. TotalHeld' = TotalHeld + (-n)
    BY <2>7, <2>8, HeldReleased
  <2>10. ASSUME NEW v \in Workers PROVE PointsDue'[v] = PointsDue[v]
    <3>1. CASE v = w
      <4>1. local'[w].pc = "idle"
        BY <1>1, EndMoves DEF Moves, IInv, Base
      <4> QED BY <1>1, <3>1, <4>1 DEF PointsDue
    <3>2. CASE v # w
      <4>1. local'[v] = local[v]
        BY <1>1, <3>2, EndMoves, Procs DEF Moves, IInv, Base
      <4>2. CASE local[v].pc = "refund"
        <5>1. orders[local[v].order].paid /\ local[v].order \in Orders
          BY <4>2, PaidExists DEF PaidPcs
        <5> QED BY <2>5, <2>6, <4>1, <5>1 DEF PointsDue
      <4> QED BY <4>1, <4>2 DEF PointsDue
    <3> QED BY <3>1, <3>2
  <2>11. TotalDue' = TotalDue
    BY <2>10, DueSame
  <2>12. TornPaid' /\ TotalTorn' = TotalTorn
    <3>1. PointsFixed
      BY <2>5, <2>6 DEF PointsFixed
    <3> QED BY <1>1, <3>1, TornSame DEF Settled
  <2>13. /\ points' = points + n /\ TotalDue' = TotalDue + 0 /\ TotalTorn' = TotalTorn + 0
         /\ n + (-n) = 0 + 0 /\ -n \in Int
    BY <1>4, <2>1, <2>11, <2>12, RowsTyped, PointsTyped DEF PointsBack
  <2> QED BY <2>9, <2>12, <2>13, AccountOf
<1> QED BY <1>2, <1>3, <1>4 DEF CommitCancel

LEMMA ReturnPointSettled ==
    ASSUME IInv, Settled, NEW w \in Workers, ReturnPoint(w)
    PROVE  Settled'
<1>1. /\ local[w].pc = "returnPoint" /\ points' = PointsBack(local[w].order)
      /\ Advance(w, "refund") /\ w \in Process /\ "refund" \in PCs
      /\ UNCHANGED <<orders, refunds, torn>>
  BY Procs DEF ReturnPoint, AfterPoints, PCs
<1>2. PICK o \in Orders : o = local[w].order
  BY RowsTyped
<1>3. PICK n \in Nat : n = orders[o].point
  BY RowsTyped
<1>4. Moves(w, "refund", o, local[w].next, local[w].held)
  BY <1>1, <1>2, AdvanceMoves DEF IInv, Base
<1>5. /\ \A v \in Workers \ {w} : PointsDue[v] = PointsDue'[v]
      /\ PointsDue[w] = 0 /\ PointsDue'[w] = n
  BY <1>1, <1>2, <1>3, <1>4, DueOf
<1>6. TotalDue' = TotalDue + n
  BY <1>5, DueTaken
<1>7. TotalHeld' = TotalHeld
  <2>1. \A q \in Orders : PointsHeld'[q] = PointsHeld[q]
    BY <1>1 DEF PointsHeld, Keeps, Exists
  <2> QED BY <2>1, HeldSame
<1>8. TornPaid' /\ TotalTorn' = TotalTorn
  <2>1. PointsFixed
    BY <1>1 DEF PointsFixed
  <2> QED BY <1>1, <2>1, TornSame DEF Settled
<1>9. /\ points' = points + n /\ TotalHeld' = TotalHeld + 0 /\ TotalTorn' = TotalTorn + 0
      /\ n + 0 = n + 0
  BY <1>1, <1>2, <1>3, <1>7, <1>8, RowsTyped, PointsTyped DEF PointsBack
<1> QED BY <1>6, <1>8, <1>9, AccountOf

LEMMA CreateRefundSettled ==
    ASSUME IInv, Settled, NEW w \in Workers, CreateRefund(w)
    PROVE  Settled'
<1>1. local[w].pc = "refund" /\ w \in Process /\ UNCHANGED <<points, orders>>
  BY Procs DEF CreateRefund
<1>2. PICK o \in Orders : o = local[w].order
  BY RowsTyped
<1>3. CASE o \notin refunds /\ refunds' = refunds \cup {o} /\ Advance(w, "commitPaid") /\ UNCHANGED torn
  <2>1. PICK n \in Nat : n = orders[o].point
    BY RowsTyped
  <2>2. Keeps(o) /\ ~Keeps(o)' /\ \A q \in Orders \ {o} : Keeps(q)' <=> Keeps(q)
    BY <1>1, <1>2, <1>3, PaidExists DEF PaidPcs, Keeps, Exists
  <2>3. /\ PointsHeld[o] = n /\ PointsHeld'[o] = 0
        /\ \A q \in Orders \ {o} : PointsHeld[q] = PointsHeld'[q]
    BY <1>1, <2>1, <2>2 DEF PointsHeld
  <2>4. TotalHeld' = TotalHeld + (-n)
    BY <2>3, HeldReleased
  <2>5. Moves(w, "commitPaid", o, local[w].next, local[w].held)
    BY <1>1, <1>2, <1>3, AdvanceMoves DEF IInv, Base, PCs
  <2>6. /\ \A v \in Workers \ {w} : PointsDue[v] = PointsDue'[v]
        /\ PointsDue[w] = n /\ PointsDue'[w] = 0
    BY <1>1, <1>2, <2>1, <2>5, DueOf
  <2>7. TotalDue' = TotalDue + (-n)
    BY <2>6, DueReleased
  <2>8. TornPaid' /\ TotalTorn' = TotalTorn
    <3>1. PointsFixed
      BY <1>1 DEF PointsFixed
    <3> QED BY <1>3, <3>1, TornSame DEF Settled
  <2>9. /\ points' = points + 0 /\ TotalTorn' = TotalTorn + 0 /\ 0 + (-n) = (-n) + 0 /\ -n \in Int
    BY <1>1, <2>8, RowsTyped, PointsTyped
  <2> QED BY <2>4, <2>7, <2>8, <2>9, AccountOf
<1>4. CASE Tear(w, "points") /\ End(w) /\ UNCHANGED refunds
  BY <1>1, <1>4, TearSettled DEF ReturnPcs, Stages
<1> QED BY <1>2, <1>3, <1>4 DEF CreateRefund

LEMMA CommitCancelPaidSettled ==
    ASSUME IInv, Settled, NEW w \in Workers, CommitCancelPaid(w)
    PROVE  Settled'
<1>1. /\ local[w].pc = "commitPaid" /\ End(w) /\ w \in Process
      /\ UNCHANGED <<points, refunds, torn>>
  BY Procs DEF CommitCancelPaid
<1>2. PICK o \in Orders : o = local[w].order
  BY RowsTyped
<1>3. CASE UNCHANGED orders
  BY <1>1, <1>3, EndSettled
<1>4. CASE orders' = [orders EXCEPT ![o].status = "canceled", ![o].cancelled = TRUE]
  <2> DEFINE r == [orders[o] EXCEPT !.status = "canceled", !.cancelled = TRUE]
  <2>1. orders \in [Orders -> Rec] /\ orders[o] \in Rec
    BY Typed DEF IInv, Base
  <2>2. r.paid = orders[o].paid /\ r.point = orders[o].point
    BY <2>1 DEF Rec
  <2>3. orders' = [orders EXCEPT ![o] = r]
    BY <1>4
  <2> HIDE DEF r
  <2>4. o \in refunds
    BY <1>1, <1>2 DEF IInv, Base, Working
  <2>5. Keeps(o)' <=> Keeps(o)
    BY <1>1, <2>4 DEF Keeps
  <2>6. \A v \in Workers : \/ local'[v] = local[v]
                           \/ local'[v].pc # "refund" /\ local[v].pc # "refund"
    BY <1>1, EndMoves, Procs DEF Moves, IInv, Base
  <2> QED BY <1>1, <2>2, <2>3, <2>5, <2>6, RowStep
<1> QED BY <1>2, <1>3, <1>4 DEF CommitCancelPaid

LEMMA RowSettled ==
    ASSUME IInv, Settled, NEW o \in Orders, Pay(o) \/ Deliver(o) \/ Receive(o)
    PROVE  Settled'
<1>1. orders \in [Orders -> Rec] /\ orders[o] \in Rec
  BY Typed DEF IInv, Base
<1>2. ASSUME NEW r, orders' = [orders EXCEPT ![o] = r], orders[o].status # "none", r.status # "none",
             r.cancelled = orders[o].cancelled, r.point = orders[o].point, orders[o].paid => r.paid,
             UNCHANGED <<points, refunds, torn, local>>
      PROVE  Settled'
  <2>1. orders'[o] = r
    BY <1>1, <1>2
  <2>2. Keeps(o)' <=> Keeps(o)
    BY <1>2, <2>1 DEF Keeps, Exists
  <2> QED BY <1>2, <2>2, RowStep
<1>3. CASE Pay(o)
  <2> DEFINE r == [orders[o] EXCEPT !.status = "undelivered", !.paid = TRUE]
  <2>1. r.status # "none" /\ r.cancelled = orders[o].cancelled /\ r.point = orders[o].point /\ r.paid
    BY <1>1 DEF Rec
  <2>2. /\ orders' = [orders EXCEPT ![o] = r] /\ orders[o].status # "none"
        /\ UNCHANGED <<points, refunds, torn, local>>
    BY <1>3 DEF Pay
  <2> HIDE DEF r
  <2> QED BY <1>2, <2>1, <2>2
<1>4. ASSUME NEW st, st # "none", orders' = [orders EXCEPT ![o].status = st], orders[o].status # "none",
             UNCHANGED <<points, refunds, torn, local>>
      PROVE  Settled'
  <2> DEFINE r == [orders[o] EXCEPT !.status = st]
  <2>1. /\ r.status # "none" /\ r.cancelled = orders[o].cancelled /\ r.point = orders[o].point
        /\ r.paid = orders[o].paid
    BY <1>1, <1>4 DEF Rec
  <2>2. orders' = [orders EXCEPT ![o] = r]
    BY <1>4
  <2> HIDE DEF r
  <2> QED BY <1>2, <1>4, <2>1, <2>2
<1>5. CASE Deliver(o)
  BY <1>4, <1>5 DEF Deliver, Exists
<1>6. CASE Receive(o)
  BY <1>4, <1>6 DEF Receive
<1> QED BY <1>3, <1>5, <1>6

LEMMA CutOffSettled ==
    ASSUME IInv, Settled, NEW p \in Process, CutOff(p), UNCHANGED <<points, orders, refunds>>
    PROVE  Settled'
<1>1. CASE local[p].pc \in ReturnPcs
  <2>1. p \in Workers
    BY <1>1 DEF IInv, Base, Working, Process, ReturnPcs
  <2>2. /\ Committed(p) \in Stages /\ Committed(p) # "nothing"
        /\ local[p].pc = "refund" <=> Committed(p) = "points"
    BY <1>1 DEF Committed, Stages, ReturnPcs
  <2> QED BY <1>1, <2>1, <2>2, TearSettled DEF CutOff
<1>2. CASE local[p].pc \notin ReturnPcs
  <2>1. Committed(p) = "nothing"
    BY <1>2 DEF Committed, ReturnPcs
  <2> QED BY <1>2, <2>1, EndSettled DEF CutOff, ReturnPcs
<1> QED BY <1>1, <1>2

LEMMA CreateSettled ==
    ASSUME IInv, Settled, NEW o \in Orders, CreateOrder(o)
    PROVE  Settled'
<1>1. CASE CalculatePrice(o)
  <2>1. /\ local[o].pc = "idle" /\ o \in Process /\ UNCHANGED <<points, orders, refunds, torn>>
    BY <1>1, Procs DEF CalculatePrice
  <2>2. PICK n \in 0..points : Goto(o, [Idle(o) EXCEPT !.pc = "take", !.point = n])
    BY <1>1 DEF CalculatePrice
  <2>3. n \in Nat
    OBVIOUS
  <2>4. Moves(o, "take", o, 1, FALSE)
    BY <2>1, <2>2, <2>3, StartMoves DEF IInv, Base
  <2> QED BY <2>1, <2>4, LocalStep
<1>2. CASE TakeSku(o)
  <2>1. /\ local[o].pc = "take" /\ o \in Process /\ UNCHANGED <<points, orders, refunds, torn>>
    BY <1>2, Procs DEF TakeSku
  <2>2. CASE Goto(o, [local[o] EXCEPT !.next = @ + 1])
    BY <2>1, <2>2, NextMoves, LocalStep DEF IInv, Base
  <2>3. CASE End(o)
    BY <2>1, <2>3, EndSettled
  <2> QED BY <1>2, <2>2, <2>3 DEF TakeSku
<1> QED BY <1>1, <1>2, CommitCreateSettled DEF CreateOrder

LEMMA CancelSettled ==
    ASSUME IInv, Settled, NEW w \in Workers, CancelOrder(w)
    PROVE  Settled'
<1>0. w \in Process
  BY Procs
<1>1. ASSUME NEW o \in Orders, CancelRead(w, o) PROVE Settled'
  <2>1. local[w].pc = "idle" /\ UNCHANGED <<points, orders, refunds, torn>>
    BY <1>1 DEF CancelRead
  <2>2. Moves(w, "cancel", o, 1, FALSE)
    BY <1>0, <1>1, StartMoves DEF CancelRead, IInv, Base
  <2> QED BY <1>0, <2>1, <2>2, LocalStep
<1>2. CASE CancelUpdate(w)
  <2>1. local[w].pc = "cancel" /\ UNCHANGED <<points, orders, refunds, torn>> /\ "giveBack" \in PCs
    BY <1>2 DEF CancelUpdate, PCs
  <2>2. CASE Goto(w, [local[w] EXCEPT !.pc = "giveBack", !.held = TRUE])
    <3>1. Moves(w, "giveBack", local[w].order, local[w].next, TRUE)
      BY <1>0, <2>1, <2>2, HoldMoves DEF IInv, Base
    <3> QED BY <1>0, <2>1, <3>1, LocalStep
  <2>3. CASE End(w)
    BY <1>0, <2>1, <2>3, EndSettled
  <2> QED BY <1>2, <2>2, <2>3 DEF CancelUpdate
<1>3. CASE GiveBackSku(w)
  <2>1. local[w].pc = "giveBack" /\ UNCHANGED <<points, orders, refunds, torn>>
    BY <1>3 DEF GiveBackSku
  <2>2. Moves(w, "giveBack", local[w].order, local[w].next + 1, local[w].held)
    BY <1>0, <1>3, <2>1, NextMoves DEF GiveBackSku, IInv, Base
  <2> QED BY <1>0, <2>1, <2>2, LocalStep
<1> QED BY <1>1, <1>2, <1>3, CommitCancelSettled DEF CancelOrder

LEMMA CancelPaidSettled ==
    ASSUME IInv, Settled, NEW w \in Workers, CancelPaidOrder(w)
    PROVE  Settled'
<1>0. w \in Process /\ {"returnStock", "returnCoupon", "returnPoint"} \subseteq PCs
  BY Procs DEF PCs
<1>1. ASSUME NEW o \in Orders, CancelPaidRead(w, o) PROVE Settled'
  <2>1. local[w].pc = "idle" /\ UNCHANGED <<points, orders, refunds, torn>>
    BY <1>1 DEF CancelPaidRead
  <2>2. orders[o].status \in Status
    BY Typed, RowFields DEF IInv, Base
  <2>3. Moves(w, "cancelPaid", o, 1, FALSE)
    BY <1>0, <1>1, <2>2, StartMoves DEF CancelPaidRead, IInv, Base
  <2> QED BY <1>0, <2>1, <2>3, LocalStep
<1>2. CASE CancelPaidUpdate(w)
  <2> DEFINE held == orders[local[w].order].status = local[w].seen
  <2>1. local[w].pc = "cancelPaid" /\ UNCHANGED <<points, orders, refunds, torn>>
    BY <1>2 DEF CancelPaidUpdate
  <2>2. Goto(w, [local[w] EXCEPT !.pc = "returnStock", !.held = held]) /\ held \in BOOLEAN
    BY <1>2 DEF CancelPaidUpdate
  <2> HIDE DEF held
  <2>3. Moves(w, "returnStock", local[w].order, local[w].next, held)
    BY <1>0, <2>2, HoldMoves DEF IInv, Base
  <2> QED BY <1>0, <2>1, <2>3, LocalStep
<1>3. CASE ReturnSku(w)
  <2>1. local[w].pc = "returnStock" /\ UNCHANGED <<points, orders, refunds, torn>>
    BY <1>3 DEF ReturnSku
  <2>2. Moves(w, "returnStock", local[w].order, local[w].next + 1, local[w].held)
    BY <1>0, <1>3, <2>1, NextMoves DEF ReturnSku, IInv, Base
  <2> QED BY <1>0, <2>1, <2>2, LocalStep
<1>4. CASE CommitStock(w)
  <2>1. local[w].pc = "returnStock" /\ UNCHANGED <<points, orders, refunds, torn>>
    BY <1>4 DEF CommitStock
  <2>2. Moves(w, "returnCoupon", local[w].order, local[w].next, local[w].held)
    BY <1>0, <1>4, AdvanceMoves DEF CommitStock, IInv, Base
  <2> QED BY <1>0, <2>1, <2>2, LocalStep
<1>5. CASE ReturnCoupon(w)
  <2>1. local[w].pc = "returnCoupon" /\ UNCHANGED <<points, orders, refunds>>
    BY <1>5 DEF ReturnCoupon
  <2>2. CASE Advance(w, "returnPoint") /\ UNCHANGED torn
    <3>1. Moves(w, "returnPoint", local[w].order, local[w].next, local[w].held)
      BY <1>0, <2>2, AdvanceMoves DEF IInv, Base
    <3> QED BY <1>0, <2>1, <2>2, <3>1, LocalStep
  <2>3. CASE Tear(w, "stock") /\ End(w)
    BY <2>1, <2>3, TearSettled DEF ReturnPcs, Stages
  <2> QED BY <1>5, <2>2, <2>3 DEF ReturnCoupon
<1> QED BY <1>1, <1>2, <1>3, <1>4, <1>5, ReturnPointSettled, CreateRefundSettled,
           CommitCancelPaidSettled DEF CancelPaidOrder

LEMMA NextSettled == ASSUME IInv, Settled, [Next]_vars PROVE Settled'
<1>1. CASE DeleteCoupon \/ UNCHANGED vars
  <2>1. UNCHANGED <<points, orders, refunds, torn, local>>
    BY <1>1 DEF DeleteCoupon, vars
  <2>2. /\ \A o \in Orders : PointsHeld'[o] = PointsHeld[o]
        /\ \A w \in Workers : PointsDue'[w] = PointsDue[w]
    BY <2>1 DEF PointsHeld, PointsDue, Keeps, Exists
  <2> QED BY <2>1, <2>2, AccountStays DEF PointsFixed
<1>2. ASSUME NEW p \in Process, NEW q \in Process, Fail(p) \/ Deadlock(p, q) PROVE Settled'
  BY <1>2, CutOffSettled DEF Fail, Deadlock
<1> QED BY <1>1, <1>2, CreateSettled, RowSettled, CancelSettled, CancelPaidSettled DEF Next

(* Points are neither lost nor spent twice, for every number of orders       *)
(* priced with the same balance (point.go:133); what a cut-off paid          *)
(* cancellation gives back too often is all there is too much.              *)
THEOREM PointsAccountedAlways == Spec => []PointsAccounted
<1>1. Init => Settled
  <2> SUFFICES ASSUME Init PROVE Settled
    OBVIOUS
  <2>1. IInv
    BY InitIInv
  <2>2. \A o \in Orders : PointsHeld[o] = 0
    BY DEF Init, NewOrder, PointsHeld, Keeps, Exists
  <2>3. \A w \in Workers : PointsDue[w] = 0
    BY Procs, IdleFields, CheckoutAssumption DEF Init, PointsDue, Idle
  <2>4. torn = {} /\ points = Points
    BY DEF Init
  <2>5. TotalHeld = 0 /\ TotalDue = 0
    BY <2>1, <2>2, <2>3, RowsTyped, SumOfZeros DEF TotalHeld, TotalDue
  <2>6. TotalTorn = 0
    BY <2>4, SumEmpty DEF TotalTorn
  <2>7. Account
    BY <2>1, <2>4, <2>5, <2>6, RowsTyped DEF Account
  <2> QED BY <2>4, <2>7 DEF Settled, TornPaid
<1>2. IInv /\ Settled /\ [Next]_vars => Settled'
  BY NextSettled
<1>3. IInv /\ Settled => PointsAccounted
  <2> SUFFICES ASSUME IInv, Settled PROVE PointsAccounted
    OBVIOUS
  <2> DEFINE held == [o \in Orders |-> orders[o].point]
             due == [w \in Workers |-> orders[local[w].order].point]
             cut == [t \in torn |-> orders[t[1]].point]
             H == {o \in Orders : Keeps(o)}
             D == {w \in Workers : local[w].pc = "refund"}
             C == {t \in torn : t[3] = "points"}
  <2>1. SumFunctionOnSet(held, H) = TotalHeld
    <3>1. /\ \A o \in H : held[o] \in Int /\ PointsHeld[o] = held[o]
          /\ \A o \in Orders \ H : PointsHeld[o] = 0
      BY RowsTyped DEF PointsHeld
    <3>2. H \in SUBSET Orders
      OBVIOUS
    <3> HIDE DEF held, H
    <3> QED BY <3>1, <3>2, RowsTyped, SumOfMembers DEF TotalHeld
  <2>2. SumFunctionOnSet(due, D) = TotalDue
    <3>1. ASSUME NEW w \in D PROVE due[w] \in Int /\ PointsDue[w] = due[w]
      <4>1. orders[local[w].order].point \in Nat
        BY RowsTyped
      <4> QED BY <4>1 DEF PointsDue
    <3>2. \A w \in Workers \ D : PointsDue[w] = 0
      BY DEF PointsDue
    <3>3. D \in SUBSET Workers
      OBVIOUS
    <3> HIDE DEF due, D
    <3> QED BY <3>1, <3>2, <3>3, RowsTyped, SumOfMembers DEF TotalDue
  <2>3. SumFunctionOnSet(cut, C) = TotalTorn
    <3>1. ASSUME NEW t \in C PROVE cut[t] \in Int /\ PointsTorn[t] = cut[t]
      <4>1. orders[t[1]].point \in Nat
        BY RowsTyped
      <4> QED BY <4>1 DEF PointsTorn
    <3>2. \A t \in torn \ C : PointsTorn[t] = 0
      BY DEF PointsTorn
    <3>3. C \in SUBSET torn
      OBVIOUS
    <3> HIDE DEF cut, C
    <3> QED BY <3>1, <3>2, <3>3, RowsTyped, SumOfMembers DEF TotalTorn
  <2>4. points + TotalHeld = Points + (TotalDue + TotalTorn)
    BY RowsTyped, PointsTyped DEF Settled, Account
  <2> QED BY <2>1, <2>2, <2>3, <2>4 DEF PointsAccounted, KeptPoints, ExtraPoints
<1> QED BY <1>1, <1>2, <1>3, Invariant, PTL DEF Spec

-----------------------------------------------------------------------------
(* The price of a basket.                                                   *)

LEMMA LargestNumber ==
    ASSUME NEW S, IsFiniteSet(S), S \subseteq Int, S # {}
    PROVE  \E m \in S : \A x \in S : x <= m
<1> DEFINE F == {T \in SUBSET S : T # {} /\ ~\E m \in T : \A x \in T : x <= m}
<1>1. SUFFICES ASSUME F # {} PROVE FALSE
  OBVIOUS
<1>2. PICK T \in F : \A y \in T : T \ {y} \notin F
  BY <1>1, SmallestSubset
<1>3. PICK y \in T : TRUE
  OBVIOUS
<1>4. CASE T = {y}
  BY <1>4
<1>5. CASE T # {y}
  <2>0. T \ {y} \in SUBSET S /\ T \ {y} # {} /\ T \ {y} \notin F
    BY <1>2, <1>3, <1>5
  <2>1. PICK m \in T \ {y} : \A x \in T \ {y} : x <= m
    BY <2>0
  <2>2. y \in Int /\ m \in Int
    BY <2>1
  <2>3. CASE y <= m
    BY <2>1, <2>3
  <2>4. CASE m < y
    <3>1. \A x \in T : x \in Int /\ x <= y
      BY <2>1, <2>2, <2>4
    <3> QED BY <3>1
  <2> QED BY <2>2, <2>3, <2>4
<1> QED BY <1>4, <1>5

LEMMA DivBounds ==
    ASSUME NEW a \in Nat, NEW b \in Nat, b > 0
    PROVE  a \div b \in Nat /\ (a \div b) * b <= a /\ a < (a \div b) * b + b
OBVIOUS

Size(n) == IF n < 0 THEN -n ELSE n

\* The share of one line is its part of the whole, or up to a cent less.
LEMMA ShareFair ==
    ASSUME NEW amount \in Int, NEW pay \in Int, NEW total \in Int, total # 0, NEW q \in Shares(amount, pay, total)
    PROVE  q \in Int /\ Size(q * total - amount * pay) <= Size(total)
<1>1. PICK a \in Int : a = amount * pay
  OBVIOUS
<1>2. PICK t : t = Truncated(a, total)
  OBVIOUS
<1>3. t \in Int /\ Size(t * total - a) <= Size(total)
  <2>1. CASE total > 0 /\ a >= 0
    <3>1. t = a \div total
      BY <1>2, <2>1 DEF Truncated
    <3> QED BY <2>1, <3>1, DivBounds DEF Size
  <2>2. CASE total > 0 /\ a < 0
    <3>1. t = -((-a) \div total)
      BY <1>2, <2>2 DEF Truncated
    <3>2. PICK u \in Nat : u = (-a) \div total /\ u * total <= -a /\ -a < u * total + total
      BY <2>2, DivBounds
    <3>3. t * total = -(u * total)
      BY <3>1, <3>2
    <3> QED BY <2>2, <3>1, <3>2, <3>3 DEF Size
  <2>3. CASE total < 0 /\ a <= 0
    <3>1. t = (-a) \div (-total)
      BY <1>2, <2>3 DEF Truncated
    <3>2. PICK u \in Nat : u = (-a) \div (-total) /\ u * (-total) <= -a /\ -a < u * (-total) + (-total)
      BY <2>3, DivBounds
    <3>3. t * total = -(u * (-total))
      BY <3>1, <3>2
    <3> QED BY <2>3, <3>1, <3>2, <3>3 DEF Size
  <2>4. CASE total < 0 /\ a > 0
    <3>1. t = -(a \div (-total))
      BY <1>2, <2>4 DEF Truncated
    <3>2. PICK u \in Nat : u = a \div (-total) /\ u * (-total) <= a /\ a < u * (-total) + (-total)
      BY <2>4, DivBounds
    <3>3. t * total = u * (-total)
      BY <3>1, <3>2
    <3> QED BY <2>4, <3>1, <3>2, <3>3 DEF Size
  <2> QED BY <2>1, <2>2, <2>3, <2>4
<1>4. CASE q = t
  BY <1>1, <1>3, <1>4
<1>5. CASE q # t
  <2>1. t * total = a /\ q \in {t - 1, t + 1}
    BY <1>1, <1>2, <1>5 DEF Shares
  <2>2. q * total - a \in {-total, total}
    BY <1>3, <2>1
  <2> QED BY <1>1, <1>3, <2>1, <2>2 DEF Size
<1> QED BY <1>4, <1>5

\* DividePrice, over some lines.
LEMMA EndIsThere ==
    ASSUME NEW I, IsFiniteSet(I), I \subseteq Int, I # {}
    PROVE  EndOf(I) \in I
BY LargestNumber DEF EndOf

LEMMA PayOverIs ==
    ASSUME NEW ls, NEW I
    PROVE  PayOver(ls, I) = SumFunctionOnSet([i \in I |-> ls[i].pay], I)
BY DEF PayOver, SumOf, SumFunction, SumFunctionOnSet, FoldFunction

LEMMA SumOfIs == ASSUME NEW f PROVE SumOf(f) = SumFunctionOnSet(f, DOMAIN f)
BY DEF SumOf, SumFunction, SumFunctionOnSet, FoldFunction

\* What the last line takes, if the others err by a cent at most.
LEMMA LastIsFair ==
    ASSUME NEW J, IsFiniteSet(J), NEW f, NEW p, NEW amount \in Int, NEW total \in Int, NEW mine \in Int,
           \A i \in J : /\ f[i] \in Int /\ p[i] \in Int
                        /\ Size(f[i] * total - amount * p[i]) <= Size(total),
           total = mine + SumFunctionOnSet(p, J)
    PROVE  Size((amount - SumFunctionOnSet(f, J)) * total - amount * mine) <= Cardinality(J) * Size(total)
<1> DEFINE ft == [i \in J |-> Times(total, f[i])]
           ap == [i \in J |-> Times(amount, p[i])]
           e == [i \in J |-> ft[i] - ap[i]]
           b == [i \in J |-> ap[i] - ft[i]]
<1>1. \A i \in J : /\ ft[i] \in Int /\ ft[i] = f[i] * total /\ ft[i] = Times(total, f[i])
                   /\ ap[i] \in Int /\ ap[i] = amount * p[i] /\ ap[i] = Times(amount, p[i])
                   /\ e[i] = ft[i] - ap[i] /\ b[i] = ap[i] - ft[i]
  BY DEF Times
<1> HIDE DEF ft, ap, e, b
<1>2. PICK z \in Nat : z = Size(total)
  BY DEF Size
<1>3. \A i \in J : e[i] \in Int /\ b[i] \in Int /\ e[i] <= z /\ b[i] <= z
  <2>1. ASSUME NEW i \in J PROVE e[i] \in Int /\ b[i] \in Int /\ e[i] <= z /\ b[i] <= z
    <3>1. Size(ft[i] - ap[i]) <= z /\ ft[i] \in Int /\ ap[i] \in Int
      BY <1>1, <1>2
    <3> QED BY <1>1, <3>1 DEF Size
  <2> QED BY <2>1
<1>4. PICK F \in Int : F = SumFunctionOnSet(f, J)
  BY SumIsInt
<1>5. PICK P \in Int : P = SumFunctionOnSet(p, J)
  BY SumIsInt
<1>6. SumFunctionOnSet(ft, J) = Times(total, F) /\ SumFunctionOnSet(ap, J) = Times(amount, P)
  BY <1>1, <1>4, <1>5, SumTimes
<1>7. /\ SumFunctionOnSet(e, J) = SumFunctionOnSet(ft, J) - SumFunctionOnSet(ap, J)
      /\ SumFunctionOnSet(b, J) = SumFunctionOnSet(ap, J) - SumFunctionOnSet(ft, J)
  BY <1>1, SumMinus
<1>8. SumFunctionOnSet(e, J) <= Cardinality(J) * z /\ SumFunctionOnSet(b, J) <= Cardinality(J) * z
  BY <1>2, <1>3, SumBelow
<1>9. PICK n \in Int : n = Cardinality(J) * z
  BY <1>2, FS_CardinalityType
<1>10. PICK x \in Int : x = total * F - amount * P
  OBVIOUS
<1>11. x <= n /\ -x <= n
  <2>1. SumFunctionOnSet(e, J) = x
    BY <1>6, <1>7, <1>10 DEF Times
  <2>2. SumFunctionOnSet(b, J) = -x
    BY <1>6, <1>7, <1>10 DEF Times
  <2> QED BY <1>8, <1>9, <2>1, <2>2
<1>12. (amount - F) * total - amount * mine = -x
  <2>1. total - mine = P
    BY <1>5
  <2>2. (amount - F) * total = amount * total - total * F
    OBVIOUS
  <2>3. amount * total - amount * mine = amount * (total - mine)
    OBVIOUS
  <2> QED BY <1>10, <2>1, <2>2, <2>3
<1> QED BY <1>2, <1>4, <1>9, <1>11, <1>12 DEF Size

LEMMA SumOfLast ==
    ASSUME NEW h, NEW I, IsFiniteSet(I), I \subseteq Int, I # {}, \A x \in I : h[x] \in Int,
           NEW J, J = I \ {EndOf(I)}
    PROVE  SumFunctionOnSet(h, I) = h[EndOf(I)] + SumFunctionOnSet(h, J)
<1>1. PICK y \in I : y = EndOf(I)
  BY EndIsThere
<1>2. SumFunctionOnSet(h, I) = h[y] + SumFunctionOnSet(h, I \ {y})
  BY SumRemove, ZenonT(40)
<1> QED BY <1>1, <1>2

LEMMA DivideFair ==
    ASSUME NEW ls, NEW I, IsFiniteSet(I), I \subseteq Int, \A i \in I : ls[i].pay \in Int,
           NEW amount \in Int, NEW share \in DivideOver(ls, I, amount)
    PROVE  /\ share \in [I -> Int]
           /\ PayOver(ls, I) \in Int
           /\ PayOver(ls, I) = 0 => \A i \in I : share[i] = 0
           /\ PayOver(ls, I) # 0 => SumFunctionOnSet(share, I) = amount
           /\ Fair(Made(ls, I, amount, share))
<1> DEFINE p == [i \in I |-> ls[i].pay]
           d == Made(ls, I, amount, share)
<1>1. /\ \A i \in I : p[i] = ls[i].pay /\ p[i] \in Int
      /\ DOMAIN p = I /\ PayOver(ls, I) = SumFunctionOnSet(p, I) /\ SumOf(p) = SumFunctionOnSet(p, I)
  BY PayOverIs, SumOfIs
<1>2. d.pay = p /\ d.share = share /\ d.amount = amount
  BY DEF Made
<1> HIDE DEF p, d
<1>3. PICK total \in Int : total = SumFunctionOnSet(p, I)
  BY <1>1, SumIsInt
<1>4. CASE total = 0
  <2>1. share = [i \in I |-> 0]
    BY <1>1, <1>3, <1>4 DEF DivideOver
  <2>2. Fair(d)
    BY <1>1, <1>2, <1>3, <1>4, <2>1 DEF Fair
  <2> QED BY <1>1, <1>3, <1>4, <2>1, <2>2 DEF d
<1>5. CASE total # 0
  <2> DEFINE J == I \ {EndOf(I)}
  <2>1. EndOf(I) \in I /\ J \subseteq I /\ EndOf(I) \notin J
    <3>1. I # {}
      BY <1>3, <1>5, SumEmpty
    <3> QED BY <3>1, EndIsThere
  <2>2. PICK f : /\ \A i \in J : f[i] \in Shares(amount, ls[i].pay, total) 
                 /\ DOMAIN f = J
                 /\ share = [i \in I |-> IF i \in J THEN f[i] ELSE amount - SumOf(f)]
    BY <1>1, <1>3, <1>5 DEF DivideOver
  <2> HIDE DEF J
  <2>3. IsFiniteSet(J) /\ IsFiniteSet(I \ {EndOf(I)}) /\ J = I \ {EndOf(I)}
    BY <2>1, FS_Subset DEF J
  <2>4. \A i \in J : f[i] \in Int /\ Size(f[i] * total - amount * p[i]) <= Size(total)
    BY <1>1, <1>5, <2>1, <2>2, ShareFair
  <2>5. PICK F \in Int : F = SumFunctionOnSet(f, J) /\ F = SumOf(f)
    BY <2>2, <2>3, <2>4, SumIsInt, SumOfIs
  <2>6. /\ share \in [I -> Int] /\ share[EndOf(I)] = amount - F
        /\ \A i \in J : share[i] = f[i]
    BY <2>1, <2>2, <2>3, <2>4, <2>5
  <2>7. SumFunctionOnSet(share, I) = amount
    <3>1. SumFunctionOnSet(share, I) = share[EndOf(I)] + SumFunctionOnSet(share, J)
      <4>1. IsFiniteSet(I) /\ I # {} /\ \A x \in I : share[x] \in Int
        BY <2>1, <2>6
      <4> QED BY <2>3, <4>1, SumOfLast
    <3>2. SumFunctionOnSet(share, J) = SumFunctionOnSet(f, J)
      BY <2>3, <2>6, SumSame
    <3>3. SumFunctionOnSet(share, J) = F /\ share[EndOf(I)] = amount - F
      BY <2>5, <2>6, <3>2
    <3> QED BY <3>1, <3>3
  <2>8. PICK mine \in Int : mine = p[EndOf(I)]
    BY <1>1, <2>1
  <2>9. total = mine + SumFunctionOnSet(p, J)
    <3>1. SumFunctionOnSet(p, I) = p[EndOf(I)] + SumFunctionOnSet(p, J)
      <4>1. IsFiniteSet(I) /\ I # {} /\ \A x \in I : p[x] \in Int
        BY <1>1, <2>1
      <4> QED BY <2>3, <4>1, SumOfLast
    <3> QED BY <1>3, <2>3, <2>8, <3>1
  <2>10. Size((amount - F) * total - amount * mine) <= Cardinality(J) * Size(total)
    BY <1>1, <2>1, <2>3, <2>4, <2>5, <2>8, <2>9, LastIsFair
  <2>11. Cardinality(J) = Cardinality(I) - 1
    BY <2>1, <2>3, FS_RemoveElement, FS_CardinalityType
  <2>12. Fair(d)
    <3>1. SumOf(d.pay) = total /\ DOMAIN d.pay = I
      BY <1>1, <1>2, <1>3
    <3>2. SumOf(d.share) = d.amount
      BY <1>2, <2>6, <2>7, SumOfIs
    <3>3. \A i \in I \ {EndOf(I)} : Size(d.share[i] * total - d.amount * d.pay[i]) <= Size(total)
      BY <1>2, <2>3, <2>4, <2>6
    <3>4. Size(d.share[EndOf(I)] * total - d.amount * d.pay[EndOf(I)]) <= (Cardinality(I) - 1) * Size(total)
      BY <1>2, <2>6, <2>8, <2>10, <2>11
    <3> QED BY <1>5, <3>1, <3>2, <3>3, <3>4 DEF Fair, Size
  <2> QED BY <1>1, <1>3, <1>5, <2>6, <2>7, <2>12 DEF d
<1> QED BY <1>4, <1>5

-----------------------------------------------------------------------------
\* One line: what a calculator does to it.
LineRecord == [sku : DOMAIN SkuPrice, count : Nat \ {0}, price : Nat, vip : Nat,
               discount : Int, coupon : Int, point : Int, use : Int,
               delivery : Int, give : Int, pay : Int]

Explained(l) == l.pay = Full(l) - l.discount + l.delivery - l.coupon - l.point - l.vip

Columns == {"sku", "count", "price", "vip", "discount", "coupon", "point", "use", "delivery", "give", "pay"}
Kept(k, l, changed) == \A c \in Columns \ changed : k[c] = l[c]

LEMMA LineFields ==
    ASSUME NEW l \in LineRecord
    PROVE  /\ l.sku \in DOMAIN SkuPrice /\ l.count \in Nat \ {0} /\ l.price \in Nat /\ l.vip \in Nat
           /\ l.discount \in Int /\ l.coupon \in Int /\ l.point \in Int /\ l.use \in Int
           /\ l.delivery \in Int /\ l.give \in Int /\ l.pay \in Int
           /\ DOMAIN l = Columns
           /\ Full(l) \in Nat
<1>1. /\ l.sku \in DOMAIN SkuPrice /\ l.count \in Nat \ {0} /\ l.price \in Nat /\ l.vip \in Nat
      /\ l.discount \in Int /\ l.coupon \in Int /\ l.point \in Int /\ l.use \in Int
      /\ l.delivery \in Int /\ l.give \in Int /\ l.pay \in Int
  BY DEF LineRecord
<1>2. DOMAIN l = Columns
  BY DEF LineRecord, Columns
<1>3. Full(l) \in Nat
  BY <1>1 DEF Full
<1> QED BY <1>1, <1>2, <1>3

LEMMA RecountIs ==
    ASSUME NEW l \in LineRecord
    PROVE  Recount(l) \in LineRecord /\ Explained(Recount(l)) /\ Kept(Recount(l), l, {"pay"})
<1>1. PICK x \in Int : x = Full(l) - l.discount + l.delivery - l.coupon - l.point - l.vip
  BY LineFields
<1>2. PICK k : k = [l EXCEPT !.pay = x]
  OBVIOUS
<1>3. k \in LineRecord
  BY <1>2 DEF LineRecord
<1>4. Recount(l) = k
  BY <1>1, <1>2 DEF Recount
<1>5. /\ k.sku = l.sku /\ k.discount = l.discount /\ k.vip = l.vip /\ k.coupon = l.coupon
      /\ k.point = l.point /\ k.use = l.use /\ k.delivery = l.delivery
      /\ k.price = l.price /\ k.count = l.count /\ k.pay = x /\ k.give = l.give
  BY <1>2, LineFields DEF Columns
<1>6. Explained(k)
  BY <1>1, <1>5 DEF Explained, Full
<1>7. Kept(k, l, {"pay"})
  BY <1>5 DEF Kept, Columns
<1> QED BY <1>3, <1>4, <1>6, <1>7

LEMMA KeptTwice ==
    ASSUME NEW k, NEW l, NEW m, NEW S, NEW T, Kept(l, m, S), Kept(k, l, T)
    PROVE  Kept(k, m, S \cup T)
BY DEF Kept

LEMMA DiscountSet ==
    ASSUME NEW l \in LineRecord, NEW x \in Int, NEW k, k = Recount([l EXCEPT !.discount = x])
    PROVE  k \in LineRecord /\ Explained(k) /\ k.discount = x /\ Kept(k, l, {"discount", "pay"})
<1>1. PICK m \in LineRecord : m = [l EXCEPT !.discount = x]
  BY DEF LineRecord
<1>2. m.discount = x /\ Kept(m, l, {"discount"})
  BY <1>1, LineFields DEF Kept, Columns
<1>3. k \in LineRecord /\ Explained(k) /\ Kept(k, m, {"pay"})
  BY <1>1, RecountIs
<1>4. Kept(k, l, {"discount"} \cup {"pay"})
  BY <1>2, <1>3, KeptTwice
<1> QED BY <1>2, <1>3, <1>4 DEF Kept, Columns

LEMMA VipSet ==
    ASSUME NEW l \in LineRecord, NEW x \in Nat, NEW k, k = Recount([l EXCEPT !.vip = x])
    PROVE  k \in LineRecord /\ Explained(k) /\ k.vip = x /\ Kept(k, l, {"vip", "pay"})
<1>1. PICK m \in LineRecord : m = [l EXCEPT !.vip = x]
  BY DEF LineRecord
<1>2. m.vip = x /\ Kept(m, l, {"vip"})
  BY <1>1, LineFields DEF Kept, Columns
<1>3. k \in LineRecord /\ Explained(k) /\ Kept(k, m, {"pay"})
  BY <1>1, RecountIs
<1>4. Kept(k, l, {"vip"} \cup {"pay"})
  BY <1>2, <1>3, KeptTwice
<1> QED BY <1>2, <1>3, <1>4 DEF Kept, Columns

LEMMA CouponSet ==
    ASSUME NEW l \in LineRecord, NEW x \in Int, NEW k, k = Recount([l EXCEPT !.coupon = x])
    PROVE  k \in LineRecord /\ Explained(k) /\ k.coupon = x /\ Kept(k, l, {"coupon", "pay"})
<1>1. PICK m \in LineRecord : m = [l EXCEPT !.coupon = x]
  BY DEF LineRecord
<1>2. m.coupon = x /\ Kept(m, l, {"coupon"})
  BY <1>1, LineFields DEF Kept, Columns
<1>3. k \in LineRecord /\ Explained(k) /\ Kept(k, m, {"pay"})
  BY <1>1, RecountIs
<1>4. Kept(k, l, {"coupon"} \cup {"pay"})
  BY <1>2, <1>3, KeptTwice
<1> QED BY <1>2, <1>3, <1>4 DEF Kept, Columns

LEMMA PointsSet ==
    ASSUME NEW l \in LineRecord, NEW m \in LineRecord, Kept(m, l, {"point", "use"}), NEW k, k = Recount(m)
    PROVE  /\ k \in LineRecord /\ Explained(k) /\ k.point = m.point /\ k.use = m.use
           /\ Kept(k, l, {"point", "use", "pay"})
<1>1. k \in LineRecord /\ Explained(k) /\ Kept(k, m, {"pay"})
  BY RecountIs
<1>2. Kept(k, l, {"point", "use"} \cup {"pay"})
  BY <1>1, KeptTwice
<1> QED BY <1>1, <1>2 DEF Kept, Columns

LEMMA DeliverySet ==
    ASSUME NEW l \in LineRecord, NEW x \in Int, NEW k, k = Recount([l EXCEPT !.delivery = x])
    PROVE  k \in LineRecord /\ Explained(k) /\ k.delivery = x /\ Kept(k, l, {"delivery", "pay"})
<1>1. PICK m \in LineRecord : m = [l EXCEPT !.delivery = x]
  BY DEF LineRecord
<1>2. m.delivery = x /\ Kept(m, l, {"delivery"})
  BY <1>1, LineFields DEF Kept, Columns
<1>3. k \in LineRecord /\ Explained(k) /\ Kept(k, m, {"pay"})
  BY <1>1, RecountIs
<1>4. Kept(k, l, {"delivery"} \cup {"pay"})
  BY <1>2, <1>3, KeptTwice
<1> QED BY <1>2, <1>3, <1>4 DEF Kept, Columns

LEMMA GiveSet ==
    ASSUME NEW l \in LineRecord, Explained(l), NEW x \in Int, NEW k, k = [l EXCEPT !.give = x]
    PROVE  k \in LineRecord /\ Explained(k) /\ Kept(k, l, {"give"})
<1>1. k \in LineRecord
  BY DEF LineRecord
<1>2. Kept(k, l, {"give"})
  BY LineFields DEF Kept, Columns
<1> QED BY <1>1, <1>2 DEF Kept, Columns, Explained, Full

\* A percentage of an amount is at most the amount.
LEMMA PartOf ==
    ASSUME NEW n \in Nat, NEW v \in 0..100
    PROVE  (n * v) \div 100 \in 0..n
<1>1. PICK a \in Nat : a = n * v
  OBVIOUS
<1>2. a <= n * 100
  <2>1. n * (100 - v) \in Nat /\ n * (100 - v) = n * 100 - n * v
    OBVIOUS
  <2> QED BY <1>1, <2>1
<1>3. PICK q \in Nat : q = a \div 100 /\ q * 100 <= a
  BY DivBounds
<1>4. q <= n
  BY <1>2, <1>3
<1> QED BY <1>1, <1>3, <1>4

LEMMA RatedInt == ASSUME NEW n \in Nat, NEW v \in Int PROVE Rated(n, v) \in Int
<1>1. CASE v <= 0
  BY <1>1 DEF Rated
<1>2. CASE v > 0
  <2>1. PICK a \in Nat : a = n * v
    BY <1>2
  <2>2. a \div 100 \in Nat
    BY DivBounds
  <2> QED BY <1>2, <2>1, <2>2 DEF Rated
<1> QED BY <1>1, <1>2

LEMMA OfferSaves ==
    ASSUME NEW l \in LineRecord, NEW o \in Offers PROVE OfferSaving(l, o) \in Nat
<1>1. PICK n \in Nat : n = Full(l)
  BY LineFields
<1>2. CASE o.kind = "none"
  BY <1>2 DEF OfferSaving
<1>3. CASE o.kind = "minus"
  BY <1>3, LineFields, PromotionAssumption DEF OfferSaving
<1>4. CASE o.kind = "rate"
  <2>1. PICK v \in 0..100 : v = o.value
    BY <1>4, PromotionAssumption
  <2>2. Rated(n, v) \in 0..n
    <3>1. CASE v <= 0
      BY <3>1 DEF Rated
    <3>2. CASE v > 0
      BY <3>2, PartOf, SMTT(20) DEF Rated
    <3> QED BY <3>1, <3>2
  <2>3. OfferSaving(l, o) = n - Rated(n, v)
    BY <1>1, <1>4, <2>1 DEF OfferSaving
  <2> QED BY <2>2, <2>3
<1> QED BY <1>2, <1>3, <1>4, PromotionAssumption

\* The better of the two savings, of a line that has neither.
LEMMA SavingIs ==
    ASSUME NEW l \in LineRecord, l.discount = 0, l.vip = 0, NEW o \in Offers, NEW level \in Levels,
           NEW k, k = Recount(BetterSaving(l, o, level))
    PROVE  /\ k \in LineRecord /\ Explained(k) /\ Kept(k, l, {"discount", "vip", "pay"})
           /\ k.discount = 0 \/ k.vip = 0
<1>1. PICK a \in Nat : a = OfferSaving(l, o)
  BY OfferSaves
<1>2. PICK b \in Int : b = LevelSaving(l, level)
  <2>1. PICK n \in Nat : n = Full(l)
    BY LineFields
  <2>2. Rated(n, level) \in Int
    BY RatedInt, PromotionAssumption
  <2>3. LevelSaving(l, level) = n - Rated(n, level)
    BY <2>1 DEF LevelSaving
  <2> QED BY <2>1, <2>2, <2>3
<1>3. CASE a >= b
  <2>1. PICK x \in Int : x = l.discount + a
    BY LineFields
  <2>2. BetterSaving(l, o, level) = [l EXCEPT !.discount = x]
    BY <1>1, <1>2, <1>3, <2>1 DEF BetterSaving
  <2>3. k \in LineRecord /\ Explained(k) /\ Kept(k, l, {"discount", "pay"})
    BY <2>2, DiscountSet
  <2>4. k.vip = l.vip
    BY <2>3 DEF Kept, Columns
  <2> QED BY <2>3, <2>4 DEF Kept
<1>4. CASE a < b
  <2>1. PICK x \in Nat : x = l.vip + b
    BY <1>1, <1>4
  <2>2. BetterSaving(l, o, level) = [l EXCEPT !.vip = x]
    BY <1>1, <1>2, <1>4, <2>1 DEF BetterSaving
  <2>3. k \in LineRecord /\ Explained(k) /\ Kept(k, l, {"vip", "pay"})
    BY <2>2, VipSet
  <2>4. k.discount = l.discount
    BY <2>3 DEF Kept, Columns
  <2> QED BY <2>3, <2>4 DEF Kept
<1> QED BY <1>3, <1>4

\* What a coupon takes off is not negative, and it needs lines that cost something.
LEMMA CouponPriceIs ==
    ASSUME NEW c \in Vouchers, NEW total \in Int, CouponPrice(c, total) < total
    PROVE  CouponPrice(c, total) \in Nat /\ total # 0
<1>1. CASE c.kind = "off"
  BY <1>1, PromotionAssumption DEF CouponPrice
<1>2. CASE c.kind = "percent"
  <2>1. PICK v \in 0..100 : v = c.value
    BY <1>2, PromotionAssumption
  <2>2. PICK most \in Nat : most = c.most
    BY <1>2, PromotionAssumption
  <2>3. PICK t : t = Truncated(total * v, 100)
    OBVIOUS
  <2>4. CASE total >= 0
    <3>1. total * v \in Nat
      BY <2>4
    <3>2. t = (total * v) \div 100
      BY <2>3, <3>1 DEF Truncated
    <3>3. t \in 0..total
      BY <2>4, <3>2, PartOf, SMTT(20)
    <3>4. CouponPrice(c, total) = IF most < total - t THEN most ELSE total - t
      BY <1>2, <2>1, <2>2, <2>3 DEF CouponPrice
    <3> QED BY <3>3, <3>4
  <2>5. CASE total < 0
    <3>1. PICK n \in Nat : n = -total
      BY <2>5
    <3>2. total * v = -(n * v) /\ n * v \in Nat
      BY <3>1
    <3>3. t \in Int /\ t >= total /\ t <= 0
      <4>1. (n * v) \div 100 \in 0..n
        BY PartOf
      <4>2. CASE n * v = 0
        <5>1. 0 \div 100 = 0
          OBVIOUS
        <5>2. t = 0
          BY <2>3, <3>2, <4>2, <5>1 DEF Truncated
        <5> QED BY <2>5, <5>2
      <4>3. CASE n * v # 0
        <5>1. t = -((n * v) \div 100)
          BY <2>3, <3>2, <4>3 DEF Truncated
        <5> QED BY <3>1, <4>1, <5>1
      <4> QED BY <4>2, <4>3
    <3>4. CouponPrice(c, total) = IF most < total - t THEN most ELSE total - t
      BY <1>2, <2>1, <2>2, <2>3 DEF CouponPrice
    <3> QED BY <3>3, <3>4
  <2> QED BY <2>4, <2>5
<1> QED BY <1>1, <1>2, PromotionAssumption

\* All lines: the columns, and their sums.
Sheet == \A i \in Lines : line[i] \in LineRecord /\ Explained(line[i])
LinesFinite == IsFiniteSet(Lines) /\ Lines \subseteq Nat

\* A column that no line changes keeps its sum.
LEMMA ColumnStays ==
    ASSUME IsFiniteSet(Lines), Lines' = Lines, NEW c, \A i \in Lines : line'[i][c] = line[i][c]
    PROVE  Column(c)' = Column(c)
<1> DEFINE f == [i \in Lines |-> line[i][c]]
           g == [i \in Lines |-> line'[i][c]]
<1>1. Column(c) = SumFunctionOnSet(f, Lines)
  BY SumOfIs DEF Column
<1>2. Column(c)' = SumFunctionOnSet(g, Lines)
  BY SumOfIs DEF Column
<1>3. \A i \in Lines : f[i] = g[i]
  OBVIOUS
<1> HIDE DEF f, g
<1> QED BY <1>1, <1>2, <1>3, SumSame

\* A column that becomes a split has the sum of it.
LEMMA ColumnSplit ==
    ASSUME IsFiniteSet(Lines'), NEW c, NEW S \in SUBSET Lines', NEW share,
           \A i \in S : share[i] \in Int /\ line'[i][c] = share[i],
           \A i \in Lines' \ S : line'[i][c] = 0
    PROVE  Column(c)' = SumFunctionOnSet(share, S)
<1> DEFINE g == [i \in Lines' |-> line'[i][c]]
<1>1. Column(c)' = SumFunctionOnSet(g, Lines')
  BY SumOfIs DEF Column
<1>2. /\ \A i \in S : share[i] \in Int /\ g[i] = share[i]
      /\ \A i \in Lines' \ S : g[i] = 0
  OBVIOUS
<1> HIDE DEF g
<1> QED BY <1>1, <1>2, SumOfMembers

LEMMA ColumnEmpty ==
    ASSUME IsFiniteSet(Lines), NEW c, \A i \in Lines : line[i][c] = 0
    PROVE  Column(c) = 0
<1> DEFINE g == [i \in Lines |-> line[i][c]]
<1>1. Column(c) = SumFunctionOnSet(g, Lines)
  BY SumOfIs DEF Column
<1>2. \A i \in Lines : g[i] = 0
  OBVIOUS
<1> HIDE DEF g
<1> QED BY <1>1, <1>2, SumOfZeros

\* The price to pay is the sum of what each line says of its own.
LEMMA SheetExplainsPay == ASSUME LinesFinite, Sheet PROVE ColumnsExplainPay
<1> DEFINE dis == [i \in Lines |-> line[i].discount]
           vip == [i \in Lines |-> line[i].vip]
           cou == [i \in Lines |-> line[i].coupon]
           poi == [i \in Lines |-> line[i].point]
           del == [i \in Lines |-> line[i].delivery]
           pay == [i \in Lines |-> line[i].pay]
           full == [i \in Lines |-> Full(line[i])]
           a == [i \in Lines |-> full[i] - line[i].discount]
           b == [i \in Lines |-> a[i] - line[i].vip]
           d == [i \in Lines |-> b[i] - line[i].coupon]
           e == [i \in Lines |-> d[i] - line[i].point]
<1>0. IsFiniteSet(Lines)
  BY DEF LinesFinite
<1>1. ASSUME NEW i \in Lines
      PROVE  /\ full[i] \in Int /\ a[i] \in Int /\ b[i] \in Int /\ d[i] \in Int /\ e[i] \in Int
             /\ dis[i] \in Int /\ vip[i] \in Int /\ cou[i] \in Int
             /\ poi[i] \in Int /\ del[i] \in Int
             /\ a[i] = full[i] - dis[i] /\ b[i] = a[i] - vip[i]
             /\ d[i] = b[i] - cou[i] /\ e[i] = d[i] - poi[i]
             /\ pay[i] = e[i] + del[i]
  <2>1. PICK l \in LineRecord : l = line[i] /\ Explained(l)
    BY DEF Sheet
  <2> QED BY <2>1, LineFields DEF Explained
<1>2. /\ Column("discount") = SumFunctionOnSet(dis, Lines)
      /\ Column("vip") = SumFunctionOnSet(vip, Lines)
      /\ Column("coupon") = SumFunctionOnSet(cou, Lines)
      /\ Column("point") = SumFunctionOnSet(poi, Lines)
      /\ Column("delivery") = SumFunctionOnSet(del, Lines)
      /\ PayOver(line, Lines) = SumFunctionOnSet(pay, Lines)
      /\ SumOf([i \in Lines |-> Full(line[i])]) = SumFunctionOnSet(full, Lines)
  BY SumOfIs, PayOverIs DEF Column
<1> HIDE DEF full, a, b, d, e, dis, vip, cou, poi, del, pay
<1>3. SumFunctionOnSet(a, Lines) = SumFunctionOnSet(full, Lines) - SumFunctionOnSet(dis, Lines)
  <2>1. \A i \in Lines : full[i] \in Int /\ dis[i] \in Int /\ a[i] = full[i] - dis[i]
    BY <1>1
  <2> QED BY <1>0, <2>1, SumMinus
<1>4. SumFunctionOnSet(b, Lines) = SumFunctionOnSet(a, Lines) - SumFunctionOnSet(vip, Lines)
  <2>1. \A i \in Lines : a[i] \in Int /\ vip[i] \in Int /\ b[i] = a[i] - vip[i]
    BY <1>1
  <2> QED BY <1>0, <2>1, SumMinus
<1>5. SumFunctionOnSet(d, Lines) = SumFunctionOnSet(b, Lines) - SumFunctionOnSet(cou, Lines)
  <2>1. \A i \in Lines : b[i] \in Int /\ cou[i] \in Int /\ d[i] = b[i] - cou[i]
    BY <1>1
  <2> QED BY <1>0, <2>1, SumMinus
<1>6. SumFunctionOnSet(e, Lines) = SumFunctionOnSet(d, Lines) - SumFunctionOnSet(poi, Lines)
  <2>1. \A i \in Lines : d[i] \in Int /\ poi[i] \in Int /\ e[i] = d[i] - poi[i]
    BY <1>1
  <2> QED BY <1>0, <2>1, SumMinus
<1>7. SumFunctionOnSet(pay, Lines) = SumFunctionOnSet(e, Lines) + SumFunctionOnSet(del, Lines)
  <2>1. \A i \in Lines : e[i] \in Int /\ del[i] \in Int /\ pay[i] = e[i] + del[i]
    BY <1>1
  <2> QED BY <1>0, <2>1, SumPlus
<1>8. SumFunctionOnSet(full, Lines) \in Int /\ SumFunctionOnSet(dis, Lines) \in Int
  BY <1>1, SumIsInt DEF LinesFinite
<1>9. SumFunctionOnSet(vip, Lines) \in Int /\ SumFunctionOnSet(cou, Lines) \in Int
  BY <1>1, SumIsInt DEF LinesFinite
<1>10. SumFunctionOnSet(poi, Lines) \in Int /\ SumFunctionOnSet(del, Lines) \in Int
  BY <1>1, SumIsInt DEF LinesFinite
<1> QED BY <1>2, <1>3, <1>4, <1>5, <1>6, <1>7, <1>8, <1>9, <1>10 DEF ColumnsExplainPay

-----------------------------------------------------------------------------
\* What no calculator has reached yet is zero, and what one has granted is in the lines.
EarlyStages == {"build", "activity", "discount", "reward", "coupon"}

CalculationTyped ==
    /\ stage \in {"build", "activity", "discount", "reward", "coupon", "points", "delivery",
                  "give", "validate", "accepted", "refused"}
    /\ kind \in {"normal", "sale", "point"}
    /\ granted \in [coupon : Nat, points : Nat, value : Nat, freight : Nat]

NotYet ==
    /\ stage \in {"activity", "discount"} => \A i \in Lines : line[i].discount = 0 /\ line[i].vip = 0
    /\ stage \in EarlyStages => granted.coupon = 0 /\ \A i \in Lines : line[i].coupon = 0
    /\ stage \in EarlyStages \cup {"points"} =>
          /\ granted.points = 0 /\ granted.value = 0
          /\ \A i \in Lines : line[i].point = 0 /\ line[i].use = 0
    /\ stage \in EarlyStages \cup {"points", "delivery"} =>
          granted.freight = 0 /\ \A i \in Lines : line[i].delivery = 0

InLines ==
    /\ stage # "refused" => /\ Distinct => Column("coupon") = granted.coupon
                            /\ Column("point") = granted.value /\ Column("use") = granted.points
    /\ stage \in {"give", "validate", "accepted"} =>
          Column("delivery") = granted.freight \/ PayOver(line, Lines) = 0
    /\ stage = "accepted" /\ kind # "point" => PayOver(line, Lines) > 0

CalculationInv ==
    CalculationTyped /\ LinesFinite /\ Sheet /\ SplitIsFair /\ OneSaving /\ NotYet /\ InLines

LEMMA CalculationInvAddsUp == CalculationInv => PriceAddsUp
<1> SUFFICES ASSUME CalculationInv PROVE PriceAddsUp
  OBVIOUS
<1>1. CalculationTypeOK
  BY DEF CalculationTypeOK, CalculationInv, CalculationTyped, Sheet, LineRecord
<1>2. GrantsReachLines
  BY DEF CalculationInv, InLines, GrantsReachLines, CalculationTyped
<1>3. ColumnsExplainPay
  BY SheetExplainsPay DEF CalculationInv
<1> QED BY <1>1, <1>2, <1>3 DEF PriceAddsUp, CalculationInv

LEMMA CalculationInitOK == CalculationInit => CalculationInv
<1> SUFFICES ASSUME CalculationInit PROVE CalculationInv
  OBVIOUS
<1>1. Lines = {} /\ IsFiniteSet(Lines)
  BY FS_EmptySet DEF CalculationInit, Lines
<1>2. granted.coupon = 0 /\ granted.points = 0 /\ granted.value = 0 /\ granted.freight = 0
  BY DEF CalculationInit, NoGrant
<1>3. granted \in [coupon : Nat, points : Nat, value : Nat, freight : Nat]
  BY DEF CalculationInit, NoGrant
<1>4. Column("coupon") = 0 /\ Column("point") = 0 /\ Column("use") = 0
  BY <1>1, ColumnEmpty
<1>5. split = {} /\ stage = "build" /\ kind = "normal"
  BY DEF CalculationInit
<1> QED BY <1>1, <1>2, <1>3, <1>4, <1>5
        DEF CalculationInv, CalculationTyped, LinesFinite, Sheet, SplitIsFair, OneSaving, NotYet, InLines

LEMMA PayIsColumn == PayOver(line, Lines) = Column("pay") /\ PayOver(line, Lines)' = Column("pay")'
BY DEF PayOver, Column

LEMMA SumsKept ==
    ASSUME LinesFinite, Lines' = Lines, NEW S, \A i \in Lines : Kept(line'[i], line[i], S)
    PROVE  \A c \in Columns \ S : Column(c)' = Column(c)
<1> SUFFICES ASSUME NEW c \in Columns \ S PROVE Column(c)' = Column(c)
  OBVIOUS
<1>1. \A i \in Lines : line'[i][c] = line[i][c]
  BY DEF Kept
<1> QED BY <1>1, ColumnStays DEF LinesFinite

\* A step that changes none of the columns of the coupon, the points and their use.
LEMMA GrantsKept ==
    ASSUME CalculationInv, Lines' = Lines, NEW S, S \cap {"sku", "coupon", "point", "use"} = {},
           \A i \in Lines : Kept(line'[i], line[i], S)
    PROVE  /\ Distinct' <=> Distinct
           /\ Column("coupon")' = Column("coupon") /\ Column("point")' = Column("point")
           /\ Column("use")' = Column("use")
           /\ \A i \in Lines : /\ line'[i].coupon = line[i].coupon /\ line'[i].point = line[i].point
                               /\ line'[i].use = line[i].use
<1>1. {"sku", "coupon", "point", "use"} \subseteq Columns \ S
  BY DEF Columns
<1>2. \A i \in Lines : \A c \in Columns \ S : line'[i][c] = line[i][c]
  BY DEF Kept
<1>3. \A i \in Lines : line'[i].sku = line[i].sku
  BY <1>1, <1>2
<1>4. Distinct' <=> Distinct
  BY <1>3 DEF Distinct
<1>5. \A c \in Columns \ S : Column(c)' = Column(c)
  BY SumsKept DEF CalculationInv
<1> QED BY <1>1, <1>2, <1>4, <1>5

LEMMA RefuseKeeps == ASSUME CalculationInv, Refuse PROVE CalculationInv'
BY DEF Refuse, CalculationInv, CalculationTyped, LinesFinite, Sheet, SplitIsFair, OneSaving, NotYet, InLines,
       EarlyStages, Lines

LEMMA BuildItemsKeeps == ASSUME CalculationInv, BuildItems PROVE CalculationInv'
<1>1. PICK b \in Baskets, k \in {"normal", "sale", "point"} :
         /\ kind' = k
         /\ line' = [i \in DOMAIN b |->
                        LET price == SkuPrice[b[i].sku] IN
                        [sku |-> b[i].sku, count |-> b[i].count, price |-> price,
                         discount |-> 0, vip |-> 0, coupon |-> 0, point |-> 0, use |-> 0,
                         delivery |-> 0, give |-> GiveIntegral[b[i].sku] * b[i].count,
                         pay |-> price * b[i].count]]
         /\ stage' = IF k = "normal" THEN "discount" ELSE "activity"
  BY DEF BuildItems
<1>2. b \in Seq([sku : DOMAIN SkuPrice, count : Nat \ {0}])
  BY CalculationAssumption
<1>3. PICK n \in Nat : DOMAIN b = 1..n /\ \A i \in 1..n : b[i] \in [sku : DOMAIN SkuPrice, count : Nat \ {0}]
  <2>1. PICK S : S = [sku : DOMAIN SkuPrice, count : Nat \ {0}]
    OBVIOUS
  <2>2. b \in Seq(S)
    BY <1>2, <2>1
  <2>3. Len(b) \in Nat /\ DOMAIN b = 1..Len(b) /\ \A i \in 1..Len(b) : b[i] \in S
    BY <2>2
  <2> QED BY <2>1, <2>3
<1>4. Lines' = 1..n /\ IsFiniteSet(Lines') /\ LinesFinite'
  BY <1>1, <1>3, FS_Interval DEF Lines, LinesFinite
<1>5. ASSUME NEW i \in 1..n
      PROVE  /\ line'[i] \in LineRecord /\ Explained(line'[i])
             /\ line'[i].discount = 0 /\ line'[i].vip = 0 /\ line'[i].coupon = 0 /\ line'[i].point = 0
             /\ line'[i].use = 0 /\ line'[i].delivery = 0
  <2>1. PICK s \in DOMAIN SkuPrice, m \in Nat \ {0} : s = b[i].sku /\ m = b[i].count
    BY <1>3
  <2>2. PICK p \in Nat : p = SkuPrice[s]
    BY <2>1, CalculationAssumption
  <2>0. PICK g \in Int : g = GiveIntegral[s] * m
    BY <2>1, CalculationAssumption
  <2>3. PICK l : /\ l = line'[i]
                 /\ l = [sku |-> s, count |-> m, price |-> p, discount |-> 0, vip |-> 0, coupon |-> 0,
                         point |-> 0, use |-> 0, delivery |-> 0, give |-> g, pay |-> p * m]
    BY <1>1, <1>3, <2>0, <2>1, <2>2
  <2>4. PICK a \in Nat : a = p * m
    OBVIOUS
  <2>5. l \in LineRecord
    BY <2>3, <2>4 DEF LineRecord
  <2>6. Explained(l)
    BY <2>3, <2>4 DEF Explained, Full
  <2> QED BY <2>3, <2>5, <2>6
<1>6. Sheet'
  BY <1>4, <1>5 DEF Sheet
<1>7. Column("coupon")' = 0 /\ Column("point")' = 0 /\ Column("use")' = 0
  <2>1. \A c : (\A i \in Lines' : line'[i][c] = 0) => Column(c)' = 0
    BY <1>4, ColumnSplit, SumEmpty
  <2> QED BY <1>4, <1>5, <2>1
<1>8. UNCHANGED <<split, granted>> /\ stage = "build"
  BY DEF BuildItems
<1>9. granted.coupon = 0 /\ granted.points = 0 /\ granted.value = 0 /\ granted.freight = 0
  BY <1>8 DEF CalculationInv, NotYet, EarlyStages
<1>10. CalculationTyped'
  BY <1>1, <1>8 DEF CalculationInv, CalculationTyped
<1>11. NotYet'
  BY <1>1, <1>4, <1>5, <1>8, <1>9 DEF NotYet, EarlyStages
<1>12. InLines'
  BY <1>1, <1>7, <1>8, <1>9 DEF InLines
<1>13. SplitIsFair' /\ OneSaving'
  BY <1>1, <1>8 DEF CalculationInv, SplitIsFair, OneSaving
<1> QED BY <1>4, <1>6, <1>10, <1>11, <1>12, <1>13 DEF CalculationInv

LEMMA ActivityPriceKeeps == ASSUME CalculationInv, ActivityPrice PROVE CalculationInv'
<1>1. CASE Refuse
  BY <1>1, RefuseKeeps
<1>2. CASE ~Refuse
  <2>1. PICK unit \in ActivityUnits :
           /\ line' = [i \in Lines |->
                         Recount([line[i] EXCEPT !.discount = @ + line[i].pay - unit * line[i].count])]
           /\ stage = "activity" /\ stage' = "points" /\ UNCHANGED <<kind, split, granted>>
    BY <1>2 DEF ActivityPrice, Passes
  <2>2. Lines' = Lines
    BY <2>1 DEF Lines
  <2>3. ASSUME NEW i \in Lines
        PROVE  /\ line'[i] \in LineRecord /\ Explained(line'[i])
               /\ Kept(line'[i], line[i], {"discount", "pay"})
    <3>1. PICK l \in LineRecord : l = line[i]
      BY DEF CalculationInv, Sheet
    <3>2. PICK u \in Int : u = unit
      BY PromotionAssumption
    <3>3. PICK x \in Int : x = l.discount + l.pay - u * l.count
      BY LineFields
    <3>4. line'[i] = Recount([l EXCEPT !.discount = x])
      BY <2>1, <3>1, <3>2, <3>3
    <3> QED BY <3>1, <3>4, DiscountSet
  <2>4. /\ Distinct' <=> Distinct
        /\ Column("coupon")' = Column("coupon") /\ Column("point")' = Column("point")
        /\ Column("use")' = Column("use")
        /\ \A i \in Lines : /\ line'[i].coupon = line[i].coupon /\ line'[i].point = line[i].point
                            /\ line'[i].use = line[i].use
    BY <2>2, <2>3, GrantsKept
  <2>5. \A i \in Lines : line'[i].delivery = line[i].delivery
    BY <2>3 DEF Kept, Columns
  <2>6. LinesFinite' /\ Sheet'
    BY <2>2, <2>3 DEF CalculationInv, LinesFinite, Sheet
  <2>7. CalculationTyped' /\ SplitIsFair' /\ OneSaving'
    BY <2>1 DEF CalculationInv, CalculationTyped, SplitIsFair, OneSaving
  <2>8. NotYet'
    BY <2>1, <2>2, <2>4, <2>5 DEF CalculationInv, NotYet, EarlyStages
  <2>9. InLines'
    BY <2>1, <2>4 DEF CalculationInv, InLines
  <2> QED BY <2>6, <2>7, <2>8, <2>9 DEF CalculationInv
<1> QED BY <1>1, <1>2

LEMMA DiscountActivityKeeps == ASSUME CalculationInv, DiscountActivity PROVE CalculationInv'
<1>1. PICK offer \in [DOMAIN SkuPrice -> Offers], level \in Levels :
         line' = [i \in Lines |-> Recount(BetterSaving(line[i], offer[line[i].sku], level))]
  BY DEF DiscountActivity
<1>2. stage = "discount" /\ stage' = "reward" /\ UNCHANGED <<kind, split, granted>> /\ Lines' = Lines
  BY <1>1 DEF DiscountActivity, Passes, Lines
<1>3. ASSUME NEW i \in Lines
      PROVE  /\ line'[i] \in LineRecord /\ Explained(line'[i])
             /\ Kept(line'[i], line[i], {"discount", "vip", "pay"})
             /\ line'[i].discount = 0 \/ line'[i].vip = 0
  <2>1. PICK l \in LineRecord : l = line[i] /\ l.discount = 0 /\ l.vip = 0
    BY <1>2 DEF CalculationInv, Sheet, NotYet
  <2>2. PICK o \in Offers : o = offer[l.sku]
    BY <2>1, LineFields
  <2>3. line'[i] = Recount(BetterSaving(l, o, level))
    BY <1>1, <2>1, <2>2
  <2> QED BY <2>1, <2>3, SavingIs
<1>4. /\ Distinct' <=> Distinct
      /\ Column("coupon")' = Column("coupon") /\ Column("point")' = Column("point")
      /\ Column("use")' = Column("use")
      /\ \A i \in Lines : /\ line'[i].coupon = line[i].coupon /\ line'[i].point = line[i].point
                          /\ line'[i].use = line[i].use
  BY <1>2, <1>3, GrantsKept
<1>5. \A i \in Lines : line'[i].delivery = line[i].delivery
  BY <1>3 DEF Kept, Columns
<1>6. LinesFinite' /\ Sheet'
  BY <1>2, <1>3 DEF CalculationInv, LinesFinite, Sheet
<1>7. CalculationTyped' /\ SplitIsFair' /\ OneSaving'
  BY <1>2, <1>3 DEF CalculationInv, CalculationTyped, SplitIsFair, OneSaving
<1>8. NotYet'
  BY <1>2, <1>4, <1>5 DEF CalculationInv, NotYet, EarlyStages
<1>9. InLines'
  BY <1>2, <1>4 DEF CalculationInv, InLines
<1> QED BY <1>6, <1>7, <1>8, <1>9 DEF CalculationInv

\* The reward of an activity is a number, whatever rules it has.
LEMMA RewardIs ==
    ASSUME CalculationInv, NEW c \in Campaigns, NEW n \in DOMAIN c, NEW I \in SUBSET Lines
    PROVE  RewardOf(c[n], I) \in Int
<1> DEFINE offs == {rule.off : rule \in {r \in c[n].rules : Reached(c[n], r, I)}}
           best == Max({0} \cup offs)
<1>1. IsFiniteSet(offs) /\ offs \subseteq Int
  <2>1. IsFiniteSet({r \in c[n].rules : Reached(c[n], r, I)})
    BY PromotionAssumption, FS_Subset
  <2> DEFINE G == {r \in c[n].rules : Reached(c[n], r, I)}
  <2>2. \A r \in G : r.off \in Int
    BY PromotionAssumption
  <2>3. IsFiniteSet(G)
    BY <2>1
  <2> HIDE DEF G
  <2> DEFINE T == {rule.off : rule \in G}
             f == [rule \in G |-> rule.off]
  <2>4. f \in Surjection(G, T)
    BY DEF Surjection
  <2> HIDE DEF T, f
  <2>5. IsFiniteSet(T)
    BY <2>3, <2>4, FS_Surjection
  <2>6. T \subseteq Int
    BY <2>2 DEF T
  <2> QED BY <2>5, <2>6 DEF T, G
<1>2. best \in Int
  <2> HIDE DEF offs
  <2>0. IsFiniteSet({0} \cup offs)
    <3>1. {0} \cup offs = offs \cup {0}
      OBVIOUS
    <3> QED BY <1>1, <3>1, FS_AddElement
  <2>1. IsFiniteSet({0} \cup offs) /\ {0} \cup offs \subseteq Int /\ {0} \cup offs # {}
    BY <1>1, <2>0
  <2>2. \E m \in {0} \cup offs : \A x \in {0} \cup offs : x <= m
    BY <2>1, LargestNumber
  <2>3. Max({0} \cup offs) \in {0} \cup offs
    BY <2>1, <2>2 DEF Max
  <2> QED BY <2>1, <2>3
<1>3. SumOf([i \in I |-> Full(line[i])]) \in Int
  <2> DEFINE f == [i \in I |-> Full(line[i])]
  <2>1. \A i \in I : f[i] \in Int
    BY LineFields DEF CalculationInv, Sheet
  <2>2. IsFiniteSet(I) /\ SumOf(f) = SumFunctionOnSet(f, I)
    BY SumOfIs, FS_Subset DEF CalculationInv, LinesFinite
  <2> HIDE DEF f
  <2>3. SumOf(f) \in Int
    BY <2>1, <2>2, SumIsInt
  <2> QED BY <2>3 DEF f
<1> HIDE DEF best
<1> QED BY <1>2, <1>3 DEF RewardOf, best

\* A split over some of the lines.
LEMMA SplitOver ==
    ASSUME CalculationInv, NEW I \in SUBSET Lines, NEW amount \in Int, NEW share \in DivideOver(line, I, amount)
    PROVE  /\ share \in [I -> Int]
           /\ PayOver(line, I) \in Int
           /\ PayOver(line, I) = 0 => \A i \in I : share[i] = 0
           /\ PayOver(line, I) # 0 => SumFunctionOnSet(share, I) = amount
           /\ Fair(Made(line, I, amount, share))
<1>1. IsFiniteSet(Lines) /\ Lines \subseteq Nat
  BY DEF CalculationInv, LinesFinite
<1>2. \A i \in Lines : line[i].pay \in Int
  BY LineFields DEF CalculationInv, Sheet
<1>3. IsFiniteSet(I)
  BY <1>1, FS_Subset
<1>4. I \subseteq Int
  BY <1>1
<1>5. \A i \in I : line[i].pay \in Int
  BY <1>2
<1> QED BY <1>3, <1>4, <1>5, DivideFair

LEMMA RewardActivityKeeps == ASSUME CalculationInv, RewardActivity PROVE CalculationInv'
<1>1. PICK c \in Campaigns :
         LET over(n) == Matched(c[n], TakenBefore(c)[n])
             off(n) == RewardOf(c[n], over(n))
             Given == {n \in DOMAIN c : over(n) # {} /\ off(n) > 0} IN
         \E share \in [Given -> UNION {DivideOver(line, over(n), off(n)) : n \in Given}] :
            /\ \A n \in Given : share[n] \in DivideOver(line, over(n), off(n))
            /\ line' = [i \in Lines |->
                          IF \E n \in Given : i \in over(n)
                          THEN LET n == CHOOSE m \in Given : i \in over(m)
                               IN Recount([line[i] EXCEPT !.discount = @ + share[n][i]])
                          ELSE line[i]]
            /\ split' = {Made(line, over(n), off(n), share[n]) : n \in Given}
  BY DEF RewardActivity
<1> DEFINE over(n) == Matched(c[n], TakenBefore(c)[n])
           off(n) == RewardOf(c[n], over(n))
           Given == {n \in DOMAIN c : over(n) # {} /\ off(n) > 0}
<1>2. PICK share :
            /\ \A n \in Given : share[n] \in DivideOver(line, over(n), off(n))
            /\ line' = [i \in Lines |->
                          IF \E n \in Given : i \in over(n)
                          THEN LET n == CHOOSE m \in Given : i \in over(m)
                               IN Recount([line[i] EXCEPT !.discount = @ + share[n][i]])
                          ELSE line[i]]
            /\ split' = {Made(line, over(n), off(n), share[n]) : n \in Given}
  BY <1>1
<1>3. \A n \in Given : n \in DOMAIN c /\ over(n) \in SUBSET Lines
  BY DEF Matched
<1>4. \A n \in Given : off(n) \in Int
  BY <1>3, RewardIs
<1> HIDE DEF over, off, Given
<1>5. ASSUME NEW n \in Given
      PROVE  share[n] \in [over(n) -> Int] /\ Fair(Made(line, over(n), off(n), share[n]))
  <2>1. PICK I \in SUBSET Lines : I = over(n)
    BY <1>3
  <2>2. PICK a \in Int : a = off(n)
    BY <1>4
  <2>3. share[n] \in DivideOver(line, I, a)
    BY <1>2, <2>1, <2>2
  <2>4. share[n] \in [I -> Int] /\ Fair(Made(line, I, a, share[n]))
    BY <2>3, SplitOver
  <2> QED BY <2>1, <2>2, <2>4
<1>6. stage = "reward" /\ stage' = "coupon" /\ UNCHANGED <<kind, granted>> /\ Lines' = Lines
  BY <1>2 DEF RewardActivity, Passes, Lines
<1>7. ASSUME NEW i \in Lines
      PROVE  /\ line'[i] \in LineRecord /\ Explained(line'[i])
             /\ Kept(line'[i], line[i], {"discount", "pay"})
  <2>1. PICK l \in LineRecord : l = line[i] /\ Explained(l)
    BY DEF CalculationInv, Sheet
  <2>2. CASE \E n \in Given : i \in over(n)
    <3>1. PICK n \in Given : n = (CHOOSE m \in Given : i \in over(m)) /\ i \in over(n)
      BY <2>2
    <3>0. PICK y \in Int : y = share[n][i]
      BY <1>5, <3>1
    <3>2. PICK x \in Int : x = l.discount + share[n][i]
      BY <3>0, LineFields
    <3>3. line'[i] = Recount([line[i] EXCEPT !.discount = @ + share[n][i]])
      BY <1>2, <2>2, <3>1
    <3>4. line'[i] = Recount([l EXCEPT !.discount = x])
      BY <2>1, <3>2, <3>3
    <3> QED BY <2>1, <3>4, DiscountSet
  <2>3. CASE ~\E n \in Given : i \in over(n)
    BY <1>2, <2>1, <2>3 DEF Kept
  <2> QED BY <2>2, <2>3
<1>8. /\ Distinct' <=> Distinct
      /\ Column("coupon")' = Column("coupon") /\ Column("point")' = Column("point")
      /\ Column("use")' = Column("use")
      /\ \A i \in Lines : /\ line'[i].coupon = line[i].coupon /\ line'[i].point = line[i].point
                          /\ line'[i].use = line[i].use
  BY <1>6, <1>7, GrantsKept
<1>9. \A i \in Lines : line'[i].delivery = line[i].delivery
  BY <1>7 DEF Kept, Columns
<1>10. LinesFinite' /\ Sheet'
  BY <1>6, <1>7 DEF CalculationInv, LinesFinite, Sheet
<1>11. CalculationTyped' /\ OneSaving'
  BY <1>6 DEF CalculationInv, CalculationTyped, OneSaving
<1>12. SplitIsFair'
  BY <1>2, <1>5 DEF SplitIsFair
<1>13. NotYet'
  BY <1>6, <1>8, <1>9 DEF CalculationInv, NotYet, EarlyStages
<1>14. InLines'
  BY <1>6, <1>8 DEF CalculationInv, InLines
<1> QED BY <1>10, <1>11, <1>12, <1>13, <1>14 DEF CalculationInv

\* On lines of different SKUs each gets its own share of the coupon.
LEMMA CouponShareIs ==
    ASSUME CalculationInv, NEW I \in SUBSET Lines, NEW share \in [I -> Int], NEW i \in I
    PROVE  /\ CouponShare(I, share, i) \in Int
           /\ Distinct => CouponShare(I, share, i) = share[i]
<1> DEFINE T == {j \in I : line[j].sku = line[i].sku}
<1>0. IsFiniteSet(Lines) /\ Lines \subseteq Nat
  BY DEF CalculationInv, LinesFinite
<1>1. T \subseteq I /\ i \in T
  OBVIOUS
<1>2. Distinct => T = {i}
  BY DEF Distinct
<1>3. CouponShare(I, share, i) = share[EndOf(T)]
  BY DEF CouponShare
<1> HIDE DEF T
<1>4. T \subseteq Lines /\ T \subseteq Int /\ T # {}
  BY <1>0, <1>1
<1>5. IsFiniteSet(T)
  BY <1>0, <1>4, FS_Subset
<1>6. PICK e \in T : e = EndOf(T)
  BY <1>4, <1>5, EndIsThere
<1>7. e \in I /\ (Distinct => e = i)
  BY <1>1, <1>2, <1>6
<1> QED BY <1>3, <1>6, <1>7

LEMMA DeductCouponKeeps == ASSUME CalculationInv, DeductCoupon PROVE CalculationInv'
<1>0. stage = "coupon"
  BY DEF DeductCoupon
<1>1. CASE Refuse
  BY <1>1, RefuseKeeps
<1>2. CASE Passes("points") /\ split' = {} /\ UNCHANGED <<line, granted>>
  BY <1>0, <1>2 DEF Passes, CalculationInv, CalculationTyped, LinesFinite, Sheet, SplitIsFair, OneSaving, NotYet, InLines,
                    EarlyStages, Lines, Column, Distinct, PayOver
<1>3. CASE ~Refuse /\ ~(Passes("points") /\ split' = {} /\ UNCHANGED <<line, granted>>)
  <2>a. PICK c \in Vouchers :
           LET J == {i \in Lines : line[i].sku \in c.scope}
               x == CouponPrice(c, PayOver(line, J)) IN
           /\ Matches(c, J)
           /\ \E share \in DivideOver(line, J, x) :
                 /\ line' = [i \in Lines |->
                               IF i \in J THEN Recount([line[i] EXCEPT !.coupon = CouponShare(J, share, i)])
                               ELSE line[i]]
                 /\ split' = {Made(line, J, x, share)}
           /\ granted' = [granted EXCEPT !.coupon = x]
           /\ Passes("points")
    BY <1>3 DEF DeductCoupon
  <2>b. PICK I : I = {i \in Lines : line[i].sku \in c.scope}
    OBVIOUS
  <2>c. PICK off : off = CouponPrice(c, PayOver(line, I))
    OBVIOUS
  <2>d. /\ Matches(c, I)
        /\ \E share \in DivideOver(line, I, off) :
              /\ line' = [i \in Lines |->
                            IF i \in I THEN Recount([line[i] EXCEPT !.coupon = CouponShare(I, share, i)])
                            ELSE line[i]]
              /\ split' = {Made(line, I, off, share)}
        /\ granted' = [granted EXCEPT !.coupon = off]
        /\ Passes("points")
    BY <2>a, <2>b, <2>c
  <2>e. PICK share \in DivideOver(line, I, off) :
           /\ line' = [i \in Lines |->
                         IF i \in I THEN Recount([line[i] EXCEPT !.coupon = CouponShare(I, share, i)])
                         ELSE line[i]]
           /\ split' = {Made(line, I, off, share)}
    BY <2>d
  <2>1. I \in SUBSET Lines /\ Lines' = Lines /\ IsFiniteSet(Lines)
    BY <2>b, <2>e DEF Lines, CalculationInv, LinesFinite
  <2>2. PayOver(line, I) \in Int
    <3> DEFINE p == [i \in I |-> line[i].pay]
    <3>1. \A i \in I : p[i] \in Int
      BY <2>1, LineFields DEF CalculationInv, Sheet
    <3>2. IsFiniteSet(I)
      BY <2>1, FS_Subset
    <3>3. PayOver(line, I) = SumFunctionOnSet(p, I)
      BY PayOverIs
    <3> HIDE DEF p
    <3> QED BY <3>1, <3>2, <3>3, SumIsInt
  <2>3. off \in Nat /\ PayOver(line, I) # 0
    BY <2>c, <2>d, <2>2, CouponPriceIs DEF Matches
  <2>4. /\ share \in [I -> Int] /\ SumFunctionOnSet(share, I) = off
        /\ Fair(Made(line, I, off, share))
    BY <2>1, <2>3, <2>e, SplitOver
  <2>5. stage' = "points" /\ kind' = kind
    BY <2>d DEF Passes
  <2>6. PICK x : x = [i \in I |-> CouponShare(I, share, i)]
    OBVIOUS
  <2>7. \A i \in I : x[i] \in Int /\ (Distinct => x[i] = share[i])
    BY <2>1, <2>4, <2>6, CouponShareIs
  <2>8. ASSUME NEW i \in Lines
        PROVE  /\ line'[i] \in LineRecord /\ Explained(line'[i])
               /\ Kept(line'[i], line[i], {"coupon", "pay"})
               /\ line'[i].coupon = IF i \in I THEN x[i] ELSE 0
    <3>1. PICK l \in LineRecord : l = line[i] /\ Explained(l) /\ l.coupon = 0
      BY <1>0 DEF CalculationInv, Sheet, NotYet, EarlyStages
    <3>2. CASE i \in I
      <4>1. PICK y \in Int : y = x[i]
        BY <2>7, <3>2
      <4>2. line'[i] = Recount([l EXCEPT !.coupon = y])
        BY <2>e, <2>6, <3>1, <3>2, <4>1
      <4> QED BY <3>1, <3>2, <4>1, <4>2, CouponSet
    <3>3. CASE i \notin I
      BY <2>e, <3>1, <3>3 DEF Kept
    <3> QED BY <3>2, <3>3
  <2>9. \A i \in Lines : /\ line'[i].sku = line[i].sku /\ line'[i].point = line[i].point
                         /\ line'[i].use = line[i].use /\ line'[i].delivery = line[i].delivery
    BY <2>8 DEF Kept, Columns
  <2>10. (Distinct' <=> Distinct) /\ Column("point")' = Column("point") /\ Column("use")' = Column("use")
    BY <2>1, <2>9, ColumnStays DEF Distinct
  <2>11. ASSUME Distinct PROVE Column("coupon")' = off
    <3>1. \A i \in I : share[i] \in Int /\ line'[i].coupon = share[i]
      BY <2>1, <2>4, <2>7, <2>8, <2>11
    <3>2. \A i \in Lines' \ I : line'[i].coupon = 0
      BY <2>1, <2>8
    <3>3. Column("coupon")' = SumFunctionOnSet(share, I)
      BY <2>1, <3>1, <3>2, ColumnSplit
    <3> QED BY <2>4, <3>3
  <2>12. PICK g : g = granted
    OBVIOUS
  <2>13. /\ granted' \in [coupon : Nat, points : Nat, value : Nat, freight : Nat]
         /\ granted'.coupon = off /\ granted'.points = granted.points
         /\ granted'.value = granted.value /\ granted'.freight = granted.freight
    BY <2>d, <2>3 DEF CalculationInv, CalculationTyped
  <2>14. LinesFinite' /\ Sheet'
    BY <2>1, <2>8 DEF CalculationInv, LinesFinite, Sheet
  <2>15. CalculationTyped' /\ OneSaving'
    BY <2>5, <2>13 DEF CalculationInv, CalculationTyped, OneSaving
  <2>16. SplitIsFair'
    BY <2>e, <2>4 DEF SplitIsFair
  <2>17. NotYet'
    BY <1>0, <2>1, <2>5, <2>9, <2>13 DEF CalculationInv, NotYet, EarlyStages
  <2>18. InLines'
    BY <1>0, <2>5, <2>10, <2>11, <2>13 DEF CalculationInv, InLines
  <2> QED BY <2>14, <2>15, <2>16, <2>17, <2>18 DEF CalculationInv
<1> QED BY <1>1, <1>2, <1>3

LEMMA UsePointsKeeps == ASSUME CalculationInv, UsePoints PROVE CalculationInv'
<1>0. stage = "points"
  BY DEF UsePoints
<1>1. CASE Refuse
  BY <1>1, RefuseKeeps
<1>2. CASE Passes("delivery") /\ split' = {} /\ UNCHANGED <<line, granted>>
  BY <1>0, <1>2 DEF Passes, CalculationInv, CalculationTyped, LinesFinite, Sheet, SplitIsFair, OneSaving, NotYet, InLines,
                    EarlyStages, Lines, Column, Distinct, PayOver
<1>3. CASE ~Refuse /\ ~(Passes("delivery") /\ split' = {} /\ UNCHANGED <<line, granted>>)
  <2>a. PICK balance \in PointBalances, unit \in PointUnits :
           LET m == Usable(balance)
               v == m * unit IN
           /\ balance > 0 /\ unit > 0 /\ v < PayOver(line, Lines)
           /\ \E share \in DivideOver(line, Lines, v), use \in DivideOver(line, Lines, m) :
                 /\ line' = [i \in Lines |-> Recount([line[i] EXCEPT !.point = @ + share[i], !.use = use[i]])]
                 /\ split' = {Made(line, Lines, v, share), Made(line, Lines, m, use)}
           /\ granted' = [granted EXCEPT !.points = m, !.value = v]
           /\ Passes("delivery")
    BY <1>3 DEF UsePoints
  <2>b. PICK n : n = Usable(balance)
    OBVIOUS
  <2>c. PICK value : value = n * unit
    OBVIOUS
  <2>d. /\ balance > 0 /\ unit > 0 /\ value < PayOver(line, Lines)
        /\ \E share \in DivideOver(line, Lines, value), use \in DivideOver(line, Lines, n) :
              /\ line' = [i \in Lines |-> Recount([line[i] EXCEPT !.point = @ + share[i], !.use = use[i]])]
              /\ split' = {Made(line, Lines, value, share), Made(line, Lines, n, use)}
        /\ granted' = [granted EXCEPT !.points = n, !.value = value]
        /\ Passes("delivery")
    BY <2>a, <2>b, <2>c
  <2>e. PICK share \in DivideOver(line, Lines, value), use \in DivideOver(line, Lines, n) :
           /\ line' = [i \in Lines |-> Recount([line[i] EXCEPT !.point = @ + share[i], !.use = use[i]])]
           /\ split' = {Made(line, Lines, value, share), Made(line, Lines, n, use)}
    BY <2>d
  <2>1. Lines' = Lines /\ IsFiniteSet(Lines)
    BY <2>e DEF Lines, CalculationInv, LinesFinite
  <2>2. n \in Nat \ {0} /\ unit \in Nat \ {0}
    <3>1. balance \in Int /\ unit \in Int /\ MaxDeduct \in Nat
      BY PromotionAssumption, CalculationAssumption
    <3>2. balance > 0 /\ unit > 0
      BY <2>d
    <3>3. n = balance \/ (n = MaxDeduct /\ MaxDeduct > 0)
      BY <2>b DEF Usable
    <3> QED BY <3>1, <3>2, <3>3
  <2>3. value \in Nat \ {0}
    <3>1. PICK a \in Nat \ {0}, b \in Nat \ {0} : a = n /\ b = unit
      BY <2>2
    <3>2. a * b \in Nat \ {0}
      OBVIOUS
    <3> QED BY <2>c, <3>1, <3>2
  <2>4. /\ share \in [Lines -> Int] /\ SumFunctionOnSet(share, Lines) = value
        /\ Fair(Made(line, Lines, value, share))
        /\ use \in [Lines -> Int] /\ SumFunctionOnSet(use, Lines) = n
        /\ Fair(Made(line, Lines, n, use))
    <3>0. Lines \in SUBSET Lines /\ n \in Int /\ value \in Int
      BY <2>2, <2>3
    <3>1. PayOver(line, Lines) \in Int
      BY <3>0, <2>e, SplitOver
    <3>2. PayOver(line, Lines) # 0
      <4>1. value < PayOver(line, Lines)
        BY <2>d
      <4>2. PICK p \in Int : p = PayOver(line, Lines)
        BY <3>1
      <4>3. PICK v \in Nat : v = value
        BY <2>3
      <4> QED BY <4>1, <4>2, <4>3
    <3> QED BY <3>0, <2>e, <3>2, SplitOver
  <2>5. stage' = "delivery" /\ kind' = kind
    BY <2>d DEF Passes
  <2>6. ASSUME NEW i \in Lines
        PROVE  /\ line'[i] \in LineRecord /\ Explained(line'[i])
               /\ Kept(line'[i], line[i], {"point", "use", "pay"})
               /\ line'[i].point = share[i] /\ line'[i].use = use[i]
    <3>1. PICK l \in LineRecord : l = line[i] /\ l.point = 0
      BY <1>0 DEF CalculationInv, Sheet, NotYet
    <3>2. PICK x \in Int : x = share[i]
      BY <2>4
    <3>3. PICK y \in Int : y = use[i]
      BY <2>4
    <3>4. line'[i] = Recount([l EXCEPT !.point = x, !.use = y])
      <4>1. line'[i] = Recount([line[i] EXCEPT !.point = @ + share[i], !.use = use[i]])
        BY <2>e
      <4>2. line'[i] = Recount([l EXCEPT !.point = l.point + x, !.use = y])
        BY <3>1, <3>2, <3>3, <4>1
      <4>3. l.point + x = x
        BY <3>1
      <4> QED BY <4>2, <4>3
    <3>5. PICK k : k = line'[i]
      OBVIOUS
    <3>6. PICK m : m = [l EXCEPT !.point = x, !.use = y]
      OBVIOUS
    <3>7. k = Recount(m)
      BY <3>4, <3>5, <3>6
    <3>8. m \in LineRecord /\ m.point = x /\ m.use = y
      BY <3>6, LineFields DEF LineRecord, Columns
    <3>9. Kept(m, l, {"point", "use"})
      BY <3>6, LineFields DEF Kept, Columns
    <3>10. k \in LineRecord /\ Explained(k) /\ k.point = x /\ k.use = y /\ Kept(k, l, {"point", "use", "pay"})
      BY <3>7, <3>8, <3>9, PointsSet
    <3> QED BY <3>1, <3>2, <3>3, <3>5, <3>10
  <2>7. \A i \in Lines : /\ line'[i].sku = line[i].sku /\ line'[i].coupon = line[i].coupon
                         /\ line'[i].delivery = line[i].delivery
    BY <2>6 DEF Kept, Columns
  <2>8. (Distinct' <=> Distinct) /\ Column("coupon")' = Column("coupon")
    BY <2>1, <2>7, ColumnStays DEF Distinct
  <2>9. Column("point")' = value
    <3>1. \A i \in Lines : share[i] \in Int /\ line'[i].point = share[i]
      BY <2>4, <2>6
    <3>2. Column("point")' = SumFunctionOnSet(share, Lines)
      BY <2>1, <3>1, ColumnSplit
    <3> QED BY <2>4, <3>2
  <2>10. Column("use")' = n
    <3>1. \A i \in Lines : use[i] \in Int /\ line'[i].use = use[i]
      BY <2>4, <2>6
    <3>2. Column("use")' = SumFunctionOnSet(use, Lines)
      BY <2>1, <3>1, ColumnSplit
    <3> QED BY <2>4, <3>2
  <2>11. /\ granted' \in [coupon : Nat, points : Nat, value : Nat, freight : Nat]
         /\ granted'.coupon = granted.coupon /\ granted'.points = n
         /\ granted'.value = value /\ granted'.freight = granted.freight
    <3>1. PICK v \in Nat : v = value
      BY <2>3
    <3>2. granted' = [granted EXCEPT !.points = n, !.value = v]
      BY <2>d, <3>1
    <3> QED BY <2>2, <3>1, <3>2 DEF CalculationInv, CalculationTyped
  <2>12. LinesFinite' /\ Sheet'
    BY <2>1, <2>6 DEF CalculationInv, LinesFinite, Sheet
  <2>13. CalculationTyped' /\ OneSaving'
    BY <2>5, <2>11 DEF CalculationInv, CalculationTyped, OneSaving
  <2>14. SplitIsFair'
    BY <2>e, <2>4 DEF SplitIsFair
  <2>15. NotYet'
    BY <1>0, <2>1, <2>5, <2>7, <2>11 DEF CalculationInv, NotYet, EarlyStages
  <2>16. InLines'
    BY <1>0, <2>5, <2>8, <2>9, <2>10, <2>11 DEF CalculationInv, InLines
  <2> QED BY <2>12, <2>13, <2>14, <2>15, <2>16 DEF CalculationInv
<1> QED BY <1>1, <1>2, <1>3

\* The freight of some lines is a number.
LEMMA FreightIs ==
    ASSUME CalculationInv, NEW t \in Freights, NEW I \in SUBSET Lines
    PROVE  FreightOf(t, I) \in Int
<1> DEFINE f == [i \in I |-> line[i].count]
<1>1. IsFiniteSet(I)
  BY FS_Subset DEF CalculationInv, LinesFinite
<1>2. \A i \in I : f[i] \in Int
  BY LineFields DEF CalculationInv, Sheet
<1>3. SumOf(f) = SumFunctionOnSet(f, I)
  BY SumOfIs
<1>4. PICK count : count = SumOf(f)
  OBVIOUS
<1>5. FreightOf(t, I) =
        LET extra == (count - t.startCount + t.extraCount - 1) \div t.extraCount IN
        IF (t.freeCount > 0 \/ t.freePrice > 0) /\ count <= t.freeCount /\ PayOver(line, I) >= t.freePrice
        THEN 0
        ELSE IF count <= t.startCount THEN t.startPrice ELSE t.startPrice + extra * t.extraPrice
  BY <1>4 DEF FreightOf
<1> HIDE DEF f
<1>6. count \in Int
  BY <1>1, <1>2, <1>3, <1>4, SumIsInt
<1>7. PICK a \in Int, b \in Int, x \in Int, m \in Nat \ {0} :
         a = t.startCount /\ b = t.startPrice /\ x = t.extraPrice /\ m = t.extraCount
  BY PromotionAssumption
<1>8. PICK y \in Int : y = count - a + m - 1
  BY <1>6
<1>9. PICK e \in Int : e = y \div m
  OBVIOUS
<1>10. PICK z \in Int : z = b + e * x
  OBVIOUS
<1>11. FreightOf(t, I) \in {0, b, z}
  BY <1>5, <1>7, <1>8, <1>9, <1>10
<1> QED BY <1>11

\* Lines that nobody has charged for delivery, and the same lines with their shares.
LEMMA DeliveryKeeps == ASSUME CalculationInv, Delivery PROVE CalculationInv'
<1>0. stage = "delivery"
  BY DEF Delivery
<1>1. CASE Refuse
  BY <1>1, RefuseKeeps
<1>2. \A i \in Lines : line[i].delivery = 0
  BY <1>0 DEF CalculationInv, NotYet
<1>3. IsFiniteSet(Lines) /\ Lines \in SUBSET Lines
  BY DEF CalculationInv, LinesFinite
<1>4. Column("delivery") = 0
  BY <1>2, <1>3, ColumnEmpty
<1>5. granted.freight = 0
  BY <1>0 DEF CalculationInv, NotYet
<1>6. CASE Passes("give") /\ split' = {} /\ UNCHANGED <<line, granted>>
  <2>1. Lines' = Lines /\ Column("delivery")' = Column("delivery")
    BY <1>6 DEF Lines, Column
  <2>2. LinesFinite' /\ Sheet' /\ (Distinct' <=> Distinct)
    BY <1>6 DEF CalculationInv, LinesFinite, Sheet, Lines, Distinct
  <2>3. Column("coupon")' = Column("coupon") /\ Column("point")' = Column("point") /\ Column("use")' = Column("use")
    BY <1>6 DEF Column, Lines
  <2>4. CalculationTyped' /\ SplitIsFair' /\ OneSaving' /\ NotYet'
    BY <1>6 DEF Passes, CalculationInv, CalculationTyped, SplitIsFair, OneSaving, NotYet, EarlyStages
  <2>5. InLines'
    BY <1>0, <1>4, <1>5, <1>6, <2>1, <2>2, <2>3 DEF Passes, CalculationInv, InLines
  <2> QED BY <2>2, <2>4, <2>5 DEF CalculationInv
<1>7. CASE ~Refuse /\ ~(Passes("give") /\ split' = {} /\ UNCHANGED <<line, granted>>)
  <2>a. PICK S \in SUBSET DOMAIN SkuPrice \ {{}} : \E template \in [S -> Freights] :
             LET group(t) == {i \in Lines : line[i].sku \in S /\ template[line[i].sku] = t}
                 Used == {t \in Freights : group(t) # {}}
                 freight == SumOf([t \in Used |-> FreightOf(t, group(t))]) IN
             /\ \/ /\ freight > 0
                   /\ \E share \in DivideOver(line, Lines, freight) :
                         /\ line' = [i \in Lines |-> Recount([line[i] EXCEPT !.delivery = share[i]])]
                         /\ split' = {Made(line, Lines, freight, share)}
                \/ freight = 0 /\ split' = {} /\ UNCHANGED line
             /\ granted' = [granted EXCEPT !.freight = freight]
             /\ Passes("give")
    BY <1>7 DEF Delivery
  <2>b. PICK template \in [S -> Freights] :
             LET group(t) == {i \in Lines : line[i].sku \in S /\ template[line[i].sku] = t}
                 Used == {t \in Freights : group(t) # {}}
                 freight == SumOf([t \in Used |-> FreightOf(t, group(t))]) IN
             /\ \/ /\ freight > 0
                   /\ \E share \in DivideOver(line, Lines, freight) :
                         /\ line' = [i \in Lines |-> Recount([line[i] EXCEPT !.delivery = share[i]])]
                         /\ split' = {Made(line, Lines, freight, share)}
                \/ freight = 0 /\ split' = {} /\ UNCHANGED line
             /\ granted' = [granted EXCEPT !.freight = freight]
             /\ Passes("give")
    BY <2>a
  <2> DEFINE group(t) == {i \in Lines : line[i].sku \in S /\ template[line[i].sku] = t}
             Used == {t \in Freights : group(t) # {}}
             fee == [t \in Used |-> FreightOf(t, group(t))]
  <2>c. PICK freight : freight = SumOf(fee)
    OBVIOUS
  <2>d. /\ \/ /\ freight > 0
              /\ \E share \in DivideOver(line, Lines, freight) :
                    /\ line' = [i \in Lines |-> Recount([line[i] EXCEPT !.delivery = share[i]])]
                    /\ split' = {Made(line, Lines, freight, share)}
           \/ freight = 0 /\ split' = {} /\ UNCHANGED line
        /\ granted' = [granted EXCEPT !.freight = freight]
        /\ Passes("give")
    BY <2>b, <2>c
  <2>e. freight \in Int
    <3>1. Used \subseteq Freights /\ DOMAIN fee = Used /\ \A t \in Used : group(t) \in SUBSET Lines
      OBVIOUS
    <3>2. \A t \in Used : fee[t] \in Int
      BY <3>1, FreightIs
    <3> HIDE DEF fee, Used
    <3>3. IsFiniteSet(Used)
      BY <3>1, FS_Subset, PromotionAssumption
    <3>4. SumOf(fee) = SumFunctionOnSet(fee, Used)
      BY <3>1, SumOfIs
    <3> QED BY <2>c, <3>2, <3>3, <3>4, SumIsInt
  <2>1. stage' = "give" /\ kind' = kind
    BY <2>d DEF Passes
  <2>2. freight \in Nat
    BY <2>d, <2>e
  <2>3. /\ granted' \in [coupon : Nat, points : Nat, value : Nat, freight : Nat]
        /\ granted'.coupon = granted.coupon /\ granted'.points = granted.points
        /\ granted'.value = granted.value /\ granted'.freight = freight
    BY <2>2, <2>d DEF CalculationInv, CalculationTyped
  <2>4. CalculationTyped' /\ OneSaving' /\ NotYet'
    BY <2>1, <2>3 DEF CalculationInv, CalculationTyped, OneSaving, NotYet, EarlyStages
  <2>5. CASE freight = 0
    <3>1. split' = {} /\ line' = line
      BY <2>5, <2>d
    <3>2. LinesFinite' /\ Sheet' /\ (Distinct' <=> Distinct) /\ Column("delivery")' = Column("delivery")
      BY <3>1 DEF CalculationInv, LinesFinite, Sheet, Lines, Distinct, Column
    <3>3. Column("coupon")' = Column("coupon") /\ Column("point")' = Column("point") /\ Column("use")' = Column("use")
      BY <3>1 DEF Column, Lines
    <3>4. SplitIsFair'
      BY <3>1 DEF SplitIsFair
    <3>5. InLines'
      BY <1>0, <1>4, <2>1, <2>3, <2>5, <3>2, <3>3 DEF CalculationInv, InLines
    <3> QED BY <2>4, <3>2, <3>4, <3>5 DEF CalculationInv
  <2>6. CASE freight # 0
    <3>1. PICK share \in DivideOver(line, Lines, freight) :
             /\ line' = [i \in Lines |-> Recount([line[i] EXCEPT !.delivery = share[i]])]
             /\ split' = {Made(line, Lines, freight, share)}
      BY <2>6, <2>d
    <3>2. /\ share \in [Lines -> Int] /\ PayOver(line, Lines) \in Int
          /\ PayOver(line, Lines) = 0 => \A i \in Lines : share[i] = 0
          /\ PayOver(line, Lines) # 0 => SumFunctionOnSet(share, Lines) = freight
          /\ Fair(Made(line, Lines, freight, share))
      BY <1>3, <2>e, SplitOver
    <3>3. Lines' = Lines
      BY <3>1 DEF Lines
    <3>4. ASSUME NEW i \in Lines
          PROVE  /\ line'[i] \in LineRecord /\ Explained(line'[i])
                 /\ Kept(line'[i], line[i], {"delivery", "pay"})
                 /\ line'[i].delivery = share[i]
      <4>1. PICK l \in LineRecord : l = line[i]
        BY DEF CalculationInv, Sheet
      <4>2. PICK x \in Int : x = share[i]
        BY <3>2
      <4>3. line'[i] = Recount([l EXCEPT !.delivery = x])
        BY <3>1, <4>1, <4>2
      <4> QED BY <4>1, <4>2, <4>3, DeliverySet
    <3>5. /\ Distinct' <=> Distinct
          /\ Column("coupon")' = Column("coupon") /\ Column("point")' = Column("point")
          /\ Column("use")' = Column("use")
      BY <3>3, <3>4, GrantsKept
    <3>6. LinesFinite' /\ Sheet'
      BY <3>3, <3>4 DEF CalculationInv, LinesFinite, Sheet
    <3>7. SplitIsFair'
      BY <3>1, <3>2 DEF SplitIsFair
    <3>8. CASE PayOver(line, Lines) = 0
      <4>1. \A i \in Lines : line'[i] \in LineRecord /\ Explained(line'[i]) /\ line'[i].delivery = line[i].delivery
        BY <1>2, <3>2, <3>4, <3>8
      <4>2. ASSUME NEW i \in Lines PROVE line'[i].pay = line[i].pay
        <5>1. PICK l \in LineRecord, k \in LineRecord : l = line[i] /\ k = line'[i] /\ Explained(l) /\ Explained(k)
          BY <4>1 DEF CalculationInv, Sheet
        <5>2. Kept(k, l, {"delivery", "pay"}) /\ k.delivery = l.delivery
          BY <3>4, <4>1, <5>1
        <5>3. /\ k.price = l.price /\ k.count = l.count /\ k.discount = l.discount /\ k.vip = l.vip
              /\ k.coupon = l.coupon /\ k.point = l.point
          BY <5>2 DEF Kept, Columns
        <5> QED BY <5>1, <5>2, <5>3 DEF Explained, Full
      <4>3. PayOver(line, Lines)' = PayOver(line, Lines)
        BY <1>3, <3>3, <4>2, ColumnStays, PayIsColumn
      <4>4. InLines'
        BY <1>0, <2>1, <2>3, <3>5, <3>8, <4>3 DEF CalculationInv, InLines
      <4> QED BY <2>4, <3>6, <3>7, <4>4 DEF CalculationInv
    <3>9. CASE PayOver(line, Lines) # 0
      <4>1. IsFiniteSet(Lines') /\ Lines \in SUBSET Lines'
        BY <1>3, <3>3
      <4>2. \A i \in Lines : share[i] \in Int /\ line'[i].delivery = share[i]
        BY <3>2, <3>4
      <4>3. \A i \in Lines' \ Lines : line'[i].delivery = 0
        BY <3>3
      <4>4. Column("delivery")' = SumFunctionOnSet(share, Lines)
        BY <4>1, <4>2, <4>3, ColumnSplit
      <4>5. Column("delivery")' = freight
        BY <3>2, <3>9, <4>4
      <4>6. InLines'
        BY <1>0, <2>1, <2>3, <3>5, <4>5 DEF CalculationInv, InLines
      <4> QED BY <2>4, <3>6, <3>7, <4>6 DEF CalculationInv
    <3> QED BY <3>8, <3>9
  <2> QED BY <2>5, <2>6
<1> QED BY <1>1, <1>6, <1>7

LEMMA GivePointsKeeps == ASSUME CalculationInv, GivePoints PROVE CalculationInv'
<1>1. stage = "give" /\ stage' = "validate" /\ UNCHANGED <<kind, granted>>
  BY DEF GivePoints, Passes
<1>2. IsFiniteSet(Lines) /\ Lines \in SUBSET Lines
  BY DEF CalculationInv, LinesFinite
<1>3. CalculationTyped' /\ OneSaving' /\ NotYet'
  BY <1>1 DEF CalculationInv, CalculationTyped, OneSaving, NotYet, EarlyStages
<1>4. CASE split' = {} /\ line' = line
  <2>1. LinesFinite' /\ Sheet' /\ (Distinct' <=> Distinct) /\ Column("delivery")' = Column("delivery")
    BY <1>4 DEF CalculationInv, LinesFinite, Sheet, Lines, Distinct, Column
  <2>2. Column("coupon")' = Column("coupon") /\ Column("point")' = Column("point") /\ Column("use")' = Column("use")
    BY <1>4 DEF Column, Lines
  <2>3. PayOver(line, Lines)' = PayOver(line, Lines)
    BY <1>4 DEF Lines
  <2>4. SplitIsFair'
    BY <1>4 DEF SplitIsFair
  <2>5. InLines'
    BY <1>1, <2>1, <2>2, <2>3 DEF CalculationInv, InLines
  <2> QED BY <1>3, <2>1, <2>4, <2>5 DEF CalculationInv
<1>5. CASE ~(split' = {} /\ line' = line)
  <2>1. PICK given : given = PayOver(line, Lines) \div GiveRate
    OBVIOUS
  <2>2. PICK share \in DivideOver(line, Lines, given) :
           /\ line' = [i \in Lines |-> [line[i] EXCEPT !.give = share[i]]]
           /\ split' = {Made(line, Lines, given, share)}
    BY <1>5, <2>1 DEF GivePoints
  <2>3. given \in Int
    <3>1. PayOver(line, Lines) \in Int
      <4> DEFINE p == [i \in Lines |-> line[i].pay]
      <4>1. \A i \in Lines : p[i] \in Int
        BY LineFields DEF CalculationInv, Sheet
      <4>2. PayOver(line, Lines) = SumFunctionOnSet(p, Lines)
        BY PayOverIs
      <4> HIDE DEF p
      <4> QED BY <1>2, <4>1, <4>2, SumIsInt
    <3>2. GiveRate \in Nat \ {0}
      BY CalculationAssumption
    <3> QED BY <2>1, <3>1, <3>2
  <2>4. share \in [Lines -> Int] /\ Fair(Made(line, Lines, given, share))
    BY <1>2, <2>3, SplitOver
  <2>5. Lines' = Lines
    BY <2>2 DEF Lines
  <2>6. ASSUME NEW i \in Lines
        PROVE  /\ line'[i] \in LineRecord /\ Explained(line'[i])
               /\ Kept(line'[i], line[i], {"give"})
    <3>1. PICK l \in LineRecord : l = line[i] /\ Explained(l)
      BY DEF CalculationInv, Sheet
    <3>2. PICK x \in Int : x = share[i]
      BY <2>4
    <3>3. line'[i] = [l EXCEPT !.give = x]
      BY <2>2, <3>1, <3>2
    <3> QED BY <3>1, <3>2, <3>3, GiveSet
  <2>7. /\ Distinct' <=> Distinct
        /\ Column("coupon")' = Column("coupon") /\ Column("point")' = Column("point")
        /\ Column("use")' = Column("use")
    BY <2>5, <2>6, GrantsKept
  <2>8. Column("delivery")' = Column("delivery") /\ PayOver(line, Lines)' = PayOver(line, Lines)
    <3>1. \A c \in Columns \ {"give"} : Column(c)' = Column(c)
      BY <2>5, <2>6, SumsKept DEF CalculationInv
    <3>2. "delivery" \in Columns \ {"give"} /\ "pay" \in Columns \ {"give"}
      BY DEF Columns
    <3> QED BY <3>1, <3>2, PayIsColumn
  <2>9. LinesFinite' /\ Sheet'
    BY <2>5, <2>6 DEF CalculationInv, LinesFinite, Sheet
  <2>10. SplitIsFair'
    BY <2>2, <2>4 DEF SplitIsFair
  <2>11. InLines'
    BY <1>1, <2>7, <2>8 DEF CalculationInv, InLines
  <2> QED BY <1>3, <2>9, <2>10, <2>11 DEF CalculationInv
<1> QED BY <1>4, <1>5

LEMMA ValidateResponseKeeps == ASSUME CalculationInv, ValidateResponse PROVE CalculationInv'
<1>1. /\ stage = "validate" /\ UNCHANGED <<kind, line, split, granted>>
      /\ stage' = IF kind = "point" \/ PayOver(line, Lines) > 0 THEN "accepted" ELSE "refused"
  BY DEF ValidateResponse
<1>2. stage' \in {"accepted", "refused"}
  BY <1>1
<1>3. LinesFinite' /\ Sheet' /\ (Distinct' <=> Distinct) /\ Column("delivery")' = Column("delivery")
  BY <1>1 DEF CalculationInv, LinesFinite, Sheet, Lines, Distinct, Column
<1>4. Column("coupon")' = Column("coupon") /\ Column("point")' = Column("point") /\ Column("use")' = Column("use")
  BY <1>1 DEF Column, Lines
<1>5. PayOver(line, Lines)' = PayOver(line, Lines)
  BY <1>1 DEF Lines
<1>6. CalculationTyped' /\ OneSaving' /\ NotYet' /\ SplitIsFair'
  BY <1>1, <1>2 DEF CalculationInv, CalculationTyped, OneSaving, NotYet, EarlyStages, SplitIsFair
<1>7. InLines'
  BY <1>1, <1>3, <1>4, <1>5 DEF CalculationInv, InLines
<1> QED BY <1>3, <1>6, <1>7 DEF CalculationInv

LEMMA CalculationStepKeeps ==
    ASSUME CalculationInv, [CalculationNext]_calculationVars PROVE CalculationInv'
<1>1. CASE CalculationNext
  BY <1>1, BuildItemsKeeps, ActivityPriceKeeps, DiscountActivityKeeps, RewardActivityKeeps, DeductCouponKeeps,
     UsePointsKeeps, DeliveryKeeps, GivePointsKeeps, ValidateResponseKeeps DEF CalculationNext
<1>2. CASE UNCHANGED calculationVars
  BY <1>2 DEF calculationVars, CalculationInv, CalculationTyped, LinesFinite, Sheet, SplitIsFair, OneSaving, NotYet,
              InLines, Lines, Column, Distinct, PayOver
<1> QED BY <1>1, <1>2

(* Every price that is accepted adds up (price_service.go): each split loses *)
(* nothing and errs by a cent a line at most, each line keeps one of the two *)
(* savings, what coupon, points and freight come to is in the lines, and the *)
(* price to pay is what the columns say.                                    *)
THEOREM PriceAddsUpAlways == CalculationSpec => []PriceAddsUp
<1>1. CalculationInit => CalculationInv
  BY CalculationInitOK
<1>2. CalculationInv /\ [CalculationNext]_calculationVars => CalculationInv'
  BY CalculationStepKeeps
<1>3. CalculationInv => PriceAddsUp
  BY CalculationInvAddsUp
<1> QED BY <1>1, <1>2, <1>3, PTL DEF CalculationSpec
=============================================================================
