-------------------------------- MODULE Cart --------------------------------
(***************************************************************************)
(* The cart of one member (src/internal/service/mall/trade/cart.go), whose   *)
(* requests read rows in one statement and write them in another, in no      *)
(* transaction and under no unique index: two devices, or a double click,    *)
(* come in between.  Stock moves on its own: a request may be refused for it *)
(* whenever it looks.  Left out: which rows are selected, and the lists.     *)
(***************************************************************************)
EXTENDS Integers, Sequences, FiniteSetsExt, Functions

CONSTANTS Taps,        \* requests that may run side by side
          Wares,       \* SKUs
          MaxAsked,    \* largest count of a request
          MaxTaps,     \* bound on the requests
          MaxTapFaults \* bound on statements that fail

ASSUME CartAssumption == IsFiniteSet(Wares) /\ {MaxAsked, MaxTaps, MaxTapFaults} \subseteq Nat

VARIABLES cart,     \* the rows in the order of their ids, those deleted too
          tap,      \* what each request under way has read, and what it is to do
          tapCount, \* requests and failed statements so far
          alone     \* history: what the cart held at the beginning of the last request of
                    \* each tap, if no other write and no fault has met it

cartVars == <<cart, tap, tapCount, alone>>

RowsIn(c) == {i \in DOMAIN c : c[i].live}
Rows == RowsIn(cart)
Stands(t, pc) == t \in DOMAIN tap /\ tap[t].pc = pc

\* First() of the rows of a SKU; 0 for none.
FirstRow(s) == LET I == {i \in Rows : cart[i].sku = s} IN IF I = {} THEN 0 ELSE Min(I)

\* How much of each SKU the cart holds.
Held(c) == [s \in Wares |-> SumFunction([i \in {j \in RowsIn(c) : c[j].sku = s} |-> c[i].count])]

CartInit ==
    /\ cart = << >>
    /\ tap = << >>
    /\ tapCount = [requests |-> 0, faults |-> 0]
    /\ alone = << >>

-----------------------------------------------------------------------------
Continues(t, l) == tap' = [u \in DOMAIN tap \cup {t} |-> IF u = t THEN l ELSE tap[u]]
Done(t) == tap' = Restrict(tap, DOMAIN tap \ {t})

\* Whoever writes the cart meets the other requests under way.
Meets(t) == alone' = Restrict(alone, DOMAIN alone \cap {t})
Spoils(t) == alone' = Restrict(alone, DOMAIN alone \ {t})

\* A request begins by reading; off is the row whose count it is to replace.
Begin(t, l, off) ==
    /\ t \notin DOMAIN tap /\ tapCount.requests < MaxTaps
    /\ tapCount' = [tapCount EXCEPT !.requests = @ + 1]
    /\ Continues(t, l)
    /\ alone' = [u \in DOMAIN alone \cup {t} |->
                    IF u = t THEN [rows |-> cart, off |-> off, sku |-> l.sku, on |-> l.count]
                    ELSE alone[u]]
    /\ UNCHANGED cart

\* AddCart: row is the one found, 0 for none, and the sum is made of it.
ReadForAdd(t, s, n) ==
    LET i == FirstRow(s) IN
    Begin(t, [pc |-> "add", row |-> i, sku |-> s, count |-> n,
              into |-> i, new |-> IF i = 0 THEN n ELSE cart[i].count + n], 0)

\* An update by id does nothing to a row deleted meanwhile.
WithCount(i, n) == IF cart[i].live THEN [cart EXCEPT ![i].count = n] ELSE cart

AddCart(t) ==
    LET l == tap[t] IN
    /\ Stands(t, "add")
    /\ cart' = IF l.row # 0 THEN WithCount(l.row, l.new)
               ELSE Append(cart, [live |-> TRUE, sku |-> l.sku, count |-> l.count])
    /\ Meets(t) /\ Done(t)
    /\ UNCHANGED tapCount

\* UpdateCartCount, and ResetCart to the SKU the row has, which comes to the same.
ReadForCount(t, i, n) ==
    Begin(t, [pc |-> "count", row |-> i, sku |-> cart[i].sku, count |-> n, into |-> 0, new |-> n], i)

UpdateCartCount(t) ==
    /\ Stands(t, "count")
    /\ cart' = WithCount(tap[t].row, tap[t].count)
    /\ Meets(t) /\ Done(t)
    /\ UNCHANGED tapCount

-----------------------------------------------------------------------------
(* ResetCart: another SKU for a row.                                        *)

ReadForReset(t, i, s, n) ==
    /\ s # cart[i].sku
    /\ Begin(t, [pc |-> "reset", row |-> i, sku |-> s, count |-> n, into |-> 0, new |-> n], i)

\* The row the cart has of that SKU, if any; an error here counts as none.
FindExisting(t) ==
    LET l == tap[t]
        i == FirstRow(l.sku) IN
    /\ Stands(t, "reset")
    /\ Continues(t, IF i = 0 THEN [l EXCEPT !.pc = "repoint"]
                    ELSE [l EXCEPT !.pc = "merge", !.into = i, !.new = cart[i].count + l.count])
    /\ UNCHANGED <<cart, tapCount, alone>>

Repoint(t) ==
    LET l == tap[t] IN
    /\ Stands(t, "repoint")
    /\ cart' = IF cart[l.row].live
               THEN [cart EXCEPT ![l.row].sku = l.sku, ![l.row].count = l.count] ELSE cart
    /\ Meets(t) /\ Done(t)
    /\ UNCHANGED tapCount

\* Mutant: the merged row has only what the request asks for.
AskedOnly(l) == WithCount(l.into, l.count)
MergedCart(l) == WithCount(l.into, l.new)

Merge(t) ==
    LET l == tap[t] IN
    /\ Stands(t, "merge")
    /\ cart' = MergedCart(l)
    /\ Meets(t)
    /\ Continues(t, [l EXCEPT !.pc = "remove"])
    /\ UNCHANGED tapCount

Removing(I) == [i \in DOMAIN cart |-> IF i \in I THEN [cart[i] EXCEPT !.live = FALSE] ELSE cart[i]]

RemoveMerged(t) ==
    /\ Stands(t, "remove")
    /\ cart' = Removing({tap[t].row})
    /\ Meets(t) /\ Done(t)
    /\ UNCHANGED tapCount

\* DeleteCart, by the member or by an order that has been placed: one statement.
DeleteCart(t) ==
    /\ t \notin DOMAIN tap
    /\ \E I \in SUBSET Rows \ {{}} : cart' = Removing(I)
    /\ Meets(t)
    /\ UNCHANGED <<tap, tapCount>>

-----------------------------------------------------------------------------
\* No such SKU, or not enough of it: looked up after the row was read.
StockRefuses(t) ==
    /\ Stands(t, "add") \/ Stands(t, "count") \/ Stands(t, "reset")
    /\ Done(t) /\ Spoils(t)
    /\ UNCHANGED <<cart, tapCount>>

Fault == tapCount.faults < MaxTapFaults /\ tapCount' = [tapCount EXCEPT !.faults = @ + 1]

\* Errors of a merge are dropped: what comes next is done all the same.
StatementFails(t) ==
    /\ Fault /\ t \in DOMAIN tap
    /\ \/ Stands(t, "merge") /\ Continues(t, [tap[t] EXCEPT !.pc = "remove"])
       \/ Stands(t, "reset") /\ Continues(t, [tap[t] EXCEPT !.pc = "repoint"])
       \/ ~Stands(t, "merge") /\ ~Stands(t, "reset") /\ Done(t)
    /\ Spoils(t)
    /\ UNCHANGED cart

TapDies(t) ==
    /\ Fault /\ t \in DOMAIN tap
    /\ Done(t) /\ Spoils(t)
    /\ UNCHANGED cart

CartNext ==
    \E t \in Taps :
       \/ \E s \in Wares, n \in 1..MaxAsked :
             \/ ReadForAdd(t, s, n)
             \/ \E i \in Rows : ReadForReset(t, i, s, n)
       \/ \E i \in Rows, n \in 1..MaxAsked : ReadForCount(t, i, n)
       \/ AddCart(t) \/ UpdateCartCount(t) \/ FindExisting(t) \/ Repoint(t) \/ Merge(t)
       \/ RemoveMerged(t) \/ DeleteCart(t) \/ StockRefuses(t) \/ StatementFails(t) \/ TapDies(t)

CartSpec == CartInit /\ [][CartNext]_cartVars

-----------------------------------------------------------------------------
CartTypeOK ==
    /\ cart \in Seq([live : BOOLEAN, sku : Wares, count : Nat \ {0}])
    /\ DOMAIN alone \subseteq Taps /\ DOMAIN tap \subseteq Taps
    /\ \A t \in DOMAIN tap : /\ tap[t].pc \in {"add", "count", "reset", "repoint", "merge", "remove"}
                             /\ {tap[t].row, tap[t].into} \subseteq 0..Len(cart)

OneRowEach(c) == \A i, j \in RowsIn(c) : c[i].sku = c[j].sku => i = j

\* What a request makes of the cart it began with: the count of one row less, its own more.
Asked(a) == [s \in Wares |->
    Held(a.rows)[s] - (IF a.off # 0 /\ a.rows[a.off].sku = s THEN a.rows[a.off].count ELSE 0)
                    + (IF a.sku = s THEN a.on ELSE 0)]

(* A request that meets no other write and no fault does what it would do in *)
(* a single step: the cart holds what was asked for, no more and no less, in  *)
(* whichever of the three ways ResetCart goes about it (cart.go:108), and one *)
(* row for each SKU if it had one before.  Two rows of one SKU, and counts    *)
(* that are lost or doubled, come only of requests that overlap.            *)
AloneIsAtomic ==
    [][\A t \in DOMAIN alone :
          (t \in DOMAIN tap \ DOMAIN tap' /\ t \in DOMAIN alone')
             => Held(cart') = Asked(alone[t])
                /\ (OneRowEach(alone[t].rows) => OneRowEach(cart'))]_cartVars

(* Together: rows are never empty, and requests that do not overlap are atomic. *)
CartExplained == []CartTypeOK /\ AloneIsAtomic
=============================================================================
