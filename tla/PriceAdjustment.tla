--------------------------- MODULE PriceAdjustment ---------------------------
(***************************************************************************)
(* The adjustment of an unpaid order's price                                *)
(* (src/internal/service/mall/trade/order_update.go, UpdateOrderPrice): the  *)
(* order is read, then locked by its own update; the items are read behind  *)
(* the lock and each takes its share; the pay order follows on another      *)
(* connection, before the commit.                                           *)
(***************************************************************************)
EXTENDS Integers, Sequences, Functions

CONSTANTS Adjusters,       \* requests of administrators
          ItemPrices,      \* the prices of the items, in their order
          Changes,         \* what a request may add to the price
          MaxChanges,      \* bound on the adjustments
          MaxPriceFaults   \* bound on failed statements and crashes

ASSUME PriceAssumption ==
    /\ ItemPrices \in Seq(Nat) /\ ItemPrices # << >>
    /\ Changes \subseteq Int /\ MaxChanges \in Nat /\ MaxPriceFaults \in Nat

VARIABLES order,        \* price and adjustment of the trade order, committed
          item,         \* prices of its items, committed
          payPrice,     \* price of its pay order
          paid,         \* the pay order, and with it the order, is paid
          lost,         \* history: adjustments the items have and the order lost
          changes,      \* adjustments begun
          priceFaults,  \* faults so far
          adjuster      \* what each request holds between two statements

priceVars == <<order, item, payPrice, paid, lost, changes, priceFaults, adjuster>>

Items == DOMAIN ItemPrices
Last == CHOOSE i \in Items : \A j \in Items : j <= i
Sum(f) == SumFunction(f)
Zero == [i \in Items |-> 0]

\* Go's division drops the fraction.
Quotient(a, b) == LET q(x, y) == IF x >= 0 THEN x \div y ELSE -((-x) \div y)
                  IN IF b > 0 THEN q(a, b) ELSE q(-a, -b)

Even(change) == Quotient(change, Last)
Part(prices, change, i) == IF Sum(prices) = 0 THEN Even(change)
                           ELSE Quotient(change * prices[i], Sum(prices))

\* Mutant: the last item is rounded like the others.
LastRounded(prices, change) == Part(prices, change, Last)
LastShare(prices, change) ==
    change - Sum([i \in Items \ {Last} |-> Part(prices, change, i)])

\* dividePriceToOrderItems.
DividePrice(prices, change) ==
    [i \in Items |-> IF i = Last THEN LastShare(prices, change) ELSE Part(prices, change, i)]

NoRequest == [pc |-> "idle", change |-> 0, price |-> 0, adjust |-> 0, items |-> Zero, share |-> Zero]
Ask(a, l) == adjuster' = [adjuster EXCEPT ![a] = l]
Continue(a, pc) == Ask(a, [adjuster[a] EXCEPT !.pc = pc])
NewPrice(l) == l.price + l.change
Locked == \E a \in Adjusters : adjuster[a].pc \in {"locked", "pay", "write", "commit"}

PriceInit ==
    /\ order = [price |-> Sum(ItemPrices), adjust |-> 0]
    /\ item = ItemPrices
    /\ payPrice = Sum(ItemPrices)
    /\ paid = FALSE
    /\ lost = 0 /\ changes = 0 /\ priceFaults = 0
    /\ adjuster = [a \in Adjusters |-> NoRequest]

\* Step 1 to 4, without a lock: an adjustment downwards does not count as one.
ReadOrder(a, change) ==
    /\ adjuster[a].pc = "idle"
    /\ changes < MaxChanges
    /\ ~paid
    /\ order.adjust <= 0
    /\ order.price + change > 0
    /\ changes' = changes + 1
    /\ Ask(a, [NoRequest EXCEPT !.pc = "update", !.change = change, !.price = order.price,
                                !.adjust = order.adjust])
    /\ UNCHANGED <<order, item, payPrice, paid, lost, priceFaults>>

\* Step 5: by id, with the sums computed from what was read.
UpdateOrder(a) ==
    /\ adjuster[a].pc = "update"
    /\ ~Locked
    /\ Continue(a, "locked")
    /\ UNCHANGED <<order, item, payPrice, paid, lost, changes, priceFaults>>

\* Step 6: the items, and their shares by value; nobody sees them before the commit.
UpdateItems(a) ==
    /\ adjuster[a].pc = "locked"
    /\ Ask(a, [adjuster[a] EXCEPT !.pc = "pay", !.items = item,
                                  !.share = DividePrice(item, adjuster[a].change)])
    /\ UNCHANGED <<order, item, payPrice, paid, lost, changes, priceFaults>>

\* Step 7: the look of UpdatePayOrderPrice; a paid one rolls everything back.
ReadPayOrder(a) ==
    /\ adjuster[a].pc = "pay"
    /\ IF paid THEN Ask(a, NoRequest) ELSE Continue(a, "write")
    /\ UNCHANGED <<order, item, payPrice, paid, lost, changes, priceFaults>>

UpdatePayOrderPrice(a) ==
    /\ adjuster[a].pc = "write"
    /\ payPrice' = NewPrice(adjuster[a])
    /\ Continue(a, "commit")
    /\ UNCHANGED <<order, item, paid, lost, changes, priceFaults>>

CommitPrice(a) ==
    LET l == adjuster[a] IN
    /\ l.pc = "commit"
    /\ order' = [price |-> NewPrice(l), adjust |-> l.adjust + l.change]
    /\ item' = [i \in Items |-> l.items[i] + l.share[i]]
    /\ lost' = lost + (order.price - l.price)
    /\ Ask(a, NoRequest)
    /\ UNCHANGED <<payPrice, paid, changes, priceFaults>>

\* Order and items are rolled back; the pay order is not.
AdjustmentFails(a) ==
    /\ adjuster[a].pc # "idle" /\ priceFaults < MaxPriceFaults
    /\ priceFaults' = priceFaults + 1
    /\ Ask(a, NoRequest)
    /\ UNCHANGED <<order, item, payPrice, paid, lost, changes>>

\* The channel's answer; TradeOrder has the steps from the pay order to the order.
PayOrderPaid ==
    /\ ~paid
    /\ paid' = TRUE
    /\ UNCHANGED <<order, item, payPrice, lost, changes, priceFaults, adjuster>>

PriceNext ==
    \/ \E a \in Adjusters :
          \/ \E change \in Changes : ReadOrder(a, change)
          \/ UpdateOrder(a) \/ UpdateItems(a) \/ ReadPayOrder(a) \/ UpdatePayOrderPrice(a)
          \/ CommitPrice(a) \/ AdjustmentFails(a)
    \/ PayOrderPaid

PriceSpec == PriceInit /\ [][PriceNext]_priceVars

-----------------------------------------------------------------------------
PriceTypeOK ==
    /\ order \in [price : Int, adjust : Int]
    /\ item \in [Items -> Int]
    /\ payPrice \in Int /\ lost \in Int
    /\ paid \in BOOLEAN
    /\ changes \in 0..MaxChanges /\ priceFaults \in 0..MaxPriceFaults
    /\ adjuster \in [Adjusters -> [pc : {"idle", "update", "locked", "pay", "write", "commit"},
                                   change : Int, price : Int, adjust : Int,
                                   items : [Items -> Int], share : [Items -> Int]]]

(* The items add up to the price of the order, but for the adjustments that  *)
(* another one, which had read the order before, wrote over: those are in   *)
(* the items and not in the order (line 318).                               *)
ItemsAddUp == Sum(item) = order.price + lost

(* The shares of a change are the whole of it, and each is its item's part  *)
(* of it, up to one unit for every item that was rounded (line 383).        *)
SharesAreFair ==
    \A a \in Adjusters : adjuster[a].pc \in {"pay", "write", "commit"} =>
       LET l == adjuster[a]
           sum == Sum(l.items)
           size == IF sum < 0 THEN -sum ELSE sum
           gap(i) == l.share[i] * sum - l.change * l.items[i] IN
       /\ Sum(l.share) = l.change
       /\ sum # 0 => \A i \in Items : gap(i) < Last * size /\ -gap(i) < Last * size
       /\ sum = 0 => \A i, j \in Items \ {Last} : l.share[i] = l.share[j]

(* The pay order has the order's price, unless a request holds the lock or   *)
(* was cut off between the two commits (line 339).                          *)
PayPriceFollows == payPrice = order.price \/ priceFaults > 0 \/ Locked

(* Together: order, items and pay order agree on what was adjusted.         *)
PricesAgree == PriceTypeOK /\ ItemsAddUp /\ SharesAreFair /\ PayPriceFollows
=============================================================================
