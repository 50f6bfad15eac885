-------------------------------- MODULE PayRow --------------------------------
(***************************************************************************)
(* What one pay_order row promises to those who read it: it waits, is paid  *)
(* once, may be refunded, and ends closed.  Each write is atomic, and the   *)
(* steps between a read and a write are left to PayOrder, which shows that  *)
(* submissions, callbacks, queries and jobs in any order implement this.    *)
(* TradeOrder relies on it.                                                 *)
(***************************************************************************)
EXTENDS Integers

CONSTANT Prices   \* what an order may cost, in cents

VARIABLE row      \* status, price, and whether extension_id names a payment

Init == row = [status |-> "none", price |-> 0, paid |-> FALSE]

\* The row as it is after a write of these columns.
Written(status, price, paid) ==
    row' = [status |-> status, price |-> price, paid |-> paid]

Create(price) == row.status = "none" /\ Written("waiting", price, row.paid)

Pay == row.status = "waiting" /\ Written("success", row.price, TRUE)

Refund == row.status = "success" /\ Written("refund", row.price, row.paid)

\* ExpireOrder closes by id what it found waiting, whatever happened meanwhile.
Close == row.status # "none" /\ Written("closed", row.price, row.paid)

\* So does a change of the price: only the read before it looks at the status.
Reprice(price) == row.status # "none" /\ Written(row.status, price, row.paid)

Next == \/ \E price \in Prices : Create(price) \/ Reprice(price)
        \/ Pay \/ Refund \/ Close

Spec == Init /\ [][Next]_row
===============================================================================
