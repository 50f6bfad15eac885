---------------------------- MODULE RefundLedger ----------------------------
(***************************************************************************)
(* What the refunds of one paid order promise, each operation being atomic: *)
(* an amount is reserved while its refund is pending, becomes refunded when *)
(* the refund is done and free again when it is rejected.  PayRefund shows  *)
(* that transactions, callbacks and queries in any order implement this.    *)
(***************************************************************************)
EXTENDS Integers

CONSTANTS Refunds,   \* the merchant's refund ids
          Price      \* what the order was paid with, in cents

VARIABLES refunded,  \* the sum refunded so far
          state,     \* of each refund
          amount     \* of each refund

ledger == <<refunded, state, amount>>

States == {"none", "waiting", "success", "failure"}

Init == /\ refunded = 0
        /\ state = [r \in Refunds |-> "none"]
        /\ amount = [r \in Refunds |-> 0]

Reserve(r, a) ==
    /\ state[r] = "none"
    /\ \A s \in Refunds : state[s] # "waiting"
    /\ a \in 1..(Price - refunded)
    /\ state' = [state EXCEPT ![r] = "waiting"]
    /\ amount' = [amount EXCEPT ![r] = a]
    /\ UNCHANGED refunded

Settle(r) ==
    /\ state[r] = "waiting"
    /\ state' = [state EXCEPT ![r] = "success"]
    /\ refunded' = refunded + amount[r]
    /\ UNCHANGED amount

Release(r) ==
    /\ state[r] = "waiting"
    /\ state' = [state EXCEPT ![r] = "failure"]
    /\ UNCHANGED <<refunded, amount>>

Next == \E r \in Refunds : \/ \E a \in 1..Price : Reserve(r, a)
                           \/ Settle(r)
                           \/ Release(r)

Spec == Init /\ [][Next]_ledger

(* Never more than one refund is pending, and what is refunded and what is  *)
(* still pending never add up to more than the order was paid with.         *)
WithinPrice ==
    /\ refunded \in 0..Price
    /\ \A r \in Refunds : state[r] = "waiting" => /\ amount[r] \in 1..(Price - refunded)
                                                 /\ \A s \in Refunds : state[s] = "waiting" => s = r
=============================================================================
