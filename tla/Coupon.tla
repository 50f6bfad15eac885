------------------------------- MODULE Coupon -------------------------------
(***************************************************************************)
(* The coupons of one template: taken by members, given by administrators,  *)
(* used by and returned from orders, expired by a job, deleted              *)
(* (src/internal/service/mall/promotion/coupon.go and coupon_user.go).      *)
(***************************************************************************)
EXTENDS Integers, FiniteSets

CONSTANTS Members,     \* members who take coupons
          Takers,      \* requests that take one
          Buyers,      \* orders that use one
          TotalCount,  \* how many coupons the template has; 0: any number
          TakeLimit,   \* how many a member may take; 0: any number
          MaxCoupons   \* bound on the rows of promotion_coupon

ASSUME CouponAssumption ==
          /\ IsFiniteSet(Takers)
          /\ TotalCount \in Nat /\ TakeLimit \in Nat /\ MaxCoupons \in Nat

VARIABLES takeCount,  \* take_count of the template
          coupon,     \* the rows of promotion_coupon, by number
          over,       \* coupons past valid_end_time
          bought,     \* the coupon each order holds; 0: none
          taker       \* what each request holds between two statements

couponVars == <<takeCount, coupon, over, bought, taker>>

Coupons == 1..MaxCoupons
NoCoupon == [status |-> "none", owner |-> {}, given |-> FALSE, order |-> {}]
Away == [pc |-> "idle", member |-> {}, total |-> 0, own |-> 0]

Hold(p, r) == taker' = [taker EXCEPT ![p] = r]
\* Deleted rows are not counted.
Own(m) == Cardinality({c \in Coupons : m \in coupon[c].owner /\ coupon[c].status # "deleted"})
NewCoupon(c) == coupon[c].status = "none" /\ \A d \in 1..(c - 1) : coupon[d].status # "none"
Inserted(c, m, given) ==
    coupon' = [coupon EXCEPT ![c] = [NoCoupon EXCEPT !.status = "unused", !.owner = {m}, !.given = given]]

CouponInit ==
    /\ takeCount = 0
    /\ coupon = [c \in Coupons |-> NoCoupon]
    /\ over = {}
    /\ bought = [o \in Buyers |-> 0]
    /\ taker = [p \in Takers |-> Away]

-----------------------------------------------------------------------------
(* TakeCoupon: two looks, then a transaction that checks nothing.            *)

\* Mutant: one coupon more.
OneOver(n) == TotalCount > 0 => n <= TotalCount
InStock(n) == TotalCount > 0 => n < TotalCount
BelowLimit(n) == TakeLimit > 0 => n < TakeLimit

TakeRead(p, m) ==
    /\ taker[p].pc = "idle"
    /\ InStock(takeCount)
    /\ Hold(p, [Away EXCEPT !.pc = "count", !.member = {m}, !.total = takeCount])
    /\ UNCHANGED <<takeCount, coupon, over, bought>>

TakeCheck(p) ==
    \E m \in taker[p].member :
        /\ taker[p].pc = "count"
        /\ IF BelowLimit(Own(m)) THEN Hold(p, [taker[p] EXCEPT !.pc = "take", !.own = Own(m)])
                                 ELSE Hold(p, Away)
        /\ UNCHANGED <<takeCount, coupon, over, bought>>

Counted(p) == takeCount + 1

TakeCoupon(p, c) ==
    \E m \in taker[p].member :
        /\ taker[p].pc = "take"
        /\ NewCoupon(c)
        /\ takeCount' = Counted(p)
        /\ Inserted(c, m, FALSE)
        /\ Hold(p, Away)
        /\ UNCHANGED <<over, bought>>

TakeFails(p) ==
    /\ taker[p].pc # "idle"
    /\ Hold(p, Away)
    /\ UNCHANGED <<takeCount, coupon, over, bought>>

\* No limit holds for an administrator, and take_count does not change.
TakeCouponByAdmin(m, c) ==
    /\ NewCoupon(c)
    /\ Inserted(c, m, TRUE)
    /\ UNCHANGED <<takeCount, over, bought, taker>>

-----------------------------------------------------------------------------
(* Use and return are part of the transaction of the order (Checkout).       *)

UseCoupon(o, c) ==
    /\ bought[o] = 0
    /\ coupon[c].status = "unused" /\ c \notin over
    /\ coupon' = [coupon EXCEPT ![c].status = "used", ![c].order = {o}]
    /\ bought' = [bought EXCEPT ![o] = c]
    /\ UNCHANGED <<takeCount, over, taker>>

\* A coupon that is past its time comes back unused, too.
ReturnCouponForOrder(o) ==
    LET c == bought[o] IN
    /\ c # 0
    /\ coupon[c].status = "used" /\ coupon[c].order = {o}
    /\ coupon' = [coupon EXCEPT ![c].status = "unused", ![c].order = {}]
    /\ bought' = [bought EXCEPT ![o] = 0]
    /\ UNCHANGED <<takeCount, over, taker>>

MayExpire(c) == c \in over /\ coupon[c].status = "unused"
Expired == "expired"

ExpireCoupon ==
    /\ \E c \in Coupons : MayExpire(c)
    /\ coupon' = [c \in Coupons |->
                    IF MayExpire(c) THEN [coupon[c] EXCEPT !.status = Expired] ELSE coupon[c]]
    /\ UNCHANGED <<takeCount, over, bought, taker>>

CouponTimePasses(c) ==
    /\ coupon[c].status # "none" /\ c \notin over
    /\ over' = over \cup {c}
    /\ UNCHANGED <<takeCount, coupon, bought, taker>>

\* Whatever its status is; take_count does not change.
DeleteCoupon(c) ==
    /\ coupon[c].status \notin {"none", "deleted"}
    /\ coupon' = [coupon EXCEPT ![c].status = "deleted"]
    /\ UNCHANGED <<takeCount, over, bought, taker>>

CouponNext ==
    \/ \E p \in Takers : \/ \E m \in Members : TakeRead(p, m)
                         \/ TakeCheck(p) \/ TakeFails(p)
                         \/ \E c \in Coupons : TakeCoupon(p, c)
    \/ \E c \in Coupons : \/ \E m \in Members : TakeCouponByAdmin(m, c)
                          \/ \E o \in Buyers : UseCoupon(o, c)
                          \/ CouponTimePasses(c) \/ DeleteCoupon(c)
    \/ \E o \in Buyers : ReturnCouponForOrder(o)
    \/ ExpireCoupon

CouponSpec == CouponInit /\ [][CouponNext]_couponVars

-----------------------------------------------------------------------------
CouponTypeOK ==
    /\ takeCount \in Nat
    /\ coupon \in [Coupons -> [status : {"none", "unused", "used", "expired", "deleted"},
                               owner : SUBSET Members, given : BOOLEAN, order : SUBSET Buyers]]
    /\ over \subseteq Coupons
    /\ bought \in [Buyers -> 0..MaxCoupons]
    /\ taker \in [Takers -> [pc : {"idle", "count", "take"}, member : SUBSET Members,
                             total : Nat, own : Nat]]

(* Every coupon that was taken is counted once, and none that was given,    *)
(* however many are taken at a time (coupon_user.go:99).                    *)
TakenCounted ==
    takeCount = Cardinality({c \in Coupons : coupon[c].status # "none" /\ ~coupon[c].given})

(* A coupon is taken beyond the template's number, or beyond the member's    *)
(* limit, only by a request whose look at the count another request or an    *)
(* administrator has made stale since (coupon_user.go:56).                   *)
ExcessIsStale ==
    [][\A p \in Takers : taker[p].pc = "take" /\ takeCount' > takeCount /\ taker'[p].pc = "idle" =>
          /\ TotalCount = 0 \/ takeCount < TotalCount \/ taker[p].total # takeCount
          /\ \A m \in taker[p].member :
                TakeLimit = 0 \/ Own(m) < TakeLimit \/ taker[p].own # Own(m)]_couponVars

(* The coupon of an order stays used by that order, past its time too, until *)
(* it is returned or deleted; and the coupons that are used have one order.  *)
BoughtIsUsed ==
    /\ \A o \in Buyers : bought[o] # 0 =>
          LET c == coupon[bought[o]] IN c.order = {o} /\ c.status \in {"used", "deleted"}
    /\ \A c \in Coupons : coupon[c].status = "used" => \E o \in Buyers : bought[o] = c

(* Together: every coupon is counted, and every use of one has its order.    *)
CouponsAccounted == CouponTypeOK /\ TakenCounted /\ BoughtIsUsed

(* Together: coupons are accounted for, and where a limit is exceeded a      *)
(* stale look at the count is to blame.                                     *)
CouponsExplained == []CouponsAccounted /\ ExcessIsStale
=============================================================================
