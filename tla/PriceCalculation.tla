-------------------------- MODULE PriceCalculation --------------------------
(***************************************************************************)
(* The price of a basket (src/internal/service/mall/trade/price_service.go): *)
(* the lines are built, then the calculators change them one after the      *)
(* other, in the order of their priorities, and the result is validated.    *)
(*                                                                         *)
(* Offers, rules, coupons and freight are what administrators configure and  *)
(* what the member holds: inputs of the step that reads them.  Every line   *)
(* is selected (convertToCalculateReq), so that the code for others never   *)
(* runs.  A quotient of two floats that should be whole may come out one    *)
(* below: Shares has both outcomes.                                         *)
(***************************************************************************)
EXTENDS Integers, Sequences, FiniteSetsExt, Functions

CONSTANTS SkuPrice,      \* the price of each SKU
          GiveIntegral,  \* the points each SKU gives by itself
          Baskets,       \* sequences of [sku, count]
          ActivityUnits, \* prices of a seckill, bargain, group or point activity
          Offers,        \* time-limited discounts of a SKU
          Levels,        \* percentages of member levels; 100 for none
          Campaigns,     \* sequences of running reward activities, the latest first
          Vouchers,      \* the coupons a member may hold
          PointBalances, \* points a member may have
          PointUnits,    \* value of a point, 0 if points are not taken
          MaxDeduct,     \* points an order may take, 0 for no limit
          Freights,      \* freight templates
          GiveRate       \* price that earns a point

ASSUME CalculationAssumption ==
    /\ \A s \in DOMAIN SkuPrice : SkuPrice[s] \in Nat \ {0}
    /\ \A s \in DOMAIN SkuPrice : GiveIntegral[s] \in Int
    /\ << >> \notin Baskets /\ Baskets \subseteq Seq([sku : DOMAIN SkuPrice, count : Nat \ {0}])
    /\ MaxDeduct \in Nat /\ GiveRate \in Nat \ {0}

\* What administrators enter: amounts, and percentages of something.
ASSUME PromotionAssumption ==
    /\ ActivityUnits \subseteq Int /\ Levels \subseteq Int
    /\ PointBalances \subseteq Int /\ PointUnits \subseteq Int
    /\ \A o \in Offers : \/ o.kind = "none"
                         \/ o.kind = "minus" /\ o.value \in Nat
                         \/ o.kind = "rate" /\ o.value \in 0..100
    /\ \A c \in Campaigns : \A n \in DOMAIN c :
          IsFiniteSet(c[n].rules) /\ \A r \in c[n].rules : r.off \in Int
    /\ \A v \in Vouchers : \/ v.kind = "off" /\ v.value \in Nat
                           \/ v.kind = "percent" /\ v.value \in 0..100 /\ v.most \in Nat
    /\ IsFiniteSet(Freights)
    /\ \A t \in Freights : /\ {t.startCount, t.startPrice, t.extraPrice} \subseteq Int
                           /\ t.extraCount \in Nat \ {0}

VARIABLES stage,    \* the calculator that is next
          kind,     \* the type of the order: "point", "sale" (the other activities) or "normal"
          line,     \* the lines of the response
          split,    \* the splits of the calculator that ran last
          granted   \* what coupon, points and freight come to as a whole

calculationVars == <<stage, kind, line, split, granted>>

Lines == DOMAIN line
SumOf(f) == SumFunction(f)
Full(l) == l.price * l.count

\* RecountPayPrice.
Recount(l) == [l EXCEPT !.pay = Full(l) - l.discount + l.delivery - l.coupon - l.point - l.vip]
PayOver(ls, I) == SumOf([i \in I |-> ls[i].pay])

-----------------------------------------------------------------------------
(* DividePrice over the lines I: the last takes what the others leave.      *)

\* Go's conversion to an integer drops the fraction.
Truncated(a, b) == LET q(x, y) == IF x >= 0 THEN x \div y ELSE -((-x) \div y)
                   IN IF b > 0 THEN q(a, b) ELSE q(-a, -b)

Shares(amount, pay, total) ==
    LET q == Truncated(amount * pay, total) IN
    {q} \cup IF q * total = amount * pay /\ pay # total /\ q # 0
             THEN {IF q > 0 THEN q - 1 ELSE q + 1} ELSE {}

EndOf(I) == CHOOSE i \in I : \A j \in I : j <= i

DivideOver(ls, I, amount) ==
    LET total == PayOver(ls, I)
        others == I \ {EndOf(I)} IN
    IF total = 0 THEN {[i \in I |-> 0]}
    ELSE {[i \in I |-> IF i \in others THEN f[i] ELSE amount - SumOf(f)] :
             f \in {g \in [others -> UNION {Shares(amount, ls[i].pay, total) : i \in others}] :
                       \A i \in others : g[i] \in Shares(amount, ls[i].pay, total)}}

\* What a split was made of: the properties look at it.
Made(ls, I, amount, share) == [amount |-> amount, pay |-> [i \in I |-> ls[i].pay], share |-> share]

Passes(next) == stage' = next /\ UNCHANGED kind
Refuse == stage' = "refused" /\ UNCHANGED <<kind, line, split, granted>>

-----------------------------------------------------------------------------
NoGrant == [coupon |-> 0, points |-> 0, value |-> 0, freight |-> 0]

CalculationInit ==
    /\ stage = "build" /\ kind = "normal"
    /\ line = << >> /\ split = {} /\ granted = NoGrant

BuildItems ==
    /\ stage = "build"
    /\ \E b \in Baskets, k \in {"normal", "sale", "point"} :
          /\ kind' = k
          /\ line' = [i \in DOMAIN b |->
                        LET price == SkuPrice[b[i].sku] IN
                        [sku |-> b[i].sku, count |-> b[i].count, price |-> price,
                         discount |-> 0, vip |-> 0, coupon |-> 0, point |-> 0, use |-> 0,
                         delivery |-> 0, give |-> GiveIntegral[b[i].sku] * b[i].count,
                         pay |-> price * b[i].count]]
          /\ stage' = IF k = "normal" THEN "discount" ELSE "activity"
    /\ UNCHANGED <<split, granted>>

\* The calculators of the four activities, of one line each.
ActivityPrice ==
    /\ stage = "activity"
    /\ \/ Refuse
       \/ \E unit \in ActivityUnits :
             /\ Len(line) = 1
             /\ line' = [i \in Lines |->
                           Recount([line[i] EXCEPT !.discount = @ + line[i].pay - unit * line[i].count])]
             /\ Passes("points")
             /\ UNCHANGED <<split, granted>>

Rated(price, percent) == IF percent <= 0 THEN 0 ELSE (price * percent) \div 100

OfferSaving(l, offer) ==
    CASE offer.kind = "none"  -> 0
      [] offer.kind = "minus" -> offer.value * l.count
      [] offer.kind = "rate"  -> Full(l) - Rated(Full(l), offer.value)

LevelSaving(l, level) == Full(l) - Rated(Full(l), level)

\* Mutant: the two discounts add up.
BothSavings(l, offer, level) ==
    [l EXCEPT !.discount = @ + OfferSaving(l, offer), !.vip = @ + LevelSaving(l, level)]
BetterSaving(l, offer, level) ==
    IF OfferSaving(l, offer) >= LevelSaving(l, level)
    THEN [l EXCEPT !.discount = @ + OfferSaving(l, offer)]
    ELSE [l EXCEPT !.vip = @ + LevelSaving(l, level)]

DiscountActivity ==
    /\ stage = "discount"
    /\ \E offer \in [DOMAIN SkuPrice -> Offers], level \in Levels :
          line' = [i \in Lines |-> Recount(BetterSaving(line[i], offer[line[i].sku], level))]
    /\ Passes("reward")
    /\ UNCHANGED <<split, granted>>

\* CalculateRewardActivity: what the best rule of an activity takes off its lines.
Matched(activity, taken) == {i \in Lines : line[i].sku \in activity.scope \ taken}
Reached(activity, rule, I) ==
    SumOf([i \in I |-> IF activity.byCount THEN line[i].count ELSE Full(line[i])]) >= rule.limit
RewardOf(activity, I) ==
    LET best == Max({0} \cup {rule.off : rule \in {r \in activity.rules : Reached(activity, r, I)}})
        most == SumOf([i \in I |-> Full(line[i])]) IN
    IF best > most THEN most ELSE best

\* The SKUs the activities before the n-th have taken.
TakenBefore(campaign) ==
    LET taken[n \in 1..Len(campaign)] ==
            IF n = 1 THEN {}
            ELSE LET before == taken[n - 1]
                     I == Matched(campaign[n - 1], before)
                 IN IF I # {} /\ RewardOf(campaign[n - 1], I) > 0
                    THEN before \cup {line[i].sku : i \in I} ELSE before
    IN taken

\* Their lines are disjoint, and each reward is split over its own.
RewardActivity ==
    /\ stage = "reward"
    /\ \E campaign \in Campaigns :
          LET over(n) == Matched(campaign[n], TakenBefore(campaign)[n])
              off(n) == RewardOf(campaign[n], over(n))
              Given == {n \in DOMAIN campaign : over(n) # {} /\ off(n) > 0} IN
          \E share \in [Given -> UNION {DivideOver(line, over(n), off(n)) : n \in Given}] :
             /\ \A n \in Given : share[n] \in DivideOver(line, over(n), off(n))
             /\ line' = [i \in Lines |->
                           IF \E n \in Given : i \in over(n)
                           THEN LET n == CHOOSE m \in Given : i \in over(m)
                                IN Recount([line[i] EXCEPT !.discount = @ + share[n][i]])
                           ELSE line[i]]
             /\ split' = {Made(line, over(n), off(n), share[n]) : n \in Given}
    /\ Passes("coupon")
    /\ UNCHANGED granted

CouponPrice(c, total) ==
    IF c.kind = "off" THEN c.value
    ELSE LET amount == total - Truncated(total * c.value, 100)
         IN IF c.most < amount THEN c.most ELSE amount

\* Only a coupon whose lines cost enough, and more than it takes off.
Matches(c, I) ==
    I # {} /\ PayOver(line, I) >= c.least /\ CouponPrice(c, PayOver(line, I)) < PayOver(line, I)

\* The shares are kept by SKU: of several lines of one SKU the last one's counts for all.
CouponShare(I, share, i) == share[EndOf({j \in I : line[j].sku = line[i].sku})]

DeductCoupon ==
    /\ stage = "coupon"
    /\ \/ /\ Passes("points") /\ split' = {}
          /\ UNCHANGED <<line, granted>>
       \/ \E c \in Vouchers :
             LET I == {i \in Lines : line[i].sku \in c.scope}
                 off == CouponPrice(c, PayOver(line, I)) IN
             \/ ~Matches(c, I) /\ Refuse
             \/ /\ Matches(c, I)
                /\ \E share \in DivideOver(line, I, off) :
                      /\ line' = [i \in Lines |->
                                    IF i \in I
                                    THEN Recount([line[i] EXCEPT !.coupon = CouponShare(I, share, i)])
                                    ELSE line[i]]
                      /\ split' = {Made(line, I, off, share)}
                /\ granted' = [granted EXCEPT !.coupon = off]
                /\ Passes("points")

Usable(points) == IF MaxDeduct > 0 /\ points > MaxDeduct THEN MaxDeduct ELSE points

\* Points that could pay for everything are refused, not cut down.
UsePoints ==
    /\ stage = "points"
    /\ \/ /\ Passes("delivery") /\ split' = {}
          /\ UNCHANGED <<line, granted>>
       \/ \E points \in PointBalances, unit \in PointUnits :
             LET n == Usable(points)
                 value == n * unit IN
             /\ points > 0 /\ unit > 0
             /\ \/ value >= PayOver(line, Lines) /\ Refuse
                \/ /\ value < PayOver(line, Lines)
                   /\ \E share \in DivideOver(line, Lines, value), use \in DivideOver(line, Lines, n) :
                         /\ line' = [i \in Lines |->
                               Recount([line[i] EXCEPT !.point = @ + share[i], !.use = use[i]])]
                         /\ split' = {Made(line, Lines, value, share), Made(line, Lines, n, use)}
                   /\ granted' = [granted EXCEPT !.points = n, !.value = value]
                   /\ Passes("delivery")

\* CalculateFreight for the lines of one template.
FreightOf(t, I) ==
    LET count == SumOf([i \in I |-> line[i].count])
        extra == (count - t.startCount + t.extraCount - 1) \div t.extraCount IN
    IF (t.freeCount > 0 \/ t.freePrice > 0) /\ count <= t.freeCount /\ PayOver(line, I) >= t.freePrice
    THEN 0
    ELSE IF count <= t.startCount THEN t.startPrice ELSE t.startPrice + extra * t.extraPrice

\* Picked up, no address or no template: no freight.  An area nobody delivers to: refused.
\* Lines without a template cost nothing, but have their part in the freight of the others.
Delivery ==
    /\ stage = "delivery"
    /\ \/ Refuse
       \/ /\ Passes("give") /\ split' = {}
          /\ UNCHANGED <<line, granted>>
       \/ \E S \in SUBSET DOMAIN SkuPrice \ {{}} : \E template \in [S -> Freights] :
             LET group(t) == {i \in Lines : line[i].sku \in S /\ template[line[i].sku] = t}
                 Used == {t \in Freights : group(t) # {}}
                 freight == SumOf([t \in Used |-> FreightOf(t, group(t))]) IN
             /\ \/ /\ freight > 0
                   /\ \E share \in DivideOver(line, Lines, freight) :
                         /\ line' = [i \in Lines |-> Recount([line[i] EXCEPT !.delivery = share[i]])]
                         /\ split' = {Made(line, Lines, freight, share)}
                \/ freight = 0 /\ split' = {} /\ UNCHANGED line
             /\ granted' = [granted EXCEPT !.freight = freight]
             /\ Passes("give")

\* They replace what the SKUs give, which stays where this gives nothing.
GivePoints ==
    LET total == PayOver(line, Lines)
        given == total \div GiveRate IN
    /\ stage = "give"
    /\ \/ /\ total > 0 /\ given > 0
          /\ \E share \in DivideOver(line, Lines, given) :
                /\ line' = [i \in Lines |-> [line[i] EXCEPT !.give = share[i]]]
                /\ split' = {Made(line, Lines, given, share)}
       \/ split' = {} /\ UNCHANGED line
    /\ Passes("validate")
    /\ UNCHANGED granted

\* Only an activity of points may cost nothing.
ValidateResponse ==
    /\ stage = "validate"
    /\ stage' = IF kind = "point" \/ PayOver(line, Lines) > 0 THEN "accepted" ELSE "refused"
    /\ UNCHANGED <<kind, line, split, granted>>

CalculationNext ==
    \/ BuildItems \/ ActivityPrice \/ DiscountActivity \/ RewardActivity \/ DeductCoupon
    \/ UsePoints \/ Delivery \/ GivePoints \/ ValidateResponse

CalculationSpec == CalculationInit /\ [][CalculationNext]_calculationVars

-----------------------------------------------------------------------------
CalculationTypeOK ==
    /\ stage \in {"build", "activity", "discount", "reward", "coupon", "points", "delivery",
                  "give", "validate", "accepted", "refused"}
    /\ kind \in {"normal", "sale", "point"}
    /\ \A i \in Lines : line[i] \in [sku : DOMAIN SkuPrice, count : Nat \ {0}, price : Nat, vip : Nat,
                                     discount : Int, coupon : Int, point : Int, use : Int,
                                     delivery : Int, give : Int, pay : Int]
    /\ granted \in [coupon : Nat, points : Nat, value : Nat, freight : Nat]

Fair(d) ==
    LET total == SumOf(d.pay)
        size == IF total < 0 THEN -total ELSE total
        I == DOMAIN d.pay
        gap(i) == LET g == d.share[i] * total - d.amount * d.pay[i] IN IF g < 0 THEN -g ELSE g IN
    IF total = 0 THEN \A i \in I : d.share[i] = 0
    ELSE /\ SumOf(d.share) = d.amount
         /\ \A i \in I \ {EndOf(I)} : gap(i) <= size
         /\ gap(EndOf(I)) <= (Cardinality(I) - 1) * size

(* A split loses nothing, gives each line but the last its part of the whole *)
(* or up to a cent less, and leaves the last at most that much more for     *)
(* each of the others.                                                      *)
SplitIsFair == \A d \in split : Fair(d)

(* A line gets the better of the offer and the member's level, not both.    *)
OneSaving == stage = "reward" => \A i \in Lines : line[i].discount = 0 \/ line[i].vip = 0

Column(c) == SumOf([i \in Lines |-> line[i][c]])
Distinct == \A i, j \in Lines : line[i].sku = line[j].sku => i = j

(* What an accepted order takes from the coupon, from the points and for    *)
(* the freight is what its lines say, except that a coupon is taken off more *)
(* than once if a SKU stands on two lines (coupon_calculator.go:127), and an *)
(* order of points alone, with no price to divide by, pays no freight.      *)
GrantsReachLines ==
    stage = "accepted" => /\ Distinct => Column("coupon") = granted.coupon
                          /\ Column("point") = granted.value /\ Column("use") = granted.points
                          /\ kind # "point" => Column("delivery") = granted.freight

(* The price to pay is what the columns say.                                *)
ColumnsExplainPay ==
    PayOver(line, Lines) = SumOf([i \in Lines |-> Full(line[i])]) - Column("discount") - Column("vip")
                           - Column("coupon") - Column("point") + Column("delivery")

(* Together: nothing is lost or doubled between a basket and its price.      *)
PriceAddsUp == CalculationTypeOK /\ SplitIsFair /\ OneSaving /\ GrantsReachLines /\ ColumnsExplainPay
=============================================================================
