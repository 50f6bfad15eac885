----------------------------- MODULE MCServices -----------------------------
(***************************************************************************)
(* The small components, checked in one run: they share no state, so one    *)
(* of them runs at a time, the others resting in their initial states.      *)
(***************************************************************************)
EXTENDS Wallet, WalletCreation, Brokerage, Transfer, Coupon, SmsCode, Session,
        Scheduling, SignIn, PriceAdjustment, Promoters,
        PriceCalculation, ProductStock, Cart, TLC

VARIABLE active  \* the component that runs

\* A recharge is worth 2; the larger deduction takes it all.
TwoAndOne == {-2, 1}

\* Prices that do not divide evenly, and changes in both directions.
Uneven == <<1, 2, 1>>
UpAndDown == {-3, -2, 2}

\* Baskets with one line, with two, and with a SKU on two of three lines.
Dear == [a |-> 1, b |-> 3]
OwnPoints == [a |-> 0, b |-> 1]
Line(s, n) == [sku |-> s, count |-> n]
SomeBaskets == {<<Line("a", 2)>>, <<Line("b", 1), Line("a", 1)>>,
                <<Line("a", 1), Line("b", 2), Line("a", 3)>>}

\* Each kind of discount, and a level that is worth more than some of them.
EachOffer == {[kind |-> "none", value |-> 0], [kind |-> "minus", value |-> 1],
              [kind |-> "rate", value |-> 50]}
\* Two activities that meet on one SKU, the one by price, the other by count.
TwoCampaigns ==
    {<< >>,
     <<[scope |-> {"b"}, byCount |-> FALSE,
        rules |-> {[limit |-> 3, off |-> 2], [limit |-> 6, off |-> 4]}],
       [scope |-> {"a", "b"}, byCount |-> TRUE, rules |-> {[limit |-> 2, off |-> 3]}]>>}
TwoVouchers == {[kind |-> "off", value |-> 3, scope |-> {"a", "b"}, least |-> 4, most |-> 0],
                [kind |-> "percent", value |-> 50, scope |-> {"a"}, least |-> 0, most |-> 2]}
\* A template with free freight from some price on, and one without.
TwoTemplates ==
    {[freeCount |-> 2, freePrice |-> 3, startCount |-> 1, startPrice |-> 1,
      extraCount |-> 2, extraPrice |-> 2],
     [freeCount |-> 0, freePrice |-> 0, startCount |-> 1, startPrice |-> 1,
      extraCount |-> 1, extraPrice |-> 0]}

\* The rows of a transfer are of several kinds; the others have one beginning.
ServicesInit ==
    /\ active \in {"wallet", "creation", "brokerage", "transfer", "coupon", "sms", "session",
                 "scheduling", "signIn", "prices", "promoters", "calculation", "stock", "cart"}
    /\ WalletInit /\ CreationInit /\ BrokerageInit /\ CouponInit /\ SmsInit /\ SessionInit
    /\ TransferInit /\ SchedulingInit /\ SignInInit /\ PriceInit /\ PromotersInit
    /\ CalculationInit /\ StockInit /\ CartInit
    /\ active # "brokerage" => \A w \in Withdrawals : withdrawal[w].api
    /\ active # "transfer" => transfer = "waiting" /\ batch = "none"
    /\ active # "promoters" => everyone

moneyVars == <<walletVars, creationVars, brokerageVars, transferVars>>
memberVars == <<couponVars, smsVars, sessionVars>>
furtherVars == <<schedulingVars, signInVars, priceVars, promotersVars>>
shopVars == <<calculationVars, stockVars, cartVars>>

ServicesNext ==
    /\ UNCHANGED active
    /\ \/ /\ UNCHANGED <<memberVars, furtherVars, shopVars>>
          /\ \/ /\ active = "wallet" /\ WalletNext
                /\ UNCHANGED <<creationVars, brokerageVars, transferVars>>
             \/ /\ active = "creation" /\ CreationNext
                /\ UNCHANGED <<walletVars, brokerageVars, transferVars>>
             \/ /\ active = "brokerage" /\ BrokerageNext
                /\ UNCHANGED <<walletVars, creationVars, transferVars>>
             \/ /\ active = "transfer" /\ TransferNext
                /\ UNCHANGED <<walletVars, creationVars, brokerageVars>>
       \/ /\ UNCHANGED <<moneyVars, furtherVars, shopVars>>
          /\ \/ active = "coupon" /\ CouponNext /\ UNCHANGED <<smsVars, sessionVars>>
             \/ active = "sms" /\ SmsNext /\ UNCHANGED <<couponVars, sessionVars>>
             \/ active = "session" /\ SessionNext /\ UNCHANGED <<couponVars, smsVars>>
       \/ /\ UNCHANGED <<moneyVars, memberVars, shopVars>>
          /\ \/ /\ active = "scheduling" /\ SchedulingNext
                /\ UNCHANGED <<signInVars, priceVars, promotersVars>>
             \/ /\ active = "signIn" /\ SignInNext
                /\ UNCHANGED <<schedulingVars, priceVars, promotersVars>>
             \/ /\ active = "prices" /\ PriceNext
                /\ UNCHANGED <<schedulingVars, signInVars, promotersVars>>
             \/ /\ active = "promoters" /\ PromotersNext
                /\ UNCHANGED <<schedulingVars, signInVars, priceVars>>
       \/ /\ UNCHANGED <<moneyVars, memberVars, furtherVars>>
          /\ \/ active = "calculation" /\ CalculationNext /\ UNCHANGED <<stockVars, cartVars>>
             \/ active = "stock" /\ StockNext /\ UNCHANGED <<calculationVars, cartVars>>
             \/ active = "cart" /\ CartNext /\ UNCHANGED <<calculationVars, stockVars>>

ServicesSpec == ServicesInit /\ [][ServicesNext]_<<active, moneyVars, memberVars, furtherVars, shopVars>>

\* The components share the names of their processes: one runs at a time.
Alike == Permutations(Clients)
=============================================================================
