--------------------------- MODULE ServicesProofs ---------------------------
(***************************************************************************)
(* Sessions, transfers, coupons, SMS codes, recharges, sign-ins, the        *)
(* scheduler, wallets, brokerage, promoters, price adjustments and product  *)
(* stock, for any number of requests, members, codes, days, rows and faults. *)
(* Each part states what a request knows between two of its steps, and shows *)
(* that no step of another makes it untrue; where money or units add up,    *)
(* what a step does to a sum.                                               *)
(***************************************************************************)
EXTENDS Session, Transfer, SmsCode, Coupon, WalletCreation, SignIn, Scheduling, Wallet, Brokerage,
        Promoters, PriceAdjustment, ProductStock, SumTheorems,
        FiniteSetTheorems, TLAPS

-----------------------------------------------------------------------------
(* Sessions.  A grant is issued once; a request that has consumed one alone  *)
(* may issue its successor.                                                 *)

Issued(g) == parent[g] # NotIssued

GrantsIssued ==
    /\ \A g \in access \cup refresh \cup ended : Issued(g)
    /\ \A h \in Grants : parent[h] > 0 => Issued(parent[h])

AtDevice ==
    /\ \A d \in Devices : device[d].pc # "idle" => device[d].grant \in Grants /\ Issued(device[d].grant)
    /\ \A d \in Devices : device[d].pc = "issue" =>
          /\ device[d].grant \notin access \cup refresh
          /\ \A h \in Grants : parent[h] # device[d].grant
    /\ \A c, d \in Devices :
          device[c].pc = "issue" /\ device[d].pc = "issue" /\ device[c].grant = device[d].grant
             => c = d

SessionInv == SessionEndsOnce /\ GrantsIssued /\ AtDevice

LEMMA SessionStarts == SessionInit => SessionInv
BY SessionAssumption
   DEF SessionInit, SessionInv, SessionEndsOnce, SessionTypeOK, OneSuccessor, NoLoneAccess,
       EndedStaysEnded, GrantsIssued, AtDevice, AtRest, Grants, NotIssued, Issued

LEMMA SessionKept ==
    ASSUME SessionInv, [SessionNext]_sessionVars
    PROVE  SessionInv'
<1> USE SessionAssumption DEF Grants, NotIssued
<1>0. CASE UNCHANGED sessionVars
  BY <1>0 DEF sessionVars, SessionInv, SessionEndsOnce, SessionTypeOK, OneSuccessor, NoLoneAccess,
         EndedStaysEnded, GrantsIssued, AtDevice, Issued
<1>1. ASSUME NEW d \in Devices, NEW g \in Grants, Login(d, g) PROVE SessionInv'
  <2>1. SessionTypeOK'
    BY <1>1 DEF Login, CreateAccessToken, NewGrant,
         SessionInv, SessionEndsOnce, SessionTypeOK, OneSuccessor, NoLoneAccess,
         EndedStaysEnded, GrantsIssued, AtDevice, Issued
  <2>2. OneSuccessor'
    BY <1>1 DEF Login, CreateAccessToken, NewGrant,
         SessionInv, SessionEndsOnce, SessionTypeOK, OneSuccessor, NoLoneAccess,
         EndedStaysEnded, GrantsIssued, AtDevice, Issued
  <2>3. NoLoneAccess' /\ EndedStaysEnded'
    BY <1>1 DEF Login, CreateAccessToken, NewGrant,
         SessionInv, SessionEndsOnce, SessionTypeOK, OneSuccessor, NoLoneAccess,
         EndedStaysEnded, GrantsIssued, AtDevice, Issued
  <2>4. GrantsIssued'
    BY <1>1 DEF Login, CreateAccessToken, NewGrant,
         SessionInv, SessionEndsOnce, SessionTypeOK, OneSuccessor, NoLoneAccess,
         EndedStaysEnded, GrantsIssued, AtDevice, Issued
  <2>5. AtDevice'
    BY <1>1 DEF Login, CreateAccessToken, NewGrant,
         SessionInv, SessionEndsOnce, SessionTypeOK, OneSuccessor, NoLoneAccess,
         EndedStaysEnded, GrantsIssued, AtDevice, Issued
  <2> QED BY <2>1, <2>2, <2>3, <2>4, <2>5 DEF SessionInv, SessionEndsOnce
<1>2. ASSUME NEW d \in Devices, NEW g \in Grants, GetRefreshToken(d, g) PROVE SessionInv'
  <2>1. SessionTypeOK'
    BY <1>2 DEF GetRefreshToken, Enter,
         SessionInv, SessionEndsOnce, SessionTypeOK, OneSuccessor, NoLoneAccess,
         EndedStaysEnded, GrantsIssued, AtDevice, Issued
  <2>2. OneSuccessor'
    BY <1>2 DEF GetRefreshToken, Enter,
         SessionInv, SessionEndsOnce, SessionTypeOK, OneSuccessor, NoLoneAccess,
         EndedStaysEnded, GrantsIssued, AtDevice, Issued
  <2>3. NoLoneAccess' /\ EndedStaysEnded'
    BY <1>2 DEF GetRefreshToken, Enter,
         SessionInv, SessionEndsOnce, SessionTypeOK, OneSuccessor, NoLoneAccess,
         EndedStaysEnded, GrantsIssued, AtDevice, Issued
  <2>4. GrantsIssued'
    BY <1>2 DEF GetRefreshToken, Enter,
         SessionInv, SessionEndsOnce, SessionTypeOK, OneSuccessor, NoLoneAccess,
         EndedStaysEnded, GrantsIssued, AtDevice, Issued
  <2>5. AtDevice'
    BY <1>2 DEF GetRefreshToken, Enter,
         SessionInv, SessionEndsOnce, SessionTypeOK, OneSuccessor, NoLoneAccess,
         EndedStaysEnded, GrantsIssued, AtDevice, Issued
  <2> QED BY <2>1, <2>2, <2>3, <2>4, <2>5 DEF SessionInv, SessionEndsOnce
<1>3. ASSUME NEW d \in Devices, NEW g \in Grants, RefreshIssue(d, g) PROVE SessionInv'
  BY <1>3 DEF RefreshIssue, CreateAccessToken, NewGrant, Leave, AtRest,
         SessionInv, SessionEndsOnce, SessionTypeOK, OneSuccessor, NoLoneAccess,
         EndedStaysEnded, GrantsIssued, AtDevice, Issued
<1>4. ASSUME NEW d \in Devices, NEW g \in Grants, GetAccessToken(d, g) PROVE SessionInv'
  <2>1. SessionTypeOK'
    BY <1>4 DEF GetAccessToken, Enter,
         SessionInv, SessionEndsOnce, SessionTypeOK, OneSuccessor, NoLoneAccess,
         EndedStaysEnded, GrantsIssued, AtDevice, Issued
  <2>2. OneSuccessor'
    BY <1>4 DEF GetAccessToken, Enter,
         SessionInv, SessionEndsOnce, SessionTypeOK, OneSuccessor, NoLoneAccess,
         EndedStaysEnded, GrantsIssued, AtDevice, Issued
  <2>3. NoLoneAccess' /\ EndedStaysEnded'
    BY <1>4 DEF GetAccessToken, Enter,
         SessionInv, SessionEndsOnce, SessionTypeOK, OneSuccessor, NoLoneAccess,
         EndedStaysEnded, GrantsIssued, AtDevice, Issued
  <2>4. GrantsIssued'
    BY <1>4 DEF GetAccessToken, Enter,
         SessionInv, SessionEndsOnce, SessionTypeOK, OneSuccessor, NoLoneAccess,
         EndedStaysEnded, GrantsIssued, AtDevice, Issued
  <2>5. AtDevice'
    BY <1>4 DEF GetAccessToken, Enter,
         SessionInv, SessionEndsOnce, SessionTypeOK, OneSuccessor, NoLoneAccess,
         EndedStaysEnded, GrantsIssued, AtDevice, Issued
  <2> QED BY <2>1, <2>2, <2>3, <2>4, <2>5 DEF SessionInv, SessionEndsOnce
<1>5. ASSUME NEW g \in Grants, AccessExpires(g) PROVE SessionInv'
  BY <1>5 DEF AccessExpires,
         SessionInv, SessionEndsOnce, SessionTypeOK, OneSuccessor, NoLoneAccess,
         EndedStaysEnded, GrantsIssued, AtDevice, Issued
<1>6. ASSUME NEW g \in Grants, RefreshExpires(g) PROVE SessionInv'
  BY <1>6 DEF RefreshExpires,
         SessionInv, SessionEndsOnce, SessionTypeOK, OneSuccessor, NoLoneAccess,
         EndedStaysEnded, GrantsIssued, AtDevice, Issued
<1>7. ASSUME NEW d \in Devices, RefreshConsume(d) PROVE SessionInv'
  <2> DEFINE g == device[d].grant
  <2>1. g \in Grants /\ device[d].pc = "consume" /\ UNCHANGED <<parent, ended>>
    BY <1>7 DEF RefreshConsume, SessionInv, AtDevice
  <2>2. CASE g \notin refresh
    <3>1. UNCHANGED <<access, refresh>> /\ device' = [device EXCEPT ![d] = AtRest]
      BY <1>7, <2>2 DEF RefreshConsume, StillThere, Leave
    <3> QED BY <2>1, <3>1 DEF AtRest, SessionInv, SessionEndsOnce, SessionTypeOK, OneSuccessor, NoLoneAccess,
           EndedStaysEnded, GrantsIssued, AtDevice, Issued
  <2>3. CASE g \in refresh
    <3>1. /\ refresh' = refresh \ {g} /\ access' = access \ {g}
          /\ device' = [device EXCEPT ![d] = [pc |-> "issue", grant |-> g]]
      BY <1>7, <2>3 DEF RefreshConsume, StillThere, RevokedAccess, Enter
    <3> HIDE DEF g
    <3>2. SessionTypeOK'
      BY <2>1, <3>1 DEF SessionInv, SessionEndsOnce, SessionTypeOK
    <3>3. OneSuccessor' /\ NoLoneAccess' /\ EndedStaysEnded' /\ GrantsIssued'
      BY <2>1, <3>1 DEF SessionInv, SessionEndsOnce, SessionTypeOK, OneSuccessor, NoLoneAccess,
           EndedStaysEnded, GrantsIssued, AtDevice, Issued
    <3>4. \A h \in Grants : parent[h] # g
      BY <2>1, <2>3 DEF SessionInv, SessionEndsOnce, SessionTypeOK, OneSuccessor
    <3>5. \A c \in Devices : device[c].pc = "issue" => device[c].grant # g
      BY <2>3 DEF SessionInv, AtDevice
    <3>6. /\ device'[d] = [pc |-> "issue", grant |-> g]
          /\ \A c \in Devices \ {d} : device'[c] = device[c]
      BY <3>1 DEF SessionInv, SessionEndsOnce, SessionTypeOK
    <3>7. AtDevice'
      BY <2>1, <2>3, <3>1, <3>4, <3>5, <3>6 DEF SessionInv, AtDevice, GrantsIssued, Issued
    <3> QED BY <3>2, <3>3, <3>7 DEF SessionInv, SessionEndsOnce
  <2> QED BY <2>2, <2>3
<1>8. ASSUME NEW d \in Devices, RemoveAccessToken(d) PROVE SessionInv'
  <2> DEFINE g == device[d].grant
  <2>1. /\ g \in Grants /\ Issued(g)
        /\ access' = access \ {g} /\ refresh' = refresh \ {g}
        /\ ended' = ended \cup {g} /\ UNCHANGED parent
        /\ device' = [device EXCEPT ![d] = AtRest]
    BY <1>8 DEF RemoveAccessToken, RevokedRefresh, Leave, SessionInv, AtDevice
  <2> HIDE DEF g
  <2>2. SessionTypeOK'
    BY <2>1 DEF AtRest, SessionInv, SessionEndsOnce, SessionTypeOK
  <2>3. OneSuccessor' /\ NoLoneAccess' /\ EndedStaysEnded' /\ GrantsIssued'
    BY <2>1 DEF SessionInv, SessionEndsOnce, SessionTypeOK, OneSuccessor, NoLoneAccess,
           EndedStaysEnded, GrantsIssued, AtDevice, Issued
  <2>4. AtDevice'
    BY <2>1 DEF AtRest, SessionInv, SessionEndsOnce, SessionTypeOK, OneSuccessor, NoLoneAccess,
           EndedStaysEnded, GrantsIssued, AtDevice, Issued
  <2> QED BY <2>2, <2>3, <2>4 DEF SessionInv, SessionEndsOnce
<1>9. ASSUME NEW d \in Devices, DeviceFails(d) PROVE SessionInv'
  BY <1>9 DEF DeviceFails, Leave, AtRest,
         SessionInv, SessionEndsOnce, SessionTypeOK, OneSuccessor, NoLoneAccess,
         EndedStaysEnded, GrantsIssued, AtDevice, Issued
<1> QED BY <1>0, <1>1, <1>2, <1>3, <1>4, <1>5, <1>6, <1>7, <1>8, <1>9 DEF SessionNext

(* A refresh token yields one session, both keys of a grant come and go       *)
(* together, and what a logout has ended never lives again                   *)
(* (oauth2_token.go:160), for any number of requests and grants.             *)
THEOREM SessionEndsOnceAlways == SessionSpec => []SessionEndsOnce
<1>1. SessionInv => SessionEndsOnce
  BY DEF SessionInv
<1> QED BY <1>1, SessionStarts, SessionKept, PTL DEF SessionSpec

-----------------------------------------------------------------------------
(* Transfers.  An answer is old when it is written, but what it says of the  *)
(* channel stays true: the number was taken, or the money was paid.          *)

Answers ==
    \A c \in Calls :
       call[c].pc \in {"notify", "update"} =>
          /\ call[c].status \in {"processing", "success", "closed"}
          /\ call[c].status = "processing" => batch # "none"
          /\ call[c].status = "success" => batch = "success"

\* No attempt but the first ends the row, so that it was announced once.
AnnouncedNow == announced = IF transfer \in TransferEnd THEN 1 ELSE 0

TransferInv == TransferTypeOK /\ AnnouncedNow /\ TransferIsBacked /\ Answers

LEMMA TransferInvRecorded == TransferInv => OutcomeRecorded
BY TransferAssumption DEF TransferInv, AnnouncedNow, OutcomeRecorded, EndAnnounced, TransferTypeOK

LEMMA TransferStarts == TransferInit => TransferInv
BY TransferAssumption DEF TransferInit, TransferInv, Hung, TransferTypeOK,
                          AnnouncedNow, TransferIsBacked, Answers,
         TransferOpen, TransferEnd

LEMMA TransferKept ==
    ASSUME TransferInv, [TransferNext]_transferVars
    PROVE  TransferInv' /\ (transfer \in TransferEnd => transfer' = transfer)
<1> DEFINE Good == TransferInv' /\ (transfer \in TransferEnd => transfer' = transfer)
<1> USE TransferAssumption
<1>0. CASE UNCHANGED transferVars
  BY <1>0 DEF transferVars, TransferInv, TransferTypeOK, AnnouncedNow,
              TransferIsBacked, Answers,
         TransferOpen, TransferEnd
<1>1. ASSUME NEW c \in Calls, ResendRead(c) PROVE Good
  BY <1>1 DEF ResendRead, Dial, TransferInv,
         TransferTypeOK, AnnouncedNow, TransferIsBacked, Answers,
         TransferOpen, TransferEnd
<1>2. ASSUME NEW c \in Calls, UnifiedTransfer(c) PROVE Good
  BY <1>2 DEF UnifiedTransfer, Dial, TransferInv,
         TransferTypeOK, AnnouncedNow, TransferIsBacked, Answers,
         TransferOpen, TransferEnd
<1>3. ASSUME NEW c \in Calls, SendFails(c) PROVE Good
  BY <1>3 DEF SendFails, Dial, TransferInv,
         TransferTypeOK, AnnouncedNow, TransferIsBacked, Answers,
         TransferOpen, TransferEnd
<1>4. ASSUME NEW c \in Calls, TransferCallback(c) PROVE Good
  BY <1>4 DEF TransferCallback, Dial, TransferInv,
         TransferTypeOK, AnnouncedNow, TransferIsBacked, Answers,
         TransferOpen, TransferEnd
<1>5. ASSUME NEW c \in Calls, SyncRead(c) PROVE Good
  BY <1>5 DEF SyncRead, Dial, TransferInv,
         TransferTypeOK, AnnouncedNow, TransferIsBacked, Answers,
         TransferOpen, TransferEnd
<1>6. ASSUME NEW c \in Calls, GetTransfer(c) PROVE Good
  BY <1>6 DEF GetTransfer, Unknown, BatchStatus, Dial, HangUp, Hung, TransferInv,
         TransferTypeOK, AnnouncedNow, TransferIsBacked, Answers,
         TransferOpen, TransferEnd
<1>7. ASSUME NEW c \in Calls, NotifyTransferRead(c) PROVE Good
  BY <1>7 DEF NotifyTransferRead, Dial, HangUp, Hung, TransferInv,
         TransferTypeOK, AnnouncedNow, TransferIsBacked, Answers,
         TransferOpen, TransferEnd
<1>8. ASSUME NEW c \in Calls, NotifyTransferUpdate(c) PROVE Good
  BY <1>8 DEF NotifyTransferUpdate, MayBecome, From, TaskFor, Dial, HangUp, Hung, TransferInv,
         TransferTypeOK, AnnouncedNow, TransferIsBacked, Answers,
         TransferOpen, TransferEnd
<1>9. ASSUME NEW c \in Calls, TransferFail(c) PROVE Good
  BY <1>9 DEF TransferFail, Dial, HangUp, Hung, TransferInv,
         TransferTypeOK, AnnouncedNow, TransferIsBacked, Answers,
         TransferOpen, TransferEnd
<1>10. CASE BatchEnds
  BY <1>10 DEF BatchEnds, TransferInv, TransferTypeOK, AnnouncedNow, TransferIsBacked, Answers,
         TransferOpen, TransferEnd
<1> QED BY <1>0, <1>1, <1>2, <1>3, <1>4, <1>5, <1>6, <1>7, <1>8, <1>9, <1>10 DEF TransferNext

(* The row says of the channel what is true, the merchant is told of an end   *)
(* at most once for each attempt, and SUCCESS stays (transfer.go:366), for    *)
(* any number of calls and faults.                                          *)
THEOREM TransferExplainedAlways == TransferSpec => TransferExplained
<1>1. TransferInv => OutcomeRecorded
  BY TransferInvRecorded
<1>2. ASSUME TransferInv, TransferInv', [TransferNext]_transferVars
      PROVE  [/\ OutcomeRecorded'
              /\ transfer = "success" => transfer' = "success"]_transferVars
  <2>1. OutcomeRecorded'
    BY <1>2, TransferAssumption
       DEF TransferInv, AnnouncedNow, OutcomeRecorded, EndAnnounced, TransferTypeOK
  <2> QED BY <1>2, <2>1, TransferKept DEF TransferEnd
<1>3. TransferSpec => []TransferInv
  BY TransferStarts, TransferKept, PTL DEF TransferSpec
<1> QED BY <1>1, <1>2, <1>3, PTL DEF TransferSpec, TransferExplained

-----------------------------------------------------------------------------
(* Coupons.  A request between its looks and its transaction remembers counts *)
(* that were below the limits.                                               *)

TakenCoupons == {c \in Coupons : coupon[c].status # "none" /\ ~coupon[c].given}

AtTaker ==
    \A p \in Takers :
       /\ taker[p].pc # "idle" => InStock(taker[p].total)
       /\ taker[p].pc = "take" => BelowLimit(taker[p].own)

CouponInv == CouponsAccounted /\ AtTaker

CouponRows == [status : {"none", "unused", "used", "expired", "deleted"},
               owner : SUBSET Members, given : BOOLEAN, order : SUBSET Buyers]

LEMMA CouponStarts == CouponInit => CouponInv
<1> SUFFICES ASSUME CouponInit PROVE CouponInv
  OBVIOUS
<1> USE CouponAssumption DEF CouponInit, NoCoupon, Away, Coupons
<1>1. TakenCoupons = {}
  BY DEF TakenCoupons
<1>2. TakenCounted
  BY <1>1, FS_EmptySet DEF TakenCounted, TakenCoupons
<1>3. CouponTypeOK /\ BoughtIsUsed /\ AtTaker
  BY DEF CouponTypeOK, BoughtIsUsed, AtTaker
<1> QED BY <1>2, <1>3 DEF CouponInv, CouponsAccounted

\* What is counted is part of the rows, and they are finitely many.
LEMMA TakenFinite == IsFiniteSet(TakenCoupons)
<1>1. IsFiniteSet(Coupons)
  BY CouponAssumption, FS_Interval DEF Coupons
<1> QED BY <1>1, FS_Subset DEF TakenCoupons

LEMMA OwnIsNat ==
    ASSUME NEW m \in Members PROVE Own(m) \in Nat
<1>1. IsFiniteSet({c \in Coupons : m \in coupon[c].owner /\ coupon[c].status # "deleted"})
  <2>1. IsFiniteSet(Coupons)
    BY CouponAssumption, FS_Interval DEF Coupons
  <2> QED BY <2>1, FS_Subset
<1> QED BY <1>1, FS_CardinalityType DEF Own

\* Steps that leave the rows and their count alone.
LEMMA TakerMoves ==
    ASSUME CouponInv, UNCHANGED <<takeCount, coupon, bought>>, over' \subseteq Coupons,
           taker' \in [Takers -> [pc : {"idle", "count", "take"}, member : SUBSET Members,
                                 total : Nat, own : Nat]],
           AtTaker'
    PROVE  CouponInv'
BY DEF CouponInv, CouponsAccounted, CouponTypeOK, TakenCounted, BoughtIsUsed

\* Steps that change a status, and neither insert nor count.
LEMMA StatusMoves ==
    ASSUME CouponInv, CouponTypeOK', BoughtIsUsed', UNCHANGED <<takeCount, taker>>,
           \A c \in Coupons : /\ coupon'[c].status = "none" <=> coupon[c].status = "none"
                              /\ coupon'[c].given = coupon[c].given
    PROVE  CouponInv'
<1>1. TakenCoupons' = TakenCoupons
  BY DEF TakenCoupons
<1>2. TakenCounted'
  BY <1>1 DEF CouponInv, CouponsAccounted, TakenCounted, TakenCoupons
<1> QED BY <1>2 DEF CouponInv, CouponsAccounted, AtTaker

LEMMA InsertedRow ==
    ASSUME NEW m, NEW given, NEW r,
           r = [NoCoupon EXCEPT !.status = "unused", !.owner = {m}, !.given = given]
    PROVE  r = [status |-> "unused", owner |-> {m}, given |-> given, order |-> {}]
<1>1. r.status = "unused" /\ r.owner = {m} /\ r.given = given /\ r.order = {}
  BY DEF NoCoupon
<1>2. r = [status |-> r.status, owner |-> r.owner, given |-> r.given, order |-> r.order]
  BY DEF NoCoupon
<1> QED BY <1>1, <1>2

\* What an order has bought is a row that is not unused, nor missing.
LEMMA BoughtRows ==
    ASSUME CouponTypeOK, BoughtIsUsed, NEW o \in Buyers, bought[o] # 0
    PROVE  bought[o] \in Coupons /\ coupon[bought[o]].status \in {"used", "deleted"}
<1>1. bought[o] \in Coupons
  BY CouponAssumption DEF CouponTypeOK, Coupons
<1>2. coupon[bought[o]].status \in {"used", "deleted"}
  BY DEF BoughtIsUsed
<1> QED BY <1>1, <1>2

\* The rows after an insert.
LEMMA InsertMoves ==
    ASSUME CouponInv, NEW c \in Coupons, NEW m \in Members, NEW given \in BOOLEAN,
           NewCoupon(c), Inserted(c, m, given), UNCHANGED <<over, bought>>,
           takeCount' = IF given THEN takeCount ELSE takeCount + 1,
           taker' \in [Takers -> [pc : {"idle", "count", "take"}, member : SUBSET Members,
                                 total : Nat, own : Nat]],
           AtTaker'
    PROVE  CouponInv'
<1> USE DEF CouponInv, CouponsAccounted, CouponTypeOK
<1>0. coupon' = [coupon EXCEPT ![c] = [status |-> "unused", owner |-> {m}, given |-> given,
                                       order |-> {}]]
  BY InsertedRow DEF Inserted
<1>1. /\ coupon'[c] = [status |-> "unused", owner |-> {m}, given |-> given, order |-> {}]
      /\ \A d \in Coupons \ {c} : coupon'[d] = coupon[d]
      /\ coupon[c].status = "none" /\ c \notin TakenCoupons
  BY <1>0 DEF NewCoupon, TakenCoupons
<1>2. CouponTypeOK'
  <2>1. [status |-> "unused", owner |-> {m}, given |-> given, order |-> {}] \in CouponRows
    BY DEF CouponRows
  <2>2. coupon \in [Coupons -> CouponRows]
    BY DEF CouponRows
  <2>3. coupon' \in [Coupons -> CouponRows]
    BY <1>0, <2>1, <2>2
  <2> QED BY <2>3 DEF CouponRows
<1>3. TakenCoupons' = IF given THEN TakenCoupons ELSE TakenCoupons \cup {c}
  BY <1>1 DEF TakenCoupons
<1>4. Cardinality(TakenCoupons') = takeCount'
  BY <1>1, <1>3, TakenFinite, FS_AddElement DEF TakenCounted, TakenCoupons
<1>5. BoughtIsUsed'
  <2>1. ASSUME NEW o \in Buyers, bought[o] # 0
        PROVE  bought[o] \in Coupons \ {c}
    BY <1>1, <2>1, BoughtRows
  <2> QED BY <1>1, <2>1, SMTT(20) DEF BoughtIsUsed
<1> QED BY <1>2, <1>4, <1>5 DEF TakenCounted, TakenCoupons

\* The rows after one of them has been given a status and an order.
LEMMA RowMoves ==
    ASSUME CouponTypeOK, NEW c \in Coupons, NEW os \in SUBSET Buyers,
           NEW status \in {"unused", "used", "deleted"}, coupon[c].status # "none",
           coupon' = [coupon EXCEPT ![c].status = status, ![c].order = os]
    PROVE  /\ coupon' \in [Coupons -> CouponRows]
           /\ coupon'[c].status = status /\ coupon'[c].order = os
           /\ coupon'[c].owner = coupon[c].owner /\ coupon'[c].given = coupon[c].given
           /\ \A d \in Coupons \ {c} : coupon'[d] = coupon[d]
           /\ \A d \in Coupons : /\ coupon'[d].status = "none" <=> coupon[d].status = "none"
                                 /\ coupon'[d].given = coupon[d].given
<1>1. coupon \in [Coupons -> CouponRows]
  BY DEF CouponTypeOK, CouponRows
<1>2. coupon' = [coupon EXCEPT ![c] = [coupon[c] EXCEPT !.status = status, !.order = os]]
  OBVIOUS
<1>3. [coupon[c] EXCEPT !.status = status, !.order = os] \in CouponRows
  BY <1>1 DEF CouponRows
<1>4. coupon'[c] = [coupon[c] EXCEPT !.status = status, !.order = os]
  BY <1>1, <1>2
<1>5. coupon' \in [Coupons -> CouponRows]
  BY <1>1, <1>2, <1>3
<1>6. /\ coupon'[c].status = status /\ coupon'[c].order = os
      /\ coupon'[c].owner = coupon[c].owner /\ coupon'[c].given = coupon[c].given
  BY <1>1, <1>4 DEF CouponRows
<1>7. \A d \in Coupons \ {c} : coupon'[d] = coupon[d]
  BY <1>1, <1>2
<1> QED BY <1>5, <1>6, <1>7

LEMMA CouponKept ==
    ASSUME CouponInv, [CouponNext]_couponVars
    PROVE  CouponInv'
<1> USE CouponAssumption
<1>0. CASE UNCHANGED couponVars
  BY <1>0 DEF couponVars, CouponInv, CouponsAccounted, CouponTypeOK, TakenCounted, BoughtIsUsed,
              AtTaker
<1>1. ASSUME NEW p \in Takers, NEW m \in Members, TakeRead(p, m) PROVE CouponInv'
  BY <1>1, TakerMoves DEF TakeRead, Hold, Away, CouponInv, CouponsAccounted, CouponTypeOK, AtTaker
<1>2. ASSUME NEW p \in Takers, TakeCheck(p) PROVE CouponInv'
  <2>1. PICK m \in Members :
           /\ taker[p].pc = "count" /\ UNCHANGED <<takeCount, coupon, over, bought>>
           /\ \/ BelowLimit(Own(m)) /\ Hold(p, [taker[p] EXCEPT !.pc = "take", !.own = Own(m)])
              \/ Hold(p, Away)
    BY <1>2 DEF TakeCheck, CouponInv, CouponsAccounted, CouponTypeOK
  <2>2. CASE Hold(p, Away)
    BY <2>1, <2>2, TakerMoves DEF Hold, Away, CouponInv, CouponsAccounted, CouponTypeOK, AtTaker
  <2>3. CASE BelowLimit(Own(m)) /\ Hold(p, [taker[p] EXCEPT !.pc = "take", !.own = Own(m)])
    <3> DEFINE n == Own(m)
    <3>1. n \in Nat /\ BelowLimit(n)
      BY <2>3, OwnIsNat
    <3>2. taker' = [taker EXCEPT ![p] = [taker[p] EXCEPT !.pc = "take", !.own = n]]
      BY <2>3 DEF Hold
    <3> HIDE DEF n
    <3>3. taker' \in [Takers -> [pc : {"idle", "count", "take"}, member : SUBSET Members,
                                total : Nat, own : Nat]]
      BY <3>1, <3>2 DEF CouponInv, CouponsAccounted, CouponTypeOK
    <3>4. AtTaker'
      BY <2>1, <3>1, <3>2 DEF CouponInv, CouponsAccounted, CouponTypeOK, AtTaker
    <3> QED BY <2>1, <3>3, <3>4, TakerMoves DEF CouponInv, CouponsAccounted, CouponTypeOK
  <2> QED BY <2>1, <2>2, <2>3
<1>3. ASSUME NEW p \in Takers, NEW c \in Coupons, TakeCoupon(p, c) PROVE CouponInv'
  <2>1. PICK m \in Members :
           /\ NewCoupon(c) /\ takeCount' = takeCount + 1 /\ Inserted(c, m, FALSE)
           /\ Hold(p, Away) /\ UNCHANGED <<over, bought>>
    BY <1>3 DEF TakeCoupon, Counted, CouponInv, CouponsAccounted, CouponTypeOK
  <2>2. taker' \in [Takers -> [pc : {"idle", "count", "take"}, member : SUBSET Members,
                              total : Nat, own : Nat]] /\ AtTaker'
    BY <2>1 DEF Hold, Away, CouponInv, CouponsAccounted, CouponTypeOK, AtTaker
  <2> QED BY <2>1, <2>2, InsertMoves
<1>4. ASSUME NEW p \in Takers, TakeFails(p) PROVE CouponInv'
  BY <1>4, TakerMoves DEF TakeFails, Hold, Away, CouponInv, CouponsAccounted, CouponTypeOK, AtTaker
<1>5. ASSUME NEW m \in Members, NEW c \in Coupons, TakeCouponByAdmin(m, c) PROVE CouponInv'
  BY <1>5, InsertMoves DEF TakeCouponByAdmin, CouponInv, CouponsAccounted, CouponTypeOK, AtTaker
<1>6. ASSUME NEW o \in Buyers, NEW c \in Coupons, UseCoupon(o, c) PROVE CouponInv'
  <2>1. /\ CouponTypeOK /\ BoughtIsUsed /\ bought[o] = 0 /\ coupon[c].status = "unused"
        /\ coupon' = [coupon EXCEPT ![c].status = "used", ![c].order = {o}]
        /\ bought' = [bought EXCEPT ![o] = c] /\ UNCHANGED <<takeCount, over, taker>>
    BY <1>6 DEF UseCoupon, CouponInv, CouponsAccounted
  <2>2. /\ coupon' \in [Coupons -> CouponRows]
        /\ coupon'[c].status = "used" /\ coupon'[c].order = {o}
        /\ \A d \in Coupons \ {c} : coupon'[d] = coupon[d]
        /\ \A d \in Coupons : /\ coupon'[d].status = "none" <=> coupon[d].status = "none"
                              /\ coupon'[d].given = coupon[d].given
    BY <2>1, RowMoves
  <2>3. CouponTypeOK'
    BY <2>1, <2>2 DEF CouponTypeOK, CouponRows, Coupons
  <2>4. \A q \in Buyers \ {o} : bought[q] # 0 => bought[q] \in Coupons \ {c}
    BY <2>1 DEF CouponTypeOK, BoughtIsUsed, Coupons
  <2>5. bought'[o] = c /\ \A q \in Buyers \ {o} : bought'[q] = bought[q]
    BY <2>1 DEF CouponTypeOK
  <2>6. \A q \in Buyers : bought[q] # c
    <3>1. c # 0
      BY CouponAssumption DEF Coupons
    <3> QED BY <2>1, <3>1, BoughtRows
  <2>7. BoughtIsUsed'
    BY <2>1, <2>2, <2>4, <2>5, <2>6 DEF BoughtIsUsed, Coupons
  <2> QED BY <2>1, <2>2, <2>3, <2>7, StatusMoves
<1>7. ASSUME NEW o \in Buyers, ReturnCouponForOrder(o) PROVE CouponInv'
  <2> DEFINE c == bought[o]
  <2>1. /\ CouponTypeOK /\ BoughtIsUsed /\ c \in Coupons
        /\ coupon[c].status = "used" /\ coupon[c].order = {o}
        /\ coupon' = [coupon EXCEPT ![c].status = "unused", ![c].order = {}]
        /\ bought' = [bought EXCEPT ![o] = 0] /\ UNCHANGED <<takeCount, over, taker>>
    BY <1>7 DEF ReturnCouponForOrder, Coupons, CouponInv, CouponsAccounted, CouponTypeOK
  <2>2. \A q \in Buyers \ {o} : bought[q] # c
    BY <2>1, CouponAssumption DEF BoughtIsUsed, Coupons
  <2> HIDE DEF c
  <2>3. /\ coupon' \in [Coupons -> CouponRows]
        /\ coupon'[c].status = "unused"
        /\ \A d \in Coupons \ {c} : coupon'[d] = coupon[d]
        /\ \A d \in Coupons : /\ coupon'[d].status = "none" <=> coupon[d].status = "none"
                              /\ coupon'[d].given = coupon[d].given
    BY <2>1, RowMoves
  <2>4. CouponTypeOK'
    BY <2>1, <2>3, CouponAssumption DEF CouponTypeOK, CouponRows, Coupons
  <2>5. bought'[o] = 0 /\ \A q \in Buyers \ {o} : bought'[q] = bought[q]
    BY <2>1 DEF CouponTypeOK
  <2>6. \A q \in Buyers : bought[q] # 0 => bought[q] \in Coupons
    BY <2>1, CouponAssumption DEF CouponTypeOK, Coupons
  <2>7. \A q \in Buyers : bought[q] \in Coupons \ {c} => q # o
    BY DEF c
  <2>8. BoughtIsUsed'
    BY <2>1, <2>2, <2>3, <2>5, <2>6, <2>7 DEF BoughtIsUsed
  <2> QED BY <2>1, <2>3, <2>4, <2>8, StatusMoves
<1>8. CASE ExpireCoupon
  <2>1. /\ CouponTypeOK /\ BoughtIsUsed /\ UNCHANGED <<takeCount, over, bought, taker>>
        /\ coupon' = [c \in Coupons |-> IF MayExpire(c) THEN [coupon[c] EXCEPT !.status = "expired"]
                                                       ELSE coupon[c]]
    BY <1>8 DEF ExpireCoupon, Expired, CouponInv, CouponsAccounted
  <2>2. coupon \in [Coupons -> CouponRows]
    BY <2>1 DEF CouponTypeOK, CouponRows
  <2>3. ASSUME NEW c \in Coupons
        PROVE  /\ coupon'[c] \in CouponRows
               /\ coupon'[c].status = "none" <=> coupon[c].status = "none"
               /\ coupon'[c].given = coupon[c].given /\ coupon'[c].order = coupon[c].order
               /\ coupon'[c].status # coupon[c].status
                     => coupon[c].status = "unused" /\ coupon'[c].status = "expired"
    <3>1. CASE MayExpire(c)
      <4>1. coupon'[c] = [coupon[c] EXCEPT !.status = "expired"] /\ coupon[c].status = "unused"
        BY <2>1, <3>1 DEF MayExpire
      <4> QED BY <2>2, <4>1 DEF CouponRows
    <3>2. CASE ~MayExpire(c)
      BY <2>1, <2>2, <3>2
    <3> QED BY <3>1, <3>2
  <2>4. coupon' \in [Coupons -> CouponRows]
    BY <2>1, <2>3
  <2>5. CouponTypeOK'
    BY <2>1, <2>4 DEF CouponTypeOK, CouponRows
  <2>6. \A q \in Buyers : bought[q] # 0 => bought[q] \in Coupons
    BY <2>1, CouponAssumption DEF CouponTypeOK, Coupons
  <2>7. BoughtIsUsed'
    BY <2>1, <2>3, <2>6 DEF BoughtIsUsed
  <2> QED BY <2>1, <2>3, <2>5, <2>7, StatusMoves
<1>9. ASSUME NEW c \in Coupons, CouponTimePasses(c) PROVE CouponInv'
  BY <1>9, TakerMoves DEF CouponTimePasses, CouponInv, CouponsAccounted, CouponTypeOK, AtTaker
<1>10. ASSUME NEW c \in Coupons, DeleteCoupon(c) PROVE CouponInv'
  <2>1. /\ CouponTypeOK /\ BoughtIsUsed /\ UNCHANGED <<takeCount, over, bought, taker>>
        /\ coupon[c].status # "none"
    BY <1>10 DEF DeleteCoupon, CouponInv, CouponsAccounted
  <2>2. coupon[c] \in CouponRows /\ coupon[c].order \in SUBSET Buyers
    BY <2>1 DEF CouponTypeOK, CouponRows
  <2>3. coupon' = [coupon EXCEPT ![c].status = "deleted", ![c].order = coupon[c].order]
    <3>1. [coupon[c] EXCEPT !.status = "deleted", !.order = coupon[c].order]
             = [coupon[c] EXCEPT !.status = "deleted"]
      BY <2>2 DEF CouponRows
    <3>2. coupon' = [coupon EXCEPT ![c] = [coupon[c] EXCEPT !.status = "deleted"]]
      BY <1>10 DEF DeleteCoupon
    <3> QED BY <3>1, <3>2
  <2>4. /\ coupon' \in [Coupons -> CouponRows]
        /\ coupon'[c].status = "deleted" /\ coupon'[c].order = coupon[c].order
        /\ \A d \in Coupons \ {c} : coupon'[d] = coupon[d]
        /\ \A d \in Coupons : /\ coupon'[d].status = "none" <=> coupon[d].status = "none"
                              /\ coupon'[d].given = coupon[d].given
    BY <2>1, <2>2, <2>3, RowMoves
  <2>5. CouponTypeOK'
    BY <2>1, <2>4 DEF CouponTypeOK, CouponRows
  <2>6. \A q \in Buyers : bought[q] # 0 => bought[q] \in Coupons
    BY <2>1, CouponAssumption DEF CouponTypeOK, Coupons
  <2>7. BoughtIsUsed'
    BY <2>1, <2>4, <2>6 DEF BoughtIsUsed
  <2> QED BY <2>1, <2>4, <2>5, <2>7, StatusMoves
<1> QED BY <1>0, <1>1, <1>2, <1>3, <1>4, <1>5, <1>6, <1>7, <1>8, <1>9, <1>10 DEF CouponNext

(* Every coupon that was taken is counted, every use has its order, and a     *)
(* coupon beyond a limit is taken on a stale look only (coupon_user.go:56),   *)
(* for any number of requests, members and coupons.                          *)
THEOREM CouponsExplainedAlways == CouponSpec => CouponsExplained
<1>1. CouponInv => CouponsAccounted
  BY DEF CouponInv
<1>2. ASSUME CouponInv, [CouponNext]_couponVars
      PROVE  [\A p \in Takers : taker[p].pc = "take" /\ takeCount' > takeCount /\ taker'[p].pc = "idle" =>
                /\ TotalCount = 0 \/ takeCount < TotalCount \/ taker[p].total # takeCount
                /\ \A m \in taker[p].member :
                      TakeLimit = 0 \/ Own(m) < TakeLimit \/ taker[p].own # Own(m)]_couponVars
  BY <1>2, CouponAssumption, OwnIsNat
     DEF CouponInv, CouponsAccounted, CouponTypeOK, AtTaker, InStock, BelowLimit
<1>3. CouponSpec => []CouponInv
  BY CouponStarts, CouponKept, PTL DEF CouponSpec
<1> QED BY <1>1, <1>2, <1>3, PTL DEF CouponSpec, CouponsExplained, ExcessIsStale

-----------------------------------------------------------------------------
(* SMS codes.  The codes reserved are the first of the day's; who sends a     *)
(* code is the only one to, and nobody has seen it; who has read a code has   *)
(* taken it from the key.                                                    *)

CodeRows == [scene : SUBSET Scenes, delivered : BOOLEAN, used : BOOLEAN, read : Nat, accepted : Nat]

FirstOfDay ==
    /\ \A n \in Codes : code[n].scene # {} <=> n <= daily
    /\ \A n \in Codes : code[n].scene # {} => \E s \in Scenes : code[n].scene = {s}
    /\ \A n \in Codes : code[n].scene = {} => ~code[n].delivered /\ code[n].read = 0
    /\ \A n \in rate : n = daily

AtSender ==
    /\ \A p \in Senders : sender[p].pc # "idle" =>
          LET n == sender[p].code IN
          /\ n \in Codes /\ code[n].scene # {} /\ code[n].read = 0
          /\ \A s \in Scenes : n \notin stored[s]
          /\ sender[p].pc = "activate" => code[n].delivered
    /\ \A p, q \in Senders :
          sender[p].pc # "idle" /\ sender[q].pc # "idle" /\ sender[p].code = sender[q].code => p = q

AtGuesser ==
    /\ \A s \in Scenes : \A n \in stored[s] : code[n].read = 0
    /\ \A u \in Guessers : guesser[u] # 0 => code[guesser[u]].read = 1
    /\ \A n \in Codes : code[n].accepted # 0 => code[n].used

SmsInv == SmsTypeOK /\ UsableIsLatest /\ OneGuess /\ FirstOfDay /\ AtSender /\ AtGuesser

LEMMA SmsStarts == SmsInit => SmsInv
BY SmsAssumption
   DEF SmsInit, SmsInv, SmsTypeOK, UsableIsLatest, OneGuess, FirstOfDay, AtSender, AtGuesser,
       Unsent, Silent, Codes

\* Steps that change no code.
LEMMA CodesRest ==
    ASSUME SmsInv, UNCHANGED <<code, daily>>, rate' \subseteq rate,
           smsFaults' \in 0..MaxSmsFaults,
           stored' \in [Scenes -> SUBSET Codes], \A s \in Scenes : stored'[s] \subseteq stored[s],
           sender' \in [Senders -> [pc : {"idle", "insert", "send", "activate"}, code : 0..MaxCodes]],
           \A p \in Senders : sender'[p].pc # "idle" =>
              /\ sender[p].pc # "idle" /\ sender'[p].code = sender[p].code
              /\ sender'[p].pc = "activate" => sender[p].pc = "activate",
           guesser' \in [Guessers -> 0..MaxCodes],
           \A u \in Guessers : guesser'[u] \in {0, guesser[u]}
    PROVE  SmsInv'
<1>1. SmsTypeOK'
  BY DEF SmsInv, SmsTypeOK
<1>2. UsableIsLatest' /\ OneGuess' /\ FirstOfDay'
  BY DEF SmsInv, UsableIsLatest, OneGuess, FirstOfDay
<1>3. AtSender'
  BY DEF SmsInv, AtSender
<1>4. AtGuesser'
  BY DEF SmsInv, AtGuesser
<1> QED BY <1>1, <1>2, <1>3, <1>4 DEF SmsInv

LEMMA ReserveKept ==
    ASSUME SmsInv, NEW p \in Senders, NEW s \in Scenes, NEW n \in Codes, ReserveSmsCode(p, s, n)
    PROVE  SmsInv'
<1>1. /\ sender[p].pc = "idle" /\ code[n].scene = {} /\ daily < MaxPerDay
      /\ rate' = {n} /\ daily' = daily + 1
      /\ stored' = [stored EXCEPT ![s] = {}]
      /\ code' = [code EXCEPT ![n] = [code[n] EXCEPT !.scene = {s}]]
      /\ sender' = [sender EXCEPT ![p] = [pc |-> "insert", code |-> n]]
      /\ UNCHANGED <<smsFaults, guesser>>
  BY DEF ReserveSmsCode, BudgetLeft, NewCode
<1>2. /\ daily \in Nat /\ MaxPerDay \in Nat /\ n \in Nat /\ n > 0 /\ MaxCodes \in Nat
      /\ code \in [Codes -> CodeRows] /\ stored \in [Scenes -> SUBSET Codes]
  BY SmsAssumption DEF SmsInv, SmsTypeOK, Codes, CodeRows
<1>3. n = daily + 1
  <2>1. n > daily
    BY <1>1, <1>2 DEF SmsInv, FirstOfDay
  <2>2. ASSUME n > daily + 1 PROVE FALSE
    <3>1. daily + 1 \in 1..(n - 1) /\ daily + 1 \in Codes
      BY <1>2, <2>2 DEF Codes
    <3>2. code[daily + 1].scene # {}
      BY <3>1 DEF ReserveSmsCode, NewCode
    <3>3. daily + 1 <= daily
      BY <3>1, <3>2 DEF SmsInv, FirstOfDay
    <3> QED BY <1>2, <3>3
  <2> QED BY <1>2, <2>1, <2>2
<1>4. [code[n] EXCEPT !.scene = {s}] \in CodeRows
  BY <1>2 DEF CodeRows
<1>5. code' \in [Codes -> CodeRows]
  BY <1>1, <1>2, <1>4
<1>6. /\ code'[n].scene = {s} /\ code'[n].delivered = code[n].delivered
      /\ code'[n].used = code[n].used /\ code'[n].read = code[n].read
      /\ code'[n].accepted = code[n].accepted
      /\ \A m \in Codes \ {n} : code'[m] = code[m]
  BY <1>1, <1>2 DEF CodeRows
<1>7. code[n].read = 0 /\ \A r \in Scenes : n \notin stored[r]
  BY <1>1 DEF SmsInv, FirstOfDay, UsableIsLatest
<1>8. /\ stored'[s] = {} /\ \A r \in Scenes \ {s} : stored'[r] = stored[r]
      /\ sender'[p] = [pc |-> "insert", code |-> n]
      /\ \A q \in Senders \ {p} : sender'[q] = sender[q]
  BY <1>1, <1>2 DEF SmsInv, SmsTypeOK
<1>9. SmsTypeOK'
  <2>1. sender' \in [Senders -> [pc : {"idle", "insert", "send", "activate"}, code : 0..MaxCodes]]
    BY <1>1, <1>2 DEF SmsInv, SmsTypeOK, Codes
  <2>2. daily' \in 0..MaxPerDay /\ rate' \subseteq Codes
    BY <1>1, <1>2
  <2>3. stored' \in [Scenes -> SUBSET Codes]
    BY <1>1, <1>2
  <2> QED BY <1>1, <1>5, <2>1, <2>2, <2>3 DEF SmsInv, SmsTypeOK, CodeRows
<1>10. UsableIsLatest'
  <2>1. ASSUME NEW r \in Scenes, NEW m \in stored'[r]
        PROVE  /\ code'[m].scene = {r} /\ code'[m].delivered
               /\ \A k \in Codes : k > m => code'[k].scene # {r}
    <3>1. r # s /\ m \in stored[r] /\ m \in Codes \ {n}
      BY <1>2, <1>7, <1>8, <2>1
    <3>2. code'[m] = code[m] /\ code'[n].scene # {r}
      BY <1>6, <3>1
    <3> QED BY <1>6, <3>1, <3>2 DEF SmsInv, UsableIsLatest
  <2> QED BY <2>1 DEF UsableIsLatest
<1>11. OneGuess'
  BY <1>6 DEF SmsInv, OneGuess
<1>12. FirstOfDay'
  <2>1. \A m \in Codes : m \in Nat
    BY <1>2 DEF Codes
  <2> QED BY <1>1, <1>2, <1>3, <1>6, <1>7, <2>1, SMTT(20) DEF SmsInv, FirstOfDay
<1>13. AtSender'
  <2>1. \A q \in Senders : sender[q].pc # "idle" => sender[q].code # n
    BY <1>1 DEF SmsInv, AtSender
  <2> QED BY <1>6, <1>7, <1>8, <2>1 DEF SmsInv, AtSender
<1>14. AtGuesser'
  <2>1. \A u \in Guessers : guesser[u] # 0 => guesser[u] \in Codes \ {n}
    BY <1>2, <1>7 DEF SmsInv, AtGuesser, SmsTypeOK, Codes
  <2>2. \A r \in Scenes : \A m \in stored'[r] : m \in Codes \ {n} /\ m \in stored[r]
    BY <1>2, <1>7, <1>8
  <2> QED BY <1>1, <1>6, <2>1, <2>2 DEF SmsInv, AtGuesser
<1> QED BY <1>9, <1>10, <1>11, <1>12, <1>13, <1>14 DEF SmsInv

\* Steps that change what became of one code.
LEMMA CodeMoves ==
    ASSUME SmsInv, NEW n \in Codes, code[n].scene # {}, NEW row \in CodeRows,
           row.scene = code[n].scene, code[n].delivered => row.delivered,
           code' = [code EXCEPT ![n] = row], UNCHANGED <<rate, daily>>,
           stored' \in [Scenes -> SUBSET Codes], \A s \in Scenes : stored'[s] \subseteq stored[s]
    PROVE  /\ code' \in [Codes -> CodeRows] /\ code'[n] = row
           /\ \A m \in Codes \ {n} : code'[m] = code[m]
           /\ UsableIsLatest' /\ FirstOfDay'
<1>1. code \in [Codes -> CodeRows] /\ stored \in [Scenes -> SUBSET Codes]
  BY DEF SmsInv, SmsTypeOK, CodeRows
<1>2. /\ code' \in [Codes -> CodeRows] /\ code'[n] = row
      /\ \A m \in Codes \ {n} : code'[m] = code[m]
  BY <1>1
<1>3. \A m \in Codes : code'[m].scene = code[m].scene /\ (code[m].delivered => code'[m].delivered)
  BY <1>2
<1>4. UsableIsLatest'
  BY <1>1, <1>3 DEF SmsInv, UsableIsLatest
<1>5. FirstOfDay'
  BY <1>2, <1>3 DEF SmsInv, FirstOfDay
<1> QED BY <1>2, <1>4, <1>5

LEMMA SendKept ==
    ASSUME SmsInv, NEW p \in Senders, sender[p].pc # "idle", NEW d \in BOOLEAN,
           NEW pc \in {"idle", "activate"}, NEW c \in {0, sender[p].code},
           code[sender[p].code].delivered => d, pc = "activate" => d /\ c = sender[p].code,
           code' = [code EXCEPT ![sender[p].code].delivered = d],
           sender' = [sender EXCEPT ![p] = [pc |-> pc, code |-> c]],
           smsFaults' \in 0..MaxSmsFaults, UNCHANGED <<rate, daily, stored, guesser>>
    PROVE  SmsInv'
<1> DEFINE n == sender[p].code
           row == [code[n] EXCEPT !.delivered = d]
<1>1. /\ n \in Codes /\ n \in 0..MaxCodes /\ code[n].scene # {} /\ code[n].read = 0
      /\ code[n] \in CodeRows /\ 0 \in 0..MaxCodes
      /\ \A q \in Senders \ {p} : sender[q].pc # "idle" => sender[q].code # n
  BY SmsAssumption DEF SmsInv, AtSender, SmsTypeOK, CodeRows, Codes
<1>2. code[n].delivered => d
  OBVIOUS
<1>3. /\ row \in CodeRows /\ row.scene = code[n].scene /\ row.read = code[n].read
      /\ row.accepted = code[n].accepted /\ row.used = code[n].used
      /\ row.delivered = d
  BY <1>1 DEF CodeRows
<1>4. code' = [code EXCEPT ![n] = row]
  OBVIOUS
<1> HIDE DEF row, n
<1>5. /\ code' \in [Codes -> CodeRows] /\ code'[n] = row
      /\ \A m \in Codes \ {n} : code'[m] = code[m]
      /\ UsableIsLatest' /\ FirstOfDay'
  <2>1. stored \in [Scenes -> SUBSET Codes]
    BY DEF SmsInv, SmsTypeOK
  <2> QED BY <1>1, <1>2, <1>3, <1>4, <2>1, CodeMoves
<1>6. sender'[p] = [pc |-> pc, code |-> c] /\ \A q \in Senders \ {p} : sender'[q] = sender[q]
  BY DEF SmsInv, SmsTypeOK
<1>7. SmsTypeOK'
  <2>1. sender' \in [Senders -> [pc : {"idle", "insert", "send", "activate"}, code : 0..MaxCodes]]
    BY <1>1 DEF SmsInv, SmsTypeOK, n
  <2> QED BY <1>5, <2>1 DEF SmsInv, SmsTypeOK, CodeRows
<1>8. OneGuess'
  BY <1>3, <1>5 DEF SmsInv, OneGuess
<1>9. AtSender'
  <2>1. pc = "activate" => code'[n].delivered
    BY <1>3, <1>5 DEF n
  <2>2. \A q \in Senders \ {p} : sender[q].pc # "idle" =>
           sender[q].code \in Codes \ {n} /\ code'[sender[q].code] = code[sender[q].code]
    BY <1>1, <1>5 DEF SmsInv, AtSender
  <2>3. code'[n].scene # {} /\ code'[n].read = 0 /\ \A s \in Scenes : n \notin stored[s]
    BY <1>1, <1>3, <1>5 DEF SmsInv, AtSender, n
  <2>4. pc = "activate" => c = n
    BY DEF n
  <2> QED BY <1>1, <1>6, <2>1, <2>2, <2>3, <2>4 DEF SmsInv, AtSender
<1>10. AtGuesser'
  <2>1. \A m \in Codes : /\ code'[m].read = code[m].read /\ code'[m].used = code[m].used
                         /\ code'[m].accepted = code[m].accepted
    BY <1>3, <1>5
  <2>2. \A u \in Guessers : guesser[u] # 0 => guesser[u] \in Codes
    BY SmsAssumption DEF SmsInv, SmsTypeOK, Codes
  <2>3. \A s \in Scenes : stored[s] \subseteq Codes
    BY DEF SmsInv, SmsTypeOK
  <2> QED BY <2>1, <2>2, <2>3 DEF SmsInv, AtGuesser
<1> QED BY <1>5, <1>7, <1>8, <1>9, <1>10 DEF SmsInv

\* The reservation that the key still names is the latest of the day.
LEMMA ActivateKept ==
    ASSUME SmsInv, NEW p \in Senders, ActivateSmsCode(p)
    PROVE  SmsInv'
<1> DEFINE n == sender[p].code
<1>1. /\ n \in Codes /\ code[n].scene # {} /\ code[n].read = 0 /\ code[n].delivered
      /\ \A q \in Senders \ {p} : sender[q].pc # "idle" => sender[q].code # n
  BY DEF ActivateSmsCode, SmsInv, AtSender
<1>2. PICK s \in Scenes : code[n].scene = {s}
  BY <1>1 DEF SmsInv, FirstOfDay
<1>3. /\ stored' = IF rate = {n} THEN [stored EXCEPT ![s] = {n}] ELSE stored
      /\ sender' = [sender EXCEPT ![p] = [pc |-> "idle", code |-> 0]]
      /\ UNCHANGED <<rate, daily, code, smsFaults, guesser>>
  BY <1>2 DEF ActivateSmsCode, StillReserved, Finish, Silent
<1> HIDE DEF n
<1>4. /\ stored \in [Scenes -> SUBSET Codes] /\ 0 \in 0..MaxCodes
      /\ sender \in [Senders -> [pc : {"idle", "insert", "send", "activate"}, code : 0..MaxCodes]]
      /\ daily \in Nat /\ \A m \in Codes : m \in Nat
  BY SmsAssumption DEF SmsInv, SmsTypeOK, Codes
<1>5. \A r \in Scenes : \A m \in stored'[r] : m \in stored[r] \/ (m = n /\ r = s /\ rate = {n})
  BY <1>3, <1>4
<1>6. SmsTypeOK'
  <2>1. stored' \in [Scenes -> SUBSET Codes]
    BY <1>1, <1>3, <1>4
  <2>2. sender' \in [Senders -> [pc : {"idle", "insert", "send", "activate"}, code : 0..MaxCodes]]
    BY <1>3, <1>4
  <2> QED BY <1>3, <2>1, <2>2 DEF SmsInv, SmsTypeOK
<1>7. UsableIsLatest'
  <2>1. rate = {n} => \A m \in Codes : m > n => code[m].scene = {}
    BY <1>1, <1>4 DEF SmsInv, FirstOfDay
  <2> QED BY <1>1, <1>2, <1>3, <1>5, <2>1 DEF SmsInv, UsableIsLatest
<1>8. OneGuess' /\ FirstOfDay'
  BY <1>3 DEF SmsInv, OneGuess, FirstOfDay
<1>9. AtSender'
  <2>1. /\ sender'[p].pc = "idle" /\ \A q \in Senders \ {p} : sender'[q] = sender[q]
    BY <1>3, <1>4
  <2>2. \A q \in Senders : sender'[q].pc # "idle" =>
           \A r \in Scenes : sender[q].code \notin stored'[r]
    BY <1>1, <1>5, <2>1 DEF SmsInv, AtSender
  <2> QED BY <1>3, <2>1, <2>2 DEF SmsInv, AtSender
<1>10. AtGuesser'
  BY <1>1, <1>3, <1>5 DEF SmsInv, AtGuesser
<1> QED BY <1>6, <1>7, <1>8, <1>9, <1>10 DEF SmsInv

\* A code is entered: whoever reads it takes it from the key.
LEMMA ReadKept ==
    ASSUME SmsInv, NEW u \in Guessers, NEW s \in Scenes, NEW guess \in 0..MaxCodes,
           ReadCode(u, s, guess)
    PROVE  SmsInv'
<1>1. PICK n \in stored[s] :
         /\ guesser[u] = 0
         /\ code' = [code EXCEPT ![n].read = @ + 1]
         /\ guesser' = [guesser EXCEPT ![u] = IF guess = n THEN n ELSE 0]
         /\ stored' = [stored EXCEPT ![s] = {}]
         /\ UNCHANGED <<rate, daily, smsFaults, sender>>
  BY DEF ReadCode, AfterRead
<1> DEFINE row == [code[n] EXCEPT !.read = code[n].read + 1]
<1>2. /\ n \in Codes /\ n # 0 /\ {0, n} \subseteq 0..MaxCodes /\ code[n] \in CodeRows
      /\ code[n].scene = {s} /\ code[n].read = 0
      /\ stored \in [Scenes -> SUBSET Codes]
  BY SmsAssumption DEF SmsInv, SmsTypeOK, UsableIsLatest, AtGuesser, CodeRows, Codes
<1>3. /\ row \in CodeRows /\ row.scene = code[n].scene /\ row.read = 1
      /\ row.accepted = code[n].accepted /\ row.used = code[n].used
      /\ row.delivered = code[n].delivered
  BY <1>2 DEF CodeRows
<1>4. code' = [code EXCEPT ![n] = row]
  BY <1>1
<1> HIDE DEF row
<1>5. /\ stored' \in [Scenes -> SUBSET Codes] /\ stored'[s] = {}
      /\ \A r \in Scenes : stored'[r] \subseteq stored[r] /\ n \notin stored'[r]
  <2>1. \A r \in Scenes \ {s} : stored'[r] = stored[r] /\ n \notin stored[r]
    BY <1>1, <1>2 DEF SmsInv, UsableIsLatest
  <2> QED BY <1>1, <1>2, <2>1
<1>6. /\ code' \in [Codes -> CodeRows] /\ code'[n] = row
      /\ \A m \in Codes \ {n} : code'[m] = code[m]
      /\ UsableIsLatest' /\ FirstOfDay'
  <2>1. code[n].scene # {} /\ (code[n].delivered => row.delivered)
    BY <1>2, <1>3
  <2>2. UNCHANGED <<rate, daily>>
    BY <1>1
  <2> QED BY <1>2, <1>3, <1>4, <1>5, <2>1, <2>2, CodeMoves
<1>7. SmsTypeOK'
  BY <1>1, <1>2, <1>5, <1>6 DEF SmsInv, SmsTypeOK, CodeRows
<1>8. OneGuess'
  BY <1>2, <1>3, <1>6 DEF SmsInv, OneGuess, CodeRows
<1>9. AtSender'
  <2>1. \A q \in Senders : sender[q].pc # "idle" =>
           sender[q].code \in Codes \ {n} /\ code'[sender[q].code] = code[sender[q].code]
    BY <1>6 DEF SmsInv, AtSender
  <2> QED BY <1>1, <1>5, <2>1 DEF SmsInv, AtSender
<1>10. AtGuesser'
  <2>1. \A v \in Guessers : guesser'[v] # 0 =>
           \/ guesser'[v] = n
           \/ guesser'[v] = guesser[v] /\ guesser[v] \in Codes \ {n}
    <3>1. \A v \in Guessers : guesser[v] # 0 => guesser[v] \in Codes /\ code[guesser[v]].read = 1
      BY SmsAssumption DEF SmsInv, SmsTypeOK, AtGuesser, Codes
    <3> QED BY <1>1, <1>2, <3>1 DEF SmsInv, SmsTypeOK
  <2>2. \A v \in Guessers : guesser'[v] # 0 => code'[guesser'[v]].read = 1
    BY <1>3, <1>6, <2>1 DEF SmsInv, AtGuesser
  <2>3. \A r \in Scenes : \A m \in stored'[r] : code'[m].read = 0
    BY <1>2, <1>5, <1>6 DEF SmsInv, AtGuesser
  <2>4. \A m \in Codes : code'[m].accepted # 0 => code'[m].used
    BY <1>3, <1>6 DEF SmsInv, AtGuesser
  <2> QED BY <2>2, <2>3, <2>4 DEF AtGuesser
<1> QED BY <1>7, <1>6, <1>8, <1>9, <1>10 DEF SmsInv

\* A code that was read is marked, or written without an answer.
LEMMA MarkKept ==
    ASSUME SmsInv, NEW u \in Guessers, guesser[u] # 0, NEW row \in CodeRows,
           row.scene = code[guesser[u]].scene, row.read = code[guesser[u]].read,
           row.delivered = code[guesser[u]].delivered,
           row.accepted <= 1, row.accepted # 0 => row.used,
           code' = [code EXCEPT ![guesser[u]] = row],
           guesser' = [guesser EXCEPT ![u] = 0],
           smsFaults' \in 0..MaxSmsFaults, UNCHANGED <<rate, daily, stored, sender>>
    PROVE  SmsInv'
<1> DEFINE n == guesser[u]
<1>1. /\ n \in Codes /\ code[n].read = 1 /\ code[n].scene # {}
      /\ stored \in [Scenes -> SUBSET Codes] /\ 0 \in 0..MaxCodes
  BY SmsAssumption DEF SmsInv, SmsTypeOK, AtGuesser, FirstOfDay, Codes
<1>2. /\ row.scene = code[n].scene /\ row.read = code[n].read /\ row.delivered = code[n].delivered
      /\ code' = [code EXCEPT ![n] = row]
  OBVIOUS
<1> HIDE DEF n
<1>3. /\ code' \in [Codes -> CodeRows] /\ code'[n] = row
      /\ \A m \in Codes \ {n} : code'[m] = code[m]
      /\ UsableIsLatest' /\ FirstOfDay'
  <2>1. code[n].delivered => row.delivered
    BY <1>2
  <2>2. \A s \in Scenes : stored'[s] \subseteq stored[s]
    OBVIOUS
  <2> QED BY <1>1, <1>2, <2>1, <2>2, CodeMoves
<1>4. SmsTypeOK'
  BY <1>1, <1>3 DEF SmsInv, SmsTypeOK, CodeRows
<1>5. OneGuess'
  <2>1. code'[n].read = 1 /\ code'[n].accepted <= 1
    BY <1>1, <1>2, <1>3
  <2> QED BY <1>3, <2>1 DEF SmsInv, OneGuess
<1>6. \A m \in Codes : /\ code'[m].read = code[m].read /\ code'[m].scene = code[m].scene
                       /\ code'[m].delivered = code[m].delivered
  BY <1>2, <1>3
<1>7. AtSender'
  <2>1. \A q \in Senders : sender[q].pc # "idle" => sender[q].code \in Codes
    BY DEF SmsInv, AtSender
  <2> QED BY <1>6, <2>1 DEF SmsInv, AtSender
<1>8. AtGuesser'
  <2>1. \A v \in Guessers : guesser'[v] # 0 => guesser'[v] = guesser[v] /\ guesser[v] \in Codes
    BY SmsAssumption DEF SmsInv, SmsTypeOK, Codes
  <2>2. \A v \in Guessers : guesser'[v] # 0 => code'[guesser'[v]].read = 1
    <3>1. \A v \in Guessers : guesser[v] # 0 => code[guesser[v]].read = 1
      BY DEF SmsInv, AtGuesser
    <3> QED BY <1>6, <2>1, <3>1
  <2>3. \A r \in Scenes : \A m \in stored[r] : code'[m].read = 0
    BY <1>1, <1>6 DEF SmsInv, AtGuesser
  <2>4. \A m \in Codes : code'[m].accepted # 0 => code'[m].used
    BY <1>3 DEF SmsInv, AtGuesser
  <2> QED BY <2>2, <2>3, <2>4 DEF AtGuesser
<1> QED BY <1>3, <1>4, <1>5, <1>7, <1>8 DEF SmsInv

LEMMA SmsKept ==
    ASSUME SmsInv, [SmsNext]_smsVars
    PROVE  SmsInv'
<1> USE SmsAssumption
<1>0. /\ stored \in [Scenes -> SUBSET Codes] /\ guesser \in [Guessers -> 0..MaxCodes]
      /\ sender \in [Senders -> [pc : {"idle", "insert", "send", "activate"}, code : 0..MaxCodes]]
      /\ code \in [Codes -> CodeRows] /\ smsFaults \in 0..MaxSmsFaults /\ 0 \in 0..MaxCodes
  BY DEF SmsInv, SmsTypeOK, CodeRows
<1>1. CASE UNCHANGED smsVars
  BY <1>0, <1>1, CodesRest DEF smsVars
<1>2. ASSUME NEW p \in Senders, NEW s \in Scenes, NEW n \in Codes, ReserveSmsCode(p, s, n)
      PROVE  SmsInv'
  BY <1>2, ReserveKept
<1>3. ASSUME NEW p \in Senders, InsertRecord(p) PROVE SmsInv'
  BY <1>0, <1>3, CodesRest DEF InsertRecord, Step
<1>4. ASSUME NEW p \in Senders, Send(p) PROVE SmsInv'
  <2>1. /\ sender[p].pc = "send"
        /\ code' = [code EXCEPT ![sender[p].code].delivered = TRUE]
        /\ sender' = [sender EXCEPT ![p] = [pc |-> "activate", code |-> sender[p].code]]
        /\ UNCHANGED <<rate, daily, stored, smsFaults, guesser>>
    <3>1. /\ sender[p].pc = "send" /\ UNCHANGED <<rate, daily, stored, smsFaults, guesser>>
          /\ code' = [code EXCEPT ![sender[p].code].delivered = TRUE]
          /\ sender' = [sender EXCEPT ![p] = [sender[p] EXCEPT !.pc = "activate"]]
      BY <1>4 DEF Send, Step
    <3>2. sender[p] \in [pc : {"idle", "insert", "send", "activate"}, code : 0..MaxCodes]
      BY <1>0
    <3>3. [sender[p] EXCEPT !.pc = "activate"] = [pc |-> "activate", code |-> sender[p].code]
      BY <3>2
    <3> QED BY <3>1, <3>3
  <2> QED BY <1>0, <2>1, SendKept
<1>5. ASSUME NEW p \in Senders, SenderFails(p) PROVE SmsInv'
  <2>1. PICK gone \in BOOLEAN :
           /\ sender[p].pc # "idle"
           /\ smsFaults' = smsFaults + 1 /\ smsFaults < MaxSmsFaults
           /\ code' = [code EXCEPT ![sender[p].code].delivered = code[sender[p].code].delivered \/ gone]
           /\ sender' = [sender EXCEPT ![p] = [pc |-> "idle", code |-> 0]]
           /\ UNCHANGED <<rate, daily, stored, guesser>>
    BY <1>5 DEF SenderFails, AfterFailure, Finish, Silent
  <2>3. smsFaults' \in 0..MaxSmsFaults
    BY <1>0, <2>1
  <2>4. (code[sender[p].code].delivered \/ gone) \in BOOLEAN
    OBVIOUS
  <2> DEFINE d == code[sender[p].code].delivered \/ gone
  <2>5. code' = [code EXCEPT ![sender[p].code].delivered = d]
    BY <2>1
  <2>6. d \in BOOLEAN /\ (code[sender[p].code].delivered => d)
    BY <2>4
  <2> HIDE DEF d
  <2> QED BY <2>1, <2>3, <2>5, <2>6, SendKept
<1>6. ASSUME NEW p \in Senders, ActivateSmsCode(p) PROVE SmsInv'
  BY <1>6, ActivateKept
<1>7. CASE RateExpires
  BY <1>0, <1>7, CodesRest DEF RateExpires
<1>8. ASSUME NEW s \in Scenes, CodeExpires(s) PROVE SmsInv'
  BY <1>0, <1>8, CodesRest DEF CodeExpires
<1>9. ASSUME NEW u \in Guessers, NEW s \in Scenes, NEW guess \in 0..MaxCodes, ReadCode(u, s, guess)
      PROVE  SmsInv'
  BY <1>9, ReadKept
<1>10. ASSUME NEW u \in Guessers, MarkUsed(u) PROVE SmsInv'
  <2> DEFINE n == guesser[u]
  <2>1. n \in Codes /\ code[n] \in CodeRows /\ code[n].accepted \in Nat
    BY <1>0, <1>10 DEF MarkUsed, CodeRows, Codes
  <2>2. CASE code[n].used
    BY <1>0, <1>10, <2>2, CodesRest DEF MarkUsed
  <2>3. CASE ~code[n].used
    <3> DEFINE row == [code[n] EXCEPT !.used = TRUE, !.accepted = code[n].accepted + 1]
    <3>1. code[n].accepted = 0
      BY <2>1, <2>3 DEF SmsInv, AtGuesser
    <3>2. /\ row \in CodeRows /\ row.scene = code[n].scene /\ row.read = code[n].read
          /\ row.delivered = code[n].delivered /\ row.accepted <= 1 /\ row.used
      <4>1. row.accepted = code[n].accepted + 1 /\ code[n].accepted + 1 \in Nat
        BY <2>1 DEF CodeRows
      <4>2. /\ row.scene = code[n].scene /\ row.read = code[n].read
            /\ row.delivered = code[n].delivered
        BY <2>1 DEF CodeRows
      <4>3. row.used
        BY <2>1 DEF CodeRows
      <4>4. row \in CodeRows
        BY <2>1, <4>1 DEF CodeRows
      <4> QED BY <3>1, <4>1, <4>2, <4>3, <4>4
    <3>3. code' = [code EXCEPT ![n] = row] /\ guesser' = [guesser EXCEPT ![u] = 0]
      BY <1>10, <2>3 DEF MarkUsed
    <3> HIDE DEF row
    <3> QED BY <1>0, <1>10, <3>2, <3>3, MarkKept DEF MarkUsed
  <2> QED BY <2>2, <2>3
<1>11. ASSUME NEW u \in Guessers, GuesserFails(u) PROVE SmsInv'
  <2> DEFINE n == guesser[u]
  <2>1. PICK written \in BOOLEAN :
           /\ n # 0 /\ smsFaults < MaxSmsFaults /\ smsFaults' = smsFaults + 1
           /\ code' = [code EXCEPT ![n] = [code[n] EXCEPT !.used = code[n].used \/ written]]
           /\ guesser' = [guesser EXCEPT ![u] = 0] /\ UNCHANGED <<rate, daily, stored, sender>>
    BY <1>11 DEF GuesserFails
  <2> DEFINE row == [code[n] EXCEPT !.used = code[n].used \/ written]
  <2>2. n \in Codes /\ code[n] \in CodeRows
    BY <1>0, <2>1 DEF Codes
  <2>3. (code[n].used \/ written) \in BOOLEAN
    OBVIOUS
  <2>4. /\ row \in CodeRows /\ row.scene = code[n].scene /\ row.read = code[n].read
        /\ row.delivered = code[n].delivered /\ row.accepted = code[n].accepted
        /\ row.used = (code[n].used \/ written)
    BY <2>2, <2>3 DEF CodeRows
  <2>5. row.accepted <= 1 /\ (row.accepted # 0 => row.used)
    <3>1. /\ code[n].accepted <= 1 /\ (code[n].accepted # 0 => code[n].used)
      BY <2>2 DEF SmsInv, AtGuesser, OneGuess, CodeRows
    <3>2. code[n].used => row.used
      BY <2>4
    <3> QED BY <2>4, <3>1, <3>2
  <2>6. smsFaults' \in 0..MaxSmsFaults
    BY <1>0, <2>1
  <2> HIDE DEF row
  <2>7. code' = [code EXCEPT ![guesser[u]] = row]
    BY <2>1 DEF row
  <2> QED BY <2>1, <2>4, <2>5, <2>6, <2>7, MarkKept
<1> QED BY <1>1, <1>2, <1>3, <1>4, <1>5, <1>6, <1>7, <1>8, <1>9, <1>10, <1>11 DEF SmsNext

\* What is delivered was reserved, and the codes reserved are numbered.
LEMMA CountDeliveries == ASSUME SmsInv PROVE DeliveriesCounted
<1> DEFINE D == {n \in Codes : code[n].delivered}
<1>1. daily \in Nat
  BY DEF SmsInv, SmsTypeOK
<1>2. D \subseteq 1..daily
  BY <1>1 DEF SmsInv, FirstOfDay, Codes
<1>3. IsFiniteSet(1..daily) /\ Cardinality(1..daily) = daily
  BY <1>1, FS_Interval
<1>4. Cardinality(D) <= daily
  BY <1>2, <1>3, FS_Subset
<1> QED BY <1>4 DEF DeliveriesCounted

(* A usable code is the latest that was delivered for its scene, is compared  *)
(* with one entry, and its message counts for the day (sms_code.go:207 and    *)
(* 259), for any number of requests, scenes and faults.                      *)
THEOREM CodeServesOnceAlways == SmsSpec => []CodeServesOnce
<1>1. SmsInv => CodeServesOnce
  BY CountDeliveries DEF SmsInv, CodeServesOnce
<1> QED BY <1>1, SmsStarts, SmsKept, PTL DEF SmsSpec

-----------------------------------------------------------------------------
(* Wallets.  The lock lets one request in; each that is in besides it takes   *)
(* a key that expired early, or a death.  The first wallet is made by one of  *)
(* those inside, and who looks after it was made goes to create only through  *)
(* a failure.                                                                *)

Inside == {v \in Visitors : Working(v)}
Creating == {v \in Visitors : visitor[v].pc = "create"}
Guarded == IF \E v \in key : Working(v) THEN 1 ELSE 0

CreationInv == /\ CreationTypeOK /\ key \subseteq Visitors /\ \A u, v \in key : u = v
               /\ Cardinality(Inside) <= Guarded + overdue + failed
               /\ wallets + Cardinality(Creating) <= 1 + overdue + failed

VisitorStates == [pc : {"find", "lock", "poll", "again", "create", "unlock"}, polls : 0..MaxPolls]

LEMMA InsideFinite == /\ IsFiniteSet(Inside) /\ Cardinality(Inside) \in Nat
                      /\ IsFiniteSet(Creating) /\ Cardinality(Creating) \in Nat
                      /\ Cardinality(Creating) <= Cardinality(Inside)
<1>1. IsFiniteSet(Inside)
  BY CreationAssumption, FS_Subset DEF Inside
<1>2. Creating \subseteq Inside
  BY DEF Creating, Inside, Working
<1> QED BY <1>1, <1>2, FS_Subset, FS_CardinalityType

\* The size of a set after one element came, went or stayed.
LEMMA SizeMoves ==
    ASSUME NEW S, NEW v, IsFiniteSet(S)
    PROVE  /\ Cardinality(S) \in Nat
           /\ v \in S => /\ Cardinality(S \cup {v}) = Cardinality(S)
                         /\ Cardinality(S \ {v}) = Cardinality(S) - 1
           /\ v \notin S => /\ Cardinality(S \ {v}) = Cardinality(S)
                            /\ Cardinality(S \cup {v}) = Cardinality(S) + 1
<1>1. v \in S => S \cup {v} = S
  OBVIOUS
<1>2. v \notin S => S \ {v} = S
  OBVIOUS
<1> QED BY <1>1, <1>2, FS_AddElement, FS_RemoveElement, FS_CardinalityType

One(b) == IF b THEN 1 ELSE 0
IsInside(r) == r.pc \in {"again", "create", "unlock"}

\* One request goes on; the two sets gain it or lose it.
LEMMA VisitorMoves ==
    ASSUME visitor \in [Visitors -> VisitorStates], NEW v \in Visitors, NEW r \in VisitorStates,
           Visit(v, r)
    PROVE  /\ visitor' \in [Visitors -> VisitorStates]
           /\ Cardinality(Inside') = Cardinality(Inside) + One(IsInside(r)) - One(Working(v))
           /\ Cardinality(Creating') =
                 Cardinality(Creating) + One(r.pc = "create") - One(visitor[v].pc = "create")
           /\ \A u \in Visitors \ {v} : Working(u)' <=> Working(u)
           /\ Working(v)' <=> IsInside(r)
<1>1. /\ visitor' \in [Visitors -> VisitorStates]
      /\ visitor'[v] = r /\ \A u \in Visitors \ {v} : visitor'[u] = visitor[u]
  BY DEF Visit
<1>2. \A u \in Visitors \ {v} : Working(u)' <=> Working(u)
  BY <1>1 DEF Working
<1>3. Working(v)' <=> IsInside(r)
  BY <1>1 DEF Working, IsInside
<1>4. Inside' = IF IsInside(r) THEN Inside \cup {v} ELSE Inside \ {v}
  BY <1>2, <1>3 DEF Inside
<1>5. Creating' = IF r.pc = "create" THEN Creating \cup {v} ELSE Creating \ {v}
  BY <1>1 DEF Creating
<1>6. (v \in Inside <=> Working(v)) /\ (v \in Creating <=> visitor[v].pc = "create")
  BY DEF Inside, Creating
<1>7. Cardinality(Inside') = Cardinality(Inside) + One(IsInside(r)) - One(Working(v))
  <2>1. IsFiniteSet(Inside)
    BY InsideFinite
  <2>2. /\ Cardinality(Inside) \in Nat
        /\ v \in Inside => /\ Cardinality(Inside \cup {v}) = Cardinality(Inside)
                       /\ Cardinality(Inside \ {v}) = Cardinality(Inside) - 1
        /\ v \notin Inside => /\ Cardinality(Inside \ {v}) = Cardinality(Inside)
                          /\ Cardinality(Inside \cup {v}) = Cardinality(Inside) + 1
    BY <2>1, SizeMoves
  <2>3. IsInside(r) => Inside' = Inside \cup {v}
    BY <1>4
  <2>4. ~(IsInside(r)) => Inside' = Inside \ {v}
    BY <1>4
  <2>5. CASE IsInside(r)
    BY <1>6, <2>2, <2>3, <2>5 DEF One
  <2>6. CASE ~(IsInside(r))
    BY <1>6, <2>2, <2>4, <2>6 DEF One
  <2> QED BY <2>5, <2>6
<1>8. Cardinality(Creating') =
         Cardinality(Creating) + One(r.pc = "create") - One(visitor[v].pc = "create")
  <2>1. IsFiniteSet(Creating)
    BY InsideFinite
  <2>2. /\ Cardinality(Creating) \in Nat
        /\ v \in Creating => /\ Cardinality(Creating \cup {v}) = Cardinality(Creating)
                       /\ Cardinality(Creating \ {v}) = Cardinality(Creating) - 1
        /\ v \notin Creating => /\ Cardinality(Creating \ {v}) = Cardinality(Creating)
                          /\ Cardinality(Creating \cup {v}) = Cardinality(Creating) + 1
    BY <2>1, SizeMoves
  <2>3. r.pc = "create" => Creating' = Creating \cup {v}
    BY <1>5
  <2>4. ~(r.pc = "create") => Creating' = Creating \ {v}
    BY <1>5
  <2>5. One(r.pc = "create") = IF r.pc = "create" THEN 1 ELSE 0
    BY DEF One
  <2>6. One(visitor[v].pc = "create") = IF v \in Creating THEN 1 ELSE 0
    BY <1>6 DEF One
  <2> DEFINE m == One(r.pc = "create")
             n == One(visitor[v].pc = "create")
  <2>7. ASSUME v \in Creating PROVE Cardinality(Creating') = Cardinality(Creating) + m - n
    <3>1. n = 1
      BY <2>6, <2>7
    <3> HIDE DEF n
    <3>2. CASE r.pc = "create"
      <4>1. m = 1
        BY <2>5, <3>2
      <4>2. Cardinality(Creating') = Cardinality(Creating)
        BY <2>2, <2>3, <2>7, <3>2
      <4> HIDE DEF m
      <4> QED BY <2>2, <3>1, <4>1, <4>2
    <3>3. CASE r.pc # "create"
      <4>1. m = 0
        BY <2>5, <3>3
      <4>2. Cardinality(Creating') = Cardinality(Creating) - 1
        BY <2>2, <2>4, <2>7, <3>3
      <4> HIDE DEF m
      <4> QED BY <2>2, <3>1, <4>1, <4>2
    <3> QED BY <3>2, <3>3
  <2>8. ASSUME v \notin Creating PROVE Cardinality(Creating') = Cardinality(Creating) + m - n
    <3>1. n = 0
      BY <2>6, <2>8
    <3> HIDE DEF n
    <3>2. CASE r.pc = "create"
      <4>1. m = 1
        BY <2>5, <3>2
      <4>2. Cardinality(Creating') = Cardinality(Creating) + 1
        BY <2>2, <2>3, <2>8, <3>2
      <4> HIDE DEF m
      <4> QED BY <2>2, <3>1, <4>1, <4>2
    <3>3. CASE r.pc # "create"
      <4>1. m = 0
        BY <2>5, <3>3
      <4>2. Cardinality(Creating') = Cardinality(Creating)
        BY <2>2, <2>4, <2>8, <3>3
      <4> HIDE DEF m
      <4> QED BY <2>2, <3>1, <4>1, <4>2
    <3> QED BY <3>2, <3>3
  <2> QED BY <2>7, <2>8
<1> QED BY <1>1, <1>2, <1>3, <1>7, <1>8

LEMMA CreationStarts == CreationInit => CreationInv
<1> SUFFICES ASSUME CreationInit PROVE CreationInv
  OBVIOUS
<1>1. Inside = {} /\ Creating = {}
  BY DEF CreationInit, Inside, Creating, Working, Absent
<1>2. Cardinality({}) = 0
  BY FS_EmptySet
<1> QED BY <1>1, <1>2, CreationAssumption
        DEF CreationInit, CreationInv, CreationTypeOK, Guarded, Absent

\* Steps of one request, by where it goes, what it does with the key, and what
\* it counts.
LEMMA CreationKept ==
    ASSUME CreationInv, [CreationNext]_creationVars
    PROVE  CreationInv'
<1> USE CreationAssumption
<1>1. /\ visitor \in [Visitors -> VisitorStates] /\ wallets \in Nat
      /\ overdue \in Nat /\ failed \in Nat /\ overdue + failed <= MaxHitches
      /\ key \subseteq Visitors /\ \A u, v \in key : u = v
      /\ Cardinality(Inside) <= Guarded + overdue + failed
      /\ wallets + Cardinality(Creating) <= 1 + overdue + failed
      /\ IsFiniteSet(Inside) /\ IsFiniteSet(Creating)
      /\ Cardinality(Inside) \in Nat /\ Cardinality(Creating) \in Nat
      /\ Guarded \in {0, 1}
  BY InsideFinite DEF CreationInv, CreationTypeOK, VisitorStates, Guarded
<1>2. ASSUME visitor' \in [Visitors -> VisitorStates], wallets' \in Nat, overdue' \in Nat,
             failed' \in Nat, overdue' + failed' <= MaxHitches,
             key' \subseteq Visitors, \A u, v \in key' : u = v,
             Cardinality(Inside') <= Guarded' + overdue' + failed',
             wallets' + Cardinality(Creating') <= 1 + overdue' + failed'
      PROVE  CreationInv'
  <2>1. Cardinality(key') <= 1
    <3>1. CASE key' = {}
      BY <3>1, FS_EmptySet
    <3>2. CASE key' # {}
      <4>1. PICK v : key' = {v}
        <5>1. PICK v : v \in key'
          BY <3>2
        <5>2. \A u \in key' : u = v
          BY <1>2, <5>1
        <5> QED BY <5>1, <5>2
      <4>2. Cardinality({v}) = 1
        BY FS_Singleton
      <4> QED BY <4>1, <4>2
    <3> QED BY <3>1, <3>2
  <2> QED BY <1>2, <2>1 DEF CreationInv, CreationTypeOK, VisitorStates, Inside, Creating, Guarded,
                            Working
<1>3. CASE UNCHANGED creationVars
  <2>1. Inside' = Inside /\ Creating' = Creating /\ Guarded' = Guarded
    BY <1>3 DEF creationVars, Inside, Creating, Guarded, Working
  <2> QED BY <1>1, <1>2, <1>3, <2>1 DEF creationVars
<1>4. ASSUME NEW v \in Visitors, NEW pc \in {"find", "lock", "poll", "again", "create", "unlock"}
      PROVE  LET r == [visitor[v] EXCEPT !.pc = pc] IN r \in VisitorStates /\ r.pc = pc
  BY <1>1 DEF VisitorStates
<1>5. Absent \in VisitorStates /\ Absent.pc = "find"
  BY DEF Absent, VisitorStates
<1>6. ASSUME NEW v \in Visitors, FindWallet(v) PROVE CreationInv'
  <2> DEFINE r == [visitor[v] EXCEPT !.pc = "lock"]
  <2>1. visitor[v].pc = "find" /\ Visit(v, r) /\ UNCHANGED <<wallets, key, overdue, failed>>
    BY <1>6 DEF FindWallet, Then
  <2>2. r \in VisitorStates /\ r.pc = "lock"
    BY <1>4
  <2> HIDE DEF r
  <2>3. Guarded' = Guarded
    BY <1>1, <2>1, <2>2, VisitorMoves DEF Guarded, Working, IsInside
  <2> QED BY <1>1, <1>2, <2>1, <2>2, <2>3, VisitorMoves DEF One, IsInside, Working
<1>7. ASSUME NEW v \in Visitors, LockWallet(v) PROVE CreationInv'
  <2>1. CASE key = {}
    <3> DEFINE r == [visitor[v] EXCEPT !.pc = "again"]
    <3>1. /\ visitor[v].pc = "lock" /\ Visit(v, r) /\ key' = {v}
          /\ UNCHANGED <<wallets, overdue, failed>>
      BY <1>7, <2>1 DEF LockWallet, KeyFree, Then
    <3>2. r \in VisitorStates /\ r.pc = "again"
      BY <1>4
    <3> HIDE DEF r
    <3>3. Guarded' = 1 /\ Guarded = 0
      BY <2>1, <3>1, <3>2, VisitorMoves, <1>1 DEF Guarded, IsInside
    <3>4. One(IsInside(r)) = 1 /\ One(Working(v)) = 0
          /\ One(r.pc = "create") = 0 /\ One(visitor[v].pc = "create") = 0
      BY <3>1, <3>2 DEF One, IsInside, Working
    <3> QED BY <1>1, <1>2, <3>1, <3>2, <3>3, <3>4, VisitorMoves
  <2>2. CASE key # {}
    <3> DEFINE r == [visitor[v] EXCEPT !.pc = "poll"]
    <3>1. /\ visitor[v].pc = "lock" /\ Visit(v, r) /\ key' = key
          /\ UNCHANGED <<wallets, overdue, failed>>
      BY <1>7, <2>2 DEF LockWallet, KeyFree, Then
    <3>2. r \in VisitorStates /\ r.pc = "poll"
      BY <1>4
    <3> HIDE DEF r
    <3>3. Guarded' = Guarded
      BY <1>1, <3>1, <3>2, VisitorMoves DEF Guarded, Working, IsInside
    <3>4. One(IsInside(r)) = 0 /\ One(Working(v)) = 0
          /\ One(r.pc = "create") = 0 /\ One(visitor[v].pc = "create") = 0
      BY <3>1, <3>2 DEF One, IsInside, Working
    <3> QED BY <1>1, <1>2, <3>1, <3>2, <3>3, <3>4, VisitorMoves
  <2> QED BY <2>1, <2>2
<1>8. ASSUME NEW v \in Visitors, PollWallet(v) PROVE CreationInv'
  <2> DEFINE r == IF wallets = 0 /\ LooksAgain(v)
                  THEN [visitor[v] EXCEPT !.polls = @ + 1] ELSE Absent
  <2>1. visitor[v].pc = "poll" /\ Visit(v, r) /\ UNCHANGED <<wallets, key, overdue, failed>>
    BY <1>8 DEF PollWallet
  <2>2. r \in VisitorStates /\ r.pc \in {"poll", "find"}
    <3>1. CASE ~(wallets = 0 /\ LooksAgain(v))
      BY <1>5, <3>1
    <3>2. CASE wallets = 0 /\ LooksAgain(v)
      <4>1. visitor[v] \in VisitorStates /\ visitor[v].polls + 1 \in 0..MaxPolls
        BY <1>1, <3>2 DEF LooksAgain, VisitorStates
      <4> QED BY <2>1, <3>2, <4>1 DEF VisitorStates
    <3> QED BY <3>1, <3>2
  <2> HIDE DEF r
  <2>3. Guarded' = Guarded
    BY <1>1, <2>1, <2>2, VisitorMoves DEF Guarded, Working, IsInside
  <2>4. One(IsInside(r)) = 0 /\ One(Working(v)) = 0
        /\ One(r.pc = "create") = 0 /\ One(visitor[v].pc = "create") = 0
    BY <2>1, <2>2 DEF One, IsInside, Working
  <2> QED BY <1>1, <1>2, <2>1, <2>2, <2>3, <2>4, VisitorMoves
<1>9. ASSUME NEW v \in Visitors, visitor[v].pc \in {"again", "create"},
             NEW pc \in {"create", "unlock"}, Then(v, pc), UNCHANGED <<key, overdue>>,
             wallets' \in Nat, failed' \in Nat, overdue + failed' <= MaxHitches,
             failed' >= failed,
             wallets' + Cardinality(Creating') <= 1 + overdue + failed'
      PROVE  CreationInv'
  <2> DEFINE r == [visitor[v] EXCEPT !.pc = pc]
  <2>1. Visit(v, r)
    BY <1>9 DEF Then
  <2>2. r \in VisitorStates /\ r.pc = pc
    BY <1>4
  <2> HIDE DEF r
  <2>3. Guarded' = Guarded
    BY <1>1, <1>9, <2>1, <2>2, VisitorMoves DEF Guarded, Working, IsInside
  <2>4. One(IsInside(r)) = 1 /\ One(Working(v)) = 1
    BY <1>9, <2>1, <2>2 DEF One, IsInside, Working
  <2>5. /\ visitor' \in [Visitors -> VisitorStates]
        /\ Cardinality(Inside') = Cardinality(Inside)
    BY <1>1, <2>1, <2>2, <2>4, VisitorMoves
  <2> QED BY <1>1, <1>2, <1>9, <2>3, <2>5
<1>10. ASSUME NEW v \in Visitors, NEW pc \in {"create", "unlock"},
              visitor[v].pc \in {"again", "create"}, Then(v, pc)
       PROVE  /\ Cardinality(Creating') = Cardinality(Creating)
                    + One(pc = "create") - One(visitor[v].pc = "create")
              /\ Cardinality(Creating') <= Cardinality(Inside')
              /\ Cardinality(Inside') = Cardinality(Inside)
  <2> DEFINE r == [visitor[v] EXCEPT !.pc = pc]
  <2>1. Visit(v, r)
    BY <1>10 DEF Then
  <2>2. r \in VisitorStates /\ r.pc = pc
    BY <1>4
  <2> HIDE DEF r
  <2>3. One(IsInside(r)) = 1 /\ One(Working(v)) = 1
    BY <1>10, <2>1, <2>2 DEF One, IsInside, Working
  <2>4. /\ Cardinality(Creating') = Cardinality(Creating)
              + One(pc = "create") - One(visitor[v].pc = "create")
        /\ Cardinality(Inside') = Cardinality(Inside) + One(IsInside(r)) - One(Working(v))
        /\ visitor' \in [Visitors -> VisitorStates]
    BY <1>1, <2>1, <2>2, VisitorMoves
  <2>5. Creating' \subseteq Inside' /\ IsFiniteSet(Inside')
    <3>1. IsFiniteSet(Inside')
      BY FS_Subset DEF Inside
    <3> QED BY <3>1 DEF Creating, Inside, Working
  <2>6. Cardinality(Creating') <= Cardinality(Inside')
    BY <2>5, FS_Subset
  <2> QED BY <1>1, <2>3, <2>4, <2>6
<1>11. ASSUME NEW v \in Visitors, FindAgain(v) PROVE CreationInv'
  <2>1. PICK pc \in {"create", "unlock"} : Then(v, pc)
    BY <1>11 DEF FindAgain
  <2>2. /\ visitor[v].pc = "again" /\ UNCHANGED <<wallets, key, overdue>>
        /\ failed' \in {failed, failed + 1} /\ overdue + failed' <= MaxHitches
        /\ wallets > 0 /\ failed' = failed => Then(v, "unlock")
    BY <1>1, <1>11 DEF FindAgain, Mishap
  <2>3. Cardinality(Creating') <= Cardinality(Inside)
    BY <1>10, <2>1, <2>2
  <2>4. CASE failed' = failed + 1
    <3>1. Cardinality(Creating') <= Cardinality(Creating) + 1
      BY <1>1, <1>10, <2>1, <2>2 DEF One
    <3>2. Cardinality(Creating') \in Nat
      BY <1>1, <1>10, <2>1, <2>2 DEF One
    <3>3. wallets' + Cardinality(Creating') <= 1 + overdue + failed'
      BY <1>1, <2>2, <2>4, <3>1, <3>2
    <3>4. wallets' \in Nat /\ failed' \in Nat /\ failed' >= failed
      BY <1>1, <2>2, <2>4
    <3> QED BY <1>9, <2>1, <2>2, <3>3, <3>4
  <2>5. CASE failed' = failed /\ wallets = 0
    <3>1. Cardinality(Creating') \in Nat
      BY <1>1, <1>10, <2>1, <2>2 DEF One
    <3>2. wallets' + Cardinality(Creating') <= 1 + overdue + failed'
      BY <1>1, <2>2, <2>3, <2>5, <3>1
    <3> QED BY <1>1, <1>9, <2>1, <2>2, <2>5, <3>2
  <2>6. CASE failed' = failed /\ wallets > 0
    <3>1. Then(v, "unlock")
      BY <2>2, <2>6
    <3>2. Cardinality(Creating') = Cardinality(Creating)
      BY <1>1, <1>10, <2>2, <3>1 DEF One
    <3>3. wallets' + Cardinality(Creating') <= 1 + overdue + failed'
      BY <1>1, <2>2, <2>6, <3>2
    <3> QED BY <1>1, <1>9, <2>2, <2>6, <3>1, <3>3
  <2> QED BY <1>1, <2>2, <2>4, <2>5, <2>6
<1>12. ASSUME NEW v \in Visitors, CreateWallet(v) PROVE CreationInv'
  <2>1. /\ visitor[v].pc = "create" /\ Then(v, "unlock") /\ UNCHANGED <<key, overdue>>
        /\ wallets' \in Nat /\ wallets' <= wallets + 1
        /\ failed' \in {failed, failed + 1} /\ overdue + failed' <= MaxHitches
    BY <1>1, <1>12 DEF CreateWallet, Mishap
  <2>2. Cardinality(Creating') = Cardinality(Creating) - 1
    BY <1>1, <1>10, <2>1 DEF One
  <2>3. wallets' + Cardinality(Creating') <= 1 + overdue + failed'
    BY <1>1, <2>1, <2>2
  <2>4. failed' \in Nat /\ failed' >= failed
    BY <1>1, <2>1
  <2> QED BY <1>9, <2>1, <2>3, <2>4
<1>13. ASSUME NEW v \in Visitors, Visit(v, Absent)
       PROVE  /\ visitor' \in [Visitors -> VisitorStates]
              /\ Cardinality(Inside') = Cardinality(Inside) - One(Working(v))
              /\ Cardinality(Creating') = Cardinality(Creating) - One(visitor[v].pc = "create")
              /\ \A u \in Visitors \ {v} : Working(u)' <=> Working(u)
  <2>1. One(IsInside(Absent)) = 0 /\ One(Absent.pc = "create") = 0
    BY <1>5 DEF One, IsInside
  <2>2. One(Working(v)) \in {0, 1} /\ One(visitor[v].pc = "create") \in {0, 1}
    BY DEF One
  <2>3. /\ Cardinality(Inside') = Cardinality(Inside) + One(IsInside(Absent)) - One(Working(v))
        /\ Cardinality(Creating') = Cardinality(Creating)
              + One(Absent.pc = "create") - One(visitor[v].pc = "create")
        /\ visitor' \in [Visitors -> VisitorStates]
        /\ \A u \in Visitors \ {v} : Working(u)' <=> Working(u)
    BY <1>1, <1>5, <1>13, VisitorMoves
  <2> QED BY <1>1, <2>1, <2>2, <2>3
<1>14. ASSUME NEW v \in Visitors, UnlockWallet(v) PROVE CreationInv'
  <2>1. /\ visitor[v].pc = "unlock" /\ key' = {} /\ Visit(v, Absent)
        /\ UNCHANGED <<wallets, overdue, failed>>
    BY <1>14 DEF UnlockWallet
  <2>2. One(Working(v)) = 1 /\ One(visitor[v].pc = "create") = 0
    BY <2>1 DEF One, Working
  <2>3. Guarded' = 0
    BY <2>1 DEF Guarded
  <2> QED BY <1>1, <1>2, <1>13, <2>1, <2>2, <2>3
<1>15. ASSUME NEW v \in Visitors, VisitorDies(v) PROVE CreationInv'
  <2>1. /\ Working(v) /\ Visit(v, Absent) /\ UNCHANGED <<wallets, key, overdue>>
        /\ failed' = failed + 1 /\ overdue + failed' <= MaxHitches
    BY <1>1, <1>15 DEF VisitorDies, Mishap
  <2>2. One(Working(v)) = 1 /\ One(visitor[v].pc = "create") \in {0, 1}
    BY <2>1 DEF One
  <2>3. Guarded' \in {0, 1}
    BY DEF Guarded
  <2>4. Cardinality(Inside') <= Guarded' + overdue' + failed'
    <3>1. Cardinality(Inside') = Cardinality(Inside) - 1
      BY <1>13, <2>1, <2>2
    <3>2. Cardinality(Inside) <= 1 + overdue + failed
      BY <1>1
    <3>3. overdue' = overdue /\ failed' = failed + 1
      BY <2>1
    <3> HIDE DEF Guarded
    <3> QED BY <1>1, <2>3, <3>1, <3>2, <3>3
  <2>5. wallets' + Cardinality(Creating') <= 1 + overdue' + failed'
    BY <1>1, <1>13, <2>1, <2>2
  <2> QED BY <1>1, <1>2, <1>13, <2>1, <2>4, <2>5
<1>16. ASSUME KeyExpires PROVE CreationInv'
  <2>1. /\ key' = {} /\ UNCHANGED <<wallets, failed, visitor>>
        /\ overdue' \in Nat /\ overdue' + failed <= MaxHitches
        /\ overdue' = overdue + Guarded
    BY <1>1, <1>16 DEF KeyExpires, Guarded
  <2>2. Guarded' = 0
    BY <2>1 DEF Guarded
  <2>3. Inside' = Inside /\ Creating' = Creating
    BY <2>1 DEF Inside, Creating, Working
  <2> QED BY <1>1, <1>2, <2>1, <2>2, <2>3
<1> QED BY <1>3, <1>6, <1>7, <1>8, <1>11, <1>12, <1>14, <1>15, <1>16 DEF CreationNext

\* Each wallet of a member besides the first is answered by a lock that
\* expired under its holder, or by a failure: GetOrCreateWallet of wallet.go.
THEOREM WalletsExplainedAlways == CreationSpec => []WalletsExplained
<1>1. CreationInv => WalletsExplained
  <2> SUFFICES ASSUME CreationInv PROVE WalletsExplained
    OBVIOUS
  <2>1. Cardinality(Creating) \in Nat
    BY InsideFinite
  <2> QED BY <2>1 DEF CreationInv, CreationTypeOK, WalletsExplained, ExtraWalletsExplained
<1> QED BY <1>1, CreationStarts, CreationKept, PTL DEF CreationSpec
-----------------------------------------------------------------------------
(* Sign-ins.  Records are dated in the order of their ids, so that the last   *)
(* one committed has the latest date; who has its points and not yet its      *)
(* experience keeps the experience behind the points.                         *)

SignRows == [status : {"none", "open", "done", "rolledBack"}, date : 0..LastDate, day : 0..ConfigDays]
SignerStates == [pc : {"idle", "insert", "points", "experience", "write", "commit"},
                 day : 0..ConfigDays, read : 0..LastDate, saw : SUBSET SignIds,
                 blind : BOOLEAN, id : 0..MaxSignIns, exp : Nat]

DatesGrow ==
    /\ \A n \in SignIds : sign[n].date <= today
    /\ \A m, n \in SignIds : m < n /\ sign[n].status # "none" =>
          sign[m].status # "none" /\ sign[m].date <= sign[n].date
    /\ Committed # {} => \E n \in Committed : \A m \in Committed : m <= n

AtSigner ==
    /\ \A p \in Signers : signer[p].pc = "idle" => signer[p].id = 0
    /\ \A p \in Signers : signer[p].id # 0 =>
          signer[p].pc # "insert" /\ sign[signer[p].id].status = "open"
    /\ \A p \in Signers : signer[p].pc \notin {"idle", "insert"} => signer[p].id # 0
    /\ \A p, q \in Signers : signer[p].id = signer[q].id /\ signer[p].id # 0 => p = q
    /\ \A p \in Signers : signer[p].pc # "idle" => signer[p].read <= today
    /\ \A p \in Signers : \A n \in signer[p].saw :
          sign[n].status = "done" /\ (~signer[p].blind => sign[n].date < signer[p].read)

Unwritten == {p \in Signers : signer[p].pc \in {"experience", "write"}}

ExperienceBehind ==
    /\ experience + Cardinality(Unwritten) <= points
    /\ \A p \in Signers : signer[p].pc = "write" => signer[p].exp + Cardinality(Unwritten) <= points
    /\ \A p \in Signers : signer[p].pc = "commit" => experience >= 1

SignInInv == SignInExplained /\ DatesGrow /\ AtSigner /\ ExperienceBehind

LEMMA SignSets == /\ IsFiniteSet(Committed) /\ IsFiniteSet(Rewarded) /\ IsFiniteSet(Unwritten)
                  /\ Cardinality(Committed) \in Nat /\ Cardinality(Rewarded) \in Nat
                  /\ Cardinality(Unwritten) \in Nat
<1>1. IsFiniteSet(SignIds)
  BY SignInAssumption, FS_Interval DEF SignIds
<1>2. IsFiniteSet(Committed)
  BY <1>1, FS_Subset DEF Committed
<1>3. IsFiniteSet(Rewarded) /\ IsFiniteSet(Unwritten)
  BY SignInAssumption, FS_Subset DEF Rewarded, Unwritten
<1> QED BY <1>2, <1>3, FS_CardinalityType

LEMMA SignInStarts == SignInInit => SignInInv
<1> SUFFICES ASSUME SignInInit PROVE SignInInv
  OBVIOUS
<1>1. Committed = {} /\ Rewarded = {} /\ Unwritten = {}
  BY DEF SignInInit, Committed, Rewarded, Unwritten, NoSignIn, Asleep
<1>2. Cardinality({}) = 0
  BY FS_EmptySet
<1>3. SignInTypeOK
  BY SignInAssumption DEF SignInInit, SignInTypeOK, NoSignIn, Asleep
<1>4. SecondIsBlind /\ StreakIsBacked
  BY SignInAssumption DEF SignInInit, SecondIsBlind, StreakIsBacked, Asleep
<1>5. RewardsExplained /\ ExperienceFollowsPoints /\ ExperienceBehind
  BY <1>1, <1>2 DEF SignInInit, RewardsExplained, ExperienceFollowsPoints, ExperienceBehind, Asleep
<1>6. DatesGrow
  BY <1>1, SignInAssumption DEF SignInInit, DatesGrow, NoSignIn
<1>7. AtSigner
  BY SignInAssumption DEF SignInInit, AtSigner, Asleep
<1> QED BY <1>3, <1>4, <1>5, <1>6, <1>7 DEF SignInInv, SignInExplained

\* The parts that speak of one row and one request each.
SignFacts == SignInTypeOK /\ SecondIsBlind /\ StreakIsBacked /\ DatesGrow /\ AtSigner

\* A request goes on, and keeps what it knows of its record and of those it saw.
LEMMA SignerGoesOn ==
    ASSUME SignFacts, NEW p \in Signers, NEW l \in SignerStates,
           signer[p].pc \notin {"idle", "insert"}, l.pc \notin {"idle", "insert"},
           l.id = signer[p].id, l.day = signer[p].day, l.read = signer[p].read,
           l.saw = signer[p].saw, l.blind = signer[p].blind,
           signer' = [signer EXCEPT ![p] = l], UNCHANGED <<today, sign, signInFaults, failedLooks>>,
           points' \in Nat, experience' \in Nat
    PROVE  SignFacts'
<1>1. /\ signer \in [Signers -> SignerStates] /\ signer' \in [Signers -> SignerStates]
      /\ signer'[p] = l /\ \A q \in Signers \ {p} : signer'[q] = signer[q]
  BY DEF SignFacts, SignInTypeOK, SignerStates
<1>2. \A q \in Signers : /\ signer'[q].id = signer[q].id /\ signer'[q].day = signer[q].day
                         /\ signer'[q].read = signer[q].read /\ signer'[q].saw = signer[q].saw
                         /\ signer'[q].blind = signer[q].blind
                         /\ signer'[q].pc = "idle" <=> signer[q].pc = "idle"
                         /\ signer'[q].pc = "insert" <=> signer[q].pc = "insert"
  BY <1>1
<1>3. SignInTypeOK'
  BY <1>1 DEF SignFacts, SignInTypeOK, SignerStates
<1>4. SecondIsBlind' /\ StreakIsBacked'
  BY <1>2 DEF SignFacts, SecondIsBlind, StreakIsBacked
<1>5. DatesGrow'
  BY DEF SignFacts, DatesGrow, Committed
<1>6. AtSigner'
  BY <1>2 DEF SignFacts, AtSigner
<1> QED BY <1>3, <1>4, <1>5, <1>6 DEF SignFacts

\* A request ends, and its record, if it has one, with it.
LEMMA SignerEnds ==
    ASSUME SignFacts, NEW p \in Signers, NEW s \in {"done", "rolledBack"}, Ended(p, s),
           s = "done" => signer[p].id # 0,
           signInFaults' \in 0..MaxSignInFaults, UNCHANGED <<today, points, experience, failedLooks>>
    PROVE  /\ SignFacts'
           /\ s = "done" => Committed' = Committed \cup {signer[p].id} /\ signer[p].id \notin Committed
           /\ s = "rolledBack" => Committed' = Committed
<1>1. /\ signer \in [Signers -> SignerStates] /\ Asleep \in SignerStates
      /\ signer'[p] = Asleep /\ \A q \in Signers \ {p} : signer'[q] = signer[q]
      /\ signer' \in [Signers -> SignerStates]
  BY SignInAssumption DEF SignFacts, SignInTypeOK, SignerStates, Ended, Wake, Asleep
<1>2. /\ sign \in [SignIds -> SignRows] /\ sign' \in [SignIds -> SignRows]
      /\ \A n \in SignIds : /\ sign'[n].date = sign[n].date /\ sign'[n].day = sign[n].day
                            /\ sign'[n].status = IF n = signer[p].id THEN s ELSE sign[n].status
  <2>1. sign \in [SignIds -> SignRows]
    BY DEF SignFacts, SignInTypeOK, SignRows
  <2>2. ASSUME NEW n \in SignIds
        PROVE  LET r == [sign[n] EXCEPT !.status = s] IN
               r \in SignRows /\ r.date = sign[n].date /\ r.day = sign[n].day /\ r.status = s
    BY <2>1 DEF SignRows
  <2>3. sign' = [n \in SignIds |-> IF n = signer[p].id THEN [sign[n] EXCEPT !.status = s] ELSE sign[n]]
    BY DEF Ended
  <2> QED BY <2>1, <2>2, <2>3
<1>3. \A n \in SignIds : sign[n].status = "done" => sign'[n].status = "done"
  BY <1>2 DEF SignFacts, AtSigner, SignIds
<1>4. \A q \in Signers \ {p} : signer[q].id # 0 => signer[q].id # signer[p].id
  BY DEF SignFacts, AtSigner
<1>5. \A q \in Signers : signer[q].id \in 0..MaxSignIns /\ signer[q].saw \subseteq SignIds
  BY <1>1 DEF SignerStates
<1>6. SignInTypeOK'
  BY <1>1, <1>2 DEF SignFacts, SignInTypeOK, SignerStates, SignRows
<1>7. SecondIsBlind' /\ StreakIsBacked'
  <2>1. Asleep.id = 0 /\ Asleep.day = 0 /\ Asleep.saw = {}
    BY DEF Asleep
  <2>2. \A q \in Signers : signer[q].id # 0 => signer[q].id \in SignIds
    BY <1>5, SignInAssumption DEF SignIds
  <2>3. ASSUME NEW q \in Signers, signer'[q].id # 0, ~signer'[q].blind, NEW n \in signer'[q].saw
        PROVE  sign'[n].date # sign'[signer'[q].id].date
    <3>1. q # p /\ signer'[q] = signer[q]
      BY <1>1, <2>1, <2>3
    <3>2. n \in SignIds /\ signer[q].id \in SignIds /\ signer[q].id # 0
      BY <1>5, <2>2, <2>3, <3>1
    <3> QED BY <1>2, <2>3, <3>1, <3>2 DEF SignFacts, SecondIsBlind
  <2>4. ASSUME NEW q \in Signers, signer'[q].day > 1
        PROVE  \E n \in signer'[q].saw : /\ sign'[n].date = signer'[q].read - 1
                                         /\ sign'[n].day = signer'[q].day - 1
    <3>1. q # p /\ signer'[q] = signer[q]
      BY <1>1, <2>1, <2>4
    <3>2. PICK n \in signer[q].saw : /\ sign[n].date = signer[q].read - 1
                                     /\ sign[n].day = signer[q].day - 1
      BY <2>4, <3>1 DEF SignFacts, StreakIsBacked
    <3> QED BY <1>2, <1>5, <3>1, <3>2
  <2>5. ASSUME NEW q \in Signers, signer'[q].id # 0
        PROVE  /\ sign'[signer'[q].id].day = signer'[q].day
               /\ sign'[signer'[q].id].date >= signer'[q].read
    <3>1. q # p /\ signer'[q] = signer[q]
      BY <1>1, <2>1, <2>5
    <3> QED BY <1>2, <2>2, <2>5, <3>1 DEF SignFacts, StreakIsBacked
  <2>6. ASSUME NEW q \in Signers, ~signer'[q].blind, NEW n \in signer'[q].saw,
               \A m \in signer'[q].saw : m <= n,
               sign'[n].date = signer'[q].read - 1, sign'[n].day < ConfigDays
        PROVE  signer'[q].day = sign'[n].day + 1
    <3>1. q # p /\ signer'[q] = signer[q]
      BY <1>1, <2>1, <2>6
    <3>2. sign'[n].date = sign[n].date /\ sign'[n].day = sign[n].day
      BY <1>2, <1>5, <2>6, <3>1
    <3> QED BY <2>6, <3>1, <3>2 DEF SignFacts, StreakIsBacked
  <2> QED BY <2>3, <2>4, <2>5, <2>6 DEF SecondIsBlind, StreakIsBacked
<1>8. AtSigner'
  <2>1. /\ Asleep.pc = "idle" /\ Asleep.id = 0 /\ Asleep.saw = {}
        /\ \A q \in Signers : q = p \/ signer'[q] = signer[q]
    BY <1>1 DEF Asleep
  <2>2. \A q \in Signers : signer'[q].pc = "idle" => signer'[q].id = 0
    BY <1>1, <2>1 DEF SignFacts, AtSigner
  <2>3. ASSUME NEW q \in Signers, signer'[q].id # 0
        PROVE  signer'[q].pc # "insert" /\ sign'[signer'[q].id].status = "open"
    <3>1. q # p /\ signer'[q] = signer[q]
      BY <1>1, <2>1, <2>3
    <3>2. signer[q].pc # "insert" /\ sign[signer[q].id].status = "open" /\ signer[q].id # signer[p].id
      BY <1>4, <2>3, <3>1 DEF SignFacts, AtSigner
    <3>3. signer[q].id \in SignIds
      BY <1>5, <2>3, <3>1, SignInAssumption DEF SignIds
    <3> QED BY <1>2, <3>1, <3>2, <3>3
  <2>4. \A q \in Signers : signer'[q].pc \notin {"idle", "insert"} => signer'[q].id # 0
    BY <1>1, <2>1 DEF SignFacts, AtSigner
  <2>5. \A q, o \in Signers : signer'[q].id = signer'[o].id /\ signer'[q].id # 0 => q = o
    BY <1>1, <2>1 DEF SignFacts, AtSigner
  <2>6. \A q \in Signers : signer'[q].pc # "idle" => signer'[q].read <= today'
    BY <1>1, <2>1 DEF SignFacts, AtSigner
  <2>7. ASSUME NEW q \in Signers, NEW n \in signer'[q].saw
        PROVE  sign'[n].status = "done" /\ (~signer'[q].blind => sign'[n].date < signer'[q].read)
    <3>1. q # p /\ signer'[q] = signer[q]
      BY <1>1, <2>1, <2>7
    <3>2. n \in SignIds /\ sign[n].status = "done" /\ (~signer[q].blind => sign[n].date < signer[q].read)
      BY <1>5, <2>7, <3>1 DEF SignFacts, AtSigner
    <3> QED BY <1>2, <1>3, <3>1, <3>2
  <2> QED BY <2>2, <2>3, <2>4, <2>5, <2>6, <2>7 DEF AtSigner
<1>9. /\ s = "done" => Committed' = Committed \cup {signer[p].id} /\ signer[p].id \notin Committed
      /\ s = "rolledBack" => Committed' = Committed
  BY <1>2, <1>3, <1>5 DEF SignFacts, AtSigner, Committed, SignIds
<1>10. DatesGrow'
  <2>1. \A n \in SignIds : sign'[n].date <= today'
    BY <1>2 DEF SignFacts, DatesGrow
  <2>2. \A m, n \in SignIds : m < n /\ sign'[n].status # "none" =>
           sign'[m].status # "none" /\ sign'[m].date <= sign'[n].date
    <3>1. \A n \in SignIds : sign'[n].status # "none" <=> sign[n].status # "none"
      BY <1>2 DEF SignFacts, AtSigner, SignIds
    <3> QED BY <1>2, <3>1 DEF SignFacts, DatesGrow
  <2>3. Committed' # {} => \E n \in Committed' : \A m \in Committed' : m <= n
    <3>1. Committed \subseteq SignIds /\ SignIds \subseteq Int
      BY DEF Committed, SignIds
    <3>2. CASE Committed' = Committed
      BY <3>2 DEF SignFacts, DatesGrow
    <3>3. CASE s = "done" /\ Committed = {}
      BY <1>5, <1>9, <3>3
    <3>4. CASE s = "done" /\ Committed # {}
      <4>1. PICK n \in Committed : \A m \in Committed : m <= n
        BY <3>4 DEF SignFacts, DatesGrow
      <4>2. CASE signer[p].id <= n
        BY <1>9, <3>4, <4>1, <4>2
      <4>3. CASE ~(signer[p].id <= n)
        <5>1. signer[p].id \in Int /\ n \in Int /\ \A m \in Committed : m \in Int
          BY <1>5, <3>1, <4>1, SignInAssumption
        <5>2. Committed' = Committed \cup {signer[p].id}
          BY <1>9, <3>4
        <5>3. \A m \in Committed' : m <= signer[p].id
          BY <4>1, <4>3, <5>1, <5>2
        <5> QED BY <5>2, <5>3
      <4> QED BY <4>2, <4>3
    <3> QED BY <1>9, <3>2, <3>3, <3>4
  <2> QED BY <2>1, <2>2, <2>3 DEF DatesGrow
<1> QED BY <1>6, <1>7, <1>8, <1>9, <1>10 DEF SignFacts

LEMMA SignInKept ==
    ASSUME SignInInv, [SignInNext]_signInVars
    PROVE  SignInInv'
<1>1. SignFacts /\ RewardsExplained /\ ExperienceFollowsPoints /\ ExperienceBehind
  BY DEF SignInInv, SignInExplained, SignFacts
<1>2. SUFFICES SignFacts' /\ RewardsExplained' /\ ExperienceFollowsPoints' /\ ExperienceBehind'
  BY DEF SignInInv, SignInExplained, SignFacts
<1>3. /\ today \in 1..LastDate /\ sign \in [SignIds -> SignRows]
      /\ points \in Nat /\ experience \in Nat /\ signInFaults \in 0..MaxSignInFaults
      /\ failedLooks \in 0..MaxSignInFaults
      /\ signer \in [Signers -> SignerStates]
  BY <1>1 DEF SignFacts, SignInTypeOK, SignRows, SignerStates
<1>4. /\ Cardinality(Committed) \in Nat /\ Cardinality(Rewarded) \in Nat
      /\ Cardinality(Unwritten) \in Nat
      /\ IsFiniteSet(Committed) /\ IsFiniteSet(Rewarded) /\ IsFiniteSet(Unwritten)
  BY SignSets
<1>5. CASE UNCHANGED signInVars
  BY <1>1, <1>5
     DEF signInVars, SignFacts, SignInTypeOK, SecondIsBlind, StreakIsBacked, DatesGrow, AtSigner,
         Committed, Rewarded, Unwritten, RewardsExplained, ExperienceFollowsPoints, ExperienceBehind
<1>6. CASE Midnight
  <2>1. /\ today' = today + 1 /\ today' \in 1..LastDate
        /\ UNCHANGED <<sign, points, experience, signInFaults, failedLooks, signer>>
    BY <1>3, <1>6, SignInAssumption DEF Midnight
  <2>2. Committed' = Committed /\ Rewarded' = Rewarded /\ Unwritten' = Unwritten
    BY <2>1 DEF Committed, Rewarded, Unwritten
  <2>3. SignInTypeOK' /\ SecondIsBlind' /\ StreakIsBacked'
    BY <1>1, <2>1 DEF SignFacts, SignInTypeOK, SecondIsBlind, StreakIsBacked
  <2>4. DatesGrow'
    BY <1>1, <1>3, <2>1, <2>2 DEF SignFacts, DatesGrow, SignRows
  <2>5. AtSigner'
    BY <1>1, <1>3, <2>1 DEF SignFacts, AtSigner, SignerStates
  <2>6. RewardsExplained' /\ ExperienceFollowsPoints' /\ ExperienceBehind'
    BY <1>1, <2>1, <2>2 DEF RewardsExplained, ExperienceFollowsPoints, ExperienceBehind
  <2> QED BY <2>3, <2>4, <2>5, <2>6 DEF SignFacts
<1>7. ASSUME NEW p \in Signers, CheckSignedIn(p) \/ LookFails(p)
      PROVE  SignFacts' /\ RewardsExplained' /\ ExperienceFollowsPoints' /\ ExperienceBehind'
  <2>16. PICK blind \in BOOLEAN :
           /\ signer[p].pc = "idle" /\ Looks(p, IF blind THEN 1 ELSE NextDay, blind)
           /\ ~blind => LastRecord.date # today
    <3>1. CASE CheckSignedIn(p)
      <4>1. /\ signer[p].pc = "idle" /\ Looks(p, IF FALSE THEN 1 ELSE NextDay, FALSE)
            /\ LastRecord.date # today
        BY <3>1 DEF CheckSignedIn, NotSignedToday
      <4> QED BY <4>1
    <3>2. CASE LookFails(p)
      <4>1. signer[p].pc = "idle" /\ Looks(p, IF TRUE THEN 1 ELSE NextDay, TRUE)
        BY <3>2 DEF LookFails
      <4> QED BY <4>1
    <3> QED BY <1>7, <3>1, <3>2
  <2> DEFINE day == IF blind THEN 1 ELSE NextDay
             l == [Asleep EXCEPT !.pc = "insert", !.day = day, !.read = today, !.saw = Committed,
                                 !.blind = blind]
  <2>1. /\ signer[p].pc = "idle"
        /\ signer' = [signer EXCEPT ![p] = l]
        /\ UNCHANGED <<today, sign, points, experience, signInFaults>>
        /\ failedLooks' \in 0..MaxSignInFaults
    <3>1. UNCHANGED <<today, sign, points, experience, signInFaults>>
      BY <1>7 DEF CheckSignedIn, LookFails
    <3>2. failedLooks' \in 0..MaxSignInFaults
      <4>1. CASE CheckSignedIn(p)
        BY <1>3, <4>1 DEF CheckSignedIn
      <4>2. CASE LookFails(p)
        BY <1>3, <4>2, SignInAssumption DEF LookFails
      <4> QED BY <1>7, <4>1, <4>2
    <3> QED BY <2>16, <3>1, <3>2 DEF Looks, Wake
  <2>2. /\ l.pc = "insert" /\ l.day = day /\ l.read = today /\ l.saw = Committed /\ l.id = 0
        /\ l.exp = 0 /\ l.blind = blind
    BY DEF Asleep
  <2>3. Committed # {} => /\ LastRecord \in {sign[n] : n \in Committed}
                          /\ \A m \in Committed : sign[m].date <= LastRecord.date
    <3>1. SUFFICES ASSUME Committed # {}
                   PROVE  /\ LastRecord \in {sign[n] : n \in Committed}
                          /\ \A m \in Committed : sign[m].date <= LastRecord.date
      OBVIOUS
    <3>2. PICK n \in Committed : n = CHOOSE k \in Committed : \A m \in Committed : m <= k
      BY <1>1, <3>1 DEF SignFacts, DatesGrow
    <3>3. \A m \in Committed : m <= n
      BY <1>1, <3>1, <3>2 DEF SignFacts, DatesGrow
    <3>4. LastRecord = sign[n]
      BY <3>1, <3>2 DEF LastRecord
    <3>5. Committed \subseteq SignIds /\ SignIds \subseteq Int
      BY DEF Committed, SignIds
    <3>6. \A m \in Committed : sign[m].date <= sign[n].date
      <4>1. SUFFICES ASSUME NEW m \in Committed PROVE sign[m].date <= sign[n].date
        OBVIOUS
      <4>2. CASE m = n
        BY <1>3, <3>5, <4>2 DEF SignRows
      <4>3. CASE m # n
        <5>1. m < n /\ sign[n].status # "none"
          <6>1. m \in Int /\ n \in Int /\ m <= n /\ m # n
            BY <3>2, <3>3, <3>5, <4>3
          <6>2. sign[n].status = "done"
            BY <3>2 DEF Committed
          <6> QED BY <6>1, <6>2
        <5> QED BY <1>1, <3>5, <5>1 DEF SignFacts, DatesGrow
      <4> QED BY <4>2, <4>3
    <3> QED BY <3>4, <3>6
  <2>4. ~blind => \A n \in Committed : sign[n].date < today
    <3>1. SUFFICES ASSUME ~blind, NEW n \in Committed PROVE sign[n].date < today
      OBVIOUS
    <3>2. PICK k \in Committed : LastRecord = sign[k]
      BY <2>3
    <3>3. k \in SignIds /\ n \in SignIds
      BY DEF Committed
    <3>4. sign[k].date <= today /\ sign[n].date <= sign[k].date
      BY <1>1, <2>3, <3>2, <3>3 DEF SignFacts, DatesGrow
    <3> QED BY <1>3, <2>16, <3>1, <3>2, <3>3, <3>4 DEF SignRows
  <2>5. /\ NextDay \in 0..ConfigDays
        /\ NextDay > 1 => \E n \in Committed : sign[n].date = today - 1 /\ sign[n].day = NextDay - 1
    <3>1. CASE Committed # {} /\ LastRecord.date = today - 1 /\ LastRecord.day < ConfigDays
      <4>1. PICK n \in Committed : LastRecord = sign[n]
        BY <2>3, <3>1
      <4>2. sign[n].day \in 0..ConfigDays
        BY <1>3 DEF Committed, SignRows
      <4>3. NextDay = sign[n].day + 1 /\ sign[n].date = today - 1 /\ sign[n].day < ConfigDays
        BY <3>1, <4>1 DEF NextDay
      <4> QED BY <4>2, <4>3, SignInAssumption
    <3>2. CASE ~(Committed # {} /\ LastRecord.date = today - 1 /\ LastRecord.day < ConfigDays)
      BY <3>2, SignInAssumption DEF NextDay
    <3> QED BY <3>1, <3>2
  <2>17. ASSUME ~blind, NEW n \in Committed, \A m \in Committed : m <= n,
                sign[n].date = today - 1, sign[n].day < ConfigDays
         PROVE  day = sign[n].day + 1
    <3>1. PICK k \in Committed : k = CHOOSE i \in Committed : \A m \in Committed : m <= i
      BY <1>1, <2>17 DEF SignFacts, DatesGrow
    <3>2. n \in Int /\ k \in Int /\ k <= n /\ n <= k
      BY <2>17, <3>1 DEF Committed, SignIds
    <3>3. LastRecord = sign[n]
      BY <2>17, <3>1, <3>2 DEF LastRecord
    <3> QED BY <2>16, <2>17, <3>3 DEF NextDay
  <2>18. /\ day \in 0..ConfigDays
         /\ day > 1 => \E n \in Committed : sign[n].date = today - 1 /\ sign[n].day = day - 1
    BY <2>5, <2>16, SignInAssumption
  <2>6. l \in SignerStates
    <3>1. Committed \subseteq SignIds /\ today \in 0..LastDate /\ 0 \in 0..MaxSignIns /\ 0 \in Nat
      BY <1>3, SignInAssumption DEF Committed
    <3> QED BY <2>18, <3>1 DEF Asleep, SignerStates
  <2> HIDE DEF l
  <2>7. /\ signer' \in [Signers -> SignerStates] /\ signer'[p] = l
        /\ \A q \in Signers \ {p} : signer'[q] = signer[q]
    BY <1>3, <2>1, <2>6
  <2>8. Committed' = Committed /\ Committed \subseteq SignIds
    BY <2>1 DEF Committed
  <2>9. Rewarded' = Rewarded /\ Unwritten' = Unwritten
    BY <2>1, <2>2, <2>7 DEF Rewarded, Unwritten
  <2>10. SignInTypeOK'
    BY <1>1, <2>1, <2>7 DEF SignFacts, SignInTypeOK, SignerStates
  <2>11. SecondIsBlind'
    BY <1>1, <2>1, <2>2, <2>7 DEF SignFacts, SecondIsBlind
  <2>12. StreakIsBacked'
    BY <1>1, <2>1, <2>2, <2>7, <2>17, <2>18 DEF SignFacts, StreakIsBacked
  <2>13. DatesGrow'
    BY <1>1, <2>1, <2>8 DEF SignFacts, DatesGrow
  <2>14. AtSigner'
    <3>1. \A n \in l.saw : sign[n].status = "done" /\ (~l.blind => sign[n].date < l.read)
      BY <2>2, <2>4 DEF Committed
    <3>2. today <= today
      BY <1>3
    <3> QED BY <1>1, <2>1, <2>2, <2>7, <3>1, <3>2 DEF SignFacts, AtSigner
  <2>15. RewardsExplained' /\ ExperienceFollowsPoints' /\ ExperienceBehind'
    BY <1>1, <2>1, <2>2, <2>7, <2>8, <2>9
       DEF RewardsExplained, ExperienceFollowsPoints, ExperienceBehind
  <2> QED BY <2>10, <2>11, <2>12, <2>13, <2>14, <2>15 DEF SignFacts
<1>8. ASSUME NEW p \in Signers, NEW n \in SignIds, InsertSignIn(p, n)
      PROVE  SignFacts' /\ RewardsExplained' /\ ExperienceFollowsPoints' /\ ExperienceBehind'
  <2> DEFINE row == [status |-> "open", date |-> today, day |-> signer[p].day]
             l == [signer[p] EXCEPT !.pc = "points", !.id = n]
  <2>1. /\ signer[p].pc = "insert" /\ sign[n].status = "none"
        /\ \A m \in 1..(n - 1) : sign[m].status # "none"
        /\ sign' = [sign EXCEPT ![n] = row] /\ signer' = [signer EXCEPT ![p] = l]
        /\ UNCHANGED <<today, points, experience, signInFaults, failedLooks>>
    BY <1>8 DEF InsertSignIn, Wake
  <2>2. signer[p] \in SignerStates
    BY <1>3
  <2>3. /\ l \in SignerStates /\ l.pc = "points" /\ l.id = n /\ l.day = signer[p].day
        /\ l.read = signer[p].read /\ l.saw = signer[p].saw /\ l.exp = signer[p].exp
        /\ l.blind = signer[p].blind
    <3>1. n \in 0..MaxSignIns
      BY SignInAssumption DEF SignIds
    <3> QED BY <2>2, <3>1 DEF SignerStates
  <2>4. row \in SignRows /\ row.status = "open" /\ row.date = today /\ row.day = signer[p].day
    BY <1>3, <2>2 DEF SignRows, SignerStates
  <2> HIDE DEF l, row
  <2>5. /\ signer' \in [Signers -> SignerStates] /\ signer'[p] = l
        /\ \A q \in Signers \ {p} : signer'[q] = signer[q]
        /\ sign' \in [SignIds -> SignRows] /\ sign'[n] = row
        /\ \A m \in SignIds \ {n} : sign'[m] = sign[m]
    BY <1>3, <2>1, <2>3, <2>4
  <2>6. \A q \in Signers : /\ signer[q].id # n /\ n \notin signer[q].saw
                           /\ signer[q].saw \subseteq SignIds
                           /\ signer[q].id # 0 => signer[q].id \in SignIds
    <3>1. \A q \in Signers : signer[q].saw \subseteq SignIds /\ signer[q].id \in 0..MaxSignIns
      BY <1>3 DEF SignerStates
    <3>2. n # 0 /\ \A i \in 0..MaxSignIns : i # 0 => i \in SignIds
      BY SignInAssumption DEF SignIds
    <3> QED BY <1>1, <2>1, <3>1, <3>2 DEF SignFacts, AtSigner
  <2>7. Committed' = Committed
    BY <2>1, <2>4, <2>5 DEF Committed
  <2>8. Rewarded' = Rewarded /\ Unwritten' = Unwritten
    BY <2>1, <2>3, <2>5 DEF Rewarded, Unwritten
  <2>9. SignInTypeOK'
    BY <1>1, <2>1, <2>5 DEF SignFacts, SignInTypeOK, SignerStates, SignRows
  <2>10. n # 0 /\ signer[p].id = 0
    BY <1>1, <2>1 DEF SignFacts, AtSigner, SignIds
  <2>11. SecondIsBlind'
    <3>1. ASSUME NEW q \in Signers, signer'[q].id # 0, ~signer'[q].blind, NEW m \in signer'[q].saw
          PROVE  sign'[m].date # sign'[signer'[q].id].date
      <4>1. CASE q = p
        <5>1. m \in signer[p].saw /\ m # n /\ m \in SignIds
          BY <2>3, <2>5, <2>6, <3>1, <4>1
        <5>2. sign[m].date < signer[p].read /\ signer[p].read <= today
          BY <1>1, <2>1, <2>3, <2>5, <3>1, <4>1, <5>1 DEF SignFacts, AtSigner
        <5>3. sign[m].date \in Int /\ signer[p].read \in Int /\ today \in Int
          BY <1>3, <2>2, <5>1 DEF SignRows, SignerStates
        <5> QED BY <2>3, <2>4, <2>5, <4>1, <5>1, <5>2, <5>3
      <4>2. CASE q # p
        <5>1. signer'[q] = signer[q] /\ m # n /\ m \in SignIds /\ signer[q].id # n
              /\ signer[q].id \in SignIds
          BY <2>5, <2>6, <3>1, <4>2
        <5> QED BY <1>1, <2>5, <3>1, <5>1 DEF SignFacts, SecondIsBlind
      <4> QED BY <4>1, <4>2
    <3> QED BY <3>1 DEF SecondIsBlind
  <2>12. StreakIsBacked'
    <3>1. ASSUME NEW q \in Signers, signer'[q].day > 1
          PROVE  \E m \in signer'[q].saw : /\ sign'[m].date = signer'[q].read - 1
                                           /\ sign'[m].day = signer'[q].day - 1
      <4>1. /\ signer'[q].day = signer[q].day /\ signer'[q].read = signer[q].read
            /\ signer'[q].saw = signer[q].saw
        BY <2>3, <2>5
      <4>2. PICK m \in signer[q].saw : /\ sign[m].date = signer[q].read - 1
                                       /\ sign[m].day = signer[q].day - 1
        BY <1>1, <3>1, <4>1 DEF SignFacts, StreakIsBacked
      <4> QED BY <2>5, <2>6, <4>1, <4>2
    <3>2. ASSUME NEW q \in Signers, signer'[q].id # 0
          PROVE  /\ sign'[signer'[q].id].day = signer'[q].day
                 /\ sign'[signer'[q].id].date >= signer'[q].read
      <4>1. CASE q = p
        <5>1. signer[p].read <= today
          BY <1>1, <2>1 DEF SignFacts, AtSigner
        <5>2. signer[p].read \in Int /\ today \in Int
          BY <1>3, <2>2 DEF SignerStates
        <5> QED BY <2>3, <2>4, <2>5, <4>1, <5>1, <5>2
      <4>2. CASE q # p
        BY <1>1, <2>5, <2>6, <3>2, <4>2 DEF SignFacts, StreakIsBacked
      <4> QED BY <4>1, <4>2
    <3>3. ASSUME NEW q \in Signers, ~signer'[q].blind, NEW k \in signer'[q].saw,
                 \A m \in signer'[q].saw : m <= k,
                 sign'[k].date = signer'[q].read - 1, sign'[k].day < ConfigDays
          PROVE  signer'[q].day = sign'[k].day + 1
      <4>1. /\ signer'[q].day = signer[q].day /\ signer'[q].read = signer[q].read
            /\ signer'[q].saw = signer[q].saw /\ signer'[q].blind = signer[q].blind
        BY <2>3, <2>5
      <4>2. sign'[k] = sign[k]
        BY <2>5, <2>6, <3>3, <4>1
      <4> QED BY <1>1, <3>3, <4>1, <4>2 DEF SignFacts, StreakIsBacked
    <3> QED BY <3>1, <3>2, <3>3 DEF StreakIsBacked
  <2>13. DatesGrow'
    <3>1. \A m \in SignIds : sign'[m].date <= today'
      <4>1. today <= today
        BY <1>3
      <4> QED BY <1>1, <2>1, <2>4, <2>5, <4>1 DEF SignFacts, DatesGrow
    <3>2. ASSUME NEW k \in SignIds, NEW m \in SignIds, k < m, sign'[m].status # "none"
          PROVE  sign'[k].status # "none" /\ sign'[k].date <= sign'[m].date
      <4>1. CASE m = n
        <5>1. k \in 1..(n - 1) /\ k # n
          BY <3>2, <4>1 DEF SignIds
        <5>2. sign[k].status # "none" /\ sign[k].date <= today
          BY <1>1, <2>1, <5>1 DEF SignFacts, DatesGrow
        <5> QED BY <2>4, <2>5, <4>1, <5>1, <5>2
      <4>2. CASE m # n
        <5>1. sign[m].status # "none" /\ sign[k].status # "none" /\ sign[k].date <= sign[m].date
          BY <1>1, <2>5, <3>2, <4>2 DEF SignFacts, DatesGrow
        <5>2. k # n
          BY <2>1, <5>1
        <5> QED BY <2>5, <4>2, <5>1, <5>2
      <4> QED BY <4>1, <4>2
    <3> QED BY <1>1, <2>7, <3>1, <3>2 DEF SignFacts, DatesGrow
  <2>14. AtSigner'
    <3>1. \A q \in Signers : /\ signer'[q].pc = "idle" => signer'[q].id = 0
                             /\ signer'[q].id # 0 => signer'[q].pc # "insert"
                             /\ signer'[q].pc \notin {"idle", "insert"} => signer'[q].id # 0
                             /\ signer'[q].pc # "idle" => signer'[q].read <= today'
      BY <1>1, <2>1, <2>3, <2>5, <2>10 DEF SignFacts, AtSigner
    <3>2. \A q \in Signers : signer'[q].id # 0 => sign'[signer'[q].id].status = "open"
      BY <1>1, <2>3, <2>4, <2>5, <2>6 DEF SignFacts, AtSigner
    <3>3. \A q, r \in Signers : signer'[q].id = signer'[r].id /\ signer'[q].id # 0 => q = r
      BY <1>1, <2>3, <2>5, <2>6 DEF SignFacts, AtSigner
    <3>4. \A q \in Signers : \A m \in signer'[q].saw :
             sign'[m].status = "done" /\ (~signer'[q].blind => sign'[m].date < signer'[q].read)
      <4>1. \A q \in Signers : /\ signer'[q].saw = signer[q].saw /\ signer'[q].read = signer[q].read
                               /\ signer'[q].blind = signer[q].blind
        BY <2>3, <2>5
      <4>2. \A q \in Signers : \A m \in signer[q].saw : m \in SignIds /\ m # n /\ sign'[m] = sign[m]
        BY <2>5, <2>6
      <4> QED BY <1>1, <4>1, <4>2 DEF SignFacts, AtSigner
    <3> QED BY <3>1, <3>2, <3>3, <3>4 DEF AtSigner
  <2>15. RewardsExplained' /\ ExperienceFollowsPoints' /\ ExperienceBehind'
    BY <1>1, <2>1, <2>3, <2>5, <2>7, <2>8
       DEF RewardsExplained, ExperienceFollowsPoints, ExperienceBehind
  <2> QED BY <2>9, <2>11, <2>12, <2>13, <2>14, <2>15 DEF SignFacts
<1>9. ASSUME NEW p \in Signers, CreatePointRecord(p) \/ AddExperience(p) \/ WriteExperience(p)
      PROVE  SignFacts' /\ RewardsExplained' /\ ExperienceFollowsPoints' /\ ExperienceBehind'
  <2> DEFINE l == signer'[p]
  <2>1. signer[p] \in SignerStates /\ UNCHANGED <<today, sign, signInFaults, failedLooks>>
    BY <1>3, <1>9 DEF CreatePointRecord, AddExperience, WriteExperience
  <2>2. /\ l \in SignerStates
        /\ signer[p].pc \in {"points", "experience", "write"} /\ l.pc \in {"experience", "write", "commit"}
        /\ l.id = signer[p].id /\ l.day = signer[p].day /\ l.read = signer[p].read
        /\ l.saw = signer[p].saw /\ l.blind = signer[p].blind
        /\ signer' = [signer EXCEPT ![p] = l]
        /\ \A q \in Signers \ {p} : signer'[q] = signer[q]
        /\ points' \in Nat /\ experience' \in Nat
    <3>1. CASE CreatePointRecord(p)
      BY <1>3, <2>1, <3>1 DEF CreatePointRecord, GoOn, Wake, SignerStates
    <3>2. CASE AddExperience(p)
      BY <1>3, <2>1, <3>2 DEF AddExperience, Wake, SignerStates
    <3>3. CASE WriteExperience(p)
      BY <1>3, <2>1, <3>3 DEF WriteExperience, GoOn, Wake, SignerStates
    <3> QED BY <1>9, <3>1, <3>2, <3>3
  <2>3. SignFacts'
    BY <1>1, <2>1, <2>2, SignerGoesOn
  <2>4. Committed' = Committed
    BY <2>1 DEF Committed
  <2>5. /\ Rewarded' = Rewarded \cup {p}
        /\ Unwritten' = IF l.pc = "commit" THEN Unwritten \ {p} ELSE Unwritten \cup {p}
    BY <2>2 DEF Rewarded, Unwritten
  <2>6. CASE CreatePointRecord(p)
    <3>1. /\ points' = points + 1 /\ experience' = experience /\ signer[p].pc = "points"
          /\ l.pc = "experience" /\ UNCHANGED signInFaults
      BY <1>3, <2>6 DEF CreatePointRecord, GoOn, Wake, SignerStates
    <3>2. p \notin Rewarded /\ p \notin Unwritten
      BY <3>1 DEF Rewarded, Unwritten
    <3>3. /\ Cardinality(Rewarded') = Cardinality(Rewarded) + 1
          /\ Cardinality(Unwritten') = Cardinality(Unwritten) + 1
      BY <1>4, <2>5, <3>1, <3>2, FS_AddElement
    <3>4. \A q \in Signers : /\ signer'[q].pc = "write" => q # p /\ signer[q].pc = "write"
                             /\ signer'[q].pc = "commit" => q # p /\ signer[q].pc = "commit"
      BY <2>2, <3>1
    <3>5. \A q \in Signers : signer[q].exp \in Nat
      BY <1>3 DEF SignerStates
    <3>6. ExperienceBehind'
      BY <1>1, <1>3, <1>4, <2>2, <3>1, <3>3, <3>4, <3>5 DEF ExperienceBehind
    <3> QED BY <1>1, <1>3, <1>4, <2>3, <2>4, <3>1, <3>3, <3>6
            DEF RewardsExplained, ExperienceFollowsPoints
  <2>7. CASE AddExperience(p)
    <3>1. /\ points' = points /\ experience' = experience /\ signer[p].pc = "experience"
          /\ l.pc = "write" /\ l.exp = experience /\ UNCHANGED signInFaults
      BY <1>3, <2>7 DEF AddExperience, Wake, SignerStates
    <3>2. Rewarded' = Rewarded /\ Unwritten' = Unwritten
      BY <2>5, <3>1 DEF Rewarded, Unwritten
    <3>3. ExperienceBehind'
      BY <1>1, <2>2, <3>1, <3>2 DEF ExperienceBehind
    <3> QED BY <1>1, <2>3, <2>4, <3>1, <3>2, <3>3 DEF RewardsExplained, ExperienceFollowsPoints
  <2>8. CASE WriteExperience(p)
    <3>1. /\ points' = points /\ experience' = signer[p].exp + 1 /\ signer[p].pc = "write"
          /\ l.pc = "commit" /\ UNCHANGED signInFaults /\ signer[p].exp \in Nat
      BY <1>3, <2>8 DEF WriteExperience, GoOn, Wake, SignerStates
    <3>2. Rewarded' = Rewarded /\ p \in Unwritten /\ Unwritten' = Unwritten \ {p}
      BY <2>5, <3>1 DEF Rewarded, Unwritten
    <3>3. Cardinality(Unwritten') = Cardinality(Unwritten) - 1
      BY <1>4, <3>2, FS_RemoveElement
    <3>4. signer[p].exp + Cardinality(Unwritten) <= points /\ Cardinality(Unwritten) >= 1
      <4>1. Unwritten # {}
        BY <3>2
      <4>2. Cardinality(Unwritten) # 0
        BY <1>4, <4>1, FS_EmptySet
      <4> QED BY <1>1, <1>4, <3>1, <4>2 DEF ExperienceBehind
    <3>5. \A q \in Signers : /\ signer'[q].pc = "write" =>
                                   signer[q].pc = "write" /\ signer'[q].exp = signer[q].exp
                             /\ signer[q].exp \in Nat
      BY <1>3, <2>2, <3>1 DEF SignerStates
    <3>6. ExperienceBehind'
      BY <1>1, <1>3, <1>4, <3>1, <3>3, <3>4, <3>5 DEF ExperienceBehind
    <3> QED BY <1>1, <1>3, <1>4, <2>3, <2>4, <3>1, <3>2, <3>3, <3>4, <3>6
            DEF RewardsExplained, ExperienceFollowsPoints
  <2> QED BY <1>9, <2>6, <2>7, <2>8
<1>10. ASSUME NEW p \in Signers, CommitSignIn(p) \/ SignInFails(p)
       PROVE  SignFacts' /\ RewardsExplained' /\ ExperienceFollowsPoints' /\ ExperienceBehind'
  <2>1. /\ signer'[p].pc = "idle" /\ \A q \in Signers \ {p} : signer'[q] = signer[q]
        /\ UNCHANGED <<points, experience>>
    BY <1>3, <1>10 DEF CommitSignIn, SignInFails, Ended, Wake, Asleep
  <2>2. Rewarded' = Rewarded \ {p} /\ Unwritten' = Unwritten \ {p}
    BY <2>1 DEF Rewarded, Unwritten
  <2>3. /\ Cardinality(Unwritten') \in Nat /\ Cardinality(Unwritten') <= Cardinality(Unwritten)
        /\ Cardinality(Rewarded') = Cardinality(Rewarded) - (IF p \in Rewarded THEN 1 ELSE 0)
    <3>1. /\ Cardinality(Unwritten \ {p}) = Cardinality(Unwritten) - (IF p \in Unwritten THEN 1 ELSE 0)
          /\ Cardinality(Rewarded \ {p}) = Cardinality(Rewarded) - (IF p \in Rewarded THEN 1 ELSE 0)
          /\ IsFiniteSet(Unwritten \ {p})
      <4>1. /\ IsFiniteSet(Unwritten \ {p})
            /\ Cardinality(Unwritten \ {p})
                 = IF p \in Unwritten THEN Cardinality(Unwritten) - 1 ELSE Cardinality(Unwritten)
        BY <1>4, FS_RemoveElement
      <4>2. Cardinality(Rewarded \ {p})
              = IF p \in Rewarded THEN Cardinality(Rewarded) - 1 ELSE Cardinality(Rewarded)
        BY <1>4, FS_RemoveElement
      <4> QED BY <1>4, <4>1, <4>2
    <3>2. Cardinality(Unwritten \ {p}) \in Nat
      BY <3>1, FS_CardinalityType
    <3> QED BY <1>4, <2>2, <3>1, <3>2
  <2>4. ExperienceBehind'
    <3>1. \A q \in Signers : /\ signer'[q].pc \in {"write", "commit"} => signer'[q] = signer[q]
                             /\ signer[q].exp \in Nat
      BY <1>3, <2>1 DEF SignerStates
    <3> QED BY <1>1, <1>3, <1>4, <2>1, <2>3, <3>1 DEF ExperienceBehind
  <2>5. CASE CommitSignIn(p)
    <3>1. /\ signer[p].pc = "commit" /\ Ended(p, "done")
          /\ UNCHANGED <<today, points, experience, signInFaults, failedLooks>>
      BY <2>5 DEF CommitSignIn
    <3>2. signer[p].id # 0 /\ p \in Rewarded
      BY <1>1, <3>1 DEF SignFacts, AtSigner, Rewarded
    <3>3. SignFacts' /\ Committed' = Committed \cup {signer[p].id} /\ signer[p].id \notin Committed
      BY <1>1, <1>3, <3>1, <3>2, SignerEnds
    <3>4. Cardinality(Committed') = Cardinality(Committed) + 1
      BY <1>4, <3>3, FS_AddElement
    <3>5. experience >= 1
      BY <1>1, <3>1 DEF ExperienceBehind
    <3> QED BY <1>1, <1>3, <1>4, <2>3, <2>4, <3>1, <3>2, <3>3, <3>4, <3>5
            DEF RewardsExplained, ExperienceFollowsPoints
  <2>6. CASE SignInFails(p)
    <3>1. /\ Ended(p, "rolledBack") /\ UNCHANGED <<today, points, experience, failedLooks>>
          /\ signInFaults' = signInFaults + 1 /\ signInFaults' \in 0..MaxSignInFaults
      BY <1>3, <2>6, SignInAssumption DEF SignInFails
    <3>2. SignFacts' /\ Committed' = Committed
      BY <1>1, <3>1, SignerEnds
    <3> QED BY <1>1, <1>3, <1>4, <2>3, <2>4, <3>1, <3>2
            DEF RewardsExplained, ExperienceFollowsPoints
  <2> QED BY <1>10, <2>5, <2>6
<1> QED BY <1>5, <1>6, <1>7, <1>8, <1>9, <1>10 DEF SignInNext

\* Records, points and experience tell one story, however many requests sign
\* in at once and fail: CreateSignInRecord of signin_record.go.
THEOREM SignInExplainedAlways == SignInSpec => []SignInExplained
<1>1. SignInInv => SignInExplained
  BY DEF SignInInv
<1> QED BY <1>1, SignInStarts, SignInKept, PTL DEF SignInSpec

-----------------------------------------------------------------------------
(* Scheduling.  The mutex makes one request the only one between its check   *)
(* and its last synchronisation; what it has checked therefore still holds   *)
(* when it writes, and what the tasks miss is in its hand.                   *)


OneAtATime == \A a, b \in Admins : admin[a].pc # "idle" /\ admin[b].pc # "idle" => a = b

AtWork == \A a \in Admins : admin[a].pc # "idle" => running

HandlersChecked ==
    \A a \in Admins :
       /\ admin[a].pc = "create" =>
             \E h \in Handlers : admin[a].handler = {h} /\ HandlerNameUnique(h, {})
       /\ admin[a].pc = "update" =>
             \E h \in Handlers, j \in JobIds :
                admin[a].handler = {h} /\ admin[a].jobs = {j} /\ HandlerNameUnique(h, {j})

OwedIsInHand ==
    running /\ schedulingFaults = 0 =>
       \A j \in owed : \E a \in Admins : admin[a].pc = "sync" /\ j \in admin[a].jobs

SchedulingInv == /\ SchedulingTypeOK /\ OneAtATime /\ AtWork /\ HandlersChecked
        /\ ScheduleFollowsRows /\ HandlersUnique /\ OwedIsInHand

LEMMA ChecksStay == ASSUME UNCHANGED <<job, admin>>, HandlersChecked PROVE HandlersChecked'
<1>1. \A h \in Handlers : HandlerNameUnique(h, {}) => HandlerNameUnique(h, {})'
  BY DEF HandlerNameUnique, Exists
<1>2. \A h \in Handlers, j \in JobIds : HandlerNameUnique(h, {j}) => HandlerNameUnique(h, {j})'
  BY DEF HandlerNameUnique, Exists
<1> QED BY <1>1, <1>2 DEF HandlersChecked

LEMMA SchedulingStarts == SchedulingInit => SchedulingInv
BY SchedulingAssumption
   DEF SchedulingInit, SchedulingInv, SchedulingTypeOK, OneAtATime, AtWork, HandlersChecked,
       ScheduleFollowsRows,
       HandlersUnique, OwedIsInHand, AtDesk, Wanted, Exists, JobIds

\* What a request that moves alone, or rests, means for the requests.
LEMMA SitMoves ==
    ASSUME SchedulingTypeOK, OneAtATime, NEW a \in Admins, NEW pc \in {"create", "update", "sync"},
           NEW h \in SUBSET Handlers, NEW js \in SUBSET JobIds, Sit(a, pc, h, js),
           \A b \in Admins \ {a} : admin[b].pc = "idle"
    PROVE  /\ admin'[a] = [pc |-> pc, handler |-> h, jobs |-> js]
           /\ \A b \in Admins \ {a} : admin'[b].pc = "idle"
           /\ admin' \in [Admins -> [pc : {"idle", "create", "update", "sync"},
                                     handler : SUBSET Handlers, jobs : SUBSET JobIds]]
           /\ OneAtATime'
BY DEF Sit, SchedulingTypeOK, OneAtATime

LEMMA RiseMoves ==
    ASSUME SchedulingTypeOK, OneAtATime, NEW a \in Admins, Rise(a),
           \A b \in Admins \ {a} : admin[b].pc = "idle"
    PROVE  /\ \A b \in Admins : admin'[b].pc = "idle"
           /\ admin' \in [Admins -> [pc : {"idle", "create", "update", "sync"},
                                     handler : SUBSET Handlers, jobs : SUBSET JobIds]]
           /\ OneAtATime'
BY DEF Rise, AtDesk, SchedulingTypeOK, OneAtATime

LEMMA Alone ==
    ASSUME SchedulingInv, NEW a \in Admins, admin[a].pc # "idle" \/ Starts(a)
    PROVE  running /\ \A b \in Admins \ {a} : admin[b].pc = "idle"
BY DEF SchedulingInv, OneAtATime, AtWork, Starts, MutexFree

\* The check of a name holds a request with nothing written.
LEMMA ValidateSteps ==
    ASSUME SchedulingInv, NEW a \in Admins, NEW h \in Handlers,
           \/ ValidateCreate(a, h)
           \/ \E j \in JobIds : ValidateUpdate(a, j, h)
    PROVE  SchedulingInv'
<1>1. running /\ (\A b \in Admins \ {a} : admin[b].pc = "idle") /\ admin[a].pc = "idle"
  BY Alone DEF ValidateCreate, ValidateUpdate, Starts
<1>2. UNCHANGED <<job, jobMap, running, owed, schedulingFaults>>
  BY DEF ValidateCreate, ValidateUpdate
<1>3. ~(running /\ schedulingFaults = 0 /\ owed # {})
  BY <1>1 DEF SchedulingInv, OwedIsInHand
<1>4. CASE ValidateCreate(a, h)
  <2>1. Sit(a, "create", {h}, {}) /\ HandlerNameUnique(h, {})
    BY <1>4 DEF ValidateCreate
  <2>2. HandlerNameUnique(h, {})'
    BY <1>2, <2>1 DEF HandlerNameUnique, Exists
  <2>3. /\ admin'[a] = [pc |-> "create", handler |-> {h}, jobs |-> {}]
        /\ \A b \in Admins \ {a} : admin'[b].pc = "idle"
        /\ admin' \in [Admins -> [pc : {"idle", "create", "update", "sync"},
                                  handler : SUBSET Handlers, jobs : SUBSET JobIds]]
        /\ OneAtATime'
    <3>1. {h} \in SUBSET Handlers /\ {} \in SUBSET JobIds
      OBVIOUS
    <3>2. "create" \in {"create", "update", "sync"} /\ SchedulingTypeOK /\ OneAtATime
      BY DEF SchedulingInv
    <3> QED BY <1>1, <2>1, <3>1, <3>2, SitMoves
  <2>4. SchedulingTypeOK' /\ AtWork'
    BY <1>1, <1>2, <2>3 DEF SchedulingInv, SchedulingTypeOK, AtWork
  <2>5. HandlersChecked'
    BY <2>2, <2>3 DEF HandlersChecked
  <2>6. ScheduleFollowsRows' /\ HandlersUnique' /\ OwedIsInHand'
    BY <1>2, <1>3 DEF SchedulingInv, ScheduleFollowsRows, HandlersUnique, OwedIsInHand, Wanted, Exists
  <2> QED BY <2>3, <2>4, <2>5, <2>6 DEF SchedulingInv
<1>5. CASE \E j \in JobIds : ValidateUpdate(a, j, h)
  <2>1. PICK j \in JobIds : Sit(a, "update", {h}, {j}) /\ HandlerNameUnique(h, {j})
    BY <1>5 DEF ValidateUpdate
  <2>2. HandlerNameUnique(h, {j})'
    BY <1>2, <2>1 DEF HandlerNameUnique, Exists
  <2>3. /\ admin'[a] = [pc |-> "update", handler |-> {h}, jobs |-> {j}]
        /\ \A b \in Admins \ {a} : admin'[b].pc = "idle"
        /\ admin' \in [Admins -> [pc : {"idle", "create", "update", "sync"},
                                  handler : SUBSET Handlers, jobs : SUBSET JobIds]]
        /\ OneAtATime'
    BY <1>1, <2>1, SitMoves DEF SchedulingInv
  <2>4. SchedulingTypeOK' /\ AtWork'
    BY <1>1, <1>2, <2>3 DEF SchedulingInv, SchedulingTypeOK, AtWork
  <2>5. HandlersChecked'
    <3>1. \A b \in Admins : admin'[b].pc # "create" /\ (admin'[b].pc = "update" => b = a)
      BY <2>3
    <3>2. admin'[a].handler = {h} /\ admin'[a].jobs = {j} /\ HandlerNameUnique(h, {j})'
      BY <2>2, <2>3
    <3> QED BY <3>1, <3>2 DEF HandlersChecked
  <2>6. ScheduleFollowsRows' /\ HandlersUnique' /\ OwedIsInHand'
    BY <1>2, <1>3 DEF SchedulingInv, ScheduleFollowsRows, HandlersUnique, OwedIsInHand, Wanted, Exists
  <2> QED BY <2>3, <2>4, <2>5, <2>6 DEF SchedulingInv
<1> QED BY <1>4, <1>5

\* A committed write owes the synchronisation of its rows, and nothing else changes.
LEMMA CommitKeeps ==
    ASSUME SchedulingInv, NEW a \in Admins, NEW js \in SUBSET JobIds,
           NEW status \in {"normal", "stop", "deleted"}, NEW h \in [JobIds -> SUBSET Handlers],
           Commit(a, js, status, h), running, admin[a].pc # "sync",
           \A b \in Admins \ {a} : admin[b].pc = "idle",
           HandlersUnique'
    PROVE  SchedulingInv'
<1>1. Sit(a, "sync", {}, js) /\ owed' = owed \cup js /\ UNCHANGED <<jobMap, running, schedulingFaults>>
  BY DEF Commit
<1>2. /\ admin'[a] = [pc |-> "sync", handler |-> {}, jobs |-> js]
      /\ \A b \in Admins \ {a} : admin'[b].pc = "idle"
      /\ admin' \in [Admins -> [pc : {"idle", "create", "update", "sync"},
                                handler : SUBSET Handlers, jobs : SUBSET JobIds]]
      /\ OneAtATime'
  BY <1>1, SitMoves DEF SchedulingInv
<1>3. schedulingFaults = 0 => owed = {}
  BY DEF SchedulingInv, OwedIsInHand
<1>4. job' = [j \in JobIds |-> IF j \in js THEN [status |-> status, handler |-> h[j]] ELSE job[j]]
  BY DEF Commit
<1>5. SchedulingTypeOK'
  <2>1. job' \in [JobIds -> [status : {"none", "normal", "stop", "deleted"}, handler : SUBSET Handlers]]
    BY <1>4 DEF SchedulingInv, SchedulingTypeOK
  <2> QED BY <1>1, <1>2, <2>1 DEF SchedulingInv, SchedulingTypeOK
<1>6. AtWork' /\ HandlersChecked'
  BY <1>1, <1>2 DEF AtWork, HandlersChecked
<1>7. ScheduleFollowsRows'
  BY <1>1, <1>4 DEF SchedulingInv, ScheduleFollowsRows, Wanted
<1>8. OwedIsInHand'
  BY <1>1, <1>2, <1>3 DEF OwedIsInHand
<1> QED BY <1>2, <1>5, <1>6, <1>7, <1>8 DEF SchedulingInv

LEMMA KeptIsTyped == SchedulingTypeOK => Kept \in [JobIds -> SUBSET Handlers]
BY DEF Kept, SchedulingTypeOK

LEMMA CreateJobStep ==
    ASSUME SchedulingInv, NEW a \in Admins, NEW j \in JobIds, CreateJob(a, j)
    PROVE  SchedulingInv'
<1> DEFINE h == [Kept EXCEPT ![j] = admin[a].handler]
<1>1. running /\ (\A b \in Admins \ {a} : admin[b].pc = "idle") /\ admin[a].pc = "create"
  BY Alone DEF CreateJob
<1>2. PICK n \in Handlers : admin[a].handler = {n} /\ HandlerNameUnique(n, {})
  BY <1>1 DEF SchedulingInv, HandlersChecked
<1>3. h \in [JobIds -> SUBSET Handlers]
  BY <1>2, KeptIsTyped DEF SchedulingInv
<1>4. Commit(a, {j}, "normal", h)
  BY DEF CreateJob
<1>5. h[j] = {n}
  BY <1>2, KeptIsTyped DEF SchedulingInv
<1> HIDE DEF h
<1>6. job' = [k \in JobIds |-> IF k \in {j} THEN [status |-> "normal", handler |-> {n}] ELSE job[k]]
  BY <1>4, <1>5 DEF Commit
<1>7. HandlersUnique'
  BY <1>2, <1>6 DEF SchedulingInv, HandlersUnique, HandlerNameUnique, Exists
<1> QED BY <1>1, <1>3, <1>4, <1>7, CommitKeeps

LEMMA UpdateJobStep ==
    ASSUME SchedulingInv, NEW a \in Admins, NEW j \in JobIds, UpdateJob(a, j)
    PROVE  SchedulingInv'
<1>1. /\ running /\ (\A b \in Admins \ {a} : admin[b].pc = "idle")
      /\ admin[a].pc = "update" /\ admin[a].jobs = {j}
  BY Alone DEF UpdateJob
<1>2. PICK n \in Handlers : admin[a].handler = {n} /\ HandlerNameUnique(n, {j})
  BY <1>1 DEF SchedulingInv, HandlersChecked
<1>3. CASE job[j].status = "normal"
  <2> DEFINE h == [Kept EXCEPT ![j] = admin[a].handler]
  <2>1. h \in [JobIds -> SUBSET Handlers]
    BY <1>2, KeptIsTyped DEF SchedulingInv
  <2>2. Commit(a, {j}, "normal", h)
    BY <1>3 DEF UpdateJob
  <2>3. h[j] = {n}
    BY <1>2, KeptIsTyped DEF SchedulingInv
  <2> HIDE DEF h
  <2>4. job' = [k \in JobIds |-> IF k \in {j} THEN [status |-> "normal", handler |-> {n}] ELSE job[k]]
    BY <2>2, <2>3 DEF Commit
  <2>5. HandlersUnique'
    BY <1>2, <2>4 DEF SchedulingInv, HandlersUnique, HandlerNameUnique, Exists
  <2> QED BY <1>1, <2>1, <2>2, <2>5, CommitKeeps
<1>4. CASE job[j].status # "normal"
  <2>1. Rise(a) /\ UNCHANGED <<job, jobMap, running, owed, schedulingFaults>>
    BY <1>4 DEF UpdateJob
  <2>2. admin[a].pc # "sync"
    BY <1>1
  <2> QED BY <1>1, <2>1, <2>2, RiseMoves
       DEF SchedulingInv, SchedulingTypeOK, AtWork, HandlersChecked, ScheduleFollowsRows,
           HandlersUnique, OwedIsInHand,
           Wanted, Exists
<1> QED BY <1>3, <1>4

LEMMA StatusSteps ==
    ASSUME SchedulingInv, NEW a \in Admins,
           \/ \E j \in JobIds, status \in {"normal", "stop"} : UpdateJobStatus(a, j, status)
           \/ \E js \in SUBSET JobIds : DeleteJobList(a, js)
    PROVE  SchedulingInv'
<1>1. running /\ (\A b \in Admins \ {a} : admin[b].pc = "idle") /\ admin[a].pc = "idle"
  BY Alone DEF UpdateJobStatus, DeleteJobList, Starts
<1>2. PICK js \in SUBSET JobIds, status \in {"normal", "stop", "deleted"} :
         Commit(a, js, status, Kept) /\ \A j \in js : Exists(j)
  <2>1. CASE \E j \in JobIds, status \in {"normal", "stop"} : UpdateJobStatus(a, j, status)
    <3>1. PICK j \in JobIds, status \in {"normal", "stop"} : UpdateJobStatus(a, j, status)
      BY <2>1
    <3>2. Commit(a, {j}, status, Kept) /\ Exists(j)
      BY <3>1 DEF UpdateJobStatus
    <3> QED BY <3>2
  <2>2. CASE \E js \in SUBSET JobIds : DeleteJobList(a, js)
    BY <2>2 DEF DeleteJobList
  <2> QED BY <2>1, <2>2
<1>3. Kept \in [JobIds -> SUBSET Handlers] /\ \A j \in JobIds : Kept[j] = job[j].handler
  BY KeptIsTyped DEF SchedulingInv, Kept
<1>4. \A j \in JobIds : job'[j].handler = job[j].handler /\ (Exists(j)' => Exists(j))
  BY <1>2, <1>3 DEF Commit, Exists
<1>5. HandlersUnique'
  BY <1>4 DEF SchedulingInv, HandlersUnique
<1> QED BY <1>1, <1>2, <1>3, <1>5, CommitKeeps

LEMMA SyncAllStep ==
    ASSUME SchedulingInv, NEW a \in Admins, SyncAll(a)
    PROVE  SchedulingInv'
<1> DEFINE rows == {j \in JobIds : job[j].status # "none"}
<1>1. running /\ (\A b \in Admins \ {a} : admin[b].pc = "idle") /\ admin[a].pc = "idle"
  BY Alone DEF SyncAll, Starts
<1>2. Sit(a, "sync", {}, rows) /\ UNCHANGED <<job, jobMap, running, owed, schedulingFaults>>
  BY DEF SyncAll
<1>3. rows \in SUBSET JobIds
  OBVIOUS
<1> HIDE DEF rows
<1>4. schedulingFaults = 0 => owed = {}
  BY <1>1 DEF SchedulingInv, OwedIsInHand
<1>5. /\ admin'[a] = [pc |-> "sync", handler |-> {}, jobs |-> rows]
      /\ \A b \in Admins \ {a} : admin'[b].pc = "idle"
      /\ admin' \in [Admins -> [pc : {"idle", "create", "update", "sync"},
                                handler : SUBSET Handlers, jobs : SUBSET JobIds]]
      /\ OneAtATime'
  BY <1>1, <1>2, <1>3, SitMoves DEF SchedulingInv
<1> QED BY <1>1, <1>2, <1>4, <1>5
     DEF SchedulingInv, SchedulingTypeOK, AtWork, HandlersChecked, ScheduleFollowsRows, HandlersUnique,
         OwedIsInHand,
         Wanted, Exists

\* Where a request stands after one of its rows.
LEMMA NextRowMoves ==
    ASSUME SchedulingInv, NEW a \in Admins, NEW j \in JobIds, admin[a].pc = "sync", NextRow(a, j)
    PROVE  /\ \A b \in Admins \ {a} : admin'[b].pc = "idle"
           /\ admin'[a].pc \in {"idle", "sync"}
           /\ \A k \in admin[a].jobs \ {j} : admin'[a].pc = "sync" /\ k \in admin'[a].jobs
           /\ admin' \in [Admins -> [pc : {"idle", "create", "update", "sync"},
                                     handler : SUBSET Handlers, jobs : SUBSET JobIds]]
           /\ OneAtATime'
<1> DEFINE rest == admin[a].jobs \ {j}
<1>1. \A b \in Admins \ {a} : admin[b].pc = "idle"
  BY Alone
<1>2. rest \in SUBSET JobIds
  BY DEF SchedulingInv, SchedulingTypeOK
<1>3. CASE rest = {}
  <2>1. Rise(a)
    BY <1>3 DEF NextRow
  <2> QED BY <1>1, <1>3, <2>1, RiseMoves DEF SchedulingInv
<1>4. CASE rest # {}
  <2>1. Sit(a, "sync", {}, rest)
    BY <1>4 DEF NextRow
  <2> HIDE DEF rest
  <2>2. /\ admin'[a] = [pc |-> "sync", handler |-> {}, jobs |-> rest]
        /\ \A b \in Admins \ {a} : admin'[b].pc = "idle"
        /\ admin' \in [Admins -> [pc : {"idle", "create", "update", "sync"},
                                  handler : SUBSET Handlers, jobs : SUBSET JobIds]]
        /\ OneAtATime'
    BY <1>1, <1>2, <2>1, SitMoves DEF SchedulingInv
  <2> QED BY <2>2 DEF rest
<1> QED BY <1>3, <1>4

LEMMA SyncJobStep ==
    ASSUME SchedulingInv, NEW a \in Admins, NEW j \in JobIds, SyncJob(a, j)
    PROVE  SchedulingInv'
<1>1. /\ admin[a].pc = "sync" /\ NextRow(a, j)
      /\ jobMap' = [jobMap EXCEPT ![j] = Wanted(j)] /\ owed' = owed \ {j}
      /\ UNCHANGED <<job, running, schedulingFaults>>
  BY DEF SyncJob
<1>2. running /\ \A b \in Admins \ {a} : admin[b].pc = "idle"
  BY <1>1, Alone
<1>3. /\ \A b \in Admins \ {a} : admin'[b].pc = "idle"
      /\ admin'[a].pc \in {"idle", "sync"}
      /\ \A k \in admin[a].jobs \ {j} : admin'[a].pc = "sync" /\ k \in admin'[a].jobs
      /\ admin' \in [Admins -> [pc : {"idle", "create", "update", "sync"},
                                handler : SUBSET Handlers, jobs : SUBSET JobIds]]
      /\ OneAtATime'
  BY <1>1, NextRowMoves
<1>4. Wanted(j) \in SUBSET Handlers
  BY DEF SchedulingInv, SchedulingTypeOK, Wanted
<1>5. SchedulingTypeOK'
  BY <1>1, <1>3, <1>4 DEF SchedulingInv, SchedulingTypeOK
<1>6. AtWork' /\ HandlersChecked'
  BY <1>1, <1>2, <1>3 DEF AtWork, HandlersChecked
<1>7. ScheduleFollowsRows' /\ HandlersUnique'
  BY <1>1 DEF SchedulingInv, SchedulingTypeOK, ScheduleFollowsRows, HandlersUnique, Wanted, Exists
<1>8. OwedIsInHand'
  BY <1>1, <1>2, <1>3 DEF SchedulingInv, OwedIsInHand
<1> QED BY <1>3, <1>5, <1>6, <1>7, <1>8 DEF SchedulingInv

LEMMA SyncJobFailsStep ==
    ASSUME SchedulingInv, NEW a \in Admins, NEW j \in JobIds, SyncJobFails(a, j)
    PROVE  SchedulingInv'
<1>1. /\ admin[a].pc = "sync" /\ NextRow(a, j)
      /\ jobMap' \in {jobMap, [jobMap EXCEPT ![j] = {}]} /\ owed' = owed \cup {j}
      /\ UNCHANGED <<job, running>>
      /\ schedulingFaults < MaxSchedulingFaults /\ schedulingFaults' = schedulingFaults + 1
  BY DEF SyncJobFails
<1>2. running /\ \A b \in Admins \ {a} : admin[b].pc = "idle"
  BY <1>1, Alone
<1>3. /\ \A b \in Admins \ {a} : admin'[b].pc = "idle"
      /\ admin'[a].pc \in {"idle", "sync"}
      /\ admin' \in [Admins -> [pc : {"idle", "create", "update", "sync"},
                                handler : SUBSET Handlers, jobs : SUBSET JobIds]]
      /\ OneAtATime'
  BY <1>1, NextRowMoves
<1>4. schedulingFaults' \in 0..MaxSchedulingFaults /\ schedulingFaults' # 0
  BY <1>1, SchedulingAssumption DEF SchedulingInv, SchedulingTypeOK
<1>5. SchedulingTypeOK'
  <2>1. jobMap' \in [JobIds -> SUBSET Handlers]
    BY <1>1 DEF SchedulingInv, SchedulingTypeOK
  <2> QED BY <1>1, <1>3, <1>4, <2>1 DEF SchedulingInv, SchedulingTypeOK
<1>6. AtWork' /\ HandlersChecked' /\ OwedIsInHand'
  BY <1>1, <1>2, <1>3, <1>4 DEF AtWork, HandlersChecked, OwedIsInHand
<1>7. ScheduleFollowsRows' /\ HandlersUnique'
  BY <1>1 DEF SchedulingInv, SchedulingTypeOK, ScheduleFollowsRows, HandlersUnique, Wanted, Exists
<1> QED BY <1>3, <1>5, <1>6, <1>7 DEF SchedulingInv

LEMMA JobWriteFailsStep ==
    ASSUME SchedulingInv, NEW a \in Admins, JobWriteFails(a)
    PROVE  SchedulingInv'
<1>1. /\ admin[a].pc \in {"create", "update"} /\ Rise(a)
      /\ UNCHANGED <<job, jobMap, running, owed, schedulingFaults>>
  BY DEF JobWriteFails
<1>2. running /\ \A b \in Admins \ {a} : admin[b].pc = "idle"
  BY <1>1, Alone
<1> QED BY <1>1, <1>2, RiseMoves
     DEF SchedulingInv, SchedulingTypeOK, AtWork, HandlersChecked, ScheduleFollowsRows, HandlersUnique,
         OwedIsInHand,
         Wanted, Exists

LEMMA ProcessDiesStep == ASSUME SchedulingInv, ProcessDies PROVE SchedulingInv'
<1>1. schedulingFaults' \in 0..MaxSchedulingFaults
  BY SchedulingAssumption DEF ProcessDies, SchedulingInv, SchedulingTypeOK
<1>2. admin' = [a \in Admins |-> AtDesk] /\ UNCHANGED <<job, owed>> /\ running' = FALSE
      /\ jobMap' = [j \in JobIds |-> {}]
  BY DEF ProcessDies
<1> QED BY <1>1, <1>2
     DEF SchedulingInv, SchedulingTypeOK, OneAtATime, AtWork, HandlersChecked, ScheduleFollowsRows,
         HandlersUnique,
         OwedIsInHand, AtDesk, Exists

LEMMA StartSchedulerStep == ASSUME SchedulingInv, StartScheduler PROVE SchedulingInv'
<1>1. \A j \in JobIds : Wanted(j) \in SUBSET Handlers
  BY DEF SchedulingInv, SchedulingTypeOK, Wanted
<1>2. /\ running' = TRUE /\ jobMap' = [j \in JobIds |-> Wanted(j)] /\ owed' = {}
      /\ UNCHANGED <<job, schedulingFaults, admin>>
  BY DEF StartScheduler
<1>3. SchedulingTypeOK'
  BY <1>1, <1>2 DEF SchedulingInv, SchedulingTypeOK
<1>4. ScheduleFollowsRows' /\ OwedIsInHand'
  BY <1>2 DEF ScheduleFollowsRows, OwedIsInHand, Wanted
<1>5. OneAtATime' /\ AtWork' /\ HandlersChecked' /\ HandlersUnique'
  BY <1>2, ChecksStay DEF SchedulingInv, OneAtATime, AtWork, HandlersUnique, Exists
<1> QED BY <1>3, <1>4, <1>5 DEF SchedulingInv

LEMMA SchedulingKept == SchedulingInv /\ [SchedulingNext]_schedulingVars => SchedulingInv'
<1> SUFFICES ASSUME SchedulingInv, [SchedulingNext]_schedulingVars PROVE SchedulingInv'
  OBVIOUS
<1>1. CASE UNCHANGED schedulingVars
  <2>1. HandlersChecked'
    BY <1>1, ChecksStay DEF SchedulingInv, schedulingVars
  <2> QED BY <1>1, <2>1 DEF schedulingVars, SchedulingInv, SchedulingTypeOK, OneAtATime, AtWork,
                            ScheduleFollowsRows, HandlersUnique, OwedIsInHand, Wanted, Exists
<1>2. ASSUME NEW a \in Admins, NEW h \in Handlers,
             ValidateCreate(a, h) \/ \E j \in JobIds : ValidateUpdate(a, j, h)
      PROVE  SchedulingInv'
  BY <1>2, ValidateSteps
<1>3. ASSUME NEW a \in Admins, NEW j \in JobIds,
             CreateJob(a, j) \/ UpdateJob(a, j) \/ SyncJob(a, j) \/ SyncJobFails(a, j)
      PROVE  SchedulingInv'
  BY <1>3, CreateJobStep, UpdateJobStep, SyncJobStep, SyncJobFailsStep
<1>4. ASSUME NEW a \in Admins,
             \/ \E j \in JobIds, status \in {"normal", "stop"} : UpdateJobStatus(a, j, status)
             \/ \E js \in SUBSET JobIds : DeleteJobList(a, js)
      PROVE  SchedulingInv'
  BY <1>4, StatusSteps
<1>5. ASSUME NEW a \in Admins, SyncAll(a) \/ JobWriteFails(a) PROVE SchedulingInv'
  BY <1>5, SyncAllStep, JobWriteFailsStep
<1> QED BY <1>1, <1>2, <1>3, <1>4, <1>5, ProcessDiesStep, StartSchedulerStep DEF SchedulingNext

(* In every behaviour tasks, rows and handlers agree, whatever requests,     *)
(* failed synchronisations, crashes and restarts do.                        *)
THEOREM ScheduleSettledAlways == SchedulingSpec => []ScheduleSettled
<1>1. SchedulingInv => ScheduleSettled
  BY DEF SchedulingInv, ScheduleSettled, OwedIsInHand, OwedIsExplained
<1> QED BY <1>1, SchedulingStarts, SchedulingKept, PTL DEF SchedulingSpec

-----------------------------------------------------------------------------
(* Recharges.  Each client at work has one recharge in hand; what is frozen,  *)
(* with a price for each refund that was settled again, covers the refunds    *)
(* that are asked for, those that are noted and those in a client's hand,     *)
(* unless they moved the wallet before.                                      *)

ClientRow == [pc : {"idle", "paid", "add", "log", "freeze", "ask", "note",
                    "settle", "logRefund", "status"},
              recharge : SUBSET Recharges, amount : Int, seen : Int,
              refund : 0..MaxRefundTries, end : {"none", "success", "failure"}]

ClientShape(c) ==
    /\ c.pc \in {"paid", "freeze", "ask", "note", "settle", "logRefund", "status"}
         => \E r \in Recharges : c.recharge = {r}
    /\ c.pc \in {"settle", "logRefund", "status"} => c.refund # 0 /\ c.end # "none"
    /\ c.pc = "add" /\ c.amount < 0 => c.seen >= -c.amount
    /\ c.pc \in {"add", "log"} =>
          \/ c.recharge = {}
          \/ c.amount = Total /\ \E r \in Recharges : c.recharge = {r}

AllRefunds == Recharges \X (1..MaxRefundTries)
SettlingPairs ==
    {x \in AllRefunds : \E p \in Clients : /\ client[p].pc = "settle"
                                          /\ client[p].recharge = {x[1]} /\ client[p].refund = x[2]}
OwedRefunds == (Noted \cup SettlingPairs) \ settled
Asking == {p \in Clients : client[p].pc \in {"ask", "note"}}

FrozenCoversOwed ==
    wallet.frozen + Total * resettled >= Total * (Cardinality(OwedRefunds) + Cardinality(Asking))

WalletRows ==
    /\ wallet \in [balance : Int, frozen : Int, recharged : Int, expense : Nat]
    /\ txn \in [credit : [Recharges -> Nat], refund : [Recharges -> Nat], adjust : Int]
    /\ recharge \in [Recharges -> [paid : BOOLEAN, refund : 0..MaxRefundTries,
                                   status : {"none", "waiting", "success", "failure"}]]
    /\ rechargeRefunds \in [Recharges -> Seq({"waiting", "success", "failure"})]
    /\ settled \subseteq AllRefunds
    /\ resettled \in Nat
    /\ adjusted \in 0..MaxAdjustments
    /\ walletFaults \in 0..MaxWalletFaults

WalletShape ==
    /\ WalletRows /\ client \in [Clients -> ClientRow]
    /\ \A p \in Clients : ClientShape(client[p])

WalletInv == WalletShape /\ ColumnsAgree /\ CreditedOnce /\ FrozenCoversOwed /\ TransactionsExplain

LEMMA ClientsFinite ==
    /\ IsFiniteSet(Recharges) /\ IsFiniteSet(Clients)
    /\ Total \in Nat /\ Total > 0
BY WalletAssumption

LEMMA RestingIsRow ==
    /\ Resting \in ClientRow
    /\ Resting.pc = "idle" /\ Resting.recharge = {} /\ Resting.amount = 0 /\ Resting.end = "none"
    /\ ClientShape(Resting)
BY WalletAssumption DEF Resting, ClientRow, ClientShape

-----------------------------------------------------------------------------
(* What a step leaves of the shape, and what the steps change, one lemma for  *)
(* each.                                                                    *)

LEMMA ClientMoves ==
    ASSUME WalletShape, NEW p \in Clients, NEW c \in ClientRow, Moving(p, c), ClientShape(c), WalletRows'
    PROVE  /\ WalletShape' /\ client'[p] = c
           /\ \A q \in Clients \ {p} : client'[q] = client[q]
<1>1. /\ client'[p] = c
      /\ \A q \in Clients \ {p} : client'[q] = client[q]
      /\ client' \in [Clients -> ClientRow]
  BY DEF WalletShape, Moving
<1>2. \A q \in Clients : client'[q] = c \/ client'[q] = client[q]
  BY <1>1
<1>3. \A q \in Clients : ClientShape(client'[q])
  BY <1>2 DEF WalletShape
<1> QED BY <1>1, <1>3 DEF WalletShape

LEMMA AddBalanceDoes ==
    ASSUME WalletShape, NEW p \in Clients, AddBalance(p)
    PROVE  /\ WalletShape'
           /\ \E a \in Int :
                 /\ client[p].pc = "add" /\ client'[p].pc = "log"
                 /\ client[p].amount = a /\ client'[p].amount = a
                 /\ client'[p].recharge = client[p].recharge
                 /\ a < 0 => client[p].seen >= -a
                 /\ wallet'.balance = wallet.balance + a
                 /\ wallet'.frozen = wallet.frozen
                 /\ wallet'.recharged - wallet'.expense = wallet.recharged - wallet.expense + a
           /\ \A q \in Clients \ {p} : client'[q] = client[q]
<1> DEFINE c == [client[p] EXCEPT !.pc = "log"]
<1>1. p \in Clients /\ client[p] \in ClientRow /\ ClientShape(client[p])
  BY ClientsFinite DEF WalletShape
<1>2. client[p].pc = "add" /\ Moving(p, c)
  BY DEF AddBalance
<1>3. /\ c \in ClientRow /\ c.pc = "log" /\ c.amount = client[p].amount
      /\ c.recharge = client[p].recharge
  BY <1>1 DEF ClientRow
<1>4. PICK a \in Int : a = client[p].amount
  BY <1>1 DEF ClientRow
<1>5. /\ wallet' \in [balance : Int, frozen : Int, recharged : Int, expense : Nat]
      /\ wallet'.balance = wallet.balance + a
      /\ wallet'.frozen = wallet.frozen
      /\ wallet'.recharged - wallet'.expense = wallet.recharged - wallet.expense + a
  <2>1. /\ wallet' = [wallet EXCEPT !.balance = @ + a, !.recharged = @ + (IF a > 0 THEN a ELSE 0),
                                    !.expense = @ + Expense(a)]
        /\ wallet \in [balance : Int, frozen : Int, recharged : Int, expense : Nat]
    BY <1>4 DEF AddBalance, WalletShape, WalletRows
  <2>2. PICK x \in Nat : x = Expense(a)
    BY DEF Expense
  <2>3. PICK y \in Nat : y = (IF a > 0 THEN a ELSE 0) /\ y - x = a
    BY <2>2 DEF Expense
  <2>4. wallet'.balance = wallet.balance + a /\ wallet'.frozen = wallet.frozen
    BY <2>1
  <2>7. wallet'.recharged = wallet.recharged + y
    BY <2>1, <2>3
  <2>8. wallet'.expense = wallet.expense + x
    BY <2>1, <2>2
  <2>9. wallet' \in [balance : Int, frozen : Int, recharged : Int, expense : Nat]
    <3>1. wallet' = [balance |-> wallet.balance + a, frozen |-> wallet.frozen,
                     recharged |-> wallet.recharged + y, expense |-> wallet.expense + x]
      BY <2>1, <2>2, <2>3
    <3>2. wallet.balance + a \in Int /\ wallet.frozen \in Int /\ wallet.recharged + y \in Int
      BY <2>1
    <3>3. wallet.expense + x \in Nat
      BY <2>1
    <3> QED BY <3>1, <3>2, <3>3
  <2>5. wallet.recharged \in Int /\ wallet.expense \in Int
    BY <2>1
  <2>6. wallet'.recharged - wallet'.expense = wallet.recharged - wallet.expense + (y - x)
    BY <2>5, <2>7, <2>8
  <2> QED BY <2>3, <2>4, <2>6, <2>9
<1>6. ClientShape(c)
  BY <1>1, <1>2, <1>3 DEF ClientShape
<1>7. WalletRows'
  BY <1>5 DEF AddBalance, WalletShape, WalletRows
<1>8. /\ WalletShape' /\ client'[p] = c
      /\ \A q \in Clients \ {p} : client'[q] = client[q]
  BY <1>2, <1>3, <1>6, <1>7, ClientMoves
<1>9. a < 0 => client[p].seen >= -a
  BY <1>1, <1>2, <1>4 DEF ClientShape
<1> HIDE DEF c
<1> QED BY <1>2, <1>3, <1>4, <1>5, <1>8, <1>9

LEMMA CreateWalletTransactionDoes ==
    ASSUME WalletShape, NEW p \in Clients, CreateWalletTransaction(p)
    PROVE  /\ WalletShape'
           /\ client[p].pc = "log" /\ client'[p] = Resting
           /\ \E a \in Int :
                 /\ client[p].amount = a
                 /\ \/ /\ client[p].recharge = {}
                       /\ txn'.adjust = txn.adjust + a
                       /\ txn'.credit = txn.credit /\ txn'.refund = txn.refund
                    \/ /\ a = Total /\ txn'.adjust = txn.adjust /\ txn'.refund = txn.refund
                       /\ \E r \in Recharges :
                             /\ client[p].recharge = {r}
                             /\ txn'.credit[r] = txn.credit[r] + 1
                             /\ \A s \in Recharges \ {r} : txn'.credit[s] = txn.credit[s]
           /\ \A q \in Clients \ {p} : client'[q] = client[q]
<1>1. p \in Clients /\ client[p] \in ClientRow /\ ClientShape(client[p])
  BY ClientsFinite DEF WalletShape
<1>2. client[p].pc = "log" /\ Moving(p, Resting)
  BY DEF CreateWalletTransaction, Ends
<1>3. PICK a \in Int : a = client[p].amount
  BY <1>1 DEF ClientRow
<1>4. /\ txn \in [credit : [Recharges -> Nat], refund : [Recharges -> Nat], adjust : Int]
      /\ txn.adjust \in Int /\ txn.credit \in [Recharges -> Nat]
  BY DEF WalletShape, WalletRows
<1>5. /\ txn' \in [credit : [Recharges -> Nat], refund : [Recharges -> Nat], adjust : Int]
      /\ \/ /\ client[p].recharge = {}
            /\ txn'.adjust = txn.adjust + a
            /\ txn'.credit = txn.credit /\ txn'.refund = txn.refund
         \/ /\ a = Total /\ txn'.adjust = txn.adjust /\ txn'.refund = txn.refund
            /\ \E r \in Recharges :
                  /\ client[p].recharge = {r}
                  /\ txn'.credit[r] = txn.credit[r] + 1
                  /\ \A s \in Recharges \ {r} : txn'.credit[s] = txn.credit[s]
  <2>1. CASE client[p].recharge = {}
    <3>1. txn' = [txn EXCEPT !.adjust = @ + a]
      BY <1>3, <2>1 DEF CreateWalletTransaction
    <3> QED BY <1>3, <1>4, <2>1, <3>1
  <2>2. CASE client[p].recharge # {}
    <3>1. a = Total /\ \E r \in Recharges : client[p].recharge = {r}
      BY <1>1, <1>2, <1>3, <2>2 DEF ClientShape
    <3>2. PICK r \in Recharges : client[p].recharge = {r}
      BY <3>1
    <3> DEFINE credit == [s \in Recharges |-> txn.credit[s] + (IF s \in client[p].recharge THEN 1 ELSE 0)]
    <3>3. txn' = [txn EXCEPT !.credit = credit]
      BY <2>2 DEF CreateWalletTransaction
    <3>4. credit[r] = txn.credit[r] + 1
      BY <3>2
    <3>5. \A s \in Recharges \ {r} : credit[s] = txn.credit[s]
      BY <1>4, <3>2
    <3>6. credit \in [Recharges -> Nat]
      BY <1>4
    <3> HIDE DEF credit
    <3>7. /\ txn' \in [credit : [Recharges -> Nat], refund : [Recharges -> Nat], adjust : Int]
          /\ txn'.adjust = txn.adjust /\ txn'.refund = txn.refund /\ txn'.credit = credit
      BY <1>4, <3>3, <3>6
    <3> QED BY <3>1, <3>2, <3>4, <3>5, <3>7
  <2> QED BY <2>1, <2>2
<1>6. WalletRows'
  BY <1>5 DEF CreateWalletTransaction, WalletShape, WalletRows
<1>7. /\ WalletShape' /\ client'[p] = Resting
      /\ \A q \in Clients \ {p} : client'[q] = client[q]
  BY <1>2, <1>6, RestingIsRow, ClientMoves
<1> QED BY <1>2, <1>3, <1>5, <1>7

LEMMA UpdateWalletBalanceDoes ==
    ASSUME WalletShape, NEW p \in Clients, NEW a \in Adjustments, UpdateWalletBalance(p, a)
    PROVE  /\ WalletShape'
           /\ client[p].pc = "idle" /\ client'[p].pc = "add" /\ client'[p].recharge = {}
           /\ \A q \in Clients \ {p} : client'[q] = client[q]
<1> DEFINE c == [Resting EXCEPT !.pc = "add", !.amount = a, !.seen = wallet.balance]
<1>1. /\ client[p].pc = "idle" /\ Moving(p, c) /\ Suffices(a)
      /\ UNCHANGED <<wallet, txn, recharge, rechargeRefunds, settled, resettled, walletFaults>>
      /\ adjusted < MaxAdjustments /\ adjusted' = adjusted + 1
  BY DEF UpdateWalletBalance
<1>2. wallet.balance \in Int /\ a \in Int /\ 0 \in 0..MaxRefundTries
  BY WalletAssumption DEF WalletShape, WalletRows
<1>4. c \in ClientRow /\ c.pc = "add" /\ c.recharge = {} /\ c.amount = a /\ c.seen = wallet.balance
  BY <1>2, RestingIsRow DEF ClientRow
<1> HIDE DEF c
<1>5. ClientShape(c)
  BY <1>1, <1>2, <1>4 DEF ClientShape, Suffices
<1>6. WalletRows'
  BY <1>1, WalletAssumption DEF WalletShape, WalletRows
<1> QED BY <1>1, <1>4, <1>5, <1>6, ClientMoves

LEMMA RechargePaidReadDoes ==
    ASSUME WalletShape, NEW p \in Clients, NEW r \in Recharges, RechargePaidRead(p, r)
    PROVE  /\ WalletShape'
           /\ client[p].pc = "idle" /\ client'[p].pc = "paid"
           /\ \A q \in Clients \ {p} : client'[q] = client[q]
<1> DEFINE c == [Resting EXCEPT !.pc = "paid", !.recharge = {r}]
<1>1. /\ client[p].pc = "idle" /\ Moving(p, c)
      /\ UNCHANGED <<wallet, txn, recharge, rechargeRefunds, settled, resettled, adjusted, walletFaults>>
  BY DEF RechargePaidRead
<1>3. c \in ClientRow /\ c.pc = "paid" /\ c.recharge = {r}
  BY RestingIsRow DEF ClientRow
<1> HIDE DEF c
<1>4. ClientShape(c) /\ WalletRows'
  BY <1>1, <1>3 DEF ClientShape, WalletShape, WalletRows
<1> QED BY <1>1, <1>3, <1>4, ClientMoves

LEMMA RefundRechargeReadDoes ==
    ASSUME WalletShape, NEW p \in Clients, NEW r \in Recharges, RefundRechargeRead(p, r)
    PROVE  /\ WalletShape'
           /\ client[p].pc = "idle" /\ client'[p].pc = "freeze"
           /\ \A q \in Clients \ {p} : client'[q] = client[q]
<1> DEFINE c == [Resting EXCEPT !.pc = "freeze", !.recharge = {r}]
<1>1. /\ client[p].pc = "idle" /\ Moving(p, c)
      /\ UNCHANGED <<wallet, txn, recharge, rechargeRefunds, settled, resettled, adjusted, walletFaults>>
  BY DEF RefundRechargeRead
<1>3. c \in ClientRow /\ c.pc = "freeze" /\ c.recharge = {r}
  BY RestingIsRow DEF ClientRow
<1> HIDE DEF c
<1>4. ClientShape(c) /\ WalletRows'
  BY <1>1, <1>3 DEF ClientShape, WalletShape, WalletRows
<1> QED BY <1>1, <1>3, <1>4, ClientMoves

LEMMA RechargePaidUpdateDoes ==
    ASSUME WalletShape, NEW p \in Clients, RechargePaidUpdate(p)
    PROVE  /\ WalletShape'
           /\ client[p].pc = "paid"
           /\ \/ client'[p] = Resting /\ recharge' = recharge
              \/ \E r \in Recharges :
                    /\ ~recharge[r].paid /\ recharge'[r].paid
                    /\ recharge'[r].refund = recharge[r].refund
                    /\ \A s \in Recharges \ {r} : recharge'[s] = recharge[s]
                    /\ client'[p].pc = "add" /\ client'[p].recharge = {r}
           /\ \A q \in Clients \ {p} : client'[q] = client[q]
<1>1. p \in Clients /\ client[p] \in ClientRow /\ ClientShape(client[p])
  BY ClientsFinite DEF WalletShape
<1>2. PICK r \in client[p].recharge :
         /\ client[p].pc = "paid"
         /\ IF NotYetPaid(r)
            THEN /\ recharge' = [recharge EXCEPT ![r].paid = TRUE]
                 /\ Moving(p, [client[p] EXCEPT !.pc = "add", !.amount = Total])
            ELSE Ends(p) /\ UNCHANGED recharge
         /\ UNCHANGED <<wallet, txn, rechargeRefunds, settled, resettled, adjusted, walletFaults>>
  BY DEF RechargePaidUpdate
<1>3. r \in Recharges /\ client[p].recharge = {r}
  BY <1>1, <1>2 DEF ClientShape, ClientRow
<1>4. CASE NotYetPaid(r)
  <2> DEFINE c == [client[p] EXCEPT !.pc = "add", !.amount = Total]
  <2>1. recharge' = [recharge EXCEPT ![r].paid = TRUE] /\ Moving(p, c)
    BY <1>2, <1>4
  <2>4. c \in ClientRow /\ c.pc = "add" /\ c.recharge = {r} /\ c.amount = Total
    <3>1. PICK old \in ClientRow : old = client[p]
      BY <1>1
    <3>2. c = [old EXCEPT !.pc = "add", !.amount = Total] /\ old.recharge = {r} /\ Total \in Int
      BY <1>3, <3>1, ClientsFinite
    <3> HIDE DEF c
    <3> QED BY <3>2 DEF ClientRow
  <2> HIDE DEF c
  <2>5. ClientShape(c)
    BY <1>3, <2>4, ClientsFinite DEF ClientShape
  <2> DEFINE row == [recharge[r] EXCEPT !.paid = TRUE]
  <2>2. /\ recharge' = [recharge EXCEPT ![r] = row]
        /\ recharge \in [Recharges -> [paid : BOOLEAN, refund : 0..MaxRefundTries,
                                       status : {"none", "waiting", "success", "failure"}]]
    BY <2>1 DEF WalletShape, WalletRows
  <2>3. /\ row.paid /\ row.refund = recharge[r].refund
        /\ row \in [paid : BOOLEAN, refund : 0..MaxRefundTries,
                    status : {"none", "waiting", "success", "failure"}]
    BY <1>3, <2>2
  <2> HIDE DEF row
  <2>6. /\ recharge'[r].paid /\ recharge'[r].refund = recharge[r].refund
        /\ \A s \in Recharges \ {r} : recharge'[s] = recharge[s]
        /\ recharge' \in [Recharges -> [paid : BOOLEAN, refund : 0..MaxRefundTries,
                                        status : {"none", "waiting", "success", "failure"}]]
    BY <1>3, <2>2, <2>3
  <2>7. WalletRows'
    BY <1>2, <2>6 DEF WalletShape, WalletRows
  <2>8. /\ WalletShape' /\ client'[p] = c
        /\ \A q \in Clients \ {p} : client'[q] = client[q]
    BY <1>2, <2>1, <2>4, <2>5, <2>7, ClientMoves
  <2> QED BY <1>2, <1>3, <1>4, <2>4, <2>6, <2>8 DEF NotYetPaid
<1>5. CASE ~NotYetPaid(r)
  <2>1. Moving(p, Resting) /\ recharge' = recharge
    BY <1>2, <1>5 DEF Ends
  <2>2. WalletRows'
    BY <1>2, <2>1 DEF WalletShape, WalletRows
  <2> QED BY <1>2, <2>1, <2>2, RestingIsRow, ClientMoves
<1> QED BY <1>4, <1>5

LEMMA FreezePriceDoes ==
    ASSUME WalletShape, NEW p \in Clients, FreezePrice(p)
    PROVE  /\ WalletShape'
           /\ client[p].pc = "freeze"
           /\ \/ client'[p] = Resting /\ wallet' = wallet
              \/ /\ client'[p].pc = "ask" /\ wallet.balance >= Total
                 /\ wallet'.balance = wallet.balance - Total
                 /\ wallet'.frozen = wallet.frozen + Total
                 /\ wallet'.recharged = wallet.recharged /\ wallet'.expense = wallet.expense
           /\ \A q \in Clients \ {p} : client'[q] = client[q]
<1>1. p \in Clients /\ client[p] \in ClientRow /\ ClientShape(client[p])
  BY ClientsFinite DEF WalletShape
<1>2. /\ client[p].pc = "freeze"
      /\ UNCHANGED <<txn, recharge, rechargeRefunds, settled, resettled, adjusted, walletFaults>>
  BY DEF FreezePrice
<1>3. CASE wallet.balance >= Total
  <2> DEFINE c == [client[p] EXCEPT !.pc = "ask"]
  <2>1. /\ wallet' = [wallet EXCEPT !.balance = @ - Total, !.frozen = @ + Total]
        /\ Moving(p, c)
    BY <1>3 DEF FreezePrice, ToFreeze
  <2>2. c \in ClientRow /\ c.pc = "ask" /\ c.recharge = client[p].recharge
    BY <1>1 DEF ClientRow
  <2> HIDE DEF c
  <2>3. ClientShape(c)
    BY <1>1, <1>2, <2>2 DEF ClientShape
  <2>4. PICK old \in [balance : Int, frozen : Int, recharged : Int, expense : Nat] : old = wallet
    BY DEF WalletShape, WalletRows
  <2>5. /\ wallet' \in [balance : Int, frozen : Int, recharged : Int, expense : Nat]
        /\ wallet'.balance = wallet.balance - Total
        /\ wallet'.frozen = wallet.frozen + Total
        /\ wallet'.recharged = wallet.recharged /\ wallet'.expense = wallet.expense
    <3>1. wallet' = [old EXCEPT !.balance = old.balance - Total, !.frozen = old.frozen + Total]
      BY <2>1, <2>4
    <3>2. old.balance - Total \in Int /\ old.frozen + Total \in Int
      BY ClientsFinite
    <3> QED BY <2>4, <3>1, <3>2
  <2>6. WalletRows'
    BY <1>2, <2>5 DEF WalletShape, WalletRows
  <2> QED BY <1>2, <1>3, <2>1, <2>2, <2>3, <2>5, <2>6, ClientMoves
<1>4. CASE ~(wallet.balance >= Total)
  <2>1. Moving(p, Resting) /\ wallet' = wallet
    BY <1>4 DEF FreezePrice, ToFreeze, Ends
  <2>2. WalletRows'
    BY <1>2, <2>1 DEF WalletShape, WalletRows
  <2> QED BY <1>2, <2>1, <2>2, RestingIsRow, ClientMoves
<1> QED BY <1>3, <1>4

LEMMA AskRefundDoes ==
    ASSUME WalletShape, NEW p \in Clients, AskRefund(p)
    PROVE  /\ WalletShape'
           /\ client[p].pc = "ask" /\ client'[p].pc \in {"note", "idle"}
           /\ \A q \in Clients \ {p} : client'[q] = client[q]
<1>1. p \in Clients /\ client[p] \in ClientRow /\ ClientShape(client[p])
  BY ClientsFinite DEF WalletShape
<1>2. /\ client[p].pc = "ask"
      /\ UNCHANGED <<wallet, txn, recharge, settled, resettled, adjusted, walletFaults>>
      /\ rechargeRefunds \in [Recharges -> Seq({"waiting", "success", "failure"})]
  BY DEF AskRefund, WalletShape, WalletRows
<1>3. PICK r \in client[p].recharge :
         \/ /\ ~Refunding(r) /\ Len(rechargeRefunds[r]) < MaxRefundTries
            /\ rechargeRefunds' = [rechargeRefunds EXCEPT ![r] = Append(@, "waiting")]
            /\ Moving(p, [client[p] EXCEPT !.pc = "note", !.refund = Len(rechargeRefunds[r]) + 1])
         \/ Ends(p) /\ UNCHANGED rechargeRefunds
  BY DEF AskRefund
<1>4. r \in Recharges
  BY <1>1 DEF ClientRow
<1>5. CASE /\ Len(rechargeRefunds[r]) < MaxRefundTries
           /\ rechargeRefunds' = [rechargeRefunds EXCEPT ![r] = Append(@, "waiting")]
           /\ Moving(p, [client[p] EXCEPT !.pc = "note", !.refund = Len(rechargeRefunds[r]) + 1])
  <2>1. PICK n \in 0..MaxRefundTries : n = Len(rechargeRefunds[r]) + 1
    BY <1>2, <1>4, <1>5, WalletAssumption
  <2> DEFINE c == [client[p] EXCEPT !.pc = "note", !.refund = n]
  <2>2. PICK old \in ClientRow : old = client[p]
    BY <1>1
  <2>3. c = [old EXCEPT !.pc = "note", !.refund = n] /\ Moving(p, c)
    BY <1>5, <2>1, <2>2
  <2> HIDE DEF c
  <2>4. c \in ClientRow /\ c.pc = "note" /\ c.recharge = old.recharge
    BY <2>3 DEF ClientRow
  <2>5. ClientShape(c)
    BY <1>1, <1>2, <2>2, <2>4 DEF ClientShape
  <2>6. Append(rechargeRefunds[r], "waiting") \in Seq({"waiting", "success", "failure"})
    BY <1>2, <1>4
  <2>7. rechargeRefunds' \in [Recharges -> Seq({"waiting", "success", "failure"})]
    BY <1>2, <1>4, <1>5, <2>6
  <2>8. WalletRows'
    BY <1>2, <2>7 DEF WalletShape, WalletRows
  <2> QED BY <1>2, <2>3, <2>4, <2>5, <2>8, ClientMoves
<1>6. CASE Ends(p) /\ UNCHANGED rechargeRefunds
  <2>1. WalletRows'
    BY <1>2, <1>6 DEF WalletShape, WalletRows
  <2> QED BY <1>2, <1>6, <2>1, RestingIsRow, ClientMoves DEF Ends
<1> QED BY <1>3, <1>5, <1>6

LEMMA NoteRefundDoes ==
    ASSUME WalletShape, NEW p \in Clients, NoteRefund(p)
    PROVE  /\ WalletShape'
           /\ client[p].pc = "note" /\ client'[p] = Resting
           /\ \E r \in Recharges : /\ recharge'[r].paid = recharge[r].paid
                                   /\ \A s \in Recharges \ {r} : recharge'[s] = recharge[s]
           /\ \A q \in Clients \ {p} : client'[q] = client[q]
<1>1. p \in Clients /\ client[p] \in ClientRow /\ ClientShape(client[p])
  BY ClientsFinite DEF WalletShape
<1>2. PICK r \in client[p].recharge :
         /\ client[p].pc = "note" /\ Ends(p)
         /\ recharge' = [recharge EXCEPT ![r].refund = client[p].refund, ![r].status = "waiting"]
         /\ UNCHANGED <<wallet, txn, rechargeRefunds, settled, resettled, adjusted, walletFaults>>
  BY DEF NoteRefund
<1>3. r \in Recharges /\ client[p].refund \in 0..MaxRefundTries
  BY <1>1 DEF ClientRow
<1>4. PICK f : f = recharge /\ f \in [Recharges -> [paid : BOOLEAN, refund : 0..MaxRefundTries,
                                          status : {"none", "waiting", "success", "failure"}]]
  BY DEF WalletShape, WalletRows
<1>5. /\ recharge' \in [Recharges -> [paid : BOOLEAN, refund : 0..MaxRefundTries,
                                      status : {"none", "waiting", "success", "failure"}]]
      /\ recharge'[r].paid = recharge[r].paid
      /\ \A s \in Recharges \ {r} : recharge'[s] = recharge[s]
  <2>1. PICK k \in 0..MaxRefundTries : k = client[p].refund
    BY <1>3
  <2> DEFINE row == [paid : BOOLEAN, refund : 0..MaxRefundTries,
                     status : {"none", "waiting", "success", "failure"}]
  <2>2. recharge' = [f EXCEPT ![r].refund = k, ![r].status = "waiting"]
    BY <1>2, <1>4, <2>1
  <2>3. PICK new : new = [f[r] EXCEPT !.refund = k, !.status = "waiting"]
    OBVIOUS
  <2>4. new \in row /\ new.paid = f[r].paid
    BY <1>3, <1>4, <2>3
  <2>5. recharge' = [f EXCEPT ![r] = new]
    BY <2>2, <2>3
  <2>6. f \in [Recharges -> row] /\ f = recharge
    BY <1>4
  <2> HIDE DEF row
  <2>7. /\ recharge' \in [Recharges -> row] /\ recharge'[r] = new
        /\ \A s \in Recharges \ {r} : recharge'[s] = recharge[s]
    BY <1>3, <2>4, <2>5, <2>6
  <2> QED BY <2>4, <2>6, <2>7 DEF row
<1>6. WalletRows'
  BY <1>2, <1>5 DEF WalletShape, WalletRows
<1> QED BY <1>2, <1>3, <1>5, <1>6, RestingIsRow, ClientMoves DEF Ends

LEMMA ClientAtWork ==
    ASSUME WalletShape, NEW p \in Clients, client[p].pc \in {"settle", "logRefund", "status"}
    PROVE  /\ client[p] \in ClientRow /\ ClientShape(client[p])
           /\ client[p].refund \in 1..MaxRefundTries /\ client[p].end \in {"success", "failure"}
           /\ \E r \in Recharges : client[p].recharge = {r}
<1>1. client[p] \in ClientRow /\ ClientShape(client[p])
  BY DEF WalletShape
<1>2. /\ client[p].refund \in 0..MaxRefundTries /\ client[p].refund # 0
      /\ client[p].end \in {"none", "success", "failure"} /\ client[p].end # "none"
  BY <1>1 DEF ClientRow, ClientShape
<1>3. client[p].refund \in 1..MaxRefundTries
  BY <1>2, WalletAssumption
<1> QED BY <1>1, <1>2, <1>3 DEF ClientShape

LEMMA SettleDoes ==
    ASSUME WalletShape, NEW r \in Recharges, NEW i \in 1..MaxRefundTries, Settle(r, i)
    PROVE  settled' \subseteq AllRefunds /\ resettled' \in Nat
BY DEF Settle, WalletShape, WalletRows, AllRefunds

LEMMA RefundedReadDoes ==
    ASSUME WalletShape, NEW p \in Clients, NEW r \in Recharges,
           NEW i \in DOMAIN rechargeRefunds[r], RefundedRead(p, r, i)
    PROVE  /\ WalletShape'
           /\ client[p].pc = "idle"
           /\ client'[p].pc = "settle" /\ client'[p].recharge = {r}
           /\ client'[p].refund = recharge[r].refund
           /\ \A q \in Clients \ {p} : client'[q] = client[q]
<1>1. /\ client[p].pc = "idle" /\ recharge[r].refund = i
      /\ rechargeRefunds[r][i] # "waiting"
      /\ Moving(p, [Resting EXCEPT !.pc = "settle", !.recharge = {r}, !.refund = i,
                                        !.end = rechargeRefunds[r][i]])
      /\ UNCHANGED <<wallet, txn, recharge, rechargeRefunds, settled, resettled, adjusted, walletFaults>>
  BY DEF RefundedRead
<1>2. /\ recharge[r].refund \in 0..MaxRefundTries
      /\ rechargeRefunds[r] \in Seq({"waiting", "success", "failure"})
  BY DEF WalletShape, WalletRows
<1>3. i \in 0..MaxRefundTries /\ i # 0 /\ rechargeRefunds[r][i] \in {"success", "failure"}
  BY <1>1, <1>2
<1>4. PICK end \in {"success", "failure"} : end = rechargeRefunds[r][i]
  BY <1>3
<1> DEFINE c == [Resting EXCEPT !.pc = "settle", !.recharge = {r}, !.refund = i, !.end = end]
<1>5. Moving(p, c)
  BY <1>1, <1>4
<1>6. /\ c \in ClientRow /\ c.pc = "settle" /\ c.recharge = {r} /\ c.refund = i /\ c.end = end
  BY <1>3, RestingIsRow DEF ClientRow
<1> HIDE DEF c
<1>7. ClientShape(c)
  BY <1>3, <1>4, <1>6 DEF ClientShape
<1>8. WalletRows'
  BY <1>1 DEF WalletShape, WalletRows
<1> QED BY <1>1, <1>5, <1>6, <1>7, <1>8, ClientMoves

LEMMA TakeFrozenDoes ==
    ASSUME WalletShape, NEW p \in Clients, TakeFrozen(p)
    PROVE  /\ WalletShape'
           /\ client[p].pc = "settle" /\ client'[p].pc = "logRefund"
           /\ \E r \in Recharges : client[p].recharge = {r} /\ Settle(r, client[p].refund)
           /\ wallet'.balance = wallet.balance /\ wallet'.frozen = wallet.frozen - Total
           /\ wallet'.recharged = wallet.recharged - Total /\ wallet'.expense = wallet.expense
           /\ \A q \in Clients \ {p} : client'[q] = client[q]
<1> DEFINE c == [client[p] EXCEPT !.pc = "logRefund"]
<1>1. /\ client[p].pc = "settle" /\ Moving(p, c)
      /\ \E r \in client[p].recharge : Settle(r, client[p].refund)
      /\ wallet' = [wallet EXCEPT !.frozen = @ - Total, !.recharged = @ - Total]
      /\ UNCHANGED <<txn, recharge, rechargeRefunds, adjusted, walletFaults>>
  BY DEF TakeFrozen, AfterTake
<1>7. PICK r \in Recharges : client[p].recharge = {r} /\ Settle(r, client[p].refund)
  BY <1>1, ClientAtWork
<1>8. settled' \subseteq AllRefunds /\ resettled' \in Nat
  BY <1>1, <1>7, ClientAtWork, SettleDoes
<1>2. /\ c \in ClientRow /\ c.pc = "logRefund" /\ c.recharge = client[p].recharge
      /\ c.refund = client[p].refund /\ c.end = client[p].end
  BY <1>1, ClientAtWork DEF ClientRow
<1> HIDE DEF c
<1>3. ClientShape(c)
  BY <1>1, <1>2, ClientAtWork DEF ClientShape
<1>4. PICK old \in [balance : Int, frozen : Int, recharged : Int, expense : Nat] : old = wallet
  BY DEF WalletShape, WalletRows
<1>5. /\ wallet' \in [balance : Int, frozen : Int, recharged : Int, expense : Nat]
      /\ wallet'.balance = wallet.balance /\ wallet'.frozen = wallet.frozen - Total
      /\ wallet'.recharged = wallet.recharged - Total /\ wallet'.expense = wallet.expense
  <2>1. wallet' = [old EXCEPT !.frozen = old.frozen - Total, !.recharged = old.recharged - Total]
    BY <1>1, <1>4
  <2>2. old.frozen - Total \in Int /\ old.recharged - Total \in Int
    BY ClientsFinite
  <2> QED BY <1>4, <2>1, <2>2
<1>6. WalletRows'
  BY <1>1, <1>5, <1>8 DEF WalletShape, WalletRows
<1> QED BY <1>1, <1>2, <1>3, <1>5, <1>6, <1>7, ClientMoves

LEMMA LogRefundDoes ==
    ASSUME WalletShape, NEW p \in Clients, LogRefund(p)
    PROVE  /\ WalletShape'
           /\ client[p].pc = "logRefund" /\ client'[p].pc = "status"
           /\ txn'.credit = txn.credit /\ txn'.adjust = txn.adjust
           /\ \/ walletFaults' > 0
              \/ /\ walletFaults' = walletFaults
                 /\ \E r \in Recharges : /\ txn'.refund[r] = txn.refund[r] + 1
                                         /\ \A s \in Recharges \ {r} : txn'.refund[s] = txn.refund[s]
           /\ \A q \in Clients \ {p} : client'[q] = client[q]
<1> DEFINE c == [client[p] EXCEPT !.pc = "status"]
<1>1. PICK r \in client[p].recharge :
         /\ client[p].pc = "logRefund" /\ Moving(p, c)
         /\ \/ txn' = [txn EXCEPT !.refund[r] = @ + 1] /\ UNCHANGED walletFaults
            \/ /\ walletFaults < MaxWalletFaults /\ walletFaults' = walletFaults + 1
               /\ UNCHANGED txn
         /\ UNCHANGED <<wallet, recharge, rechargeRefunds, settled, resettled, adjusted>>
  BY DEF LogRefund
<1>2. /\ c \in ClientRow /\ c.pc = "status" /\ c.recharge = client[p].recharge
      /\ c.refund = client[p].refund /\ c.end = client[p].end
  BY <1>1, ClientAtWork DEF ClientRow
<1>3. r \in Recharges
  BY <1>1, ClientAtWork DEF ClientRow
<1> HIDE DEF c
<1>4. ClientShape(c)
  BY <1>1, <1>2, ClientAtWork DEF ClientShape
<1>5. /\ txn \in [credit : [Recharges -> Nat], refund : [Recharges -> Nat], adjust : Int]
      /\ walletFaults \in 0..MaxWalletFaults
  BY DEF WalletShape, WalletRows
<1>6. /\ txn' \in [credit : [Recharges -> Nat], refund : [Recharges -> Nat], adjust : Int]
      /\ txn'.credit = txn.credit /\ txn'.adjust = txn.adjust
      /\ walletFaults' \in 0..MaxWalletFaults
      /\ \/ walletFaults' > 0
         \/ /\ walletFaults' = walletFaults
            /\ txn'.refund[r] = txn.refund[r] + 1
            /\ \A s \in Recharges \ {r} : txn'.refund[s] = txn.refund[s]
  <2>1. CASE txn' = [txn EXCEPT !.refund[r] = @ + 1] /\ UNCHANGED walletFaults
    BY <1>3, <1>5, <2>1
  <2>2. CASE /\ walletFaults < MaxWalletFaults /\ walletFaults' = walletFaults + 1
             /\ UNCHANGED txn
    BY <1>5, <2>2, WalletAssumption
  <2> QED BY <1>1, <2>1, <2>2
<1>7. WalletRows'
  BY <1>1, <1>6 DEF WalletShape, WalletRows
<1> QED BY <1>1, <1>2, <1>3, <1>4, <1>6, <1>7, ClientMoves

LEMMA UnfreezePriceDoes ==
    ASSUME WalletShape, NEW p \in Clients, UnfreezePrice(p)
    PROVE  /\ WalletShape'
           /\ client[p].pc = "settle"
           /\ \/ client'[p].pc = "idle" /\ UNCHANGED <<wallet, settled, resettled>>
              \/ /\ client'[p].pc = "status"
                 /\ \E r \in Recharges : client[p].recharge = {r} /\ Settle(r, client[p].refund)
                 /\ wallet'.balance = wallet.balance + Total /\ wallet'.frozen = wallet.frozen - Total
                 /\ wallet'.recharged = wallet.recharged /\ wallet'.expense = wallet.expense
           /\ \A q \in Clients \ {p} : client'[q] = client[q]
<1>1. /\ client[p].pc = "settle"
      /\ UNCHANGED <<txn, recharge, rechargeRefunds, adjusted, walletFaults>>
  BY DEF UnfreezePrice
<1>2. CASE wallet.frozen >= Total
  <2> DEFINE c == [client[p] EXCEPT !.pc = "status"]
  <2>1. /\ Moving(p, c) /\ \E r \in client[p].recharge : Settle(r, client[p].refund)
        /\ wallet' = [wallet EXCEPT !.balance = @ + Total, !.frozen = @ - Total]
    BY <1>2 DEF UnfreezePrice
  <2>2. /\ c \in ClientRow /\ c.pc = "status" /\ c.recharge = client[p].recharge
        /\ c.refund = client[p].refund /\ c.end = client[p].end
    BY <1>1, ClientAtWork DEF ClientRow
  <2> HIDE DEF c
  <2>3. ClientShape(c)
    BY <1>1, <2>2, ClientAtWork DEF ClientShape
  <2>4. PICK old \in [balance : Int, frozen : Int, recharged : Int, expense : Nat] : old = wallet
    BY DEF WalletShape, WalletRows
  <2>5. /\ wallet' \in [balance : Int, frozen : Int, recharged : Int, expense : Nat]
        /\ wallet'.balance = wallet.balance + Total /\ wallet'.frozen = wallet.frozen - Total
        /\ wallet'.recharged = wallet.recharged /\ wallet'.expense = wallet.expense
    <3>1. wallet' = [old EXCEPT !.balance = old.balance + Total, !.frozen = old.frozen - Total]
      BY <2>1, <2>4
    <3>2. old.balance + Total \in Int /\ old.frozen - Total \in Int
      BY ClientsFinite
    <3> QED BY <2>4, <3>1, <3>2
  <2>7. PICK r \in Recharges : client[p].recharge = {r} /\ Settle(r, client[p].refund)
    BY <1>1, <2>1, ClientAtWork
  <2>8. settled' \subseteq AllRefunds /\ resettled' \in Nat
    BY <1>1, <2>7, ClientAtWork, SettleDoes
  <2>6. WalletRows'
    BY <1>1, <2>5, <2>8 DEF WalletShape, WalletRows
  <2> QED BY <1>1, <2>1, <2>2, <2>3, <2>5, <2>6, <2>7, ClientMoves
<1>3. CASE ~(wallet.frozen >= Total)
  <2>1. Moving(p, Resting) /\ UNCHANGED <<wallet, settled, resettled>>
    BY <1>3 DEF UnfreezePrice, Ends
  <2>2. WalletRows'
    BY <1>1, <2>1 DEF WalletShape, WalletRows
  <2> QED BY <1>1, <2>1, <2>2, RestingIsRow, ClientMoves
<1> QED BY <1>2, <1>3

LEMMA WriteRefundStatusDoes ==
    ASSUME WalletShape, NEW p \in Clients, WriteRefundStatus(p)
    PROVE  /\ WalletShape'
           /\ client[p].pc = "status" /\ client'[p] = Resting
           /\ \A s \in Recharges : /\ recharge'[s].paid = recharge[s].paid
                                   /\ recharge'[s].refund = recharge[s].refund
           /\ \A q \in Clients \ {p} : client'[q] = client[q]
<1>1. PICK r \in client[p].recharge :
         /\ client[p].pc = "status" /\ Ends(p)
         /\ recharge' = [recharge EXCEPT ![r].status = client[p].end]
         /\ UNCHANGED <<wallet, txn, rechargeRefunds, settled, resettled, adjusted, walletFaults>>
  BY DEF WriteRefundStatus
<1>2. r \in Recharges /\ client[p].end \in {"success", "failure"}
  BY <1>1, ClientAtWork
<1>3. /\ recharge' \in [Recharges -> [paid : BOOLEAN, refund : 0..MaxRefundTries,
                                      status : {"none", "waiting", "success", "failure"}]]
      /\ \A s \in Recharges : /\ recharge'[s].paid = recharge[s].paid
                              /\ recharge'[s].refund = recharge[s].refund
  <2>1. PICK e \in {"success", "failure"} : e = client[p].end
    BY <1>2
  <2>2. PICK f : f = recharge /\ f \in [Recharges -> [paid : BOOLEAN, refund : 0..MaxRefundTries,
                                            status : {"none", "waiting", "success", "failure"}]]
    BY DEF WalletShape, WalletRows
  <2>3. recharge' = [f EXCEPT ![r].status = e]
    BY <1>1, <2>1, <2>2
  <2> QED BY <1>2, <2>2, <2>3
<1>5. WalletRows'
  BY <1>1, <1>3 DEF WalletShape, WalletRows
<1> QED BY <1>1, <1>2, <1>3, <1>5, RestingIsRow, ClientMoves DEF Ends

LEMMA WalletFailDoes ==
    ASSUME WalletShape, NEW p \in Clients, WalletFail(p)
    PROVE  /\ WalletShape'
           /\ walletFaults' > 0 /\ client'[p] = Resting
           /\ \A q \in Clients \ {p} : client'[q] = client[q]
<1>1. /\ Moving(p, Resting)
      /\ walletFaults < MaxWalletFaults /\ walletFaults' = walletFaults + 1
      /\ UNCHANGED <<wallet, txn, recharge, rechargeRefunds, settled, resettled, adjusted>>
  BY DEF WalletFail, Ends
<1>2. walletFaults' \in 0..MaxWalletFaults /\ walletFaults' > 0
  BY <1>1, WalletAssumption DEF WalletShape, WalletRows
<1>3. WalletRows'
  BY <1>1, <1>2 DEF WalletShape, WalletRows
<1> QED BY <1>1, <1>2, <1>3, RestingIsRow, ClientMoves

LEMMA SettleRefundDoes ==
    ASSUME WalletShape, NEW r \in Recharges, NEW i \in DOMAIN rechargeRefunds[r], SettleRefund(r, i)
    PROVE  /\ WalletShape'
           /\ UNCHANGED <<wallet, txn, recharge, settled, resettled, adjusted, walletFaults, client>>
<1>1. PICK end \in {"success", "failure"} :
         /\ rechargeRefunds' = [rechargeRefunds EXCEPT ![r][i] = end]
         /\ UNCHANGED <<wallet, txn, recharge, settled, resettled, adjusted, walletFaults, client>>
  BY DEF SettleRefund
<1>2. rechargeRefunds \in [Recharges -> Seq({"waiting", "success", "failure"})]
  BY DEF WalletShape, WalletRows
<1>3. [rechargeRefunds[r] EXCEPT ![i] = end] \in Seq({"waiting", "success", "failure"})
  BY <1>2
<1>4. rechargeRefunds' \in [Recharges -> Seq({"waiting", "success", "failure"})]
  BY <1>1, <1>2, <1>3
<1>5. WalletRows'
  BY <1>1, <1>4 DEF WalletShape, WalletRows
<1> QED BY <1>1, <1>5 DEF WalletShape

-----------------------------------------------------------------------------
(* A recharge is credited once.                                             *)

CreditInHand(c, r) == c.pc \in {"add", "log"} /\ c.recharge = {r}

LEMMA CreditingFinite == \A r : IsFiniteSet(Crediting(r)) /\ Cardinality(Crediting(r)) \in Nat
<1>1. \A r : Crediting(r) \subseteq Clients
  BY DEF Crediting
<1> QED BY <1>1, ClientsFinite, FS_Subset, FS_CardinalityType

LEMMA CreditingStays ==
    ASSUME NEW p \in Clients, \A q \in Clients \ {p} : client'[q] = client[q],
           NEW r, CreditInHand(client[p], r) <=> CreditInHand(client'[p], r)
    PROVE  Crediting(r)' = Crediting(r)
BY ClientsFinite DEF Crediting, CreditInHand

LEMMA CreditedOnceStays ==
    ASSUME CreditedOnce, txn'.credit = txn.credit,
           \A r \in Recharges : recharge'[r].paid = recharge[r].paid,
           \A r \in Recharges : Crediting(r)' = Crediting(r),
           walletFaults' = 0 => walletFaults = 0
    PROVE  CreditedOnce'
BY DEF CreditedOnce

LEMMA CreditedByInsert ==
    ASSUME WalletShape, CreditedOnce, NEW p \in Clients, CreateWalletTransaction(p)
    PROVE  CreditedOnce'
<1>1. /\ WalletShape' /\ client[p].pc = "log" /\ client'[p] = Resting
      /\ \A q \in Clients \ {p} : client'[q] = client[q]
  BY CreateWalletTransactionDoes, ClientsFinite
<1>2. /\ UNCHANGED <<recharge, walletFaults>>
      /\ \A r : ~CreditInHand(client'[p], r)
  BY <1>1, RestingIsRow DEF CreateWalletTransaction, CreditInHand
<1>3. CASE client[p].recharge = {} /\ txn'.credit = txn.credit
  <2>1. \A r : ~CreditInHand(client[p], r)
    BY <1>3 DEF CreditInHand
  <2>2. \A r \in Recharges : Crediting(r)' = Crediting(r)
    BY <1>1, <1>2, <2>1, CreditingStays
  <2> QED BY <1>2, <1>3, <2>2, CreditedOnceStays
<1>4. CASE \E r \in Recharges : /\ client[p].recharge = {r}
                                /\ txn'.credit[r] = txn.credit[r] + 1
                                /\ \A s \in Recharges \ {r} : txn'.credit[s] = txn.credit[s]
  <2>1. PICK r \in Recharges : /\ client[p].recharge = {r}
                               /\ txn'.credit[r] = txn.credit[r] + 1
                               /\ \A s \in Recharges \ {r} : txn'.credit[s] = txn.credit[s]
    BY <1>4
  <2>2. \A s \in Recharges \ {r} : Crediting(s)' = Crediting(s)
    <3>1. \A s \in Recharges \ {r} : ~CreditInHand(client[p], s)
      BY <2>1 DEF CreditInHand
    <3> QED BY <1>1, <1>2, <3>1, CreditingStays
  <2>3. p \in Crediting(r) /\ Crediting(r)' = Crediting(r) \ {p}
    BY <1>1, <1>2, <2>1, ClientsFinite, ZenonT(40) DEF Crediting, CreditInHand
  <2>4. Cardinality(Crediting(r)') = Cardinality(Crediting(r)) - 1
    BY <2>3, CreditingFinite, FS_RemoveElement
  <2>5. txn.credit[r] \in Nat /\ Cardinality(Crediting(r)) \in Nat
    BY CreditingFinite DEF WalletShape, WalletRows
  <2>6. txn'.credit[r] + Cardinality(Crediting(r)') = txn.credit[r] + Cardinality(Crediting(r))
    BY <2>1, <2>4, <2>5
  <2> QED BY <1>2, <2>1, <2>2, <2>6 DEF CreditedOnce
<1> QED BY <1>3, <1>4, CreateWalletTransactionDoes

LEMMA CreditedByPayment ==
    ASSUME WalletShape, CreditedOnce, NEW p \in Clients, RechargePaidUpdate(p)
    PROVE  CreditedOnce'
<1>1. /\ WalletShape' /\ client[p].pc = "paid"
      /\ \A q \in Clients \ {p} : client'[q] = client[q]
      /\ \A r : ~CreditInHand(client[p], r)
  BY RechargePaidUpdateDoes, ClientsFinite DEF CreditInHand
<1>2. UNCHANGED <<txn, walletFaults>>
  BY DEF RechargePaidUpdate
<1>3. CASE client'[p] = Resting /\ recharge' = recharge
  <2>1. \A r : ~CreditInHand(client'[p], r)
    BY <1>3, RestingIsRow DEF CreditInHand
  <2>2. \A r \in Recharges : Crediting(r)' = Crediting(r)
    BY <1>1, <2>1, CreditingStays
  <2> QED BY <1>2, <1>3, <2>2, CreditedOnceStays
<1>4. ASSUME NEW r \in Recharges,
             ~recharge[r].paid, recharge'[r].paid,
             \A s \in Recharges \ {r} : recharge'[s] = recharge[s],
             client'[p].pc = "add", client'[p].recharge = {r}
      PROVE  CreditedOnce'
  <2>1. \A s \in Recharges \ {r} : Crediting(s)' = Crediting(s)
    <3>1. \A s \in Recharges \ {r} : ~CreditInHand(client'[p], s)
      BY <1>4 DEF CreditInHand
    <3> QED BY <1>1, <3>1, CreditingStays
  <2>2. p \notin Crediting(r) /\ Crediting(r)' = Crediting(r) \cup {p}
    BY <1>1, <1>4, ClientsFinite DEF Crediting, CreditInHand
  <2>3. Cardinality(Crediting(r)') = Cardinality(Crediting(r)) + 1
    BY <2>2, CreditingFinite, FS_AddElement
  <2>4. txn.credit[r] \in Nat /\ Cardinality(Crediting(r)) \in Nat
    BY CreditingFinite DEF WalletShape, WalletRows
  <2>5. txn.credit[r] + Cardinality(Crediting(r)) <= 0
    BY <1>4 DEF CreditedOnce
  <2>6. txn.credit[r] + Cardinality(Crediting(r)') = 1
    BY <2>3, <2>4, <2>5
  <2> QED BY <1>2, <1>4, <2>1, <2>6 DEF CreditedOnce
<1> QED BY <1>3, <1>4, RechargePaidUpdateDoes

LEMMA CreditedThroughFaults ==
    ASSUME WalletShape, CreditedOnce, NEW p \in Clients, WalletFail(p)
    PROVE  CreditedOnce'
<1>1. /\ walletFaults' > 0 /\ client'[p] = Resting
      /\ \A q \in Clients \ {p} : client'[q] = client[q]
      /\ UNCHANGED <<txn, recharge>>
  BY WalletFailDoes DEF WalletFail
<1>2. \A r \in Recharges : Crediting(r)' \subseteq Crediting(r)
  BY <1>1, RestingIsRow, ClientsFinite DEF Crediting
<1>3. \A r \in Recharges : Cardinality(Crediting(r)') <= Cardinality(Crediting(r))
  BY <1>2, CreditingFinite, FS_Subset
<1>4. \A r \in Recharges : /\ Cardinality(Crediting(r)') \in Nat /\ Cardinality(Crediting(r)) \in Nat
                           /\ txn.credit[r] \in Nat
  <2>1. \A r \in Recharges : IsFiniteSet(Crediting(r)')
    BY <1>2, CreditingFinite, FS_Subset
  <2> QED BY <2>1, CreditingFinite, FS_CardinalityType DEF WalletShape, WalletRows
<1>5. walletFaults' # 0
  BY <1>1
<1>6. \A r \in Recharges : txn.credit[r] + Cardinality(Crediting(r)') <= (IF recharge[r].paid THEN 1 ELSE 0)
  BY <1>3, <1>4 DEF CreditedOnce
<1> QED BY <1>1, <1>5, <1>6 DEF CreditedOnce

\* The steps that neither begin nor end a credit.
OtherSteps(p) ==
    \/ AddBalance(p) \/ FreezePrice(p) \/ AskRefund(p) \/ NoteRefund(p)
    \/ \E a \in Adjustments : UpdateWalletBalance(p, a)
    \/ \E r \in Recharges : \/ RechargePaidRead(p, r) \/ RefundRechargeRead(p, r)
                            \/ \E i \in DOMAIN rechargeRefunds[r] : RefundedRead(p, r, i)
    \/ TakeFrozen(p) \/ LogRefund(p) \/ UnfreezePrice(p) \/ WriteRefundStatus(p)

LEMMA OtherStepsDo ==
    ASSUME WalletShape, NEW p \in Clients, OtherSteps(p)
    PROVE  /\ WalletShape' /\ \A q \in Clients \ {p} : client'[q] = client[q]
           /\ \/ client[p].pc \notin {"add", "log"} /\ client'[p].pc \notin {"add", "log"}
              \/ /\ client[p].pc = "add" /\ client'[p].pc = "log"
                 /\ client'[p].recharge = client[p].recharge
              \/ client[p].pc = "idle" /\ client'[p].pc = "add" /\ client'[p].recharge = {}
<1>1. CASE TakeFrozen(p) \/ LogRefund(p) \/ UnfreezePrice(p) \/ WriteRefundStatus(p)
  BY <1>1, RestingIsRow, TakeFrozenDoes, LogRefundDoes, UnfreezePriceDoes, WriteRefundStatusDoes
<1>2. CASE FreezePrice(p) \/ AskRefund(p) \/ NoteRefund(p)
  BY <1>2, RestingIsRow, FreezePriceDoes, AskRefundDoes, NoteRefundDoes
<1>3. CASE AddBalance(p) \/ \E a \in Adjustments : UpdateWalletBalance(p, a)
  BY <1>3, AddBalanceDoes, UpdateWalletBalanceDoes
<1>4. CASE \E r \in Recharges : \/ RechargePaidRead(p, r) \/ RefundRechargeRead(p, r)
                                \/ \E i \in DOMAIN rechargeRefunds[r] : RefundedRead(p, r, i)
  BY <1>4, RechargePaidReadDoes, RefundRechargeReadDoes, RefundedReadDoes
<1> QED BY <1>1, <1>2, <1>3, <1>4 DEF OtherSteps

LEMMA CreditedElsewhere ==
    ASSUME WalletShape, CreditedOnce, NEW p \in Clients, OtherSteps(p)
    PROVE  CreditedOnce'
<1>1. txn'.credit = txn.credit /\ (walletFaults' = 0 => walletFaults = 0)
  <2>1. CASE LogRefund(p)
    <3>1. walletFaults' > 0 => walletFaults' # 0
      OBVIOUS
    <3> QED BY <2>1, <3>1, LogRefundDoes
  <2>2. CASE ~LogRefund(p)
    BY <2>2 DEF OtherSteps, AddBalance, FreezePrice, AskRefund, NoteRefund, UpdateWalletBalance,
           RechargePaidRead, RefundRechargeRead, RefundedRead, TakeFrozen, UnfreezePrice,
           WriteRefundStatus
  <2> QED BY <2>1, <2>2
<1>2. \A r \in Recharges : recharge'[r].paid = recharge[r].paid
  <2>1. CASE NoteRefund(p) \/ WriteRefundStatus(p)
    BY <2>1, NoteRefundDoes, WriteRefundStatusDoes
  <2>2. CASE ~(NoteRefund(p) \/ WriteRefundStatus(p))
    BY <2>2 DEF OtherSteps, AddBalance, FreezePrice, AskRefund, UpdateWalletBalance, RechargePaidRead,
           RefundRechargeRead, RefundedRead, TakeFrozen, LogRefund, UnfreezePrice
  <2> QED BY <2>1, <2>2
<1>3. \A r \in Recharges : CreditInHand(client[p], r) <=> CreditInHand(client'[p], r)
  BY OtherStepsDo DEF CreditInHand
<1>4. \A r \in Recharges : Crediting(r)' = Crediting(r)
  BY <1>3, OtherStepsDo, CreditingStays
<1> QED BY <1>1, <1>2, <1>4, CreditedOnceStays

-----------------------------------------------------------------------------
(* The rows explain the wallet: a step changes what is owed to the rows at    *)
(* one client, and what the rows are worth at one recharge.                  *)

WorthOfRows == SumFunctionOnSet([r \in Recharges |-> Worth(r)], Recharges)

LEMMA OwedIsInt == ASSUME WalletShape PROVE \A p \in Clients : ToLog(p) \in Int
BY ClientsFinite DEF WalletShape, ClientRow, ToLog

LEMMA UnloggedMoves ==
    ASSUME WalletShape, WalletShape', NEW p \in Clients, \A q \in Clients \ {p} : client'[q] = client[q],
           NEW i \in Int, NEW j \in Int, ToLog(p) = i, ToLog(p)' = j
    PROVE  /\ Unlogged' = Unlogged + (j - i)
           /\ Unlogged \in Int
<1> DEFINE f == [q \in Clients |-> ToLog(q)]
           g == [q \in Clients |-> ToLog(q)']
<1>1. \A q \in Clients : ToLog(q) \in Int
  BY OwedIsInt
<1>2. \A q \in Clients \ {p} : ToLog(q)' = ToLog(q)
  BY DEF ToLog
<1>3. \A q \in Clients : f[q] \in Int /\ g[q] \in Int
  BY <1>1, <1>2
<1>4. f[p] = i /\ g[p] = j /\ \A q \in Clients \ {p} : f[q] = g[q]
  BY <1>2
<1>5. Unlogged = SumFunctionOnSet(f, Clients) /\ Unlogged' = SumFunctionOnSet(g, Clients)
  BY DEF Unlogged
<1> HIDE DEF f, g
<1>6. SumFunctionOnSet(f, Clients) \in Int
  BY <1>3, ClientsFinite, SumIsInt
<1>7. SumFunctionOnSet(g, Clients) = SumFunctionOnSet(f, Clients) + (g[p] - f[p])
  BY <1>3, <1>4, ClientsFinite, SumChange
<1> QED BY <1>4, <1>5, <1>6, <1>7

LEMMA WorthIsInt ==
    ASSUME WalletShape PROVE WorthOfRows \in Int /\ \A r \in Recharges : Worth(r) \in Int
<1> DEFINE f == [r \in Recharges |-> Worth(r)]
<1>1. \A r \in Recharges : Worth(r) \in Int
  <2>1. TAKE r \in Recharges
  <2>2. txn.credit[r] \in Nat /\ txn.refund[r] \in Nat
    BY DEF WalletShape, WalletRows
  <2>3. PICK d \in Int : d = txn.credit[r] - txn.refund[r]
    BY <2>2
  <2>4. Total * d \in Int
    BY ClientsFinite
  <2> QED BY <2>3, <2>4 DEF Worth
<1>2. \A r \in Recharges : f[r] \in Int
  BY <1>1
<1>3. WorthOfRows = SumFunctionOnSet(f, Recharges)
  BY DEF WorthOfRows
<1> HIDE DEF f
<1> QED BY <1>1, <1>2, <1>3, ClientsFinite, SumIsInt

LEMMA WorthStays ==
    ASSUME txn'.credit = txn.credit, txn'.refund = txn.refund PROVE WorthOfRows' = WorthOfRows
BY DEF WorthOfRows, Worth

LEMMA WorthMoves ==
    ASSUME WalletShape, WalletShape', NEW r \in Recharges, NEW k \in {-1, 1},
           txn'.credit[r] - txn'.refund[r] = txn.credit[r] - txn.refund[r] + k,
           \A s \in Recharges \ {r} : /\ txn'.credit[s] = txn.credit[s]
                                      /\ txn'.refund[s] = txn.refund[s]
    PROVE  WorthOfRows' = WorthOfRows + k * Total
<1> DEFINE f == [s \in Recharges |-> Worth(s)]
           g == [s \in Recharges |-> Worth(s)']
<1>1. \A s \in Recharges \ {r} : Worth(s)' = Worth(s)
  BY DEF Worth
<1>2. \A s \in Recharges : Worth(s) \in Int
  BY WorthIsInt
<1>3. PICK i \in Int : i = Worth(r)
  BY <1>2
<1>4. Worth(r)' = i + k * Total
  <2>1. txn.credit[r] \in Nat /\ txn.refund[r] \in Nat
    BY DEF WalletShape, WalletRows
  <2>2. PICK d \in Int : d = txn.credit[r] - txn.refund[r]
    BY <2>1
  <2>3. Worth(r)' = Total * (d + k) /\ i = Total * d
    BY <1>3, <2>2 DEF Worth
  <2>4. CASE k = 1
    <3>1. Total * (d + 1) = Total * d + Total
      BY ClientsFinite
    <3> QED BY <2>3, <2>4, <3>1, ClientsFinite
  <2>5. CASE k = -1
    <3>1. Total * (d - 1) = Total * d - Total
      BY ClientsFinite
    <3> QED BY <2>3, <2>5, <3>1, ClientsFinite
  <2> QED BY <2>4, <2>5
<1>5. PICK j \in Int : j = k * Total
  BY ClientsFinite
<1>6. /\ f[r] = i /\ g[r] = i + j /\ \A s \in Recharges \ {r} : f[s] = g[s]
      /\ \A s \in Recharges : f[s] \in Int /\ g[s] \in Int
  BY <1>1, <1>2, <1>3, <1>4, <1>5
<1>7. WorthOfRows = SumFunctionOnSet(f, Recharges) /\ WorthOfRows' = SumFunctionOnSet(g, Recharges)
  BY DEF WorthOfRows
<1> HIDE DEF f, g
<1>8. SumFunctionOnSet(g, Recharges) = SumFunctionOnSet(f, Recharges) + (g[r] - f[r])
  BY <1>6, ClientsFinite, SumChange
<1>9. g[r] - f[r] = j
  BY <1>6
<1> QED BY <1>5, <1>7, <1>8, <1>9

LEMMA ExplainedByStep ==
    ASSUME WalletShape, WalletShape', TransactionsExplain, walletFaults' = 0 => walletFaults = 0,
           NEW p \in Clients, \A q \in Clients \ {p} : client'[q] = client[q],
           NEW i \in Int, NEW j \in Int, ToLog(p) = i, ToLog(p)' = j,
           NEW b \in Int, NEW a \in Int, NEW w \in Int, b = a + w + (j - i),
           wallet'.balance + wallet'.frozen = wallet.balance + wallet.frozen + b,
           txn'.adjust = txn.adjust + a, WorthOfRows' = WorthOfRows + w
    PROVE  TransactionsExplain'
<1>1. Unlogged' = Unlogged + (j - i) /\ Unlogged \in Int
  BY UnloggedMoves
<1>2. Logged = txn.adjust + WorthOfRows /\ Logged' = txn'.adjust + WorthOfRows'
  BY DEF Logged, WorthOfRows
<1>3. /\ wallet.balance \in Int /\ wallet.frozen \in Int /\ txn.adjust \in Int /\ WorthOfRows \in Int
  BY WorthIsInt DEF WalletShape, WalletRows
<1>4. ASSUME walletFaults' = 0
      PROVE  wallet'.balance + wallet'.frozen = Logged' + Unlogged'
  <2>1. wallet.balance + wallet.frozen = txn.adjust + WorthOfRows + Unlogged
    BY <1>2, <1>4 DEF TransactionsExplain
  <2> QED BY <1>1, <1>2, <1>3, <2>1
<1> QED BY <1>4 DEF TransactionsExplain

\* A step after which the client owes the rows as much as before.
LEMMA ExplainedStill ==
    ASSUME WalletShape, WalletShape', TransactionsExplain, walletFaults' = 0 => walletFaults = 0,
           NEW p \in Clients, \A q \in Clients \ {p} : client'[q] = client[q],
           client[p].pc \notin {"log", "logRefund"}, client'[p].pc \notin {"log", "logRefund"},
           wallet'.balance + wallet'.frozen = wallet.balance + wallet.frozen, txn' = txn
    PROVE  TransactionsExplain'
<1>1. ToLog(p) = 0 /\ ToLog(p)' = 0
  BY DEF ToLog
<1>2. /\ wallet.balance + wallet.frozen \in Int /\ txn.adjust \in Int /\ WorthOfRows \in Int
  <2>1. wallet.balance \in Int /\ wallet.frozen \in Int /\ txn.adjust \in Int
    BY DEF WalletShape, WalletRows
  <2> QED BY <2>1, WorthIsInt
<1>3. WorthOfRows' = WorthOfRows
  BY WorthStays
<1>4. /\ wallet'.balance + wallet'.frozen = wallet.balance + wallet.frozen + 0
      /\ txn'.adjust = txn.adjust + 0 /\ WorthOfRows' = WorthOfRows + 0
  BY <1>2, <1>3
<1> QED BY <1>1, <1>4, ExplainedByStep

LEMMA ExplainedByClients ==
    ASSUME WalletShape, TransactionsExplain, NEW p \in Clients,
           \/ AddBalance(p) \/ CreateWalletTransaction(p) \/ RechargePaidUpdate(p)
           \/ FreezePrice(p) \/ AskRefund(p) \/ NoteRefund(p)
           \/ \E a \in Adjustments : UpdateWalletBalance(p, a)
           \/ \E r \in Recharges : RechargePaidRead(p, r) \/ RefundRechargeRead(p, r)
    PROVE  TransactionsExplain'
<1>1. CASE AddBalance(p)
  <2>1. /\ WalletShape' /\ UNCHANGED <<txn, walletFaults>>
        /\ \A q \in Clients \ {p} : client'[q] = client[q]
    BY <1>1, AddBalanceDoes DEF AddBalance
  <2>2. PICK a \in Int :
           /\ client[p].pc = "add" /\ client'[p].pc = "log"
           /\ client'[p].amount = a
           /\ wallet'.balance = wallet.balance + a /\ wallet'.frozen = wallet.frozen
    BY <1>1, AddBalanceDoes
  <2>3. ToLog(p) = 0 /\ ToLog(p)' = a
    BY <2>2 DEF ToLog
  <2>4. /\ wallet.balance \in Int /\ wallet.frozen \in Int /\ txn.adjust \in Int /\ WorthOfRows \in Int
    BY WorthIsInt DEF WalletShape, WalletRows
  <2>5. WorthOfRows' = WorthOfRows
    BY <2>1, WorthStays
  <2>6. /\ wallet'.balance + wallet'.frozen = wallet.balance + wallet.frozen + a
        /\ txn'.adjust = txn.adjust + 0 /\ WorthOfRows' = WorthOfRows + 0
        /\ a = 0 + 0 + (a - 0) /\ 0 \in Int
    BY <2>1, <2>2, <2>4, <2>5
  <2> QED BY <2>1, <2>3, <2>6, ExplainedByStep
<1>2. CASE CreateWalletTransaction(p)
  <2>1. /\ WalletShape' /\ UNCHANGED <<wallet, walletFaults>>
        /\ \A q \in Clients \ {p} : client'[q] = client[q]
        /\ client[p].pc = "log" /\ client'[p] = Resting
    BY <1>2, CreateWalletTransactionDoes DEF CreateWalletTransaction
  <2>2. PICK a \in Int :
           /\ client[p].amount = a
           /\ \/ /\ txn'.adjust = txn.adjust + a
                 /\ txn'.credit = txn.credit /\ txn'.refund = txn.refund
              \/ /\ a = Total /\ txn'.adjust = txn.adjust /\ txn'.refund = txn.refund
                 /\ \E r \in Recharges :
                       /\ txn'.credit[r] = txn.credit[r] + 1
                       /\ \A s \in Recharges \ {r} : txn'.credit[s] = txn.credit[s]
    BY <1>2, CreateWalletTransactionDoes
  <2>3. ToLog(p) = a /\ ToLog(p)' = 0
    BY <2>1, <2>2, RestingIsRow DEF ToLog
  <2>4. /\ txn.adjust \in Int /\ WorthOfRows \in Int
        /\ wallet'.balance + wallet'.frozen = wallet.balance + wallet.frozen + 0
    <3>1. /\ wallet.balance \in Int /\ wallet.frozen \in Int /\ txn.adjust \in Int
          /\ WorthOfRows \in Int
      BY WorthIsInt DEF WalletShape, WalletRows
    <3> QED BY <2>1, <3>1
  <2>5. CASE /\ txn'.adjust = txn.adjust + a
             /\ txn'.credit = txn.credit /\ txn'.refund = txn.refund
    <3>1. WorthOfRows' = WorthOfRows + 0
      BY <2>4, <2>5, WorthStays
    <3>2. 0 = a + 0 + (0 - a) /\ 0 \in Int
      OBVIOUS
    <3> QED BY <2>1, <2>3, <2>4, <2>5, <3>1, <3>2, ExplainedByStep
  <2>6. ASSUME NEW r \in Recharges,
               a = Total, txn'.adjust = txn.adjust, txn'.refund = txn.refund,
               txn'.credit[r] = txn.credit[r] + 1,
               \A s \in Recharges \ {r} : txn'.credit[s] = txn.credit[s]
        PROVE  TransactionsExplain'
    <3>1. txn'.credit[r] - txn'.refund[r] = txn.credit[r] - txn.refund[r] + 1
      <4>1. txn.credit[r] \in Nat /\ txn.refund[r] \in Nat
        BY DEF WalletShape, WalletRows
      <4> QED BY <2>6, <4>1
    <3>2. WorthOfRows' = WorthOfRows + 1 * Total
      BY <2>1, <2>6, <3>1, WorthMoves
    <3>3. /\ WorthOfRows' = WorthOfRows + a /\ txn'.adjust = txn.adjust + 0
          /\ 0 = 0 + a + (0 - a) /\ 0 \in Int
      BY <2>4, <2>6, <3>2, ClientsFinite
    <3> QED BY <2>1, <2>3, <2>4, <3>3, ExplainedByStep
  <2> QED BY <2>2, <2>5, <2>6
<1>3. CASE \/ RechargePaidUpdate(p) \/ FreezePrice(p) \/ AskRefund(p) \/ NoteRefund(p)
           \/ \E a \in Adjustments : UpdateWalletBalance(p, a)
           \/ \E r \in Recharges : RechargePaidRead(p, r) \/ RefundRechargeRead(p, r)
  <2>1. /\ WalletShape' /\ \A q \in Clients \ {p} : client'[q] = client[q]
        /\ client[p].pc \notin {"log", "logRefund"} /\ client'[p].pc \notin {"log", "logRefund"}
    BY <1>3, RestingIsRow, RechargePaidUpdateDoes, FreezePriceDoes, AskRefundDoes, NoteRefundDoes,
       UpdateWalletBalanceDoes, RechargePaidReadDoes, RefundRechargeReadDoes
  <2>2. UNCHANGED <<txn, walletFaults>>
    BY <1>3 DEF RechargePaidUpdate, FreezePrice, AskRefund, NoteRefund, UpdateWalletBalance,
           RechargePaidRead, RefundRechargeRead
  <2>3. wallet'.balance + wallet'.frozen = wallet.balance + wallet.frozen
    <3>1. CASE FreezePrice(p)
      <4>1. wallet.balance \in Int /\ wallet.frozen \in Int
        BY DEF WalletShape, WalletRows
      <4> QED BY <3>1, <4>1, FreezePriceDoes, ClientsFinite
    <3>2. CASE ~FreezePrice(p)
      BY <1>3, <3>2 DEF RechargePaidUpdate, AskRefund, NoteRefund, UpdateWalletBalance,
             RechargePaidRead, RefundRechargeRead
    <3> QED BY <3>1, <3>2
  <2> QED BY <2>1, <2>2, <2>3, ExplainedStill
<1> QED BY <1>1, <1>2, <1>3

LEMMA ExplainedBySettling ==
    ASSUME WalletShape, TransactionsExplain, NEW p \in Clients,
           \/ \E r \in Recharges : \E i \in DOMAIN rechargeRefunds[r] : RefundedRead(p, r, i)
           \/ TakeFrozen(p) \/ LogRefund(p) \/ UnfreezePrice(p) \/ WriteRefundStatus(p)
    PROVE  TransactionsExplain'
<1>1. CASE TakeFrozen(p)
  <2>1. /\ WalletShape' /\ UNCHANGED <<txn, walletFaults>>
        /\ \A q \in Clients \ {p} : client'[q] = client[q]
        /\ client[p].pc = "settle" /\ client'[p].pc = "logRefund"
        /\ wallet'.balance = wallet.balance /\ wallet'.frozen = wallet.frozen - Total
    BY <1>1, TakeFrozenDoes DEF TakeFrozen
  <2>2. PICK t \in Int : t = -Total
    BY ClientsFinite
  <2>3. ToLog(p) = 0 /\ ToLog(p)' = t
    BY <2>1, <2>2 DEF ToLog
  <2>4. /\ wallet.balance \in Int /\ wallet.frozen \in Int /\ txn.adjust \in Int /\ WorthOfRows \in Int
    BY WorthIsInt DEF WalletShape, WalletRows
  <2>5. WorthOfRows' = WorthOfRows
    BY <2>1, WorthStays
  <2>6. /\ wallet'.balance + wallet'.frozen = wallet.balance + wallet.frozen + t
        /\ txn'.adjust = txn.adjust + 0 /\ WorthOfRows' = WorthOfRows + 0
        /\ t = 0 + 0 + (t - 0) /\ 0 \in Int
    BY <2>1, <2>2, <2>4, <2>5, ClientsFinite
  <2> QED BY <2>1, <2>3, <2>6, ExplainedByStep
<1>2. CASE LogRefund(p)
  <2>1. /\ WalletShape' /\ UNCHANGED wallet
        /\ \A q \in Clients \ {p} : client'[q] = client[q]
        /\ client[p].pc = "logRefund" /\ client'[p].pc = "status"
        /\ txn'.credit = txn.credit /\ txn'.adjust = txn.adjust
    BY <1>2, LogRefundDoes DEF LogRefund
  <2>2. CASE walletFaults' > 0
    <3>1. walletFaults' # 0
      BY <2>2
    <3> QED BY <3>1 DEF TransactionsExplain
  <2>3. ASSUME walletFaults' = walletFaults, NEW r \in Recharges,
               txn'.refund[r] = txn.refund[r] + 1,
               \A s \in Recharges \ {r} : txn'.refund[s] = txn.refund[s]
        PROVE  TransactionsExplain'
    <3>1. PICK t \in Int : t = -Total
      BY ClientsFinite
    <3>2. ToLog(p) = t /\ ToLog(p)' = 0
      BY <2>1, <3>1 DEF ToLog
    <3>3. txn'.credit[r] - txn'.refund[r] = txn.credit[r] - txn.refund[r] + (-1)
      <4>1. txn.credit[r] \in Nat /\ txn.refund[r] \in Nat
        BY DEF WalletShape, WalletRows
      <4> QED BY <2>1, <2>3, <4>1
    <3>4. WorthOfRows' = WorthOfRows + (-1) * Total
      BY <2>1, <2>3, <3>3, WorthMoves
    <3>5. /\ wallet.balance \in Int /\ wallet.frozen \in Int /\ txn.adjust \in Int
          /\ WorthOfRows \in Int
      BY WorthIsInt DEF WalletShape, WalletRows
    <3>6. /\ wallet'.balance + wallet'.frozen = wallet.balance + wallet.frozen + 0
          /\ txn'.adjust = txn.adjust + 0 /\ WorthOfRows' = WorthOfRows + t
          /\ 0 = 0 + t + (0 - t) /\ 0 \in Int
      BY <2>1, <3>1, <3>4, <3>5, ClientsFinite
    <3> QED BY <2>1, <2>3, <3>2, <3>6, ExplainedByStep
  <2> QED BY <1>2, <2>2, <2>3, LogRefundDoes
<1>3. CASE \/ \E r \in Recharges : \E i \in DOMAIN rechargeRefunds[r] : RefundedRead(p, r, i)
           \/ UnfreezePrice(p) \/ WriteRefundStatus(p)
  <2>1. /\ WalletShape' /\ \A q \in Clients \ {p} : client'[q] = client[q]
        /\ client[p].pc \notin {"log", "logRefund"} /\ client'[p].pc \notin {"log", "logRefund"}
    BY <1>3, RestingIsRow, RefundedReadDoes, UnfreezePriceDoes, WriteRefundStatusDoes
  <2>2. UNCHANGED <<txn, walletFaults>>
    BY <1>3 DEF RefundedRead, UnfreezePrice, WriteRefundStatus
  <2>3. wallet'.balance + wallet'.frozen = wallet.balance + wallet.frozen
    <3>1. CASE UnfreezePrice(p)
      <4>1. wallet.balance \in Int /\ wallet.frozen \in Int
        BY DEF WalletShape, WalletRows
      <4> QED BY <3>1, <4>1, UnfreezePriceDoes, ClientsFinite
    <3>2. CASE ~UnfreezePrice(p)
      BY <1>3, <3>2 DEF RefundedRead, WriteRefundStatus
    <3> QED BY <3>1, <3>2
  <2> QED BY <2>1, <2>2, <2>3, ExplainedStill
<1> QED BY <1>1, <1>2, <1>3

-----------------------------------------------------------------------------
(* What is frozen covers what is owed.                                       *)

OwedCount == Cardinality(OwedRefunds) + Cardinality(Asking)

LEMMA NotedAre == \A x : x \in Noted <=> \E r \in Recharges : /\ recharge[r].refund # 0
                                                           /\ x = <<r, recharge[r].refund>>
BY DEF Noted

LEMMA AllFinite == IsFiniteSet(AllRefunds)
<1>1. IsFiniteSet(1..MaxRefundTries)
  BY FS_Interval, WalletAssumption
<1> QED BY <1>1, ClientsFinite, FS_Product DEF AllRefunds

LEMMA OwedFinite ==
    ASSUME WalletShape
    PROVE  /\ IsFiniteSet(OwedRefunds) /\ Cardinality(OwedRefunds) \in Nat
           /\ IsFiniteSet(Asking) /\ Cardinality(Asking) \in Nat /\ OwedCount \in Nat
<1>1. \A r \in Recharges : recharge[r].refund # 0 => recharge[r].refund \in 1..MaxRefundTries
  BY WalletAssumption DEF WalletShape, WalletRows
<1>2. OwedRefunds \subseteq AllRefunds /\ Asking \subseteq Clients
  BY <1>1, NotedAre DEF OwedRefunds, SettlingPairs, AllRefunds, Asking
<1>3. IsFiniteSet(OwedRefunds) /\ IsFiniteSet(Asking)
  BY <1>2, AllFinite, ClientsFinite, FS_Subset
<1>4. Cardinality(OwedRefunds) \in Nat /\ Cardinality(Asking) \in Nat
  BY <1>3, FS_CardinalityType
<1> QED BY <1>3, <1>4 DEF OwedCount

LEMMA OwedFiniteNext ==
    ASSUME WalletShape'
    PROVE  /\ IsFiniteSet(OwedRefunds') /\ Cardinality(OwedRefunds') \in Nat
           /\ IsFiniteSet(Asking') /\ Cardinality(Asking') \in Nat /\ OwedCount' \in Nat
<1>1. \A r \in Recharges : recharge'[r].refund # 0 => recharge'[r].refund \in 1..MaxRefundTries
  BY WalletAssumption DEF WalletShape, WalletRows
<1>2. OwedRefunds' \subseteq AllRefunds /\ Asking' \subseteq Clients
  BY <1>1 DEF OwedRefunds, Noted, SettlingPairs, AllRefunds, Asking
<1>3. IsFiniteSet(OwedRefunds') /\ IsFiniteSet(Asking')
  BY <1>2, AllFinite, ClientsFinite, FS_Subset
<1>4. Cardinality(OwedRefunds') \in Nat /\ Cardinality(Asking') \in Nat
  BY <1>3, FS_CardinalityType
<1> QED BY <1>3, <1>4 DEF OwedCount

LEMMA TimesTotal == ASSUME NEW m \in Int, NEW n \in Int, m <= n PROVE Total * m <= Total * n
<1>1. PICK k \in Nat : n = m + k
  <2>1. n - m \in Nat /\ n = m + (n - m)
    OBVIOUS
  <2> QED BY <2>1
<1>2. Total * n = Total * m + Total * k
  BY <1>1, ClientsFinite
<1>3. Total * k \in Nat /\ Total * m \in Int
  BY ClientsFinite
<1> QED BY <1>2, <1>3

(* The frozen price changes by k times the price of a recharge, e refunds are *)
(* settled again, and the count changes by no more than both.                *)
LEMMA FrozenCoversStep ==
    ASSUME WalletShape, WalletShape', FrozenCoversOwed, NEW k \in {-1, 0, 1}, NEW e \in {0, 1},
           wallet'.frozen = wallet.frozen + k * Total, resettled' = resettled + e,
           OwedCount' <= OwedCount + (k + e)
    PROVE  FrozenCoversOwed'
<1>1. PICK m \in Nat, n \in Nat, z \in Int, u \in Nat :
         m = OwedCount /\ n = OwedCount' /\ z = wallet.frozen /\ u = resettled
  BY OwedFinite, OwedFiniteNext DEF WalletShape, WalletRows
<1>2. n <= m + (k + e) /\ m + (k + e) \in Int
  BY <1>1
<1>3. Total * n <= Total * (m + (k + e))
  BY <1>2, TimesTotal
<1>4. Total * (m + (k + e)) = Total * m + k * Total + Total * e
  BY ClientsFinite
<1>5. Total * (u + e) = Total * u + Total * e
  BY ClientsFinite
<1>6. PICK a \in Int, b \in Int, c \in Int, d \in Int, f \in Int :
         /\ a = Total * n /\ b = Total * m /\ c = k * Total /\ d = Total * e /\ f = Total * u
  BY ClientsFinite
<1>7. z + f >= b
  BY <1>1, <1>6 DEF FrozenCoversOwed, OwedCount
<1>8. wallet'.frozen = z + c /\ Total * resettled' = f + d
  BY <1>1, <1>5, <1>6
<1>9. a <= b + c + d
  BY <1>3, <1>4, <1>6
<1>10. z + c + (f + d) >= a
  BY <1>7, <1>9
<1> QED BY <1>1, <1>6, <1>8, <1>10 DEF FrozenCoversOwed, OwedCount

LEMMA AskingMoves ==
    ASSUME WalletShape, NEW p \in Clients, \A q \in Clients \ {p} : client'[q] = client[q]
    PROVE  LET before == client[p].pc \in {"ask", "note"}
               after == client'[p].pc \in {"ask", "note"} IN
           /\ before /\ ~after => Cardinality(Asking') = Cardinality(Asking) - 1
           /\ ~before /\ after => Cardinality(Asking') = Cardinality(Asking) + 1
           /\ (before <=> after) => Asking' = Asking
<1> DEFINE before == client[p].pc \in {"ask", "note"}
           after == client'[p].pc \in {"ask", "note"}
<1>1. ASSUME before, ~after PROVE Cardinality(Asking') = Cardinality(Asking) - 1
  <2>1. p \in Asking /\ Asking' = Asking \ {p}
    BY <1>1, ClientsFinite DEF Asking
  <2> QED BY <2>1, OwedFinite, FS_RemoveElement
<1>2. ASSUME ~before, after PROVE Cardinality(Asking') = Cardinality(Asking) + 1
  <2>1. p \notin Asking /\ Asking' = Asking \cup {p}
    BY <1>2, ClientsFinite DEF Asking
  <2> QED BY <2>1, OwedFinite, FS_AddElement
<1>3. ASSUME before <=> after PROVE Asking' = Asking
  BY <1>3, ClientsFinite DEF Asking
<1> QED BY <1>1, <1>2, <1>3

LEMMA OneMore ==
    ASSUME NEW S, IsFiniteSet(S), NEW x, NEW T, T \subseteq S \cup {x}
    PROVE  Cardinality(T) <= Cardinality(S) + 1
<1>1. Cardinality(S) \in Nat
  BY FS_CardinalityType
<1>2. IsFiniteSet(S \cup {x})
  BY FS_AddElement
<1>3. Cardinality(S \cup {x}) = Cardinality(S) \/ Cardinality(S \cup {x}) = Cardinality(S) + 1
  BY FS_AddElement
<1>4. IsFiniteSet(T) /\ Cardinality(T) <= Cardinality(S \cup {x})
  BY <1>2, FS_Subset
<1>5. Cardinality(T) \in Nat
  BY <1>4, FS_CardinalityType
<1> QED BY <1>1, <1>3, <1>4, <1>5

\* Nothing is frozen, noted or settled, and the client takes no refund in hand.
LEMMA FrozenElsewhere ==
    ASSUME WalletShape, WalletShape', FrozenCoversOwed, NEW p \in Clients,
           \A q \in Clients \ {p} : client'[q] = client[q], client'[p].pc # "settle",
           client'[p].pc \in {"ask", "note"} => client[p].pc \in {"ask", "note"},
           \A r \in Recharges : recharge'[r].refund = recharge[r].refund,
           UNCHANGED <<settled, resettled>>, wallet'.frozen = wallet.frozen
    PROVE  FrozenCoversOwed'
<1>1. OwedRefunds' \subseteq OwedRefunds
  <2>1. Noted' = Noted
    BY DEF Noted
  <2>2. SettlingPairs' \subseteq SettlingPairs
    BY DEF SettlingPairs
  <2> QED BY <2>1, <2>2 DEF OwedRefunds
<1>2. Cardinality(OwedRefunds') <= Cardinality(OwedRefunds)
  BY <1>1, OwedFinite, FS_Subset
<1>3. Cardinality(Asking') <= Cardinality(Asking)
  BY AskingMoves, OwedFinite
<1>4. OwedCount' <= OwedCount + (0 + 0)
  BY <1>2, <1>3, OwedFinite, OwedFiniteNext DEF OwedCount
<1>5. wallet'.frozen = wallet.frozen + 0 * Total /\ resettled' = resettled + 0
  BY ClientsFinite DEF WalletShape, WalletRows
<1> QED BY <1>4, <1>5, FrozenCoversStep

LEMMA FrozenByClients ==
    ASSUME WalletShape, FrozenCoversOwed, NEW p \in Clients,
           \/ AddBalance(p) \/ CreateWalletTransaction(p) \/ RechargePaidUpdate(p)
           \/ FreezePrice(p) \/ AskRefund(p) \/ LogRefund(p) \/ WriteRefundStatus(p) \/ WalletFail(p)
           \/ \E a \in Adjustments : UpdateWalletBalance(p, a)
           \/ \E r \in Recharges : RechargePaidRead(p, r) \/ RefundRechargeRead(p, r)
    PROVE  FrozenCoversOwed'
<1>1. /\ WalletShape' /\ \A q \in Clients \ {p} : client'[q] = client[q]
      /\ client'[p].pc # "settle"
      /\ ~FreezePrice(p) /\ client'[p].pc \in {"ask", "note"} => client[p].pc \in {"ask", "note"}
  <2>1. CASE AddBalance(p) \/ CreateWalletTransaction(p) \/ RechargePaidUpdate(p)
    BY <2>1, RestingIsRow, AddBalanceDoes, CreateWalletTransactionDoes, RechargePaidUpdateDoes
  <2>2. CASE FreezePrice(p) \/ AskRefund(p) \/ WalletFail(p)
    BY <2>2, RestingIsRow, FreezePriceDoes, AskRefundDoes, WalletFailDoes
  <2>3. CASE LogRefund(p) \/ WriteRefundStatus(p)
    BY <2>3, RestingIsRow, LogRefundDoes, WriteRefundStatusDoes
  <2>4. CASE \/ \E a \in Adjustments : UpdateWalletBalance(p, a)
             \/ \E r \in Recharges : RechargePaidRead(p, r) \/ RefundRechargeRead(p, r)
    BY <2>4, UpdateWalletBalanceDoes, RechargePaidReadDoes, RefundRechargeReadDoes
  <2> QED BY <2>1, <2>2, <2>3, <2>4
<1>2. UNCHANGED <<settled, resettled>>
  BY DEF AddBalance, CreateWalletTransaction, RechargePaidUpdate, FreezePrice, AskRefund, LogRefund,
         WriteRefundStatus, WalletFail, UpdateWalletBalance, RechargePaidRead, RefundRechargeRead
<1>3. \A r \in Recharges : recharge'[r].refund = recharge[r].refund
  <2>1. CASE RechargePaidUpdate(p) \/ WriteRefundStatus(p)
    BY <2>1, RechargePaidUpdateDoes, WriteRefundStatusDoes
  <2>2. CASE ~(RechargePaidUpdate(p) \/ WriteRefundStatus(p))
    BY <2>2 DEF AddBalance, CreateWalletTransaction, FreezePrice, AskRefund, LogRefund, WalletFail,
           UpdateWalletBalance, RechargePaidRead, RefundRechargeRead
  <2> QED BY <2>1, <2>2
<1>4. CASE FreezePrice(p) /\ client'[p].pc = "ask"
  <2>1. client[p].pc = "freeze" /\ wallet'.frozen = wallet.frozen + Total
    BY <1>4, FreezePriceDoes, RestingIsRow
  <2>2. Cardinality(Asking') = Cardinality(Asking) + 1
    BY <1>1, <1>4, <2>1, AskingMoves
  <2>3. OwedRefunds' = OwedRefunds
    <3>1. Noted' = Noted
      BY <1>3 DEF Noted
    <3>2. SettlingPairs' = SettlingPairs
      BY <1>1, <2>1 DEF SettlingPairs
    <3> QED BY <1>2, <3>1, <3>2 DEF OwedRefunds
  <2>4. OwedCount' <= OwedCount + (1 + 0)
    BY <2>2, <2>3, OwedFinite DEF OwedCount
  <2>5. wallet'.frozen = wallet.frozen + 1 * Total /\ resettled' = resettled + 0
    BY <1>2, <2>1, ClientsFinite DEF WalletShape, WalletRows
  <2> QED BY <1>1, <2>4, <2>5, FrozenCoversStep
<1>5. CASE ~(FreezePrice(p) /\ client'[p].pc = "ask")
  <2>1. wallet'.frozen = wallet.frozen
    <3>1. CASE AddBalance(p) \/ FreezePrice(p)
      BY <1>5, <3>1, AddBalanceDoes, FreezePriceDoes
    <3>2. CASE ~(AddBalance(p) \/ FreezePrice(p))
      BY <3>2 DEF CreateWalletTransaction, RechargePaidUpdate, AskRefund, UpdateWalletBalance,
             RechargePaidRead, RefundRechargeRead, LogRefund, WriteRefundStatus, WalletFail
    <3> QED BY <3>1, <3>2
  <2>2. client'[p].pc \in {"ask", "note"} => client[p].pc \in {"ask", "note"}
    <3>1. FreezePrice(p) => client'[p].pc \in {"idle", "ask"}
      BY FreezePriceDoes, RestingIsRow
    <3> QED BY <1>1, <1>5, <3>1
  <2> QED BY <1>1, <1>2, <1>3, <2>1, <2>2, FrozenElsewhere
<1> QED BY <1>4, <1>5

\* What is asked for becomes what is noted.
LEMMA FrozenByNote ==
    ASSUME WalletShape, FrozenCoversOwed, NEW p \in Clients, NoteRefund(p)
    PROVE  FrozenCoversOwed'
<1>1. /\ WalletShape' /\ client[p].pc = "note" /\ client'[p].pc = "idle"
      /\ \A q \in Clients \ {p} : client'[q] = client[q]
      /\ UNCHANGED <<wallet, settled, resettled>>
  BY NoteRefundDoes, RestingIsRow DEF NoteRefund
<1>2. Cardinality(Asking') = Cardinality(Asking) - 1
  BY <1>1, AskingMoves
<1>3. PICK r \in Recharges : \A s \in Recharges \ {r} : recharge'[s] = recharge[s]
  BY NoteRefundDoes
<1>4. OwedRefunds' \subseteq OwedRefunds \cup {<<r, recharge'[r].refund>>}
  <2>1. Noted' \subseteq Noted \cup {<<r, recharge'[r].refund>>}
    BY <1>3 DEF Noted
  <2>2. SettlingPairs' \subseteq SettlingPairs
    BY <1>1 DEF SettlingPairs
  <2> QED BY <1>1, <2>1, <2>2 DEF OwedRefunds
<1>5. Cardinality(OwedRefunds') <= Cardinality(OwedRefunds) + 1
  BY <1>4, OwedFinite, OneMore
<1>6. OwedCount' <= OwedCount + (0 + 0)
  BY <1>1, <1>2, <1>5, OwedFinite, OwedFiniteNext DEF OwedCount
<1>7. wallet'.frozen = wallet.frozen + 0 * Total /\ resettled' = resettled + 0
  BY <1>1, ClientsFinite DEF WalletShape, WalletRows
<1> QED BY <1>1, <1>6, <1>7, FrozenCoversStep

\* A client takes in hand what is noted.
LEMMA FrozenByRead ==
    ASSUME WalletShape, FrozenCoversOwed, NEW p \in Clients, NEW r \in Recharges,
           NEW i \in DOMAIN rechargeRefunds[r], RefundedRead(p, r, i)
    PROVE  FrozenCoversOwed'
<1>1. /\ WalletShape' /\ client[p].pc = "idle" /\ client'[p].pc = "settle"
      /\ client'[p].recharge = {r} /\ client'[p].refund = recharge[r].refund
      /\ \A q \in Clients \ {p} : client'[q] = client[q]
      /\ UNCHANGED <<wallet, recharge, settled, resettled>>
  BY RefundedReadDoes DEF RefundedRead
<1>2. Asking' = Asking
  BY <1>1, AskingMoves
<1>3. Noted' = Noted
  BY <1>1 DEF Noted
<1>4. SettlingPairs' \subseteq SettlingPairs \cup Noted
  <2>1. SUFFICES ASSUME NEW x \in SettlingPairs' PROVE x \in SettlingPairs \cup Noted
    OBVIOUS
  <2>2. PICK q \in Clients : /\ client'[q].pc = "settle" /\ client'[q].recharge = {x[1]}
                             /\ client'[q].refund = x[2] /\ x \in AllRefunds
    BY <2>1 DEF SettlingPairs
  <2>3. CASE q = p
    <3>1. x[1] = r /\ x[2] = recharge[r].refund /\ x[2] # 0 /\ x = <<x[1], x[2]>>
      BY <1>1, <2>2, <2>3, WalletAssumption DEF AllRefunds
    <3> QED BY <3>1, NotedAre
  <2>4. CASE q # p
    BY <1>1, <2>2, <2>4 DEF SettlingPairs
  <2> QED BY <2>3, <2>4
<1>5. OwedRefunds' \subseteq OwedRefunds
  BY <1>1, <1>3, <1>4 DEF OwedRefunds
<1>6. Cardinality(OwedRefunds') <= Cardinality(OwedRefunds)
  BY <1>5, OwedFinite, FS_Subset
<1>7. OwedCount' <= OwedCount + (0 + 0)
  BY <1>1, <1>2, <1>6, OwedFinite, OwedFiniteNext DEF OwedCount
<1>8. wallet'.frozen = wallet.frozen + 0 * Total /\ resettled' = resettled + 0
  BY <1>1, ClientsFinite DEF WalletShape, WalletRows
<1> QED BY <1>1, <1>7, <1>8, FrozenCoversStep

(* A price leaves what is frozen: the refund in hand is owed no more, or it   *)
(* was settled before and counts as settled again.                           *)
LEMMA FrozenBySettling ==
    ASSUME WalletShape, FrozenCoversOwed, NEW p \in Clients, TakeFrozen(p) \/ UnfreezePrice(p)
    PROVE  FrozenCoversOwed'
<1>0. wallet.frozen \in Int /\ resettled \in Nat
  BY DEF WalletShape, WalletRows
<1>1. /\ WalletShape' /\ client[p].pc = "settle" /\ client'[p].pc \in {"logRefund", "status", "idle"}
      /\ \A q \in Clients \ {p} : client'[q] = client[q]
      /\ UNCHANGED recharge
  BY TakeFrozenDoes, UnfreezePriceDoes DEF TakeFrozen, UnfreezePrice
<1>2. CASE UnfreezePrice(p) /\ UNCHANGED <<wallet, settled, resettled>>
  BY <1>1, <1>2, FrozenElsewhere
<1>3. CASE ~(UnfreezePrice(p) /\ UNCHANGED <<wallet, settled, resettled>>)
  <2>1. PICK r \in Recharges : client[p].recharge = {r} /\ Settle(r, client[p].refund)
    BY <1>3, TakeFrozenDoes, UnfreezePriceDoes
  <2>2. wallet'.frozen = wallet.frozen + (-1) * Total
    BY <1>0, <1>3, ClientsFinite, TakeFrozenDoes, UnfreezePriceDoes
  <2>3. Asking' = Asking
    BY <1>1, AskingMoves
  <2>4. PICK x \in AllRefunds : x = <<r, client[p].refund>>
    BY <1>1, <2>1, ClientAtWork DEF AllRefunds
  <2>5. x \in SettlingPairs /\ settled' = settled \cup {x}
    BY <1>1, <2>1, <2>4 DEF SettlingPairs, Settle
  <2>6. Noted' = Noted /\ SettlingPairs' \subseteq SettlingPairs
    <3>1. Noted' = Noted
      BY <1>1 DEF Noted
    <3>2. SettlingPairs' \subseteq SettlingPairs
      BY <1>1 DEF SettlingPairs
    <3> QED BY <3>1, <3>2
  <2>7. OwedRefunds' \subseteq OwedRefunds \ {x}
    BY <2>5, <2>6 DEF OwedRefunds
  <2>8. CASE x \in settled
    <3>1. Cardinality(OwedRefunds') <= Cardinality(OwedRefunds)
      BY <2>7, OwedFinite, FS_Subset
    <3>2. resettled' = resettled + 1
      BY <2>1, <2>4, <2>8 DEF Settle
    <3>3. OwedCount' <= OwedCount + (-1 + 1)
      BY <1>1, <2>3, <3>1, OwedFinite, OwedFiniteNext DEF OwedCount
    <3> QED BY <1>1, <2>2, <3>2, <3>3, FrozenCoversStep
  <2>9. CASE x \notin settled
    <3>1. x \in OwedRefunds
      BY <2>5, <2>9 DEF OwedRefunds
    <3>2. /\ IsFiniteSet(OwedRefunds \ {x})
          /\ Cardinality(OwedRefunds \ {x}) = Cardinality(OwedRefunds) - 1
      BY <3>1, OwedFinite, FS_RemoveElement
    <3>3. Cardinality(OwedRefunds') <= Cardinality(OwedRefunds) - 1
      BY <2>7, <3>2, FS_Subset
    <3>4. resettled' = resettled + 0
      BY <1>0, <2>1, <2>4, <2>9 DEF Settle
    <3>5. OwedCount' <= OwedCount + (-1 + 0)
      BY <1>1, <2>3, <3>3, OwedFinite, OwedFiniteNext DEF OwedCount
    <3> QED BY <1>1, <2>2, <3>4, <3>5, FrozenCoversStep
  <2> QED BY <2>8, <2>9
<1> QED BY <1>2, <1>3

-----------------------------------------------------------------------------
LEMMA ColumnsKept ==
    ASSUME WalletShape, ColumnsAgree, WalletNext
    PROVE  ColumnsAgree'
<1>0. /\ wallet.balance \in Int /\ wallet.frozen \in Int /\ wallet.recharged \in Int
      /\ wallet.expense \in Int /\ Total \in Int
  BY ClientsFinite DEF WalletShape, WalletRows
<1>1. ASSUME NEW p \in Clients, AddBalance(p) PROVE ColumnsAgree'
  <2>1. PICK a \in Int :
           /\ wallet'.balance = wallet.balance + a /\ wallet'.frozen = wallet.frozen
           /\ wallet'.recharged - wallet'.expense = wallet.recharged - wallet.expense + a
    BY <1>1, AddBalanceDoes
  <2> QED BY <1>0, <2>1 DEF ColumnsAgree
<1>2. ASSUME NEW p \in Clients, FreezePrice(p) PROVE ColumnsAgree'
  BY <1>0, <1>2, FreezePriceDoes DEF ColumnsAgree
<1>3. ASSUME NEW p \in Clients, TakeFrozen(p) PROVE ColumnsAgree'
  BY <1>0, <1>3, TakeFrozenDoes DEF ColumnsAgree
<1>4. ASSUME NEW p \in Clients, UnfreezePrice(p) PROVE ColumnsAgree'
  BY <1>0, <1>4, UnfreezePriceDoes DEF ColumnsAgree
<1>5. CASE wallet' = wallet
  BY <1>5 DEF ColumnsAgree
<1>6. \/ \E p \in Clients : AddBalance(p) \/ FreezePrice(p) \/ TakeFrozen(p) \/ UnfreezePrice(p)
      \/ wallet' = wallet
  BY ZenonT(40) DEF WalletNext, CreateWalletTransaction, UpdateWalletBalance, RechargePaidRead,
         RefundRechargeRead, RechargePaidUpdate, AskRefund, NoteRefund, SettleRefund,
         RefundedRead, LogRefund, WriteRefundStatus, WalletFail
<1> QED BY <1>1, <1>2, <1>3, <1>4, <1>5, <1>6

LEMMA WalletStarts == WalletInit => WalletInv
<1> SUFFICES ASSUME WalletInit PROVE WalletInv
  OBVIOUS
<1>1. \A p \in Clients : client[p] = Resting
  BY DEF WalletInit
<1>2. WalletShape
  <2>1. client \in [Clients -> ClientRow]
    BY RestingIsRow DEF WalletInit
  <2>2. WalletRows
    BY WalletAssumption DEF WalletInit, WalletRows
  <2> QED BY <1>1, <2>1, <2>2, RestingIsRow, ClientsFinite DEF WalletShape
<1>3. ColumnsAgree
  BY DEF WalletInit, ColumnsAgree
<1>4. CreditedOnce
  <2>1. \A r \in Recharges : Crediting(r) = {}
    BY <1>1, RestingIsRow, ClientsFinite DEF Crediting
  <2>2. \A r \in Recharges : txn.credit[r] = 0 /\ ~recharge[r].paid
    BY DEF WalletInit
  <2>3. \A r \in Recharges : txn.credit[r] + Cardinality(Crediting(r)) = 0
    BY <2>1, <2>2, FS_EmptySet
  <2> QED BY <2>2, <2>3 DEF CreditedOnce
<1>5. FrozenCoversOwed
  <2>1. Noted = {} /\ SettlingPairs = {} /\ Asking = {}
    BY <1>1, RestingIsRow DEF WalletInit, Noted, SettlingPairs, Asking
  <2>2. Total * (0 + 0) = 0 /\ Total * 0 = 0 /\ wallet.frozen = 0 /\ resettled = 0
    BY ClientsFinite DEF WalletInit
  <2>3. Cardinality(OwedRefunds) = 0 /\ Cardinality(Asking) = 0
    BY <2>1, FS_EmptySet DEF OwedRefunds
  <2> QED BY <2>2, <2>3 DEF FrozenCoversOwed
<1>6. TransactionsExplain
  <2> DEFINE f == [p \in Clients |-> ToLog(p)]
             g == [r \in Recharges |-> Worth(r)]
  <2>1. \A p \in Clients : f[p] = 0
    BY <1>1, RestingIsRow DEF ToLog
  <2>2. \A r \in Recharges : g[r] = 0
    <3>1. Total * (0 - 0) = 0
      BY ClientsFinite
    <3> QED BY <3>1 DEF Worth, WalletInit
  <2>3. Unlogged = SumFunctionOnSet(f, Clients) /\ Logged = txn.adjust + SumFunctionOnSet(g, Recharges)
    BY DEF Unlogged, Logged
  <2> HIDE DEF f, g
  <2>4. Unlogged = 0 /\ Logged = txn.adjust + 0
    BY <2>1, <2>2, <2>3, ClientsFinite, SumOfZeros
  <2> QED BY <2>4 DEF WalletInit, TransactionsExplain
<1> QED BY <1>2, <1>3, <1>4, <1>5, <1>6 DEF WalletInv

LEMMA WalletKept ==
    ASSUME WalletInv, [WalletNext]_walletVars
    PROVE  WalletInv'
<1>0. WalletShape /\ ColumnsAgree /\ CreditedOnce /\ FrozenCoversOwed /\ TransactionsExplain
  BY DEF WalletInv
<1>1. CASE UNCHANGED walletVars
  <2>1. WalletShape'
    BY <1>0, <1>1 DEF walletVars, WalletShape, WalletRows
  <2>2. ColumnsAgree' /\ CreditedOnce' /\ FrozenCoversOwed' /\ TransactionsExplain'
    BY <1>0, <1>1 DEF walletVars, ColumnsAgree, CreditedOnce, Crediting, FrozenCoversOwed,
           OwedRefunds, Noted, SettlingPairs, Asking, TransactionsExplain, Logged, Unlogged, ToLog,
           Worth
  <2> QED BY <2>1, <2>2 DEF WalletInv
<1>2. ASSUME NEW p \in Clients, CreateWalletTransaction(p) \/ RechargePaidUpdate(p) \/ OtherSteps(p)
      PROVE  WalletInv'
  <2>1. WalletShape'
    BY <1>0, <1>2, CreateWalletTransactionDoes, RechargePaidUpdateDoes, OtherStepsDo
  <2>2. ColumnsAgree'
    <3>1. WalletNext
      BY <1>2 DEF WalletNext, OtherSteps
    <3> QED BY <1>0, <3>1, ColumnsKept
  <2>3. CreditedOnce'
    BY <1>0, <1>2, CreditedByInsert, CreditedByPayment, CreditedElsewhere
  <2>4. FrozenCoversOwed'
    BY <1>0, <1>2, FrozenByClients, FrozenByNote, FrozenByRead, FrozenBySettling DEF OtherSteps
  <2>5. TransactionsExplain'
    BY <1>0, <1>2, ExplainedByClients, ExplainedBySettling DEF OtherSteps
  <2> QED BY <2>1, <2>2, <2>3, <2>4, <2>5 DEF WalletInv
<1>3. ASSUME NEW p \in Clients, WalletFail(p)
      PROVE  WalletInv'
  <2>1. WalletShape' /\ walletFaults' # 0
    <3>1. walletFaults' > 0 => walletFaults' # 0
      OBVIOUS
    <3> QED BY <1>0, <1>3, <3>1, WalletFailDoes
  <2>2. ColumnsAgree'
    BY <1>0, <1>3 DEF WalletFail, ColumnsAgree
  <2>3. CreditedOnce'
    BY <1>0, <1>3, CreditedThroughFaults
  <2>4. FrozenCoversOwed'
    BY <1>0, <1>3, FrozenByClients
  <2>5. TransactionsExplain'
    BY <2>1 DEF TransactionsExplain
  <2> QED BY <2>1, <2>2, <2>3, <2>4, <2>5 DEF WalletInv
<1>4. ASSUME NEW r \in Recharges, NEW i \in DOMAIN rechargeRefunds[r], SettleRefund(r, i)
      PROVE  WalletInv'
  <2>1. /\ WalletShape'
        /\ UNCHANGED <<wallet, txn, recharge, settled, resettled, adjusted, walletFaults, client>>
    BY <1>0, <1>4, SettleRefundDoes
  <2>2. ColumnsAgree' /\ CreditedOnce' /\ FrozenCoversOwed' /\ TransactionsExplain'
    BY <1>0, <2>1 DEF ColumnsAgree, CreditedOnce, Crediting, FrozenCoversOwed, OwedRefunds, Noted,
           SettlingPairs, Asking, TransactionsExplain, Logged, Unlogged, ToLog, Worth
  <2> QED BY <2>1, <2>2 DEF WalletInv
<1>5. CASE WalletNext
  <2>1. \/ \E p \in Clients : \/ CreateWalletTransaction(p) \/ RechargePaidUpdate(p) \/ OtherSteps(p)
                             \/ WalletFail(p)
        \/ \E r \in Recharges : \E i \in DOMAIN rechargeRefunds[r] : SettleRefund(r, i)
    BY <1>5 DEF WalletNext, OtherSteps
  <2> QED BY <1>2, <1>3, <1>4, <2>1
<1> QED BY <1>1, <1>5

LEMMA FrozenCoversThem == ASSUME WalletInv PROVE FrozenCoversPending
<1> DEFINE due == Noted \ settled
<1>0. WalletShape /\ FrozenCoversOwed
  BY DEF WalletInv
<1>1. due \subseteq OwedRefunds
  BY DEF OwedRefunds
<1>2. IsFiniteSet(due) /\ Cardinality(due) <= Cardinality(OwedRefunds)
  BY <1>0, <1>1, OwedFinite, FS_Subset
<1>3. Cardinality(due) \in Nat /\ Cardinality(due) <= OwedCount
  BY <1>0, <1>2, OwedFinite, FS_CardinalityType DEF OwedCount
<1> HIDE DEF due
<1>4. Total * Cardinality(due) <= Total * OwedCount
  BY <1>0, <1>3, OwedFinite, TimesTotal
<1>5. PICK z \in Int, u \in Int, m \in Int, n \in Int :
         /\ z = wallet.frozen /\ u = Total * resettled
         /\ m = Total * Cardinality(due) /\ n = Total * OwedCount
  BY <1>0, <1>3, OwedFinite, ClientsFinite DEF WalletShape, WalletRows
<1>6. z + u >= n
  BY <1>0, <1>5 DEF FrozenCoversOwed, OwedCount
<1>7. z + u >= m
  BY <1>4, <1>5, <1>6
<1> QED BY <1>5, <1>7 DEF FrozenCoversPending, due

\* What the balance loses, it is checked for, if only against what was seen.
LEMMA OverdraftLooks ==
    ASSUME WalletInv, [WalletNext]_walletVars
    PROVE  wallet'.balance < 0 /\ wallet'.balance < wallet.balance
             => \E p \in Clients : client[p].pc = "add" /\ client[p].seen # wallet.balance
<1>0. /\ WalletShape /\ wallet.balance \in Int /\ Total \in Nat
  BY ClientsFinite DEF WalletInv, WalletShape, WalletRows
<1>1. ASSUME NEW p \in Clients, AddBalance(p), wallet'.balance < 0, wallet'.balance < wallet.balance
      PROVE  client[p].pc = "add" /\ client[p].seen # wallet.balance
  <2>1. PICK a \in Int : /\ client[p].pc = "add" /\ wallet'.balance = wallet.balance + a
                         /\ a < 0 => client[p].seen >= -a
    BY <1>0, <1>1, AddBalanceDoes
  <2>2. a < 0 /\ wallet.balance < -a
    BY <1>0, <1>1, <2>1
  <2> QED BY <1>0, <2>1, <2>2
<1>2. ASSUME NEW p \in Clients, FreezePrice(p), wallet'.balance < 0, wallet'.balance < wallet.balance
      PROVE  FALSE
  BY <1>0, <1>2, FreezePriceDoes
<1>3. ASSUME NEW p \in Clients, TakeFrozen(p) \/ UnfreezePrice(p), wallet'.balance < 0, wallet'.balance < wallet.balance
      PROVE  FALSE
  BY <1>0, <1>3, TakeFrozenDoes, UnfreezePriceDoes
<1>5. CASE wallet' = wallet
  BY <1>0, <1>5
<1>6. \/ \E p \in Clients : AddBalance(p) \/ FreezePrice(p) \/ TakeFrozen(p) \/ UnfreezePrice(p)
      \/ wallet' = wallet
  BY DEF walletVars, WalletNext, CreateWalletTransaction, UpdateWalletBalance, RechargePaidRead,
         RefundRechargeRead, RechargePaidUpdate, AskRefund, NoteRefund, SettleRefund,
         RefundedRead, LogRefund, WriteRefundStatus, WalletFail
<1> QED BY <1>1, <1>2, <1>3, <1>5, <1>6

(* The wallet's columns, its transactions and its recharges tell one story,   *)
(* and it is overdrawn on a stale look only (wallet.go:147 and recharge.go),  *)
(* for any number of requests, recharges, refunds and faults.                *)
THEOREM WalletAccountedAlways == WalletSpec => WalletAccounted
<1>1. WalletInv => WalletExplained
  <2>1. WalletInv => WalletTypeOK
    BY DEF WalletInv, WalletShape, WalletRows, WalletTypeOK, ClientRow, AllRefunds
  <2> QED BY <2>1, FrozenCoversThem DEF WalletInv, WalletExplained
<1>2. WalletInv /\ [WalletNext]_walletVars =>
         [wallet'.balance < 0 /\ wallet'.balance < wallet.balance
            => \E p \in Clients : client[p].pc = "add" /\ client[p].seen # wallet.balance]_walletVars
  BY OverdraftLooks
<1> QED BY <1>1, <1>2, WalletStarts, WalletKept, PTL DEF WalletSpec, WalletAccounted, OverdraftIsStale
-----------------------------------------------------------------------------
(* Brokerage.  A withdrawal that is not committed is in one hand only; one    *)
(* that is being decided was deducted; one that is being given back was       *)
(* refused, and one that is being paid was approved.                         *)

WorkerRow == [pc : {"idle", "credit", "unfreeze", "move", "reduce", "taken", "commit", "audit", "paid",
                    "giveBack", "back"},
              list : SUBSET Earnings, frozen : BOOLEAN, w : SUBSET Withdrawals,
              verdict : {"none", "approve", "refuse"}]

WithdrawalRow ==
    [status : {"none", "rolledBack", "auditing", "auditSuccess", "withdrawSuccess", "auditFail"},
     api : BOOLEAN]

BrokerageRows ==
    /\ account \in [price : Int, frozen : Int]
    /\ earning \in [Earnings -> {"none", "wait", "settled"}]
    /\ withdrawal \in [Withdrawals -> WithdrawalRow]
    /\ entries \in [taken : [Withdrawals -> Nat], back : [Withdrawals -> Nat]]
    /\ brokerageFaults \in 0..MaxBrokerageFaults

Withdrawing == {"reduce", "taken", "commit"}
Deciding == {"audit", "paid", "giveBack", "back"}

BrokerageShape ==
    /\ BrokerageRows /\ worker \in [Workers -> WorkerRow]
    /\ \A p \in Workers :
          IF worker[p].pc \in Withdrawing \cup Deciding
          THEN \E x \in Withdrawals : worker[p].w = {x}
          ELSE worker[p].w = {}

Returning(x) == {p \in Workers : worker[p].pc \in {"giveBack", "back"} /\ x \in worker[p].w}

Settlement(x) ==
    /\ withdrawal[x].status \notin {"none", "rolledBack"} => entries.taken[x] = 1
    /\ withdrawal[x].status = "none" /\ (\A p \in Workers : x \notin worker[p].w) => entries.taken[x] = 0
    /\ entries.back[x] + Cardinality(Returning(x)) <= 1
    /\ entries.back[x] + Cardinality(Returning(x)) = 1 => withdrawal[x].status = "auditFail"

InHand(p, x) ==
    /\ worker[p].pc \in Withdrawing =>
          /\ withdrawal[x].status = "none"
          /\ \A q \in Workers \ {p} : x \notin worker[q].w
          /\ entries.taken[x] = IF worker[p].pc = "commit" THEN 1 ELSE 0
    /\ worker[p].pc \in Deciding => withdrawal[x].status \notin {"none", "rolledBack"}
    /\ worker[p].pc = "paid" => withdrawal[x].status \in {"auditSuccess", "withdrawSuccess"}

Settlements ==
    /\ \A x \in Withdrawals : Settlement(x)
    /\ \A p \in Workers : \A x \in worker[p].w : InHand(p, x)

BrokerageInv == BrokerageShape /\ AccountExplained /\ Settlements

LEMMA BrokerageFinite ==
    /\ IsFiniteSet(Earnings) /\ IsFiniteSet(Withdrawals) /\ IsFiniteSet(Workers)
    /\ Share \in Nat /\ Share > 0 /\ Payout \in Nat /\ Payout > 0
BY BrokerageAssumption, FS_Subset

LEMMA UnoccupiedIsRow ==
    /\ Unoccupied \in WorkerRow
    /\ Unoccupied.pc = "idle" /\ Unoccupied.list = {} /\ Unoccupied.w = {} /\ Unoccupied.frozen = FALSE
BY DEF Unoccupied, WorkerRow

-----------------------------------------------------------------------------
(* What the steps of a worker change, one lemma for each.                    *)

LEMMA WorkerMoves ==
    ASSUME BrokerageShape, NEW p \in Workers, NEW l \in WorkerRow, Occupy(p, l), BrokerageRows',
           IF l.pc \in Withdrawing \cup Deciding THEN \E x \in Withdrawals : l.w = {x} ELSE l.w = {}
    PROVE  /\ BrokerageShape' /\ worker'[p] = l
           /\ \A q \in Workers \ {p} : worker'[q] = worker[q]
<1>1. /\ worker'[p] = l /\ \A q \in Workers \ {p} : worker'[q] = worker[q]
      /\ worker' \in [Workers -> WorkerRow]
  BY DEF BrokerageShape, Occupy
<1>2. \A q \in Workers : worker'[q] = l \/ worker'[q] = worker[q]
  BY <1>1
<1>3. \A q \in Workers : IF worker'[q].pc \in Withdrawing \cup Deciding
                         THEN \E x \in Withdrawals : worker'[q].w = {x}
                         ELSE worker'[q].w = {}
  BY <1>2 DEF BrokerageShape
<1> QED BY <1>1, <1>3 DEF BrokerageShape

LEMMA WorkerRests ==
    ASSUME BrokerageShape, NEW p \in Workers, Free(p), BrokerageRows'
    PROVE  /\ BrokerageShape' /\ worker'[p] = Unoccupied
           /\ \A q \in Workers \ {p} : worker'[q] = worker[q]
BY UnoccupiedIsRow, WorkerMoves DEF Free, Withdrawing, Deciding

LEMMA WorkerProceeds ==
    ASSUME BrokerageShape, NEW p \in Workers, BrokerageRows',
           NEW pc \in {"unfreeze", "taken", "commit", "paid", "giveBack", "back"}, Proceed(p, pc),
           (worker[p].pc \in Withdrawing \cup Deciding) <=> (pc # "unfreeze")
    PROVE  /\ BrokerageShape'
           /\ worker'[p].pc = pc /\ worker'[p].w = worker[p].w /\ worker'[p].list = worker[p].list
           /\ \A q \in Workers \ {p} : worker'[q] = worker[q]
<1> DEFINE l == [worker[p] EXCEPT !.pc = pc]
<1>1. worker[p] \in WorkerRow /\ Occupy(p, l)
  BY DEF BrokerageShape, Proceed
<1>2. l \in WorkerRow /\ l.pc = pc /\ l.w = worker[p].w /\ l.list = worker[p].list
  BY <1>1 DEF WorkerRow
<1> HIDE DEF l
<1>3. IF l.pc \in Withdrawing \cup Deciding THEN \E x \in Withdrawals : l.w = {x} ELSE l.w = {}
  BY <1>2 DEF BrokerageShape, Withdrawing, Deciding
<1> QED BY <1>1, <1>2, <1>3, WorkerMoves

LEMMA AddRecordsDoes ==
    ASSUME BrokerageShape, NEW p \in Workers, NEW e \in Earnings, AddRecords(p, e)
    PROVE  /\ BrokerageShape'
           /\ worker[p].pc = "idle" /\ worker'[p].pc = "credit"
           /\ earning[e] = "none" /\ earning'[e] = IF worker'[p].frozen THEN "wait" ELSE "settled"
           /\ worker'[p].frozen \in BOOLEAN
           /\ \A d \in Earnings \ {e} : earning'[d] = earning[d]
           /\ \A q \in Workers \ {p} : worker'[q] = worker[q]
<1>1. PICK f \in BOOLEAN :
         /\ earning' = [earning EXCEPT ![e] = IF f THEN "wait" ELSE "settled"]
         /\ Occupy(p, [Unoccupied EXCEPT !.pc = "credit", !.frozen = f])
  BY DEF AddRecords
<1> DEFINE l == [Unoccupied EXCEPT !.pc = "credit", !.frozen = f]
<1>2. l \in WorkerRow /\ l.pc = "credit" /\ l.frozen = f /\ l.w = {}
  BY UnoccupiedIsRow DEF WorkerRow
<1>3. /\ worker[p].pc = "idle" /\ earning[e] = "none" /\ Occupy(p, l)
      /\ UNCHANGED <<account, withdrawal, entries, brokerageFaults>>
  BY <1>1 DEF AddRecords
<1> HIDE DEF l
<1>4. BrokerageRows' /\ earning'[e] = (IF f THEN "wait" ELSE "settled")
      /\ \A d \in Earnings \ {e} : earning'[d] = earning[d]
  BY <1>1, <1>3 DEF BrokerageShape, BrokerageRows
<1>5. /\ BrokerageShape' /\ worker'[p] = l
      /\ \A q \in Workers \ {p} : worker'[q] = worker[q]
  BY <1>2, <1>3, <1>4, WorkerMoves DEF Withdrawing, Deciding
<1> QED BY <1>2, <1>3, <1>4, <1>5

LEMMA CreditDoes ==
    ASSUME BrokerageShape, NEW p \in Workers, Credit(p)
    PROVE  /\ BrokerageShape'
           /\ worker[p].pc = "credit" /\ worker'[p] = Unoccupied /\ worker[p].frozen \in BOOLEAN
           /\ account'.frozen = account.frozen + (IF worker[p].frozen THEN Share ELSE 0)
           /\ account'.price = account.price + (IF worker[p].frozen THEN 0 ELSE Share)
           /\ \A q \in Workers \ {p} : worker'[q] = worker[q]
<1>1. /\ worker[p].pc = "credit" /\ Free(p) /\ UNCHANGED <<earning, withdrawal, entries, brokerageFaults>>
      /\ worker[p] \in WorkerRow
  BY DEF Credit, BrokerageShape
<1>2. PICK old \in [price : Int, frozen : Int] : old = account
  BY DEF BrokerageShape, BrokerageRows
<1>3. /\ account' \in [price : Int, frozen : Int]
      /\ account'.frozen = account.frozen + (IF worker[p].frozen THEN Share ELSE 0)
      /\ account'.price = account.price + (IF worker[p].frozen THEN 0 ELSE Share)
  <2>1. CASE worker[p].frozen
    <3>1. account' = [old EXCEPT !.frozen = old.frozen + Share]
      BY <1>2, <2>1 DEF Credit
    <3> QED BY <1>2, <2>1, <3>1, BrokerageFinite
  <2>2. CASE ~worker[p].frozen
    <3>1. account' = [old EXCEPT !.price = old.price + Share]
      BY <1>2, <2>2 DEF Credit
    <3> QED BY <1>2, <2>2, <3>1, BrokerageFinite
  <2> QED BY <2>1, <2>2
<1>4. BrokerageRows'
  BY <1>1, <1>3 DEF BrokerageShape, BrokerageRows
<1>5. worker[p].frozen \in BOOLEAN
  BY <1>1 DEF WorkerRow
<1> QED BY <1>1, <1>3, <1>4, <1>5, WorkerRests

LEMMA UnfreezeFindDoes ==
    ASSUME BrokerageShape, NEW p \in Workers, UnfreezeFind(p)
    PROVE  /\ BrokerageShape'
           /\ worker[p].pc = "idle" /\ worker'[p].pc = "unfreeze"
           /\ \A q \in Workers \ {p} : worker'[q] = worker[q]
<1>1. PICK due \in SUBSET Earnings :
         Occupy(p, [Unoccupied EXCEPT !.pc = "unfreeze", !.list = due])
  BY DEF UnfreezeFind
<1> DEFINE l == [Unoccupied EXCEPT !.pc = "unfreeze", !.list = due]
<1>2. l \in WorkerRow /\ l.pc = "unfreeze" /\ l.w = {}
  BY UnoccupiedIsRow DEF WorkerRow
<1>3. /\ worker[p].pc = "idle" /\ Occupy(p, l)
      /\ UNCHANGED <<account, earning, withdrawal, entries, brokerageFaults>>
  BY <1>1 DEF UnfreezeFind
<1> HIDE DEF l
<1>4. BrokerageRows'
  BY <1>3 DEF BrokerageShape, BrokerageRows
<1> QED BY <1>2, <1>3, <1>4, WorkerMoves DEF Withdrawing, Deciding

LEMMA UnfreezeRecordDoes ==
    ASSUME BrokerageShape, NEW p \in Workers, UnfreezeRecord(p)
    PROVE  /\ BrokerageShape'
           /\ worker[p].pc = "unfreeze"
           /\ \/ worker'[p].pc = "unfreeze" /\ earning' = earning
              \/ /\ worker'[p].pc = "move"
                 /\ \E e \in Earnings : /\ earning[e] = "wait" /\ earning'[e] = "settled"
                                        /\ \A d \in Earnings \ {e} : earning'[d] = earning[d]
           /\ \A q \in Workers \ {p} : worker'[q] = worker[q]
<1>1. worker[p] \in WorkerRow /\ worker[p].pc = "unfreeze" /\ worker[p].w = {}
  BY DEF UnfreezeRecord, BrokerageShape, Withdrawing, Deciding
<1>2. PICK e \in worker[p].list :
         LET rest == [worker[p] EXCEPT !.list = @ \ {e}] IN
         /\ IF StillWaits(e)
            THEN earning' = [earning EXCEPT ![e] = "settled"] /\ Occupy(p, [rest EXCEPT !.pc = "move"])
            ELSE Occupy(p, rest) /\ UNCHANGED earning
         /\ UNCHANGED <<account, withdrawal, entries, brokerageFaults>>
  BY DEF UnfreezeRecord
<1>3. e \in Earnings
  BY <1>1 DEF WorkerRow
<1> DEFINE rest == [worker[p] EXCEPT !.list = @ \ {e}]
           more == [rest EXCEPT !.pc = "move"]
<1>4. rest \in WorkerRow /\ rest.pc = "unfreeze" /\ rest.w = {}
  BY <1>1 DEF WorkerRow
<1>5. CASE StillWaits(e)
  <2>1. earning' = [earning EXCEPT ![e] = "settled"] /\ Occupy(p, more)
    BY <1>2, <1>5
  <2> HIDE DEF rest
  <2>2. more \in WorkerRow /\ more.pc = "move" /\ more.w = {}
    BY <1>4 DEF WorkerRow
  <2> HIDE DEF more
  <2>3. /\ BrokerageRows' /\ earning[e] = "wait" /\ earning'[e] = "settled"
        /\ \A d \in Earnings \ {e} : earning'[d] = earning[d]
    BY <1>2, <1>3, <1>5, <2>1 DEF BrokerageShape, BrokerageRows, StillWaits
  <2> QED BY <1>1, <1>3, <2>1, <2>2, <2>3, WorkerMoves DEF Withdrawing, Deciding
<1>6. CASE ~StillWaits(e)
  <2>1. earning' = earning /\ Occupy(p, rest)
    BY <1>2, <1>6
  <2> HIDE DEF rest, more
  <2>2. BrokerageRows'
    BY <1>2, <2>1 DEF BrokerageShape, BrokerageRows
  <2> QED BY <1>1, <1>4, <2>1, <2>2, WorkerMoves DEF Withdrawing, Deciding
<1> QED BY <1>5, <1>6

LEMMA MoveFrozenDoes ==
    ASSUME BrokerageShape, NEW p \in Workers, MoveFrozen(p)
    PROVE  /\ BrokerageShape'
           /\ worker[p].pc = "move" /\ worker'[p].pc = "unfreeze"
           /\ \/ brokerageFaults' # 0
              \/ /\ brokerageFaults' = brokerageFaults
                 /\ account'.price = account.price + Share /\ account'.frozen = account.frozen - Share
           /\ \A q \in Workers \ {p} : worker'[q] = worker[q]
<1>1. /\ worker[p].pc = "move" /\ Proceed(p, "unfreeze") /\ UNCHANGED <<earning, withdrawal, entries>>
      /\ account \in [price : Int, frozen : Int] /\ brokerageFaults \in 0..MaxBrokerageFaults
  BY DEF MoveFrozen, BrokerageShape, BrokerageRows
<1>2. /\ account' \in [price : Int, frozen : Int] /\ brokerageFaults' \in 0..MaxBrokerageFaults
      /\ \/ brokerageFaults' # 0
         \/ /\ brokerageFaults' = brokerageFaults
            /\ account'.price = account.price + Share /\ account'.frozen = account.frozen - Share
  <2>1. CASE /\ account' = [price |-> account.price + Share, frozen |-> account.frozen - Share]
             /\ UNCHANGED brokerageFaults
    BY <1>1, <2>1, BrokerageFinite
  <2>2. CASE /\ brokerageFaults < MaxBrokerageFaults /\ brokerageFaults' = brokerageFaults + 1
             /\ UNCHANGED account
    BY <1>1, <2>2, BrokerageAssumption
  <2> QED BY <2>1, <2>2 DEF MoveFrozen
<1>3. BrokerageRows'
  BY <1>1, <1>2 DEF BrokerageShape, BrokerageRows
<1> QED BY <1>1, <1>2, <1>3, WorkerProceeds DEF Withdrawing, Deciding

LEMMA UnfreezeEndDoes ==
    ASSUME BrokerageShape, NEW p \in Workers, UnfreezeEnd(p)
    PROVE  /\ BrokerageShape'
           /\ worker[p].pc = "unfreeze" /\ worker'[p] = Unoccupied
           /\ \A q \in Workers \ {p} : worker'[q] = worker[q]
<1>1. /\ worker[p].pc = "unfreeze" /\ Free(p)
      /\ UNCHANGED <<account, earning, withdrawal, entries, brokerageFaults>>
  BY DEF UnfreezeEnd
<1>2. BrokerageRows'
  BY <1>1 DEF BrokerageShape, BrokerageRows
<1> QED BY <1>1, <1>2, WorkerRests

LEMMA CreateWithdrawDoes ==
    ASSUME BrokerageShape, NEW p \in Workers, NEW x \in Withdrawals, CreateWithdraw(p, x)
    PROVE  /\ BrokerageShape'
           /\ worker[p].pc = "idle" /\ worker'[p].pc = "reduce" /\ worker'[p].w = {x}
           /\ \A q \in Workers \ {p} : worker'[q] = worker[q]
<1> DEFINE l == [Unoccupied EXCEPT !.pc = "reduce", !.w = {x}]
<1>1. l \in WorkerRow /\ l.pc = "reduce" /\ l.w = {x}
  BY UnoccupiedIsRow DEF WorkerRow
<1>2. /\ worker[p].pc = "idle" /\ Occupy(p, l)
      /\ UNCHANGED <<account, earning, withdrawal, entries, brokerageFaults>>
  BY DEF CreateWithdraw
<1> HIDE DEF l
<1>3. BrokerageRows'
  BY <1>2 DEF BrokerageShape, BrokerageRows
<1> QED BY <1>1, <1>2, <1>3, WorkerMoves DEF Withdrawing, Deciding

LEMMA AuditReadDoes ==
    ASSUME BrokerageShape, NEW p \in Workers, NEW x \in Withdrawals, NEW v \in {"approve", "refuse"},
           AuditRead(p, x, v)
    PROVE  /\ BrokerageShape'
           /\ worker[p].pc = "idle" /\ worker'[p].pc = "audit" /\ worker'[p].w = {x}
           /\ \A q \in Workers \ {p} : worker'[q] = worker[q]
<1> DEFINE l == [Unoccupied EXCEPT !.pc = "audit", !.w = {x}, !.verdict = v]
<1>1. l \in WorkerRow /\ l.pc = "audit" /\ l.w = {x}
  BY UnoccupiedIsRow DEF WorkerRow
<1>2. /\ worker[p].pc = "idle" /\ Occupy(p, l)
      /\ UNCHANGED <<account, earning, withdrawal, entries, brokerageFaults>>
  BY DEF AuditRead
<1> HIDE DEF l
<1>3. BrokerageRows'
  BY <1>2 DEF BrokerageShape, BrokerageRows
<1> QED BY <1>1, <1>2, <1>3, WorkerMoves DEF Withdrawing, Deciding

LEMMA ReduceBrokerageDoes ==
    ASSUME BrokerageShape, NEW p \in Workers, ReduceBrokerage(p)
    PROVE  /\ BrokerageShape'
           /\ worker[p].pc = "reduce" /\ worker'[p].pc = "taken" /\ worker'[p].w = worker[p].w
           /\ account'.price = account.price - Payout /\ account'.frozen = account.frozen + Payout
           /\ \A q \in Workers \ {p} : worker'[q] = worker[q]
<1>1. /\ worker[p].pc = "reduce" /\ Proceed(p, "taken")
      /\ account' = [price |-> account.price - Payout, frozen |-> account.frozen + Payout]
      /\ UNCHANGED <<earning, withdrawal, entries, brokerageFaults>>
  BY DEF ReduceBrokerage
<1>2. account' \in [price : Int, frozen : Int]
  BY <1>1, BrokerageFinite DEF BrokerageShape, BrokerageRows
<1>3. BrokerageRows'
  BY <1>1, <1>2 DEF BrokerageShape, BrokerageRows
<1> QED BY <1>1, <1>3, WorkerProceeds DEF Withdrawing, Deciding

LEMMA AddBrokerageDoes ==
    ASSUME BrokerageShape, NEW p \in Workers, AddBrokerage(p)
    PROVE  /\ BrokerageShape'
           /\ worker[p].pc = "giveBack" /\ worker'[p].pc = "back" /\ worker'[p].w = worker[p].w
           /\ account'.price = account.price + Payout /\ account'.frozen = account.frozen
           /\ \A q \in Workers \ {p} : worker'[q] = worker[q]
<1>1. /\ worker[p].pc = "giveBack" /\ Proceed(p, "back")
      /\ account' = [account EXCEPT !.price = @ + Payout]
      /\ UNCHANGED <<earning, withdrawal, entries, brokerageFaults>>
  BY DEF AddBrokerage
<1>2. /\ account' \in [price : Int, frozen : Int]
      /\ account'.price = account.price + Payout /\ account'.frozen = account.frozen
  BY <1>1, BrokerageFinite DEF BrokerageShape, BrokerageRows
<1>3. BrokerageRows'
  BY <1>1, <1>2 DEF BrokerageShape, BrokerageRows
<1> QED BY <1>1, <1>2, <1>3, WorkerProceeds DEF Withdrawing, Deciding

\* The withdrawal in the hand of a worker.
LEMMA InHandIsOne ==
    ASSUME BrokerageShape, NEW p \in Workers, NEW x \in worker[p].w
    PROVE  /\ x \in Withdrawals /\ worker[p].w = {x} /\ worker[p].pc \in Withdrawing \cup Deciding
BY DEF BrokerageShape

LEMMA RecordTakenDoes ==
    ASSUME BrokerageShape, NEW p \in Workers, RecordTaken(p)
    PROVE  /\ BrokerageShape'
           /\ worker[p].pc = "taken" /\ worker'[p].pc = "commit" /\ worker'[p].w = worker[p].w
           /\ \E x \in Withdrawals : /\ worker[p].w = {x}
                                     /\ entries'.taken[x] = entries.taken[x] + 1
                                     /\ \A y \in Withdrawals \ {x} : entries'.taken[y] = entries.taken[y]
           /\ entries'.back = entries.back
           /\ \A q \in Workers \ {p} : worker'[q] = worker[q]
<1>1. PICK x \in worker[p].w :
         /\ worker[p].pc = "taken" /\ Proceed(p, "commit")
         /\ entries' = [entries EXCEPT !.taken[x] = @ + 1]
         /\ UNCHANGED <<account, earning, withdrawal, brokerageFaults>>
  BY DEF RecordTaken
<1>2. x \in Withdrawals /\ worker[p].w = {x}
  BY InHandIsOne
<1>3. /\ entries' \in [taken : [Withdrawals -> Nat], back : [Withdrawals -> Nat]]
      /\ entries'.taken[x] = entries.taken[x] + 1 /\ entries'.back = entries.back
      /\ \A y \in Withdrawals \ {x} : entries'.taken[y] = entries.taken[y]
  BY <1>1, <1>2 DEF BrokerageShape, BrokerageRows
<1>4. BrokerageRows'
  BY <1>1, <1>3 DEF BrokerageShape, BrokerageRows
<1> QED BY <1>1, <1>2, <1>3, <1>4, WorkerProceeds DEF Withdrawing, Deciding

LEMMA RecordBackDoes ==
    ASSUME BrokerageShape, NEW p \in Workers, RecordBack(p)
    PROVE  /\ BrokerageShape'
           /\ worker[p].pc = "back" /\ worker'[p] = Unoccupied
           /\ \E x \in Withdrawals : /\ worker[p].w = {x}
                                     /\ entries'.back[x] = entries.back[x] + 1
                                     /\ \A y \in Withdrawals \ {x} : entries'.back[y] = entries.back[y]
           /\ entries'.taken = entries.taken
           /\ \A q \in Workers \ {p} : worker'[q] = worker[q]
<1>1. PICK x \in worker[p].w :
         /\ worker[p].pc = "back" /\ Free(p)
         /\ entries' = [entries EXCEPT !.back[x] = @ + 1]
         /\ UNCHANGED <<account, earning, withdrawal, brokerageFaults>>
  BY DEF RecordBack
<1>2. x \in Withdrawals /\ worker[p].w = {x}
  BY InHandIsOne
<1>3. /\ entries' \in [taken : [Withdrawals -> Nat], back : [Withdrawals -> Nat]]
      /\ entries'.back[x] = entries.back[x] + 1 /\ entries'.taken = entries.taken
      /\ \A y \in Withdrawals \ {x} : entries'.back[y] = entries.back[y]
  BY <1>1, <1>2 DEF BrokerageShape, BrokerageRows
<1>4. BrokerageRows'
  BY <1>1, <1>3 DEF BrokerageShape, BrokerageRows
<1> QED BY <1>1, <1>2, <1>3, <1>4, WorkerRests

\* An update of a withdrawal's status.
LEMMA StatusWritten ==
    ASSUME BrokerageShape, NEW x \in Withdrawals,
           NEW st \in {"auditing", "auditSuccess", "withdrawSuccess", "auditFail"},
           withdrawal' = [withdrawal EXCEPT ![x].status = st],
           UNCHANGED <<account, earning, entries, brokerageFaults>>
    PROVE  /\ BrokerageRows' /\ withdrawal'[x].status = st
           /\ \A y \in Withdrawals \ {x} : withdrawal'[y] = withdrawal[y]
<1> DEFINE row == [withdrawal[x] EXCEPT !.status = st]
<1>1. withdrawal \in [Withdrawals -> WithdrawalRow]
  BY DEF BrokerageShape, BrokerageRows
<1>2. row \in WithdrawalRow /\ row.status = st /\ withdrawal' = [withdrawal EXCEPT ![x] = row]
  BY <1>1 DEF WithdrawalRow
<1> HIDE DEF row
<1>3. /\ withdrawal' \in [Withdrawals -> WithdrawalRow] /\ withdrawal'[x] = row
      /\ \A y \in Withdrawals \ {x} : withdrawal'[y] = withdrawal[y]
  BY <1>1, <1>2
<1> QED BY <1>2, <1>3 DEF BrokerageShape, BrokerageRows

LEMMA CommitWithdrawDoes ==
    ASSUME BrokerageShape, NEW p \in Workers, CommitWithdraw(p)
    PROVE  /\ BrokerageShape'
           /\ worker[p].pc = "commit" /\ worker'[p] = Unoccupied
           /\ \E x \in Withdrawals : /\ worker[p].w = {x} /\ withdrawal'[x].status = "auditing"
                                     /\ \A y \in Withdrawals \ {x} : withdrawal'[y] = withdrawal[y]
           /\ \A q \in Workers \ {p} : worker'[q] = worker[q]
<1>1. PICK x \in worker[p].w :
         /\ worker[p].pc = "commit" /\ Free(p)
         /\ withdrawal' = [withdrawal EXCEPT ![x].status = "auditing"]
         /\ UNCHANGED <<account, earning, entries, brokerageFaults>>
  BY DEF CommitWithdraw
<1>2. x \in Withdrawals /\ worker[p].w = {x}
  BY InHandIsOne
<1>3. /\ BrokerageRows' /\ withdrawal'[x].status = "auditing"
      /\ \A y \in Withdrawals \ {x} : withdrawal'[y] = withdrawal[y]
  BY <1>1, <1>2, StatusWritten
<1> QED BY <1>1, <1>2, <1>3, WorkerRests

LEMMA WithdrawSuccessDoes ==
    ASSUME BrokerageShape, NEW p \in Workers, WithdrawSuccess(p)
    PROVE  /\ BrokerageShape'
           /\ worker[p].pc = "paid" /\ worker'[p] = Unoccupied
           /\ \E x \in Withdrawals : /\ worker[p].w = {x} /\ withdrawal'[x].status = "withdrawSuccess"
                                     /\ \A y \in Withdrawals \ {x} : withdrawal'[y] = withdrawal[y]
           /\ \A q \in Workers \ {p} : worker'[q] = worker[q]
<1>1. PICK x \in worker[p].w :
         /\ worker[p].pc = "paid" /\ Free(p)
         /\ withdrawal' = [withdrawal EXCEPT ![x].status = "withdrawSuccess"]
         /\ UNCHANGED <<account, earning, entries, brokerageFaults>>
  BY DEF WithdrawSuccess
<1>2. x \in Withdrawals /\ worker[p].w = {x}
  BY InHandIsOne
<1>3. /\ BrokerageRows' /\ withdrawal'[x].status = "withdrawSuccess"
      /\ \A y \in Withdrawals \ {x} : withdrawal'[y] = withdrawal[y]
  BY <1>1, <1>2, StatusWritten
<1> QED BY <1>1, <1>2, <1>3, WorkerRests

LEMMA AuditUpdateDoes ==
    ASSUME BrokerageShape, NEW p \in Workers, AuditUpdate(p)
    PROVE  /\ BrokerageShape'
           /\ worker[p].pc = "audit"
           /\ \/ worker'[p] = Unoccupied /\ withdrawal' = withdrawal
              \/ \E x \in Withdrawals :
                    /\ worker[p].w = {x} /\ withdrawal[x].status = "auditing"
                    /\ \A y \in Withdrawals \ {x} : withdrawal'[y] = withdrawal[y]
                    /\ \/ /\ withdrawal'[x].status = "auditSuccess"
                          /\ \/ worker'[p] = Unoccupied
                             \/ worker'[p].pc = "paid" /\ worker'[p].w = {x}
                       \/ /\ withdrawal'[x].status = "auditFail"
                          /\ worker'[p].pc = "giveBack" /\ worker'[p].w = {x}
           /\ \A q \in Workers \ {p} : worker'[q] = worker[q]
<1>1. /\ worker[p].pc = "audit" /\ worker[p].pc \in Withdrawing \cup Deciding
      /\ UNCHANGED <<account, earning, entries, brokerageFaults>>
  BY DEF AuditUpdate, Deciding
<1>2. PICK x \in worker[p].w :
         IF ~Auditable(x)
         THEN Free(p) /\ UNCHANGED withdrawal
         ELSE \/ /\ worker[p].verdict = "approve"
                 /\ withdrawal' = [withdrawal EXCEPT ![x].status = "auditSuccess"]
                 /\ IF withdrawal[x].api THEN Free(p) ELSE Proceed(p, "paid")
              \/ /\ worker[p].verdict = "refuse"
                 /\ withdrawal' = [withdrawal EXCEPT ![x].status = AuditFail]
                 /\ Proceed(p, "giveBack")
  BY DEF AuditUpdate
<1>3. x \in Withdrawals /\ worker[p].w = {x}
  BY InHandIsOne
<1>4. CASE ~Auditable(x)
  <2>1. BrokerageRows'
    BY <1>1, <1>2, <1>4 DEF BrokerageShape, BrokerageRows
  <2> QED BY <1>1, <1>2, <1>4, <2>1, WorkerRests
<1>5. CASE Auditable(x) /\ withdrawal' = [withdrawal EXCEPT ![x].status = "auditSuccess"]
                        /\ (IF withdrawal[x].api THEN Free(p) ELSE Proceed(p, "paid"))
  <2>1. /\ BrokerageRows' /\ withdrawal'[x].status = "auditSuccess"
        /\ \A y \in Withdrawals \ {x} : withdrawal'[y] = withdrawal[y]
    BY <1>1, <1>3, <1>5, StatusWritten
  <2>2. CASE Free(p)
    BY <1>1, <1>3, <1>5, <2>1, <2>2, WorkerRests DEF Auditable
  <2>3. CASE Proceed(p, "paid")
    BY <1>1, <1>3, <1>5, <2>1, <2>3, WorkerProceeds DEF Auditable
  <2> QED BY <1>5, <2>2, <2>3
<1>6. CASE Auditable(x) /\ withdrawal' = [withdrawal EXCEPT ![x].status = AuditFail]
                        /\ Proceed(p, "giveBack")
  <2>1. /\ BrokerageRows' /\ withdrawal'[x].status = "auditFail"
        /\ \A y \in Withdrawals \ {x} : withdrawal'[y] = withdrawal[y]
    BY <1>1, <1>3, <1>6, StatusWritten DEF AuditFail
  <2> QED BY <1>1, <1>3, <1>6, <2>1, WorkerProceeds DEF Auditable
<1> QED BY <1>2, <1>4, <1>5, <1>6

LEMMA BrokerageFailDoes ==
    ASSUME BrokerageShape, NEW p \in Workers, BrokerageFail(p)
    PROVE  /\ BrokerageShape'
           /\ worker'[p] = Unoccupied /\ brokerageFaults' # 0
           /\ \A x \in Withdrawals :
                 IF x \in worker[p].w /\ withdrawal[x].status = "none"
                 THEN withdrawal'[x].status = "rolledBack" ELSE withdrawal'[x] = withdrawal[x]
           /\ \A q \in Workers \ {p} : worker'[q] = worker[q]
<1>1. /\ brokerageFaults < MaxBrokerageFaults /\ brokerageFaults' = brokerageFaults + 1 /\ Free(p)
      /\ withdrawal' = [w \in Withdrawals |->
                          IF w \in worker[p].w /\ withdrawal[w].status = "none"
                          THEN [withdrawal[w] EXCEPT !.status = "rolledBack"] ELSE withdrawal[w]]
      /\ UNCHANGED <<account, earning, entries>>
  BY DEF BrokerageFail
<1>2. withdrawal \in [Withdrawals -> WithdrawalRow] /\ brokerageFaults \in 0..MaxBrokerageFaults
  BY DEF BrokerageShape, BrokerageRows
<1>3. \A x \in Withdrawals :
         /\ withdrawal'[x] \in WithdrawalRow
         /\ IF x \in worker[p].w /\ withdrawal[x].status = "none"
            THEN withdrawal'[x].status = "rolledBack" ELSE withdrawal'[x] = withdrawal[x]
  BY <1>1, <1>2 DEF WithdrawalRow
<1>4. withdrawal' \in [Withdrawals -> WithdrawalRow]
  BY <1>1, <1>3
<1>5. brokerageFaults' \in 0..MaxBrokerageFaults /\ brokerageFaults' # 0
  BY <1>1, <1>2, BrokerageAssumption
<1>6. BrokerageRows'
  BY <1>1, <1>4, <1>5 DEF BrokerageShape, BrokerageRows
<1> QED BY <1>1, <1>3, <1>5, <1>6, WorkerRests

-----------------------------------------------------------------------------
(* Every withdrawal is settled once, whatever the workers do.                *)

LEMMA ReturningFinite ==
    \A x : /\ IsFiniteSet(Returning(x)) /\ Cardinality(Returning(x)) \in Nat
           /\ IsFiniteSet(Returning(x)') /\ Cardinality(Returning(x)') \in Nat
<1>1. \A x : Returning(x) \subseteq Workers /\ Returning(x)' \subseteq Workers
  BY DEF Returning
<1>2. \A x : IsFiniteSet(Returning(x)) /\ IsFiniteSet(Returning(x)')
  BY <1>1, BrokerageFinite, FS_Subset
<1> QED BY <1>2, FS_CardinalityType

GivesBack(l, x) == l.pc \in {"giveBack", "back"} /\ x \in l.w

LEMMA ReturningMoves ==
    ASSUME NEW p \in Workers, \A q \in Workers \ {p} : worker'[q] = worker[q], NEW x
    PROVE  /\ (GivesBack(worker[p], x) <=> GivesBack(worker'[p], x)) => Returning(x)' = Returning(x)
           /\ ~GivesBack(worker[p], x) /\ GivesBack(worker'[p], x)
                 => Cardinality(Returning(x)') = Cardinality(Returning(x)) + 1
           /\ GivesBack(worker[p], x) /\ ~GivesBack(worker'[p], x)
                 => Cardinality(Returning(x)') = Cardinality(Returning(x)) - 1
<1>1. ASSUME GivesBack(worker[p], x) <=> GivesBack(worker'[p], x) PROVE Returning(x)' = Returning(x)
  BY <1>1 DEF Returning, GivesBack
<1>2. ASSUME ~GivesBack(worker[p], x), GivesBack(worker'[p], x)
      PROVE  Cardinality(Returning(x)') = Cardinality(Returning(x)) + 1
  <2>1. p \notin Returning(x) /\ Returning(x)' = Returning(x) \cup {p}
    BY <1>2 DEF Returning, GivesBack
  <2> QED BY <2>1, ReturningFinite, FS_AddElement
<1>3. ASSUME GivesBack(worker[p], x), ~GivesBack(worker'[p], x)
      PROVE  Cardinality(Returning(x)') = Cardinality(Returning(x)) - 1
  <2>1. p \in Returning(x) /\ Returning(x)' = Returning(x) \ {p}
    BY <1>3 DEF Returning, GivesBack
  <2> QED BY <2>1, ReturningFinite, FS_RemoveElement
<1> QED BY <1>1, <1>2, <1>3

\* A step of a worker with no withdrawal in hand, before and after.
LEMMA SettledElsewhere ==
    ASSUME Settlements, BrokerageShape, NEW p \in Workers, \A q \in Workers \ {p} : worker'[q] = worker[q],
           UNCHANGED <<withdrawal, entries>>, worker[p].w = {}, worker'[p].w = {}
    PROVE  Settlements'
<1>1. \A x : Returning(x)' = Returning(x)
  BY ReturningMoves DEF GivesBack
<1>2. \A x : (\A q \in Workers : x \notin worker'[q].w) <=> (\A q \in Workers : x \notin worker[q].w)
  OBVIOUS
<1>3. \A x \in Withdrawals : Settlement(x)'
  BY <1>1, <1>2 DEF Settlements, Settlement
<1>4. ASSUME NEW q \in Workers, NEW x \in worker'[q].w PROVE InHand(q, x)'
  <2>1. q # p /\ worker'[q] = worker[q]
    BY <1>4
  <2>2. InHand(q, x)
    BY <1>4, <2>1 DEF Settlements
  <2> QED BY <2>1, <2>2 DEF InHand
<1> QED BY <1>3, <1>4 DEF Settlements

\* A step of a worker with x in hand, before or after.
LEMMA SettledByStep ==
    ASSUME Settlements, BrokerageShape, NEW p \in Workers, \A q \in Workers \ {p} : worker'[q] = worker[q],
           NEW x \in Withdrawals, worker[p].w \subseteq {x}, worker'[p].w \subseteq {x},
           \A y \in Withdrawals \ {x} : /\ withdrawal'[y] = withdrawal[y]
                                        /\ entries'.taken[y] = entries.taken[y]
                                        /\ entries'.back[y] = entries.back[y],
           Settlement(x)', x \in worker'[p].w => InHand(p, x)',
           \A q \in Workers \ {p} : x \in worker[q].w => InHand(q, x)'
    PROVE  Settlements'
<1>1. \A y \in Withdrawals \ {x} : Settlement(y)'
  <2>1. TAKE y \in Withdrawals \ {x}
  <2>2. Returning(y)' = Returning(y)
    BY ReturningMoves DEF GivesBack
  <2>3. (\A q \in Workers : y \notin worker'[q].w) <=> (\A q \in Workers : y \notin worker[q].w)
    OBVIOUS
  <2> QED BY <2>2, <2>3 DEF Settlements, Settlement
<1>2. ASSUME NEW q \in Workers, NEW y \in worker'[q].w PROVE InHand(q, y)'
  <2>1. CASE y = x
    BY <1>2, <2>1
  <2>2. CASE y # x
    <3>1. q # p /\ worker'[q] = worker[q]
      BY <1>2, <2>2
    <3>2. y \in Withdrawals /\ InHand(q, y)
      BY <1>2, <3>1, InHandIsOne DEF Settlements
    <3>3. withdrawal'[y] = withdrawal[y] /\ entries'.taken[y] = entries.taken[y]
      BY <2>2, <3>2
    <3>4. \A u \in Workers \ {q} : y \notin worker[u].w => y \notin worker'[u].w
      BY <2>2
    <3> QED BY <3>1, <3>2, <3>3, <3>4 DEF InHand
  <2> QED BY <2>1, <2>2
<1> QED BY <1>1, <1>2 DEF Settlements

\* What is known of x while p has it in hand.
LEMMA HandKnows ==
    ASSUME Settlements, BrokerageShape, NEW p \in Workers, NEW x \in worker[p].w
    PROVE  /\ InHand(p, x) /\ Settlement(x) /\ x \in Withdrawals
           /\ \A q \in Workers : x \in worker[q].w => InHand(q, x)
           /\ withdrawal[x].status # "none" => \A q \in Workers : x \in worker[q].w
                                        => worker[q].pc \notin Withdrawing
BY InHandIsOne DEF Settlements, InHand

\* The one who has x in hand moves on with it, and nothing is written.
LEMMA SettledInHand ==
    ASSUME Settlements, BrokerageShape, NEW p \in Workers, \A q \in Workers \ {p} : worker'[q] = worker[q],
           UNCHANGED <<withdrawal, entries>>, worker'[p].w = worker[p].w,
           \/ worker[p].pc = "reduce" /\ worker'[p].pc = "taken"
           \/ worker[p].pc = "giveBack" /\ worker'[p].pc = "back"
    PROVE  Settlements'
<1>1. worker[p].pc \in Withdrawing \cup Deciding
  BY DEF Withdrawing, Deciding
<1>2. PICK x \in Withdrawals : worker[p].w = {x}
  BY <1>1 DEF BrokerageShape
<1>3. Returning(x)' = Returning(x)
  BY ReturningMoves DEF GivesBack
<1>4. Settlement(x)'
  BY <1>2, <1>3, HandKnows DEF Settlement
<1>5. InHand(p, x)'
  BY <1>2, HandKnows DEF InHand, Withdrawing, Deciding
<1>6. \A q \in Workers \ {p} : x \in worker[q].w => InHand(q, x)'
  BY <1>2, HandKnows DEF InHand
<1> QED BY <1>2, <1>4, <1>5, <1>6, SettledByStep

LEMMA SettledByCreate ==
    ASSUME Settlements, BrokerageShape, NEW p \in Workers, NEW x \in Withdrawals, CreateWithdraw(p, x)
    PROVE  Settlements'
<1>1. /\ worker[p].pc = "idle" /\ worker'[p].pc = "reduce" /\ worker'[p].w = {x}
      /\ \A q \in Workers \ {p} : worker'[q] = worker[q]
      /\ withdrawal[x].status = "none" /\ \A q \in Workers : x \notin worker[q].w
      /\ UNCHANGED <<withdrawal, entries>>
  BY CreateWithdrawDoes DEF CreateWithdraw
<1>2. worker[p].w = {}
  BY <1>1 DEF BrokerageShape, Withdrawing, Deciding
<1>3. Returning(x)' = Returning(x)
  BY <1>1, ReturningMoves DEF GivesBack
<1>4. Settlement(x) /\ entries.taken[x] = 0
  BY <1>1 DEF Settlements, Settlement
<1>5. Settlement(x)'
  BY <1>1, <1>3, <1>4 DEF Settlement
<1>6. InHand(p, x)'
  BY <1>1, <1>4 DEF InHand, Withdrawing, Deciding
<1> QED BY <1>1, <1>2, <1>5, <1>6, SettledByStep

LEMMA SettledByAuditRead ==
    ASSUME Settlements, BrokerageShape, NEW p \in Workers, NEW x \in Withdrawals,
           NEW v \in {"approve", "refuse"}, AuditRead(p, x, v)
    PROVE  Settlements'
<1>1. /\ worker[p].pc = "idle" /\ worker'[p].pc = "audit" /\ worker'[p].w = {x}
      /\ \A q \in Workers \ {p} : worker'[q] = worker[q]
      /\ withdrawal[x].status = "auditing" /\ UNCHANGED <<withdrawal, entries>>
  BY AuditReadDoes DEF AuditRead
<1>2. worker[p].w = {}
  BY <1>1 DEF BrokerageShape, Withdrawing, Deciding
<1>3. Returning(x)' = Returning(x)
  BY <1>1, ReturningMoves DEF GivesBack
<1>4. Settlement(x)'
  BY <1>1, <1>3 DEF Settlements, Settlement
<1>5. InHand(p, x)'
  BY <1>1 DEF InHand, Withdrawing, Deciding
<1>6. \A q \in Workers \ {p} : x \in worker[q].w => InHand(q, x)'
  BY <1>1 DEF Settlements, InHand
<1> QED BY <1>1, <1>2, <1>4, <1>5, <1>6, SettledByStep

LEMMA SettledByEntries ==
    ASSUME Settlements, BrokerageShape, NEW p \in Workers, RecordTaken(p) \/ RecordBack(p)
    PROVE  Settlements'
<1>1. CASE RecordTaken(p)
  <2>1. /\ worker[p].pc = "taken" /\ worker'[p].pc = "commit" /\ worker'[p].w = worker[p].w
        /\ entries'.back = entries.back /\ UNCHANGED withdrawal
        /\ \A q \in Workers \ {p} : worker'[q] = worker[q]
    BY <1>1, RecordTakenDoes DEF RecordTaken
  <2>2. PICK x \in Withdrawals : /\ worker[p].w = {x}
                                 /\ entries'.taken[x] = entries.taken[x] + 1
                                 /\ \A y \in Withdrawals \ {x} : entries'.taken[y] = entries.taken[y]
    BY <1>1, RecordTakenDoes
  <2>3. Returning(x)' = Returning(x)
    BY <2>1, ReturningMoves DEF GivesBack
  <2>4. /\ withdrawal[x].status = "none" /\ entries.taken[x] = 0 /\ Settlement(x)
        /\ \A q \in Workers \ {p} : x \notin worker[q].w
    BY <2>1, <2>2, HandKnows DEF InHand, Withdrawing
  <2>5. Settlement(x)'
    BY <2>1, <2>2, <2>3, <2>4 DEF Settlement
  <2>6. InHand(p, x)'
    BY <2>1, <2>2, <2>4 DEF InHand, Withdrawing, Deciding
  <2> QED BY <2>1, <2>2, <2>4, <2>5, <2>6, SettledByStep
<1>2. CASE RecordBack(p)
  <2>1. /\ worker[p].pc = "back" /\ worker'[p].w = {}
        /\ entries'.taken = entries.taken /\ UNCHANGED withdrawal
        /\ \A q \in Workers \ {p} : worker'[q] = worker[q]
    BY <1>2, RecordBackDoes, UnoccupiedIsRow DEF RecordBack
  <2>2. PICK x \in Withdrawals : /\ worker[p].w = {x}
                                 /\ entries'.back[x] = entries.back[x] + 1
                                 /\ \A y \in Withdrawals \ {x} : entries'.back[y] = entries.back[y]
    BY <1>2, RecordBackDoes
  <2>3. Cardinality(Returning(x)') = Cardinality(Returning(x)) - 1
    BY <2>1, <2>2, ReturningMoves DEF GivesBack
  <2>4. entries.back[x] \in Nat /\ Cardinality(Returning(x)) \in Nat
    BY ReturningFinite DEF BrokerageShape, BrokerageRows
  <2>5. /\ entries'.back[x] + Cardinality(Returning(x)') = entries.back[x] + Cardinality(Returning(x))
    BY <2>2, <2>3, <2>4
  <2>6. InHand(p, x) /\ withdrawal[x].status # "none"
    BY <2>1, <2>2, HandKnows DEF InHand, Deciding
  <2>7. Settlement(x)'
    BY <2>1, <2>2, <2>5, <2>6, HandKnows DEF Settlement
  <2>8. \A q \in Workers \ {p} : x \in worker[q].w => InHand(q, x)'
    BY <2>1, <2>2, <2>6, HandKnows DEF InHand
  <2> QED BY <2>1, <2>2, <2>7, <2>8, SettledByStep
<1> QED BY <1>1, <1>2

LEMMA SettledByStatus ==
    ASSUME Settlements, BrokerageShape, NEW p \in Workers,
           CommitWithdraw(p) \/ AuditUpdate(p) \/ WithdrawSuccess(p)
    PROVE  Settlements'
<1>0. entries' = entries /\ \A q \in Workers \ {p} : worker'[q] = worker[q]
  BY CommitWithdrawDoes, AuditUpdateDoes, WithdrawSuccessDoes
     DEF CommitWithdraw, AuditUpdate, WithdrawSuccess
<1>1. CASE CommitWithdraw(p)
  <2>1. worker[p].pc = "commit" /\ worker'[p].w = {}
    BY <1>1, CommitWithdrawDoes, UnoccupiedIsRow
  <2>2. PICK x \in Withdrawals : /\ worker[p].w = {x} /\ withdrawal'[x].status = "auditing"
                                 /\ \A y \in Withdrawals \ {x} : withdrawal'[y] = withdrawal[y]
    BY <1>1, CommitWithdrawDoes
  <2>3. Returning(x)' = Returning(x)
    BY <1>0, <2>1, ReturningMoves DEF GivesBack
  <2>4. /\ withdrawal[x].status = "none" /\ entries.taken[x] = 1 /\ Settlement(x)
        /\ \A q \in Workers \ {p} : x \notin worker[q].w
    BY <2>1, <2>2, HandKnows DEF InHand, Withdrawing
  <2>5. Settlement(x)'
    BY <1>0, <2>2, <2>3, <2>4 DEF Settlement
  <2> QED BY <1>0, <2>1, <2>2, <2>4, <2>5, SettledByStep
<1>2. CASE AuditUpdate(p) /\ worker'[p] = Unoccupied /\ withdrawal' = withdrawal
  <2>1. worker[p].pc = "audit" /\ worker'[p].w = {} /\ worker'[p].pc = "idle"
    BY <1>2, AuditUpdateDoes, UnoccupiedIsRow
  <2>2. PICK x \in Withdrawals : worker[p].w = {x}
    BY <2>1 DEF BrokerageShape, Deciding
  <2>3. Returning(x)' = Returning(x)
    BY <1>0, <2>1, ReturningMoves DEF GivesBack
  <2>4. withdrawal[x].status # "none" /\ Settlement(x)
    BY <2>1, <2>2, HandKnows DEF InHand, Deciding
  <2>5. Settlement(x)'
    BY <1>0, <1>2, <2>3, <2>4 DEF Settlement
  <2>6. \A q \in Workers \ {p} : x \in worker[q].w => InHand(q, x)'
    BY <1>0, <1>2, <2>2, <2>4, HandKnows DEF InHand
  <2> QED BY <1>0, <1>2, <2>1, <2>2, <2>5, <2>6, SettledByStep
<1>3. ASSUME NEW x \in Withdrawals, AuditUpdate(p),
             worker[p].w = {x}, withdrawal[x].status = "auditing",
             \A y \in Withdrawals \ {x} : withdrawal'[y] = withdrawal[y],
             \/ /\ withdrawal'[x].status = "auditSuccess"
                /\ \/ worker'[p] = Unoccupied
                   \/ worker'[p].pc = "paid" /\ worker'[p].w = {x}
             \/ /\ withdrawal'[x].status = "auditFail"
                /\ worker'[p].pc = "giveBack" /\ worker'[p].w = {x}
      PROVE  Settlements'
  <2>1. /\ worker[p].pc = "audit" /\ Settlement(x) /\ entries.taken[x] = 1
        /\ entries.back[x] + Cardinality(Returning(x)) <= 1
        /\ entries.back[x] + Cardinality(Returning(x)) # 1
    BY <1>3, AuditUpdateDoes, HandKnows DEF Settlement
  <2>2. entries.back[x] \in Nat /\ Cardinality(Returning(x)) \in Nat
    BY ReturningFinite DEF BrokerageShape, BrokerageRows
  <2>3. Settlement(x)'
    <3>1. CASE withdrawal'[x].status = "auditSuccess"
      <4>1. Returning(x)' = Returning(x)
        BY <1>0, <1>3, <2>1, <3>1, UnoccupiedIsRow, ReturningMoves DEF GivesBack
      <4> QED BY <1>0, <2>1, <3>1, <4>1 DEF Settlement
    <3>2. CASE withdrawal'[x].status = "auditFail"
      <4>1. Cardinality(Returning(x)') = Cardinality(Returning(x)) + 1
        BY <1>0, <1>3, <2>1, <3>2, ReturningMoves DEF GivesBack
      <4>2. entries.back[x] + Cardinality(Returning(x)') = 1
        BY <2>1, <2>2, <4>1
      <4> QED BY <1>0, <2>1, <3>2, <4>2 DEF Settlement
    <3> QED BY <1>3, <3>1, <3>2
  <2>4. x \in worker'[p].w => InHand(p, x)'
    BY <1>3, UnoccupiedIsRow DEF InHand, Withdrawing, Deciding
  <2>5. \A q \in Workers \ {p} : x \in worker[q].w => InHand(q, x)'
    BY <1>0, <1>3, HandKnows DEF InHand
  <2>6. worker'[p].w \subseteq {x}
    BY <1>3, UnoccupiedIsRow
  <2> QED BY <1>0, <1>3, <2>3, <2>4, <2>5, <2>6, SettledByStep
<1>4. CASE WithdrawSuccess(p)
  <2>1. worker[p].pc = "paid" /\ worker'[p].w = {} /\ worker'[p].pc = "idle"
    BY <1>4, WithdrawSuccessDoes, UnoccupiedIsRow
  <2>2. PICK x \in Withdrawals : /\ worker[p].w = {x} /\ withdrawal'[x].status = "withdrawSuccess"
                                 /\ \A y \in Withdrawals \ {x} : withdrawal'[y] = withdrawal[y]
    BY <1>4, WithdrawSuccessDoes
  <2>3. Returning(x)' = Returning(x)
    BY <1>0, <2>1, ReturningMoves DEF GivesBack
  <2>4. withdrawal[x].status \in {"auditSuccess", "withdrawSuccess"} /\ Settlement(x)
    BY <2>1, <2>2, HandKnows DEF InHand
  <2>5. Settlement(x)'
    BY <1>0, <2>2, <2>3, <2>4 DEF Settlement
  <2>6. \A q \in Workers \ {p} : x \in worker[q].w => InHand(q, x)'
    BY <1>0, <2>2, <2>4, HandKnows DEF InHand
  <2> QED BY <1>0, <2>1, <2>2, <2>5, <2>6, SettledByStep
<1> QED BY <1>1, <1>2, <1>3, <1>4, AuditUpdateDoes

LEMMA SettledByFail ==
    ASSUME Settlements, BrokerageShape, NEW p \in Workers, BrokerageFail(p)
    PROVE  Settlements'
<1>1. /\ worker'[p].pc = "idle" /\ worker'[p].w = {} /\ entries' = entries
      /\ \A x \in Withdrawals :
            IF x \in worker[p].w /\ withdrawal[x].status = "none"
            THEN withdrawal'[x].status = "rolledBack" ELSE withdrawal'[x] = withdrawal[x]
      /\ \A q \in Workers \ {p} : worker'[q] = worker[q]
  BY BrokerageFailDoes, UnoccupiedIsRow DEF BrokerageFail
<1>2. CASE worker[p].w = {}
  <2>1. \A x \in Withdrawals : withdrawal'[x] = withdrawal[x]
    BY <1>1, <1>2
  <2>2. withdrawal' = withdrawal
    BY <2>1, BrokerageFailDoes DEF BrokerageShape, BrokerageRows
  <2> QED BY <1>1, <1>2, <2>2, SettledElsewhere
<1>3. ASSUME NEW x \in Withdrawals, worker[p].w = {x} PROVE Settlements'
  <2>1. InHand(p, x) /\ Settlement(x)
    BY <1>3, HandKnows
  <2>2. \A y \in Withdrawals \ {x} : withdrawal'[y] = withdrawal[y]
    BY <1>1, <1>3
  <2>3. entries.back[x] \in Nat /\ Cardinality(Returning(x)) \in Nat /\ Cardinality(Returning(x)') \in Nat
    BY ReturningFinite DEF BrokerageShape, BrokerageRows
  <2>4. Cardinality(Returning(x)') <= Cardinality(Returning(x))
    <3>1. CASE GivesBack(worker[p], x)
      <4>1. ~GivesBack(worker'[p], x)
        BY <1>1 DEF GivesBack
      <4> QED BY <1>1, <2>3, <3>1, <4>1, ReturningMoves
    <3>2. CASE ~GivesBack(worker[p], x)
      <4>1. ~GivesBack(worker'[p], x)
        BY <1>1 DEF GivesBack
      <4> QED BY <1>1, <2>3, <3>2, <4>1, ReturningMoves
    <3> QED BY <3>1, <3>2
  <2>5. entries.back[x] + Cardinality(Returning(x)') <= entries.back[x] + Cardinality(Returning(x))
    BY <2>3, <2>4
  <2>6. PICK m \in Nat, n \in Nat : /\ m = entries.back[x] + Cardinality(Returning(x))
                                    /\ n = entries.back[x] + Cardinality(Returning(x)')
                                    /\ n <= m
    BY <2>3, <2>5
  <2>7. m <= 1 /\ (m = 1 => withdrawal[x].status = "auditFail")
    BY <2>1, <2>6 DEF Settlement
  <2>8. n <= 1 /\ (n = 1 => withdrawal[x].status = "auditFail")
    BY <2>6, <2>7
  <2>9. CASE withdrawal[x].status = "none"
    <3>1. withdrawal'[x].status = "rolledBack"
      BY <1>1, <1>3, <2>9
    <3>2. worker[p].pc \in Withdrawing
      BY <1>3, <2>1, <2>9, InHandIsOne DEF InHand
    <3>3. \A q \in Workers \ {p} : x \notin worker[q].w
      BY <2>1, <3>2 DEF InHand
    <3>4. Settlement(x)'
      BY <1>1, <2>6, <2>8, <2>9, <3>1 DEF Settlement
    <3> QED BY <1>1, <1>3, <2>2, <3>3, <3>4, SettledByStep
  <2>10. CASE withdrawal[x].status # "none"
    <3>1. withdrawal'[x] = withdrawal[x]
      BY <1>1, <1>3, <2>10
    <3>2. Settlement(x)'
      BY <1>1, <2>1, <2>6, <2>8, <2>10, <3>1 DEF Settlement
    <3>3. \A q \in Workers \ {p} : x \in worker[q].w => InHand(q, x)'
      BY <1>1, <1>3, <2>10, <3>1, HandKnows DEF InHand
    <3> QED BY <1>1, <1>3, <2>2, <3>2, <3>3, SettledByStep
  <2> QED BY <2>9, <2>10
<1> QED BY <1>2, <1>3 DEF BrokerageShape

-----------------------------------------------------------------------------
(* The account.  Shares and payouts are counted: a step moves each count by    *)
(* one at most, and the account by as much.                                  *)

DueFrozen == Due(TRUE)
DuePrice == Due(FALSE)
FrozenShares == Of("wait") + Cardinality(At("move")) - DueFrozen
PriceShares == Of("settled") - Cardinality(At("move")) - DuePrice

LEMMA CountsAreNat ==
    /\ \A pc : IsFiniteSet(At(pc)) /\ Cardinality(At(pc)) \in Nat /\ Cardinality(At(pc)') \in Nat
    /\ \A b : Due(b) \in Nat /\ Due(b)' \in Nat
    /\ \A st : Of(st) \in Nat /\ Of(st)' \in Nat
<1>1. \A pc : At(pc) \subseteq Workers /\ At(pc)' \subseteq Workers
  BY DEF At
<1>2. \A pc : IsFiniteSet(At(pc)) /\ IsFiniteSet(At(pc)')
  BY <1>1, BrokerageFinite, FS_Subset
<1>3. \A b : /\ IsFiniteSet({p \in At("credit") : worker[p].frozen = b})
             /\ IsFiniteSet({p \in At("credit")' : worker'[p].frozen = b})
  BY <1>2, FS_Subset
<1>4. \A st : /\ IsFiniteSet({e \in Earnings : earning[e] = st})
              /\ IsFiniteSet({e \in Earnings : earning'[e] = st})
  BY BrokerageFinite, FS_Subset
<1>5. \A pc : Cardinality(At(pc)) \in Nat /\ Cardinality(At(pc)') \in Nat
  BY <1>2, FS_CardinalityType
<1>6. \A b : Due(b) \in Nat /\ Due(b)' \in Nat
  BY <1>3, FS_CardinalityType DEF Due
<1>7. \A st : Of(st) \in Nat /\ Of(st)' \in Nat
  BY <1>4, FS_CardinalityType DEF Of
<1> QED BY <1>2, <1>5, <1>6, <1>7

LEMMA AtMoves ==
    ASSUME NEW p \in Workers, \A q \in Workers \ {p} : worker'[q] = worker[q], NEW pc
    PROVE  /\ (worker[p].pc = pc <=> worker'[p].pc = pc) => At(pc)' = At(pc)
           /\ worker[p].pc # pc /\ worker'[p].pc = pc
                 => Cardinality(At(pc)') = Cardinality(At(pc)) + 1
           /\ worker[p].pc = pc /\ worker'[p].pc # pc
                 => Cardinality(At(pc)') = Cardinality(At(pc)) - 1
<1>1. ASSUME worker[p].pc = pc <=> worker'[p].pc = pc PROVE At(pc)' = At(pc)
  BY <1>1 DEF At
<1>2. ASSUME worker[p].pc # pc, worker'[p].pc = pc
      PROVE  Cardinality(At(pc)') = Cardinality(At(pc)) + 1
  <2>1. p \notin At(pc) /\ At(pc)' = At(pc) \cup {p}
    BY <1>2 DEF At
  <2> QED BY <2>1, CountsAreNat, FS_AddElement
<1>3. ASSUME worker[p].pc = pc, worker'[p].pc # pc
      PROVE  Cardinality(At(pc)') = Cardinality(At(pc)) - 1
  <2>1. p \in At(pc) /\ At(pc)' = At(pc) \ {p}
    BY <1>3 DEF At
  <2> QED BY <2>1, CountsAreNat, FS_RemoveElement
<1> QED BY <1>1, <1>2, <1>3

Credits(l, b) == l.pc = "credit" /\ l.frozen = b

LEMMA DueMoves ==
    ASSUME NEW p \in Workers, \A q \in Workers \ {p} : worker'[q] = worker[q], NEW b
    PROVE  /\ (Credits(worker[p], b) <=> Credits(worker'[p], b)) => Due(b)' = Due(b)
           /\ ~Credits(worker[p], b) /\ Credits(worker'[p], b) => Due(b)' = Due(b) + 1
           /\ Credits(worker[p], b) /\ ~Credits(worker'[p], b) => Due(b)' = Due(b) - 1
<1> DEFINE D == {q \in Workers : Credits(worker[q], b)}
           E == {q \in Workers : Credits(worker'[q], b)}
<1>1. Due(b) = Cardinality(D) /\ Due(b)' = Cardinality(E)
  <2>1. D = {q \in At("credit") : worker[q].frozen = b}
    BY DEF At, Credits
  <2>2. E = {q \in At("credit")' : worker'[q].frozen = b}
    BY DEF At, Credits
  <2> QED BY <2>1, <2>2 DEF Due
<1>2. IsFiniteSet(D)
  BY BrokerageFinite, FS_Subset
<1>3. Credits(worker[p], b) <=> p \in D
  OBVIOUS
<1>4. Credits(worker'[p], b) <=> p \in E
  OBVIOUS
<1>5. D \ {p} = E \ {p}
  OBVIOUS
<1> HIDE DEF D, E
<1>6. ASSUME p \in D <=> p \in E PROVE Due(b)' = Due(b)
  <2>1. D = E
    BY <1>5, <1>6
  <2> QED BY <1>1, <2>1
<1>7. ASSUME p \notin D, p \in E PROVE Due(b)' = Due(b) + 1
  <2>1. E = D \cup {p}
    BY <1>5, <1>7
  <2> QED BY <1>1, <1>2, <1>7, <2>1, FS_AddElement
<1>8. ASSUME p \in D, p \notin E PROVE Due(b)' = Due(b) - 1
  <2>1. E = D \ {p}
    BY <1>5, <1>8
  <2> QED BY <1>1, <1>2, <1>8, <2>1, FS_RemoveElement
<1> QED BY <1>3, <1>4, <1>6, <1>7, <1>8

LEMMA OfMoves ==
    ASSUME NEW e \in Earnings, \A d \in Earnings \ {e} : earning'[d] = earning[d], NEW st
    PROVE  /\ (earning[e] = st <=> earning'[e] = st) => Of(st)' = Of(st)
           /\ earning[e] # st /\ earning'[e] = st => Of(st)' = Of(st) + 1
           /\ earning[e] = st /\ earning'[e] # st => Of(st)' = Of(st) - 1
<1> DEFINE D == {d \in Earnings : earning[d] = st}
           E == {d \in Earnings : earning'[d] = st}
<1>1. Of(st) = Cardinality(D) /\ Of(st)' = Cardinality(E)
  BY DEF Of
<1>2. IsFiniteSet(D)
  BY BrokerageFinite, FS_Subset
<1>3. (earning[e] = st <=> e \in D) /\ (earning'[e] = st <=> e \in E)
  OBVIOUS
<1>4. D \ {e} = E \ {e}
  OBVIOUS
<1> HIDE DEF D, E
<1>5. ASSUME e \in D <=> e \in E PROVE Of(st)' = Of(st)
  <2>1. D = E
    BY <1>4, <1>5
  <2> QED BY <1>1, <2>1
<1>6. ASSUME e \notin D, e \in E PROVE Of(st)' = Of(st) + 1
  <2>1. E = D \cup {e}
    BY <1>4, <1>6
  <2> QED BY <1>1, <1>2, <1>6, <2>1, FS_AddElement
<1>7. ASSUME e \in D, e \notin E PROVE Of(st)' = Of(st) - 1
  <2>1. E = D \ {e}
    BY <1>4, <1>7
  <2> QED BY <1>1, <1>2, <1>7, <2>1, FS_RemoveElement
<1> QED BY <1>3, <1>5, <1>6, <1>7

LEMMA OfStays == ASSUME earning' = earning, NEW st PROVE Of(st)' = Of(st)
BY DEF Of

LEMMA EntriesSum ==
    ASSUME NEW f \in [Withdrawals -> Nat]
    PROVE  SumFunctionOnSet(f, Withdrawals) \in Nat
BY BrokerageFinite, SumIsNat

LEMMA EntriesGain ==
    ASSUME NEW f \in [Withdrawals -> Nat], NEW g \in [Withdrawals -> Nat], NEW x \in Withdrawals,
           g[x] = f[x] + 1, \A y \in Withdrawals \ {x} : g[y] = f[y]
    PROVE  SumFunctionOnSet(g, Withdrawals) = SumFunctionOnSet(f, Withdrawals) + 1
<1>1. PICK n \in Nat : n = f[x]
  OBVIOUS
<1>2. g[x] = n + 1
  BY <1>1
<1>3. \A y \in Withdrawals : f[y] \in Int /\ g[y] \in Int
  OBVIOUS
<1>4. SumFunctionOnSet(g, Withdrawals) = SumFunctionOnSet(f, Withdrawals) + (g[x] - f[x])
  BY <1>3, BrokerageFinite, SumChange
<1>5. g[x] - f[x] = 1
  BY <1>1, <1>2
<1> QED BY <1>4, <1>5

LEMMA SharesAreNat ==
    /\ Of("wait") \in Nat /\ Of("settled") \in Nat /\ Cardinality(At("move")) \in Nat
    /\ DueFrozen \in Nat /\ DuePrice \in Nat
<1>1. Of("wait") \in Nat /\ Of("settled") \in Nat
  BY CountsAreNat
<1>2. Cardinality(At("move")) \in Nat
  BY CountsAreNat
<1>3. DueFrozen \in Nat
  BY CountsAreNat DEF DueFrozen
<1>4. DuePrice \in Nat
  BY CountsAreNat DEF DuePrice
<1> QED BY <1>1, <1>2, <1>3, <1>4

LEMMA PayoutsAreNat ==
    ASSUME BrokerageShape
    PROVE  Taken \in Nat /\ GivenBack \in Nat /\ FrozenShares \in Int /\ PriceShares \in Int
<1>1. entries.taken \in [Withdrawals -> Nat] /\ entries.back \in [Withdrawals -> Nat]
  BY DEF BrokerageShape, BrokerageRows
<1>2. /\ SumFunctionOnSet(entries.taken, Withdrawals) \in Nat
      /\ SumFunctionOnSet(entries.back, Withdrawals) \in Nat
  BY <1>1, EntriesSum
<1>3. Taken \in Nat /\ GivenBack \in Nat
  BY <1>2, CountsAreNat DEF Taken, GivenBack
<1>4. FrozenShares \in Int /\ PriceShares \in Int
  BY SharesAreNat DEF FrozenShares, PriceShares
<1> QED BY <1>3, <1>4

LEMMA SharesMove ==
    ASSUME NEW w \in {-1, 0, 1}, NEW s \in {0, 1}, NEW m \in {-1, 0, 1}, NEW d \in {-1, 0, 1},
           NEW f \in {-1, 0, 1},
           Of("wait")' = Of("wait") + w, Of("settled")' = Of("settled") + s,
           Cardinality(At("move")') = Cardinality(At("move")) + m,
           DueFrozen' = DueFrozen + d, DuePrice' = DuePrice + f
    PROVE  /\ FrozenShares' = FrozenShares + (w + m - d)
           /\ PriceShares' = PriceShares + (s - m - f)
<1>1. PICK ow \in Nat : ow = Of("wait")
  BY CountsAreNat
<1>2. PICK os \in Nat : os = Of("settled")
  BY CountsAreNat
<1>3. PICK mv \in Nat : mv = Cardinality(At("move"))
  BY CountsAreNat
<1>4. PICK dt \in Nat : dt = DueFrozen
  BY SharesAreNat
<1>5. PICK df \in Nat : df = DuePrice
  BY SharesAreNat
<1>6. FrozenShares = ow + mv - dt /\ PriceShares = os - mv - df
  BY <1>1, <1>2, <1>3, <1>4, <1>5 DEF FrozenShares, PriceShares
<1>7. /\ Of("wait")' = ow + w /\ Of("settled")' = os + s /\ Cardinality(At("move")') = mv + m
      /\ DueFrozen' = dt + d /\ DuePrice' = df + f
  BY <1>1, <1>2, <1>3, <1>4, <1>5
<1>8. /\ FrozenShares' = (ow + w) + (mv + m) - (dt + d)
      /\ PriceShares' = (os + s) - (mv + m) - (df + f)
  BY <1>7 DEF FrozenShares, PriceShares
<1> QED BY <1>6, <1>8

LEMMA AccountByStep ==
    ASSUME BrokerageShape, AccountExplained, brokerageFaults' = 0 => brokerageFaults = 0,
           NEW k \in {-1, 0, 1}, NEW m \in {0, 1}, NEW l \in {0, 1}, NEW n \in {-1, 0, 1},
           FrozenShares' = FrozenShares + k, PriceShares' = PriceShares + m,
           Taken' = Taken + l, GivenBack' - Taken' = GivenBack - Taken + n,
           account'.frozen = account.frozen + (k * Share + l * Payout),
           account'.price = account.price + (m * Share + n * Payout)
    PROVE  AccountExplained'
<1>0. /\ account.frozen \in Int /\ account.price \in Int
      /\ FrozenShares \in Int /\ PriceShares \in Int /\ Taken \in Int /\ GivenBack - Taken \in Int
  BY PayoutsAreNat DEF BrokerageShape, BrokerageRows
<1>a. PICK z \in Int : z = account.frozen
  BY <1>0
<1>b. PICK u \in Int : u = account.price
  BY <1>0
<1>c. PICK i \in Int : i = FrozenShares
  BY <1>0
<1>d. PICK j \in Int : j = PriceShares
  BY <1>0
<1>e. PICK t \in Int : t = Taken
  BY <1>0
<1>f. PICK g \in Int : g = GivenBack - Taken
  BY <1>0
<1>1. /\ z = account.frozen /\ u = account.price
      /\ i = FrozenShares /\ j = PriceShares /\ t = Taken /\ g = GivenBack - Taken
  BY <1>a, <1>b, <1>c, <1>d, <1>e, <1>f
<1>2. /\ Share * (i + k) + Payout * (t + l) = Share * i + Payout * t + (k * Share + l * Payout)
      /\ Share * (j + m) + Payout * (g + n) = Share * j + Payout * g + (m * Share + n * Payout)
  BY BrokerageFinite
<1>3. ASSUME brokerageFaults' = 0
      PROVE  /\ account'.frozen = Share * (i + k) + Payout * (t + l)
             /\ account'.price = Share * (j + m) + Payout * (g + n)
  <2>1. /\ z = Share * i + Payout * t /\ u = Share * j + Payout * g
    BY <1>1, <1>3 DEF AccountExplained, FrozenShares, PriceShares, DueFrozen, DuePrice
  <2> QED BY <1>1, <1>2, <2>1
<1>4. /\ FrozenShares' = i + k /\ PriceShares' = j + m /\ Taken' = t + l
      /\ GivenBack' - Taken' = g + n
  BY <1>1
<1>5. ASSUME brokerageFaults' = 0
      PROVE  /\ account'.frozen = Share * FrozenShares' + Payout * Taken'
             /\ account'.price = Share * PriceShares' + Payout * (GivenBack' - Taken')
  BY <1>3, <1>4, <1>5
<1> QED BY <1>5 DEF AccountExplained, FrozenShares, PriceShares, DueFrozen, DuePrice

\* A step that moves no count and leaves the account alone.
LEMMA AccountStays ==
    ASSUME BrokerageShape, AccountExplained, brokerageFaults' = brokerageFaults, account' = account,
           FrozenShares' = FrozenShares, PriceShares' = PriceShares, Taken' = Taken,
           GivenBack' = GivenBack
    PROVE  AccountExplained'
BY DEF AccountExplained, FrozenShares, PriceShares, DueFrozen, DuePrice

LEMMA PayoutsStay ==
    ASSUME NEW p \in Workers, \A q \in Workers \ {p} : worker'[q] = worker[q], entries' = entries,
           worker[p].pc \notin {"taken", "back"}, worker'[p].pc \notin {"taken", "back"}
    PROVE  Taken' = Taken /\ GivenBack' = GivenBack
<1>1. At("taken")' = At("taken") /\ At("back")' = At("back")
  BY AtMoves
<1> QED BY <1>1 DEF Taken, GivenBack

LEMMA SharesStay ==
    ASSUME NEW p \in Workers, \A q \in Workers \ {p} : worker'[q] = worker[q], earning' = earning,
           worker[p].pc \notin {"move", "credit"}, worker'[p].pc \notin {"move", "credit"}
    PROVE  FrozenShares' = FrozenShares /\ PriceShares' = PriceShares
<1>1. At("move")' = At("move")
  BY AtMoves
<1>2. DueFrozen' = DueFrozen /\ DuePrice' = DuePrice
  BY DueMoves DEF Credits, DueFrozen, DuePrice
<1> QED BY <1>1, <1>2, OfStays DEF FrozenShares, PriceShares

LEMMA AccountByShares ==
    ASSUME BrokerageShape, AccountExplained, NEW p \in Workers,
           \/ \E e \in Earnings : AddRecords(p, e)
           \/ Credit(p) \/ UnfreezeRecord(p) \/ MoveFrozen(p)
    PROVE  AccountExplained'
<1>0. /\ \A q \in Workers \ {p} : worker'[q] = worker[q]
      /\ worker[p].pc \notin {"taken", "back"} /\ worker'[p].pc \notin {"taken", "back"}
      /\ entries' = entries
  BY AddRecordsDoes, CreditDoes, UnfreezeRecordDoes, MoveFrozenDoes, UnoccupiedIsRow
     DEF AddRecords, Credit, UnfreezeRecord, MoveFrozen
<1>1. Taken' = Taken /\ GivenBack' = GivenBack /\ Taken \in Nat /\ GivenBack \in Nat
  BY <1>0, PayoutsStay, PayoutsAreNat
<1>2. Taken' = Taken + 0 /\ GivenBack' - Taken' = GivenBack - Taken + 0
  BY <1>1
<1>3. /\ account.frozen \in Int /\ account.price \in Int /\ Share \in Int /\ Payout \in Int
      /\ 0 * Payout = 0 /\ 0 * Share = 0 /\ 1 * Share = Share /\ (-1) * Share = -Share
  BY BrokerageFinite DEF BrokerageShape, BrokerageRows
<1>4. CASE \E e \in Earnings : AddRecords(p, e)
  <2>1. PICK e \in Earnings : AddRecords(p, e)
    BY <1>4
  <2>2. /\ worker[p].pc = "idle" /\ worker'[p].pc = "credit" /\ worker'[p].frozen \in BOOLEAN
        /\ earning[e] = "none" /\ earning'[e] = IF worker'[p].frozen THEN "wait" ELSE "settled"
        /\ \A d \in Earnings \ {e} : earning'[d] = earning[d]
        /\ UNCHANGED <<account, brokerageFaults>>
    BY <2>1, AddRecordsDoes DEF AddRecords
  <2>3. At("move")' = At("move")
    BY <1>0, <2>2, AtMoves
  <2>4. CASE worker'[p].frozen = TRUE
    <3>1. Of("wait")' = Of("wait") + 1 /\ Of("settled")' = Of("settled")
      BY <2>2, <2>4, OfMoves
    <3>2. DueFrozen' = DueFrozen + 1 /\ DuePrice' = DuePrice
      BY <1>0, <2>2, <2>4, DueMoves DEF Credits, DueFrozen, DuePrice
    <3>a. /\ Of("wait")' = Of("wait") + 1 /\ Of("settled")' = Of("settled") + 0
          /\ Cardinality(At("move")') = Cardinality(At("move")) + 0
          /\ DueFrozen' = DueFrozen + 1 /\ DuePrice' = DuePrice + 0
      BY <2>3, <3>1, <3>2, SharesAreNat
    <3>b. /\ FrozenShares' = FrozenShares + (1 + 0 - 1)
          /\ PriceShares' = PriceShares + (0 - 0 - 0)
      BY <3>a, SharesMove
    <3>3. FrozenShares' = FrozenShares /\ PriceShares' = PriceShares
      BY <3>b, PayoutsAreNat
    <3> QED BY <1>1, <2>2, <3>3, AccountStays
  <2>5. CASE worker'[p].frozen = FALSE
    <3>1. Of("wait")' = Of("wait") /\ Of("settled")' = Of("settled") + 1
      BY <2>2, <2>5, OfMoves
    <3>2. DueFrozen' = DueFrozen /\ DuePrice' = DuePrice + 1
      BY <1>0, <2>2, <2>5, DueMoves DEF Credits, DueFrozen, DuePrice
    <3>a. /\ Of("wait")' = Of("wait") + 0 /\ Of("settled")' = Of("settled") + 1
          /\ Cardinality(At("move")') = Cardinality(At("move")) + 0
          /\ DueFrozen' = DueFrozen + 0 /\ DuePrice' = DuePrice + 1
      BY <2>3, <3>1, <3>2, SharesAreNat
    <3>b. /\ FrozenShares' = FrozenShares + (0 + 0 - 0)
          /\ PriceShares' = PriceShares + (1 - 0 - 1)
      BY <3>a, SharesMove
    <3>3. FrozenShares' = FrozenShares /\ PriceShares' = PriceShares
      BY <3>b, PayoutsAreNat
    <3> QED BY <1>1, <2>2, <3>3, AccountStays
  <2> QED BY <2>2, <2>4, <2>5
<1>5. CASE Credit(p)
  <2>1. /\ worker[p].pc = "credit" /\ worker'[p].pc = "idle" /\ worker[p].frozen \in BOOLEAN
        /\ account'.frozen = account.frozen + (IF worker[p].frozen THEN Share ELSE 0)
        /\ account'.price = account.price + (IF worker[p].frozen THEN 0 ELSE Share)
        /\ UNCHANGED <<earning, brokerageFaults>>
    BY <1>5, CreditDoes, UnoccupiedIsRow DEF Credit
  <2>2. At("move")' = At("move") /\ Of("wait")' = Of("wait") /\ Of("settled")' = Of("settled")
    BY <1>0, <2>1, AtMoves, OfStays
  <2>3. CASE worker[p].frozen = TRUE
    <3>1. DueFrozen' = DueFrozen - 1 /\ DuePrice' = DuePrice
      BY <1>0, <2>1, <2>3, DueMoves DEF Credits, DueFrozen, DuePrice
    <3>a. /\ Of("wait")' = Of("wait") + 0 /\ Of("settled")' = Of("settled") + 0
          /\ Cardinality(At("move")') = Cardinality(At("move")) + 0
          /\ DueFrozen' = DueFrozen + (-1) /\ DuePrice' = DuePrice + 0
      BY <2>2, <3>1, SharesAreNat
    <3>b. /\ FrozenShares' = FrozenShares + (0 + 0 - (-1))
          /\ PriceShares' = PriceShares + (0 - 0 - 0)
      BY <3>a, SharesMove
    <3>2. FrozenShares' = FrozenShares + 1 /\ PriceShares' = PriceShares + 0
      BY <3>b, PayoutsAreNat
    <3>3. /\ account'.frozen = account.frozen + (1 * Share + 0 * Payout)
          /\ account'.price = account.price + (0 * Share + 0 * Payout)
      BY <1>3, <2>1, <2>3
    <3> QED BY <1>2, <2>1, <3>2, <3>3, AccountByStep
  <2>4. CASE worker[p].frozen = FALSE
    <3>1. DueFrozen' = DueFrozen /\ DuePrice' = DuePrice - 1
      BY <1>0, <2>1, <2>4, DueMoves DEF Credits, DueFrozen, DuePrice
    <3>a. /\ Of("wait")' = Of("wait") + 0 /\ Of("settled")' = Of("settled") + 0
          /\ Cardinality(At("move")') = Cardinality(At("move")) + 0
          /\ DueFrozen' = DueFrozen + 0 /\ DuePrice' = DuePrice + (-1)
      BY <2>2, <3>1, SharesAreNat
    <3>b. /\ FrozenShares' = FrozenShares + (0 + 0 - 0)
          /\ PriceShares' = PriceShares + (0 - 0 - (-1))
      BY <3>a, SharesMove
    <3>2. FrozenShares' = FrozenShares + 0 /\ PriceShares' = PriceShares + 1
      BY <3>b, PayoutsAreNat
    <3>3. /\ account'.frozen = account.frozen + (0 * Share + 0 * Payout)
          /\ account'.price = account.price + (1 * Share + 0 * Payout)
      BY <1>3, <2>1, <2>4
    <3> QED BY <1>2, <2>1, <3>2, <3>3, AccountByStep
  <2> QED BY <2>1, <2>3, <2>4
<1>6. CASE UnfreezeRecord(p)
  <2>1. worker[p].pc = "unfreeze" /\ UNCHANGED <<account, brokerageFaults>>
    BY <1>6 DEF UnfreezeRecord
  <2>2. CASE worker'[p].pc = "unfreeze" /\ earning' = earning
    BY <1>0, <1>1, <2>1, <2>2, SharesStay, AccountStays
  <2>3. ASSUME NEW e \in Earnings, worker'[p].pc = "move", earning[e] = "wait",
               earning'[e] = "settled", \A d \in Earnings \ {e} : earning'[d] = earning[d]
        PROVE  AccountExplained'
    <3>1. Of("wait")' = Of("wait") - 1 /\ Of("settled")' = Of("settled") + 1
      BY <2>3, OfMoves
    <3>2. Cardinality(At("move")') = Cardinality(At("move")) + 1
      BY <1>0, <2>1, <2>3, AtMoves
    <3>3. DueFrozen' = DueFrozen /\ DuePrice' = DuePrice
      BY <1>0, <2>1, <2>3, DueMoves DEF Credits, DueFrozen, DuePrice
    <3>a. /\ Of("wait")' = Of("wait") + (-1) /\ Of("settled")' = Of("settled") + 1
          /\ Cardinality(At("move")') = Cardinality(At("move")) + 1
          /\ DueFrozen' = DueFrozen + 0 /\ DuePrice' = DuePrice + 0
      BY <3>1, <3>2, <3>3, SharesAreNat
    <3>b. /\ FrozenShares' = FrozenShares + ((-1) + 1 - 0)
          /\ PriceShares' = PriceShares + (1 - 1 - 0)
      BY <3>a, SharesMove
    <3>4. FrozenShares' = FrozenShares /\ PriceShares' = PriceShares
      BY <3>b, PayoutsAreNat
    <3> QED BY <1>1, <2>1, <3>4, AccountStays
  <2> QED BY <1>6, <2>2, <2>3, UnfreezeRecordDoes
<1>7. CASE MoveFrozen(p)
  <2>1. CASE brokerageFaults' # 0
    BY <2>1 DEF AccountExplained
  <2>2. CASE brokerageFaults' = 0
    <3>1. /\ worker[p].pc = "move" /\ worker'[p].pc = "unfreeze" /\ brokerageFaults' = brokerageFaults
          /\ account'.price = account.price + Share /\ account'.frozen = account.frozen - Share
          /\ earning' = earning
      BY <1>7, <2>2, MoveFrozenDoes DEF MoveFrozen
    <3>2. Cardinality(At("move")') = Cardinality(At("move")) - 1
      BY <1>0, <3>1, AtMoves
    <3>3. DueFrozen' = DueFrozen /\ DuePrice' = DuePrice
      BY <1>0, <3>1, DueMoves DEF Credits, DueFrozen, DuePrice
    <3>a. /\ Of("wait")' = Of("wait") + 0 /\ Of("settled")' = Of("settled") + 0
          /\ Cardinality(At("move")') = Cardinality(At("move")) + (-1)
          /\ DueFrozen' = DueFrozen + 0 /\ DuePrice' = DuePrice + 0
      BY <3>1, <3>2, <3>3, OfStays, SharesAreNat
    <3>b. /\ FrozenShares' = FrozenShares + (0 + (-1) - 0)
          /\ PriceShares' = PriceShares + (0 - (-1) - 0)
      BY <3>a, SharesMove
    <3>4. FrozenShares' = FrozenShares + (-1) /\ PriceShares' = PriceShares + 1
      BY <3>b, PayoutsAreNat
    <3>5. /\ account'.frozen = account.frozen + ((-1) * Share + 0 * Payout)
          /\ account'.price = account.price + (1 * Share + 0 * Payout)
      BY <1>3, <3>1
    <3> QED BY <1>2, <3>1, <3>4, <3>5, AccountByStep
  <2> QED BY <2>1, <2>2
<1> QED BY <1>4, <1>5, <1>6, <1>7

LEMMA AccountByPayouts ==
    ASSUME BrokerageShape, BrokerageShape', AccountExplained, NEW p \in Workers,
           ReduceBrokerage(p) \/ RecordTaken(p) \/ AddBrokerage(p) \/ RecordBack(p)
    PROVE  AccountExplained'
<1>0. /\ \A q \in Workers \ {p} : worker'[q] = worker[q]
      /\ worker[p].pc \notin {"move", "credit"} /\ worker'[p].pc \notin {"move", "credit"}
      /\ UNCHANGED <<earning, brokerageFaults>>
  BY ReduceBrokerageDoes, RecordTakenDoes, AddBrokerageDoes, RecordBackDoes, UnoccupiedIsRow
     DEF ReduceBrokerage, RecordTaken, AddBrokerage, RecordBack
<1>1. FrozenShares' = FrozenShares /\ PriceShares' = PriceShares
  BY <1>0, SharesStay
<1>2. FrozenShares' = FrozenShares + 0 /\ PriceShares' = PriceShares + 0
  BY <1>1, PayoutsAreNat
<1>3. /\ account.frozen \in Int /\ account.price \in Int /\ Share \in Int /\ Payout \in Int
      /\ 0 * Payout = 0 /\ 0 * Share = 0 /\ 1 * Payout = Payout /\ (-1) * Payout = -Payout
  BY BrokerageFinite DEF BrokerageShape, BrokerageRows
<1>4. /\ entries.taken \in [Withdrawals -> Nat] /\ entries.back \in [Withdrawals -> Nat]
      /\ entries'.taken \in [Withdrawals -> Nat] /\ entries'.back \in [Withdrawals -> Nat]
  BY DEF BrokerageShape, BrokerageRows
<1>5. /\ SumFunctionOnSet(entries.taken, Withdrawals) \in Nat
      /\ SumFunctionOnSet(entries.back, Withdrawals) \in Nat
  BY <1>4, EntriesSum
<1>6. CASE ReduceBrokerage(p)
  <2>1. /\ worker[p].pc = "reduce" /\ worker'[p].pc = "taken" /\ entries' = entries
        /\ account'.price = account.price - Payout /\ account'.frozen = account.frozen + Payout
    BY <1>6, ReduceBrokerageDoes DEF ReduceBrokerage
  <2>2. Cardinality(At("taken")') = Cardinality(At("taken")) + 1 /\ At("back")' = At("back")
    BY <1>0, <2>1, AtMoves
  <2>3. Taken' = Taken + 1 /\ GivenBack' = GivenBack
    BY <1>5, <2>1, <2>2, CountsAreNat DEF Taken, GivenBack
  <2>4. GivenBack' - Taken' = GivenBack - Taken + (-1)
    BY <2>3, PayoutsAreNat
  <2>5. /\ account'.frozen = account.frozen + (0 * Share + 1 * Payout)
        /\ account'.price = account.price + (0 * Share + (-1) * Payout)
    BY <1>3, <2>1
  <2> QED BY <1>0, <1>2, <2>3, <2>4, <2>5, AccountByStep
<1>7. CASE AddBrokerage(p)
  <2>1. /\ worker[p].pc = "giveBack" /\ worker'[p].pc = "back" /\ entries' = entries
        /\ account'.price = account.price + Payout /\ account'.frozen = account.frozen
    BY <1>7, AddBrokerageDoes DEF AddBrokerage
  <2>2. Cardinality(At("back")') = Cardinality(At("back")) + 1 /\ At("taken")' = At("taken")
    BY <1>0, <2>1, AtMoves
  <2>3. Taken' = Taken + 0 /\ GivenBack' = GivenBack + 1
    BY <1>5, <2>1, <2>2, CountsAreNat DEF Taken, GivenBack
  <2>4. GivenBack' - Taken' = GivenBack - Taken + 1
    BY <2>3, PayoutsAreNat
  <2>5. /\ account'.frozen = account.frozen + (0 * Share + 0 * Payout)
        /\ account'.price = account.price + (0 * Share + 1 * Payout)
    BY <1>3, <2>1
  <2> QED BY <1>0, <1>2, <2>3, <2>4, <2>5, AccountByStep
<1>8. CASE RecordTaken(p)
  <2>1. /\ worker[p].pc = "taken" /\ worker'[p].pc = "commit" /\ entries'.back = entries.back
        /\ account' = account
    BY <1>8, RecordTakenDoes DEF RecordTaken
  <2>2. PICK x \in Withdrawals : /\ entries'.taken[x] = entries.taken[x] + 1
                                 /\ \A y \in Withdrawals \ {x} : entries'.taken[y] = entries.taken[y]
    BY <1>8, RecordTakenDoes
  <2>3. SumFunctionOnSet(entries'.taken, Withdrawals) = SumFunctionOnSet(entries.taken, Withdrawals) + 1
    BY <1>4, <2>2, EntriesGain
  <2>4. Cardinality(At("taken")') = Cardinality(At("taken")) - 1 /\ At("back")' = At("back")
    BY <1>0, <2>1, AtMoves
  <2>5. Taken' = Taken /\ GivenBack' = GivenBack
    BY <1>5, <2>1, <2>3, <2>4, CountsAreNat DEF Taken, GivenBack
  <2> QED BY <1>0, <1>1, <2>1, <2>5, AccountStays
<1>9. CASE RecordBack(p)
  <2>1. /\ worker[p].pc = "back" /\ worker'[p].pc = "idle" /\ entries'.taken = entries.taken
        /\ account' = account
    BY <1>9, RecordBackDoes, UnoccupiedIsRow DEF RecordBack
  <2>2. PICK x \in Withdrawals : /\ entries'.back[x] = entries.back[x] + 1
                                 /\ \A y \in Withdrawals \ {x} : entries'.back[y] = entries.back[y]
    BY <1>9, RecordBackDoes
  <2>3. SumFunctionOnSet(entries'.back, Withdrawals) = SumFunctionOnSet(entries.back, Withdrawals) + 1
    BY <1>4, <2>2, EntriesGain
  <2>4. Cardinality(At("back")') = Cardinality(At("back")) - 1 /\ At("taken")' = At("taken")
    BY <1>0, <2>1, AtMoves
  <2>5. Taken' = Taken /\ GivenBack' = GivenBack
    BY <1>5, <2>1, <2>3, <2>4, CountsAreNat DEF Taken, GivenBack
  <2> QED BY <1>0, <1>1, <2>1, <2>5, AccountStays
<1> QED BY <1>6, <1>7, <1>8, <1>9

LEMMA AccountElsewhere ==
    ASSUME BrokerageShape, AccountExplained, NEW p \in Workers,
           \/ UnfreezeFind(p) \/ UnfreezeEnd(p)
           \/ \E x \in Withdrawals : CreateWithdraw(p, x)
           \/ \E x \in Withdrawals, v \in {"approve", "refuse"} : AuditRead(p, x, v)
           \/ CommitWithdraw(p) \/ AuditUpdate(p) \/ WithdrawSuccess(p)
    PROVE  AccountExplained'
<1>1. /\ \A q \in Workers \ {p} : worker'[q] = worker[q]
      /\ worker[p].pc \notin {"move", "credit", "taken", "back"}
      /\ worker'[p].pc \notin {"move", "credit", "taken", "back"}
  BY UnfreezeFindDoes, UnfreezeEndDoes, CreateWithdrawDoes, AuditReadDoes, CommitWithdrawDoes,
     AuditUpdateDoes, WithdrawSuccessDoes, UnoccupiedIsRow
<1>2. UNCHANGED <<account, earning, entries, brokerageFaults>>
  BY DEF UnfreezeFind, UnfreezeEnd, CreateWithdraw, AuditRead, CommitWithdraw, AuditUpdate,
         WithdrawSuccess
<1>3. /\ Taken' = Taken /\ GivenBack' = GivenBack
      /\ FrozenShares' = FrozenShares /\ PriceShares' = PriceShares
  BY <1>1, <1>2, PayoutsStay, SharesStay
<1> QED BY <1>2, <1>3, AccountStays

-----------------------------------------------------------------------------
(* The invariant of the brokerage.                                          *)

LEMMA BrokerageStarts == BrokerageInit => BrokerageInv
<1> SUFFICES ASSUME BrokerageInit PROVE BrokerageInv
  OBVIOUS
<1>1. worker = [p \in Workers |-> Unoccupied] /\ \A p \in Workers : worker[p] = Unoccupied
  BY DEF BrokerageInit
<1>2. \A x \in Withdrawals :
         /\ entries.taken[x] = 0 /\ entries.back[x] = 0 /\ withdrawal[x].status = "none"
  BY DEF BrokerageInit
<1>3. BrokerageShape
  <2>1. \A x \in Withdrawals : withdrawal[x] \in WithdrawalRow
    BY DEF BrokerageInit, WithdrawalRow
  <2>2. withdrawal \in [Withdrawals -> WithdrawalRow]
    BY <2>1 DEF BrokerageInit
  <2>3. BrokerageRows
    BY <2>2, BrokerageAssumption DEF BrokerageInit, BrokerageRows
  <2> QED BY <1>1, <2>3, UnoccupiedIsRow DEF BrokerageShape, Withdrawing, Deciding
<1>4. Settlements
  <2>1. \A x : Returning(x) = {}
    BY <1>1, UnoccupiedIsRow DEF Returning
  <2>2. \A x \in Withdrawals : Settlement(x)
    BY <1>2, <2>1, FS_EmptySet DEF Settlement
  <2> QED BY <1>1, <2>2, UnoccupiedIsRow DEF Settlements
<1>5. AccountExplained
  <2>1. \A pc : pc # "idle" => At(pc) = {}
    BY <1>1, UnoccupiedIsRow DEF At
  <2>2. Cardinality(At("move")) = 0 /\ Cardinality(At("taken")) = 0 /\ Cardinality(At("back")) = 0
    BY <2>1, FS_EmptySet
  <2>3. \A st : st # "none" => {e \in Earnings : earning[e] = st} = {}
    BY DEF BrokerageInit
  <2>4. Of("wait") = 0 /\ Of("settled") = 0
    BY <2>3, FS_EmptySet DEF Of
  <2>5. \A b : {p \in At("credit") : worker[p].frozen = b} = {}
    BY <2>1
  <2>6. DueFrozen = 0 /\ DuePrice = 0
    BY <2>5, FS_EmptySet DEF DueFrozen, DuePrice, Due
  <2>7. Taken = 0 /\ GivenBack = 0
    BY <1>2, <2>2, BrokerageFinite, SumOfZeros DEF Taken, GivenBack
  <2>8. FrozenShares = 0 /\ PriceShares = 0
    BY <2>2, <2>4, <2>6 DEF FrozenShares, PriceShares
  <2>9. /\ account.frozen = Share * FrozenShares + Payout * Taken
        /\ account.price = Share * PriceShares + Payout * (GivenBack - Taken)
    BY <2>7, <2>8, BrokerageFinite DEF BrokerageInit
  <2> QED BY <2>9 DEF AccountExplained, FrozenShares, PriceShares, DueFrozen, DuePrice
<1> QED BY <1>3, <1>4, <1>5 DEF BrokerageInv

\* The steps of a worker with no withdrawal in hand.
LEMMA EmptyHandedStep ==
    ASSUME BrokerageShape, BrokerageShape', Settlements, NEW p \in Workers,
           \/ \E e \in Earnings : AddRecords(p, e)
           \/ Credit(p) \/ UnfreezeFind(p) \/ UnfreezeRecord(p) \/ MoveFrozen(p) \/ UnfreezeEnd(p)
    PROVE  Settlements'
<1>1. /\ \A q \in Workers \ {p} : worker'[q] = worker[q]
      /\ worker[p].pc \in {"idle", "credit", "unfreeze", "move"}
      /\ worker'[p].pc \in {"idle", "credit", "unfreeze", "move"}
  BY AddRecordsDoes, CreditDoes, UnfreezeFindDoes, UnfreezeRecordDoes, MoveFrozenDoes, UnfreezeEndDoes,
     UnoccupiedIsRow
<1>2. worker[p].w = {} /\ worker'[p].w = {}
  BY <1>1 DEF BrokerageShape, Withdrawing, Deciding
<1>3. UNCHANGED <<withdrawal, entries>>
  BY DEF AddRecords, Credit, UnfreezeFind, UnfreezeRecord, MoveFrozen, UnfreezeEnd
<1> QED BY <1>1, <1>2, <1>3, SettledElsewhere

LEMMA BrokerageKept == BrokerageInv /\ [BrokerageNext]_brokerageVars => BrokerageInv'
<1> SUFFICES ASSUME BrokerageInv, [BrokerageNext]_brokerageVars PROVE BrokerageInv'
  OBVIOUS
<1>0. BrokerageShape /\ AccountExplained /\ Settlements
  BY DEF BrokerageInv
<1>1. CASE UNCHANGED brokerageVars
  <2>1. UNCHANGED <<account, earning, withdrawal, entries, brokerageFaults, worker>>
    BY <1>1 DEF brokerageVars
  <2>2. BrokerageShape'
    BY <1>0, <2>1 DEF BrokerageShape, BrokerageRows
  <2>3. AccountExplained'
    BY <1>0, <2>1 DEF AccountExplained, Of, At, Due, Taken, GivenBack
  <2>4. Settlements'
    BY <1>0, <2>1 DEF Settlements, Settlement, Returning, InHand
  <2> QED BY <2>2, <2>3, <2>4 DEF BrokerageInv
<1>2. ASSUME NEW p \in Workers,
             \/ \E e \in Earnings : AddRecords(p, e)
             \/ Credit(p) \/ UnfreezeFind(p) \/ UnfreezeRecord(p) \/ MoveFrozen(p) \/ UnfreezeEnd(p)
      PROVE  BrokerageInv'
  <2>1. BrokerageShape'
    BY <1>0, <1>2, AddRecordsDoes, CreditDoes, UnfreezeFindDoes, UnfreezeRecordDoes, MoveFrozenDoes,
       UnfreezeEndDoes
  <2>2. Settlements'
    BY <1>0, <1>2, <2>1, EmptyHandedStep
  <2>3. AccountExplained'
    BY <1>0, <1>2, AccountByShares, AccountElsewhere
  <2> QED BY <2>1, <2>2, <2>3 DEF BrokerageInv
<1>3. ASSUME NEW p \in Workers, NEW x \in Withdrawals,
             CreateWithdraw(p, x) \/ \E v \in {"approve", "refuse"} : AuditRead(p, x, v)
      PROVE  BrokerageInv'
  <2>1. BrokerageShape' /\ Settlements'
    BY <1>0, <1>3, CreateWithdrawDoes, AuditReadDoes, SettledByCreate, SettledByAuditRead
  <2>2. AccountExplained'
    BY <1>0, <1>3, AccountElsewhere
  <2> QED BY <2>1, <2>2 DEF BrokerageInv
<1>4. ASSUME NEW p \in Workers, ReduceBrokerage(p) \/ AddBrokerage(p)
      PROVE  BrokerageInv'
  <2>1. /\ BrokerageShape' /\ \A q \in Workers \ {p} : worker'[q] = worker[q]
        /\ worker'[p].w = worker[p].w
        /\ \/ worker[p].pc = "reduce" /\ worker'[p].pc = "taken"
           \/ worker[p].pc = "giveBack" /\ worker'[p].pc = "back"
    BY <1>0, <1>4, ReduceBrokerageDoes, AddBrokerageDoes
  <2>2. UNCHANGED <<withdrawal, entries>>
    BY <1>4 DEF ReduceBrokerage, AddBrokerage
  <2>3. Settlements'
    BY <1>0, <2>1, <2>2, SettledInHand
  <2>4. AccountExplained'
    BY <1>0, <1>4, <2>1, AccountByPayouts
  <2> QED BY <2>1, <2>3, <2>4 DEF BrokerageInv
<1>5. ASSUME NEW p \in Workers, RecordTaken(p) \/ RecordBack(p)
      PROVE  BrokerageInv'
  <2>1. BrokerageShape' /\ Settlements'
    BY <1>0, <1>5, RecordTakenDoes, RecordBackDoes, SettledByEntries
  <2>2. AccountExplained'
    BY <1>0, <1>5, <2>1, AccountByPayouts
  <2> QED BY <2>1, <2>2 DEF BrokerageInv
<1>6. ASSUME NEW p \in Workers, CommitWithdraw(p) \/ AuditUpdate(p) \/ WithdrawSuccess(p)
      PROVE  BrokerageInv'
  <2>1. BrokerageShape' /\ Settlements'
    BY <1>0, <1>6, CommitWithdrawDoes, AuditUpdateDoes, WithdrawSuccessDoes, SettledByStatus
  <2>2. AccountExplained'
    BY <1>0, <1>6, AccountElsewhere
  <2> QED BY <2>1, <2>2 DEF BrokerageInv
<1>7. ASSUME NEW p \in Workers, BrokerageFail(p) PROVE BrokerageInv'
  <2>1. BrokerageShape' /\ Settlements' /\ brokerageFaults' # 0
    BY <1>0, <1>7, BrokerageFailDoes, SettledByFail
  <2> QED BY <2>1 DEF BrokerageInv, AccountExplained
<1> QED BY <1>1, <1>2, <1>3, <1>4, <1>5, <1>6, <1>7 DEF BrokerageNext

LEMMA SettlementsPay == ASSUME BrokerageInv PROVE PaidOrGivenBack
<1>0. BrokerageShape /\ Settlements
  BY DEF BrokerageInv
<1>1. SUFFICES ASSUME NEW x \in Withdrawals
               PROVE  LET pending == {p \in At("paid") : x \in worker[p].w}
                          returning == {p \in At("giveBack") \cup At("back") : x \in worker[p].w}
                          returned == entries.back[x] + Cardinality(returning) IN
                      /\ withdrawal[x].status \notin {"none", "rolledBack"} => entries.taken[x] = 1
                      /\ returned <= 1
                      /\ returned = 1 => withdrawal[x].status = "auditFail" /\ pending = {}
  BY DEF PaidOrGivenBack
<1>2. {p \in At("giveBack") \cup At("back") : x \in worker[p].w} = Returning(x)
  BY DEF At, Returning
<1>3. Settlement(x)
  BY <1>0 DEF Settlements
<1>4. ASSUME NEW p \in At("paid"), x \in worker[p].w
      PROVE  withdrawal[x].status # "auditFail"
  BY <1>0, <1>4 DEF At, Settlements, InHand
<1> QED BY <1>2, <1>3, <1>4 DEF Settlement

(* What was earned, withdrawn, paid out and given back adds up to the account *)
(* of the member, and no withdrawal is paid out and given back (record.go:567 *)
(* and withdraw.go:85), for any number of earnings, withdrawals and workers.   *)
THEOREM BrokerageExplainedAlways == BrokerageSpec => []BrokerageExplained
<1>1. BrokerageInv => BrokerageExplained
  <2>1. BrokerageInv => BrokerageTypeOK
    BY DEF BrokerageInv, BrokerageShape, BrokerageRows, BrokerageTypeOK, WithdrawalRow, WorkerRow
  <2> QED BY <2>1, SettlementsPay DEF BrokerageInv, BrokerageExplained
<1> QED BY <1>1, BrokerageStarts, BrokerageKept, PTL DEF BrokerageSpec

-----------------------------------------------------------------------------
(* Promoters.  The rows a walk has read, as long as none of them changes, are *)
(* closed under promotion but for the one it comes to next, and the user who  *)
(* is to be bound is not among them.                                        *)

PromoterRow == [exists : BOOLEAN, enabled : BOOLEAN, by : SUBSET People]
BinderRow == [pc : {"idle", "look", "walk", "write"}, kind : {"bind", "change", "create"},
              user : SUBSET People, to : SUBSET People, cur : SUBSET People,
              hops : 0..MaxHops, insert : BOOLEAN, seen : SUBSET People, stale : BOOLEAN]

NoneOrOne(S) == S = {} \/ \E v \in People : S = {v}

PromoterRows ==
    /\ promoter \in [People -> PromoterRow]
    /\ \A u \in People : NoneOrOne(promoter[u].by)
    /\ \A u \in People : ~promoter[u].exists => ~promoter[u].enabled /\ promoter[u].by = {}

Acyclic == \A U \in SUBSET People : U # {} => \E u \in U : promoter[u].by \cap U = {}

BinderShape(l) ==
    /\ l.pc # "idle" => \E x \in People : l.user = {x}
    /\ NoneOrOne(l.to) /\ NoneOrOne(l.cur)
    /\ l.pc = "look" => l.hops = 0
    /\ l.pc \in {"walk", "write"} => \A v \in l.to : l.user # {v} /\ promoter[v].exists

\* What a walk on rows that have not changed knows, and what is known when it ends.
OnTheWay(l) ==
    /\ l.to \subseteq l.seen /\ l.seen \cap l.user = {}
    /\ Cardinality(l.seen) = l.hops + 1
    /\ \A w \in l.seen : promoter[w].by \subseteq l.seen \cup l.cur
    /\ l.cur # {} => \A w \in l.seen : promoter[w].by # {}
AtTheEnd(l) ==
    /\ l.to \subseteq l.seen /\ l.seen \cap l.user = {}
    /\ \A w \in l.seen : promoter[w].by \subseteq l.seen
Walks(l) ==
    ~raced /\ ~l.stale => /\ l.pc = "walk" => OnTheWay(l)
                          /\ l.pc = "write" => AtTheEnd(l)

PromotersShape ==
    /\ PromoterRows /\ PromotersExist
    /\ everyone \in BOOLEAN /\ raced \in BOOLEAN /\ binds \in 0..MaxBinds
    /\ binder \in [Binders -> BinderRow]

PromotersInv ==
    /\ PromotersShape /\ CyclesAreRaced
    /\ \A c \in Binders : BinderShape(binder[c]) /\ Walks(binder[c])

\* A walk reads a row of each member at most once: there are rows enough.
FewMembers == IsFiniteSet(People) /\ Cardinality(People) <= MaxHops

LEMMA NoBindIsRow ==
    /\ NoBind \in BinderRow /\ NoBind.pc = "idle" /\ BinderShape(NoBind) /\ Walks(NoBind)
BY PromotersAssumption DEF NoBind, BinderRow, BinderShape, Walks, NoneOrOne

\* The chain of a walk does not come back to what was read of it.
LEMMA NotReadYet ==
    ASSUME Acyclic, NEW l \in BinderRow, OnTheWay(l), NEW u \in People, l.cur = {u}, l.seen # {}
    PROVE  u \notin l.seen
<1>1. l.seen \in SUBSET People
  BY DEF BinderRow
<1>2. PICK w \in l.seen : promoter[w].by \cap l.seen = {}
  BY <1>1 DEF Acyclic
<1> QED BY <1>2 DEF OnTheWay

\* A bind that nothing has met closes no cycle.
LEMMA BindKeepsAcyclic ==
    ASSUME Acyclic, NEW x \in People, NEW to, NEW seen, x \notin seen, to \subseteq seen, NoneOrOne(to),
           \A w \in seen : promoter[w].by \subseteq seen,
           promoter'[x].by = to, \A u \in People \ {x} : promoter'[u].by = promoter[u].by
    PROVE  Acyclic'
<1> SUFFICES ASSUME NEW U \in SUBSET People, U # {} PROVE \E u \in U : promoter'[u].by \cap U = {}
  BY DEF Acyclic
<1>1. CASE x \notin U
  BY <1>1 DEF Acyclic
<1>2. CASE x \in U /\ to \cap U = {}
  BY <1>2
<1>3. CASE x \in U /\ to \cap U # {}
  <2> DEFINE W == U \cap seen
  <2>1. W # {} /\ W \in SUBSET People
    BY <1>3
  <2>2. PICK w \in W : promoter[w].by \cap W = {}
    BY <2>1 DEF Acyclic
  <2>3. promoter'[w].by = promoter[w].by /\ promoter[w].by \subseteq seen
    BY <2>2
  <2> QED BY <2>2, <2>3
<1> QED BY <1>1, <1>2, <1>3

\* The others of a step that changes no row but u's.
LEMMA OthersWalk ==
    ASSUME PromotersInv, NEW c \in Binders, NEW u \in People, NEW row \in PromoterRow, NEW l,
           WriteBy(c, u, row, l), raced' \in BOOLEAN, raced => raced',
           promoter[u].exists => row.exists
    PROVE  \A d \in Binders \ {c} :
              /\ binder'[d] \in BinderRow /\ BinderShape(binder[d])' /\ Walks(binder[d])'
<1> SUFFICES ASSUME NEW d \in Binders \ {c}
             PROVE  binder'[d] \in BinderRow /\ BinderShape(binder[d])' /\ Walks(binder[d])'
  OBVIOUS
<1>1. /\ binder[d] \in BinderRow /\ BinderShape(binder[d]) /\ Walks(binder[d])
      /\ promoter \in [People -> PromoterRow]
  BY DEF PromotersInv, PromotersShape, PromoterRows
<1>2. promoter' = [promoter EXCEPT ![u] = row]
  BY DEF WriteBy, Write
<1>3. \A v \in People : promoter[v].exists => promoter'[v].exists
  BY <1>1, <1>2
<1>4. binder'[d] = IF row = promoter[u] THEN binder[d] ELSE NowStale(u, binder[d])
  BY DEF WriteBy
<1>5. CASE row = promoter[u]
  <2>1. binder'[d] = binder[d] /\ promoter' = promoter
    BY <1>1, <1>2, <1>4, <1>5
  <2> QED BY <1>1, <2>1 DEF BinderShape, Walks, OnTheWay, AtTheEnd
<1>6. CASE row # promoter[u]
  <2>1. PICK b \in BinderRow : b = binder[d]
    BY <1>1
  <2>2. PICK s \in BOOLEAN : s = (b.stale \/ u \in b.seen)
    OBVIOUS
  <2>3. binder'[d] = [b EXCEPT !.stale = s]
    BY <1>4, <1>6, <2>1, <2>2, Zenon DEF NowStale
  <2>4. /\ binder'[d] \in BinderRow /\ (binder'[d].stale <=> (b.stale \/ u \in b.seen))
        /\ binder'[d].pc = b.pc /\ binder'[d].user = b.user /\ binder'[d].to = b.to
        /\ binder'[d].cur = b.cur /\ binder'[d].hops = b.hops /\ binder'[d].seen = b.seen
    BY <2>2, <2>3 DEF BinderRow
  <2>5. BinderShape(binder[d])'
    <3>1. b.to \subseteq People
      BY <2>1 DEF BinderRow
    <3> QED BY <1>1, <1>3, <2>1, <2>4, <3>1 DEF BinderShape
  <2>6. Walks(binder[d])'
    <3>1. ASSUME ~raced', ~binder'[d].stale
          PROVE  ~raced /\ ~b.stale /\ \A w \in b.seen : promoter'[w] = promoter[w]
      <4>1. u \notin b.seen /\ b.seen \subseteq People
        BY <2>4, <3>1 DEF BinderRow
      <4> QED BY <1>1, <1>2, <2>4, <3>1, <4>1
    <3> QED BY <1>1, <2>1, <2>4, <3>1 DEF Walks, OnTheWay, AtTheEnd
  <2> QED BY <2>4, <2>5, <2>6
<1> QED BY <1>5, <1>6

LEMMA BinderGoesOn ==
    ASSUME PromotersInv, NEW c \in Binders, NEW l \in BinderRow, Become(c, l),
           UNCHANGED <<promoter, everyone, raced>>, binds' \in 0..MaxBinds,
           BinderShape(l), Walks(l)
    PROVE  PromotersInv'
<1>1. binder' \in [Binders -> BinderRow] /\ \A d \in Binders : binder'[d] = binder[d] \/ binder'[d] = l
  BY DEF PromotersInv, PromotersShape, Become
<1>2. PromotersShape'
  BY <1>1 DEF PromotersInv, PromotersShape, PromoterRows, PromotersExist
<1>3. CyclesAreRaced'
  BY DEF PromotersInv, CyclesAreRaced
<1>4. ASSUME NEW d \in Binders PROVE BinderShape(binder[d])' /\ Walks(binder[d])'
  <2>1. PICK b \in BinderRow : b = binder'[d] /\ BinderShape(b) /\ Walks(b)
    BY <1>1 DEF PromotersInv, PromotersShape
  <2>2. BinderShape(b)' /\ Walks(b)'
    BY <2>1 DEF BinderShape, Walks, OnTheWay, AtTheEnd
  <2> QED BY <2>1, <2>2 DEF BinderShape, Walks, OnTheWay, AtTheEnd
<1> QED BY <1>2, <1>3, <1>4 DEF PromotersInv

LEMMA RowIsWritten ==
    ASSUME PromotersInv, NEW c \in Binders, NEW u \in People, NEW row \in PromoterRow,
           NEW l \in BinderRow, WriteBy(c, u, row, l), UNCHANGED <<everyone, binds>>,
           raced' \in BOOLEAN, raced => raced', CyclesAreRaced',
           row.exists, NoneOrOne(row.by), \A v \in row.by : v # u /\ promoter[v].exists,
           BinderShape(l)', Walks(l)'
    PROVE  PromotersInv'
<1>1. /\ promoter \in [People -> PromoterRow] /\ binder \in [Binders -> BinderRow]
      /\ \A v \in People : NoneOrOne(promoter[v].by)
      /\ \A v \in People : ~promoter[v].exists => ~promoter[v].enabled /\ promoter[v].by = {}
      /\ \A v, w \in People : w \in promoter[v].by => w # v /\ promoter[w].exists /\ promoter[v].exists
  BY DEF PromotersInv, PromotersShape, PromoterRows, PromotersExist
<1>2. promoter' = [promoter EXCEPT ![u] = row]
  BY DEF WriteBy, Write
<1>3. /\ promoter' \in [People -> PromoterRow] /\ promoter'[u] = row
      /\ \A v \in People \ {u} : promoter'[v] = promoter[v]
  BY <1>1, <1>2
<1>4. PromoterRows'
  BY <1>1, <1>3 DEF PromoterRows
<1>5. \A v \in People : promoter[v].exists => promoter'[v].exists
  BY <1>3
<1>6. PromotersExist'
  <2>1. SUFFICES ASSUME NEW v \in People, NEW w \in People, w \in promoter'[v].by
                 PROVE  w # v /\ promoter'[w].exists /\ promoter'[v].exists
    BY DEF PromotersExist
  <2>2. CASE v = u
    BY <1>3, <1>5, <2>1, <2>2
  <2>3. CASE v # u
    BY <1>1, <1>3, <1>5, <2>1, <2>3
  <2> QED BY <2>2, <2>3
<1>7. \A d \in Binders \ {c} : binder'[d] \in BinderRow /\ BinderShape(binder[d])' /\ Walks(binder[d])'
  BY OthersWalk
<1>8. binder'[c] = l /\ binder' = [d \in Binders |-> binder'[d]]
  BY DEF WriteBy
<1>9. binder' \in [Binders -> BinderRow]
  BY <1>7, <1>8
<1>10. PromotersShape'
  BY <1>4, <1>6, <1>9 DEF PromotersInv, PromotersShape
<1>11. BinderShape(binder[c])' /\ Walks(binder[c])'
  BY <1>8 DEF BinderShape, Walks, OnTheWay, AtTheEnd
<1> QED BY <1>7, <1>10, <1>11 DEF PromotersInv

LEMMA StartBindStep ==
    ASSUME PromotersInv, NEW c \in Binders, NEW kind \in {"bind", "change", "create"}, NEW u \in People,
           NEW to \in {{}} \cup {{v} : v \in People}, StartBind(c, kind, u, to)
    PROVE  PromotersInv'
<1>1. PICK i \in BOOLEAN : i = ~promoter[u].exists
  OBVIOUS
<1>2. PICK pc \in {"look", "write"} : pc = IF to = {} THEN "write" ELSE "look"
  OBVIOUS
<1> DEFINE l == [NoBind EXCEPT !.pc = pc, !.kind = kind, !.user = {u}, !.to = to, !.insert = i]
<1>3. Become(c, l)
  BY <1>1, <1>2, Zenon DEF StartBind
<1>4. l \in BinderRow /\ l.pc = pc /\ l.user = {u} /\ l.to = to /\ l.cur = {} /\ l.seen = {}
      /\ l.hops = 0
  BY NoBindIsRow, PromotersAssumption DEF NoBind, BinderRow
<1> HIDE DEF l
<1>5. BinderShape(l)
  BY <1>2, <1>4 DEF BinderShape, NoneOrOne
<1>6. Walks(l)
  BY <1>2, <1>4 DEF Walks, AtTheEnd
<1>7. binds' \in 0..MaxBinds
  <2>1. binds \in 0..MaxBinds /\ binds < MaxBinds /\ binds' = binds + 1
    BY DEF StartBind, PromotersInv, PromotersShape
  <2> QED BY <2>1, PromotersAssumption
<1> QED BY <1>3, <1>4, <1>5, <1>6, <1>7, BinderGoesOn DEF StartBind

\* What the look at the first row makes of a request: nothing, or a walk.
LEMMA WalkBegins ==
    ASSUME PromotersInv, NEW c \in Binders, NEW v \in People, NEW row \in PromoterRow,
           binder[c].pc = "look", binder[c].to = {v}, NoneOrOne(row.by), row.enabled => row.exists
    PROVE  /\ Walked(c, v, row) \in BinderRow
           /\ \/ Walked(c, v, row) = NoBind
              \/ /\ row.exists /\ Walked(c, v, row).pc = "walk" /\ Walked(c, v, row).to = {v}
                 /\ Walked(c, v, row).user # {v} /\ \E x \in People : Walked(c, v, row).user = {x}
                 /\ Walked(c, v, row).cur = row.by /\ Walked(c, v, row).seen = {v}
                 /\ Walked(c, v, row).hops = 0
<1>1. binder[c] \in BinderRow /\ BinderShape(binder[c])
  BY DEF PromotersInv, PromotersShape
<1>2. PICK l \in BinderRow : l = binder[c]
  BY <1>1
<1>3. CASE ~row.enabled \/ l.user = {v}
  BY <1>2, <1>3, NoBindIsRow DEF Walked
<1>4. CASE row.enabled /\ l.user # {v}
  <2> DEFINE m == [l EXCEPT !.pc = "walk", !.cur = row.by, !.seen = {v}]
  <2>1. Walked(c, v, row) = m
    BY <1>2, <1>4 DEF Walked
  <2>2. /\ m \in BinderRow /\ m.pc = "walk" /\ m.to = l.to /\ m.user = l.user
        /\ m.cur = row.by /\ m.seen = {v} /\ m.hops = l.hops
    BY DEF BinderRow, PromoterRow
  <2> HIDE DEF m
  <2>3. l.to = {v} /\ l.hops = 0 /\ l.user # {v} /\ (\E x \in People : l.user = {x}) /\ row.exists
    BY <1>1, <1>2, <1>4 DEF BinderShape
  <2> QED BY <2>1, <2>2, <2>3
<1> QED BY <1>3, <1>4

LEMMA LookPromoterStep ==
    ASSUME PromotersInv, NEW c \in Binders, NEW v \in People, LookPromoter(c, v)
    PROVE  PromotersInv'
<1>0. /\ promoter \in [People -> PromoterRow] /\ binds \in 0..MaxBinds /\ raced \in BOOLEAN
      /\ \A u \in People : NoneOrOne(promoter[u].by)
      /\ \A u \in People : ~promoter[u].exists => ~promoter[u].enabled /\ promoter[u].by = {}
      /\ CyclesAreRaced
  BY DEF PromotersInv, PromotersShape, PromoterRows
<1>1. binder[c].pc = "look" /\ binder[c].to = {v} /\ UNCHANGED <<everyone, raced, binds>>
  BY DEF LookPromoter
<1>2. CASE promoter[v].exists \/ ~everyone
  <2>1. Become(c, Walked(c, v, promoter[v])) /\ UNCHANGED promoter
    BY <1>2 DEF LookPromoter
  <2>2. PICK l \in BinderRow :
           /\ l = Walked(c, v, promoter[v])
           /\ \/ l = NoBind
              \/ /\ promoter[v].exists /\ l.pc = "walk" /\ l.to = {v}
                 /\ l.user # {v} /\ \E x \in People : l.user = {x}
                 /\ l.cur = promoter[v].by /\ l.seen = {v} /\ l.hops = 0
    BY <1>0, <1>1, WalkBegins
  <2>3. CASE l = NoBind
    BY <1>0, <1>1, <2>1, <2>2, <2>3, NoBindIsRow, BinderGoesOn
  <2>4. CASE l # NoBind
    <3>1. BinderShape(l)
      BY <1>0, <2>2, <2>4 DEF BinderShape, NoneOrOne
    <3>2. Cardinality({v}) = 1
      BY FS_Singleton
    <3>3. OnTheWay(l)
      BY <2>2, <2>4, <3>2 DEF OnTheWay
    <3>4. Walks(l)
      BY <2>2, <2>4, <3>3 DEF Walks
    <3> QED BY <1>0, <1>1, <2>1, <2>2, <3>1, <3>4, BinderGoesOn
  <2> QED BY <2>3, <2>4
<1>3. CASE ~(promoter[v].exists \/ ~everyone)
  <2> DEFINE row == [NoRow EXCEPT !.exists = TRUE, !.enabled = TRUE]
  <2>2. WriteBy(c, v, row, Walked(c, v, row))
    BY <1>3 DEF LookPromoter
  <2>1. row \in PromoterRow /\ row.exists /\ row.enabled /\ row.by = {}
    BY DEF PromoterRow, NoRow
  <2> HIDE DEF row
  <2>9. NoneOrOne(row.by)
    BY <2>1 DEF NoneOrOne
  <2>10. row.enabled => row.exists
    BY <2>1
  <2> DEFINE m == Walked(c, v, row)
  <2>11. /\ m \in BinderRow
         /\ \/ m = NoBind
            \/ /\ row.exists /\ m.pc = "walk" /\ m.to = {v}
               /\ m.user # {v} /\ \E x \in People : m.user = {x}
               /\ m.cur = row.by /\ m.seen = {v} /\ m.hops = 0
    BY <1>1, <2>1, <2>9, <2>10, WalkBegins, ZenonT(40)
  <2>12. PICK l \in BinderRow : l = m
    BY <2>11
  <2>3. /\ l = Walked(c, v, row)
        /\ \/ l = NoBind
           \/ /\ l.pc = "walk" /\ l.to = {v} /\ l.user # {v} /\ \E x \in People : l.user = {x}
              /\ l.cur = {} /\ l.seen = {v} /\ l.hops = 0
    BY <2>1, <2>11, <2>12
  <2>4. promoter' = [promoter EXCEPT ![v] = row] /\ promoter[v].by = {}
    BY <1>0, <1>3, <2>2 DEF WriteBy, Write
  <2>5. promoter'[v] = row /\ \A u \in People : promoter'[u].by = promoter[u].by
    BY <1>0, <2>1, <2>4
  <2>6. CyclesAreRaced'
    BY <1>0, <1>1, <2>5 DEF CyclesAreRaced
  <2>7. BinderShape(l)' /\ Walks(l)'
    <3>1. CASE l = NoBind
      BY <3>1 DEF NoBind, BinderShape, Walks, NoneOrOne
    <3>2. CASE l # NoBind
      <4>1. BinderShape(l)'
        BY <2>1, <2>3, <2>5, <3>2 DEF BinderShape, NoneOrOne
      <4>2. Cardinality({v}) = 1
        BY FS_Singleton
      <4>3. OnTheWay(l)'
        BY <2>1, <2>3, <2>5, <3>2, <4>2 DEF OnTheWay
      <4> QED BY <2>3, <3>2, <4>1, <4>3 DEF Walks
    <3> QED BY <3>1, <3>2
  <2>8. NoneOrOne(row.by) /\ \A u \in row.by : u # v /\ promoter[u].exists
    BY <2>1 DEF NoneOrOne
  <2> QED BY <1>0, <1>1, <2>1, <2>2, <2>3, <2>6, <2>7, <2>8, RowIsWritten
<1> QED BY <1>2, <1>3

LEMMA WalkUpStep ==
    ASSUME FewMembers, PromotersInv, NEW c \in Binders, WalkUp(c)
    PROVE  PromotersInv'
<1>0. /\ promoter \in [People -> PromoterRow] /\ binds \in 0..MaxBinds
      /\ \A u \in People : NoneOrOne(promoter[u].by)
      /\ \A u \in People : ~promoter[u].exists => promoter[u].by = {}
      /\ ~raced => Acyclic
  BY DEF PromotersInv, PromotersShape, PromoterRows, CyclesAreRaced, Acyclic
<1>1. PICK l \in BinderRow : l = binder[c] /\ BinderShape(l) /\ Walks(l)
  BY DEF PromotersInv, PromotersShape
<1>2. l.pc = "walk" /\ UNCHANGED <<promoter, everyone, raced, binds>>
  BY <1>1 DEF WalkUp
<1>3. /\ l.seen \subseteq People /\ l.hops \in 0..MaxHops /\ MaxHops \in Nat
      /\ IsFiniteSet(l.seen) /\ Cardinality(l.seen) <= Cardinality(People)
      /\ Cardinality(l.seen) \in Nat /\ Cardinality(People) \in Nat /\ Cardinality(People) <= MaxHops
  <2>1. l.seen \subseteq People /\ l.hops \in 0..MaxHops
    BY DEF BinderRow
  <2> QED BY <2>1, PromotersAssumption, FS_Subset, FS_CardinalityType DEF FewMembers
<1>4. CASE (l.cur = {} \/ l.hops = MaxHops) /\ Become(c, [l EXCEPT !.pc = "write"])
  <2> DEFINE m == [l EXCEPT !.pc = "write"]
  <2>1. /\ m \in BinderRow /\ m.pc = "write" /\ m.user = l.user /\ m.to = l.to /\ m.cur = l.cur
        /\ m.seen = l.seen /\ m.stale = l.stale
    BY DEF BinderRow
  <2> HIDE DEF m
  <2>2. BinderShape(m)
    BY <1>1, <1>2, <2>1 DEF BinderShape
  <2>3. ASSUME ~raced, ~l.stale PROVE AtTheEnd(m)
    <3>1. OnTheWay(l)
      BY <1>1, <1>2, <2>3 DEF Walks
    <3>2. l.hops # MaxHops
      BY <1>3, <3>1 DEF OnTheWay
    <3>3. l.cur = {}
      BY <1>4, <3>2
    <3> QED BY <2>1, <3>1, <3>3 DEF OnTheWay, AtTheEnd
  <2>4. Walks(m)
    BY <2>1, <2>3 DEF Walks
  <2> QED BY <1>0, <1>2, <1>4, <2>1, <2>2, <2>4, BinderGoesOn DEF m
<1>5. CASE Become(c, NoBind)
  BY <1>0, <1>2, <1>5, NoBindIsRow, BinderGoesOn
<1>6. ASSUME NEW u \in l.cur, l.hops < MaxHops, ~IsLoop(l),
             Become(c, IF promoter[u].exists
                       THEN [l EXCEPT !.cur = promoter[u].by, !.hops = l.hops + 1, !.seen = l.seen \cup {u}]
                       ELSE [l EXCEPT !.pc = "write", !.seen = l.seen \cup {u}])
      PROVE  PromotersInv'
  <2>1. u \in People /\ l.cur = {u} /\ l.user # {u} /\ \E x \in People : l.user = {x}
    BY <1>1, <1>2, <1>6 DEF BinderRow, BinderShape, NoneOrOne, IsLoop
  <2>2. ASSUME ~raced, ~l.stale
        PROVE  OnTheWay(l) /\ u \notin l.seen /\ Cardinality(l.seen \cup {u}) = l.hops + 2
    <3>1. OnTheWay(l) /\ Acyclic
      BY <1>0, <1>1, <1>2, <2>2 DEF Walks
    <3>2. l.seen # {}
      BY <1>3, <3>1, FS_EmptySet DEF OnTheWay
    <3>3. u \notin l.seen
      BY <2>1, <3>1, <3>2, NotReadYet
    <3>4. Cardinality(l.seen \cup {u}) = Cardinality(l.seen) + 1
      BY <1>3, <3>3, FS_AddElement
    <3> QED BY <1>3, <3>1, <3>3, <3>4 DEF OnTheWay
  <2>3. CASE promoter[u].exists
    <3> DEFINE m == [l EXCEPT !.cur = promoter[u].by, !.hops = l.hops + 1, !.seen = l.seen \cup {u}]
    <3>1. promoter[u].by \subseteq People /\ l.hops + 1 \in 0..MaxHops
      BY <1>0, <1>3, <1>6, <2>1 DEF PromoterRow
    <3>2. /\ m \in BinderRow /\ m.pc = "walk" /\ m.user = l.user /\ m.to = l.to /\ m.cur = promoter[u].by
          /\ m.seen = l.seen \cup {u} /\ m.stale = l.stale /\ m.hops = l.hops + 1
      BY <1>2, <1>3, <2>1, <3>1 DEF BinderRow
    <3>3. Become(c, m)
      BY <1>6, <2>3
    <3> HIDE DEF m
    <3>4. BinderShape(m)
      BY <1>0, <1>1, <1>2, <2>1, <3>2 DEF BinderShape
    <3>5. ASSUME ~raced, ~l.stale PROVE OnTheWay(m)
      <4>1. /\ m.to \subseteq m.seen /\ m.seen \cap m.user = {}
            /\ \A w \in m.seen : promoter[w].by \subseteq m.seen \cup m.cur
            /\ m.cur # {} => \A w \in m.seen : promoter[w].by # {}
        BY <2>1, <2>2, <3>2, <3>5 DEF OnTheWay
      <4>2. Cardinality(m.seen) = m.hops + 1
        BY <1>3, <2>2, <3>2, <3>5
      <4> QED BY <4>1, <4>2 DEF OnTheWay
    <3>6. Walks(m)
      BY <3>2, <3>5 DEF Walks
    <3> QED BY <1>0, <1>2, <3>2, <3>3, <3>4, <3>6, BinderGoesOn
  <2>4. CASE ~promoter[u].exists
    <3> DEFINE m == [l EXCEPT !.pc = "write", !.seen = l.seen \cup {u}]
    <3>1. /\ m \in BinderRow /\ m.pc = "write" /\ m.user = l.user /\ m.to = l.to /\ m.cur = l.cur
          /\ m.seen = l.seen \cup {u} /\ m.stale = l.stale
      BY <1>3, <2>1 DEF BinderRow
    <3>2. Become(c, m)
      BY <1>6, <2>4
    <3> HIDE DEF m
    <3>3. BinderShape(m)
      BY <1>1, <1>2, <3>1 DEF BinderShape
    <3>4. ASSUME ~raced, ~l.stale PROVE AtTheEnd(m)
      BY <1>0, <2>1, <2>2, <2>4, <3>1, <3>4 DEF OnTheWay, AtTheEnd
    <3>5. Walks(m)
      BY <3>1, <3>4 DEF Walks
    <3> QED BY <1>0, <1>2, <3>1, <3>2, <3>3, <3>5, BinderGoesOn
  <2> QED BY <2>3, <2>4
<1> QED BY <1>1, <1>4, <1>5, <1>6 DEF WalkUp

LEMMA BindUserStep ==
    ASSUME PromotersInv, NEW c \in Binders, NEW u \in People, BindUser(c, u)
    PROVE  PromotersInv'
<1>0. /\ promoter \in [People -> PromoterRow] /\ binds \in 0..MaxBinds
      /\ raced \in BOOLEAN /\ everyone \in BOOLEAN
      /\ ~raced => Acyclic
  BY DEF PromotersInv, PromotersShape, PromoterRows, CyclesAreRaced, Acyclic
<1>1. PICK l \in BinderRow : l = binder[c] /\ BinderShape(l) /\ Walks(l)
  BY DEF PromotersInv, PromotersShape
<1>2. l.pc = "write" /\ l.user = {u} /\ UNCHANGED <<everyone, binds>>
  BY <1>1 DEF BindUser
<1>3. CASE l.insert /\ promoter[u].exists
  <2>1. Become(c, NoBind) /\ UNCHANGED <<promoter, raced>>
    BY <1>1, <1>3 DEF BindUser
  <2> QED BY <1>0, <1>2, <2>1, NoBindIsRow, BinderGoesOn
<1>4. CASE ~(l.insert /\ promoter[u].exists)
  <2>1. PICK e \in BOOLEAN : e = IF l.insert THEN l.kind = "bind" /\ everyone ELSE promoter[u].enabled
    BY <1>0 DEF PromoterRow
  <2> DEFINE row == [exists |-> TRUE, by |-> l.to, enabled |-> e]
  <2>2. WriteBy(c, u, row, NoBind) /\ raced' = (raced \/ l.stale)
    BY <1>1, <1>4, <2>1, Zenon DEF BindUser
  <2>3. row \in PromoterRow /\ row.exists /\ row.by = l.to
    BY DEF PromoterRow, BinderRow
  <2> HIDE DEF row
  <2>4. NoneOrOne(l.to) /\ \A v \in l.to : v # u /\ promoter[v].exists
    BY <1>1, <1>2 DEF BinderShape
  <2>5. promoter' = [promoter EXCEPT ![u] = row]
    BY <2>2 DEF WriteBy, Write
  <2>6. promoter'[u].by = l.to /\ \A v \in People \ {u} : promoter'[v].by = promoter[v].by
    BY <1>0, <2>3, <2>5
  <2>7. CyclesAreRaced'
    <3>1. CASE ~raced /\ ~l.stale
      <4>1. Acyclic
        BY <1>0, <3>1
      <4>3. AtTheEnd(l)
        BY <1>1, <1>2, <3>1 DEF Walks
      <4>2. Acyclic'
        BY <1>2, <2>4, <2>6, <4>1, <4>3, BindKeepsAcyclic DEF AtTheEnd
      <4> QED BY <4>2 DEF CyclesAreRaced, Acyclic
    <3>2. CASE raced \/ l.stale
      BY <2>2, <3>2 DEF CyclesAreRaced
    <3> QED BY <3>1, <3>2
  <2>8. raced' \in BOOLEAN /\ (raced => raced')
    BY <2>2
  <2>9. NoBind \in BinderRow /\ BinderShape(NoBind)' /\ Walks(NoBind)'
    BY NoBindIsRow DEF NoBind, BinderShape, Walks, NoneOrOne
  <2> QED BY <1>2, <2>2, <2>3, <2>4, <2>7, <2>8, <2>9, RowIsWritten
<1> QED BY <1>3, <1>4

LEMMA EnabledStep ==
    ASSUME PromotersInv, NEW u \in People, NEW b \in BOOLEAN, UpdateBrokerageUserEnabled(u, b)
    PROVE  PromotersInv'
<1>0. promoter \in [People -> PromoterRow] /\ binder \in [Binders -> BinderRow]
  BY DEF PromotersInv, PromotersShape, PromoterRows
<1>1. /\ promoter[u].exists /\ promoter' = [promoter EXCEPT ![u] = [promoter[u] EXCEPT !.enabled = b]]
      /\ UNCHANGED <<everyone, raced, binds, binder>>
  BY DEF UpdateBrokerageUserEnabled, Write
<1>2. PICK old \in PromoterRow : old = promoter[u]
  BY <1>0
<1> DEFINE row == [old EXCEPT !.enabled = b]
<1>3. row \in PromoterRow /\ row.exists = old.exists /\ row.by = old.by
  BY DEF PromoterRow
<1>4. promoter' = [promoter EXCEPT ![u] = row]
  BY <1>1, <1>2
<1> HIDE DEF row
<1>5. /\ promoter' \in [People -> PromoterRow]
      /\ \A v \in People : promoter'[v].exists = promoter[v].exists /\ promoter'[v].by = promoter[v].by
      /\ \A v \in People : ~promoter[v].exists => promoter'[v] = promoter[v]
  BY <1>0, <1>1, <1>2, <1>3, <1>4
<1>6. PromoterRows' /\ PromotersExist' /\ CyclesAreRaced'
  <2>1. PromoterRows'
    BY <1>5 DEF PromotersInv, PromotersShape, PromoterRows
  <2>2. PromotersExist'
    BY <1>5 DEF PromotersInv, PromotersShape, PromotersExist
  <2>3. CyclesAreRaced'
    BY <1>1, <1>5 DEF PromotersInv, CyclesAreRaced
  <2> QED BY <2>1, <2>2, <2>3
<1>7. ASSUME NEW c \in Binders PROVE BinderShape(binder[c])' /\ Walks(binder[c])'
  <2>1. PICK l \in BinderRow :
           /\ l = binder[c] /\ BinderShape(l) /\ Walks(l)
           /\ l.to \subseteq People /\ l.seen \subseteq People
    BY <1>0 DEF PromotersInv, BinderRow
  <2>2. BinderShape(l)'
    BY <1>5, <2>1 DEF BinderShape
  <2>3. Walks(l)'
    BY <1>1, <1>5, <2>1 DEF Walks, OnTheWay, AtTheEnd
  <2> QED BY <1>1, <2>1, <2>2, <2>3 DEF BinderShape, Walks, OnTheWay, AtTheEnd
<1> QED BY <1>1, <1>6, <1>7 DEF PromotersInv, PromotersShape

LEMMA PromotersStart == PromotersInit => PromotersInv
<1> SUFFICES ASSUME PromotersInit PROVE PromotersInv
  OBVIOUS
<1>1. \A u \in People : promoter[u] = NoRow
  BY DEF PromotersInit
<1>2. NoRow \in PromoterRow /\ ~NoRow.exists /\ ~NoRow.enabled /\ NoRow.by = {}
  BY DEF NoRow, PromoterRow
<1>a. promoter \in [People -> PromoterRow]
  BY <1>2 DEF PromotersInit
<1>3. PromoterRows /\ PromotersExist
  BY <1>1, <1>2, <1>a DEF PromoterRows, PromotersExist, NoneOrOne
<1>b. binder \in [Binders -> BinderRow]
  BY NoBindIsRow DEF PromotersInit
<1>c. everyone \in BOOLEAN /\ raced \in BOOLEAN /\ binds \in 0..MaxBinds
  <2>1. everyone \in BOOLEAN /\ raced \in BOOLEAN
    BY Zenon DEF PromotersInit
  <2>2. binds \in 0..MaxBinds
    BY PromotersAssumption DEF PromotersInit
  <2> QED BY <2>1, <2>2
<1>4. PromotersShape
  BY <1>3, <1>b, <1>c DEF PromotersShape
<1>5. CyclesAreRaced
  BY <1>1, <1>2 DEF CyclesAreRaced
<1>6. \A c \in Binders : binder[c] = NoBind
  BY DEF PromotersInit
<1> QED BY <1>4, <1>5, <1>6, NoBindIsRow DEF PromotersInv

LEMMA PromotersKept ==
    ASSUME FewMembers, PromotersInv, [PromotersNext]_promotersVars
    PROVE  PromotersInv'
<1>1. CASE UNCHANGED promotersVars
  <2>1. UNCHANGED <<promoter, everyone, raced, binds, binder>>
    BY <1>1 DEF promotersVars
  <2> QED BY <2>1 DEF PromotersInv, PromotersShape, PromoterRows, PromotersExist, CyclesAreRaced,
            BinderShape, Walks, OnTheWay, AtTheEnd
<1>2. ASSUME NEW c \in Binders, BinderFails(c) PROVE PromotersInv'
  <2>1. Become(c, NoBind) /\ UNCHANGED <<promoter, everyone, raced, binds>> /\ binds \in 0..MaxBinds
    BY <1>2 DEF BinderFails, PromotersInv, PromotersShape
  <2> QED BY <2>1, NoBindIsRow, BinderGoesOn
<1> QED BY <1>1, <1>2, StartBindStep, LookPromoterStep, BindUserStep, WalkUpStep, EnabledStep
        DEF PromotersNext

(* No chain of promoters comes back to its start, unless a row of the chain  *)
(* changed between its reading and the write (user.go:386), for any requests *)
(* and for as many members as a walk reads rows: that is the bound of the    *)
(* code, and a walk that gives up there may close a cycle.                  *)
THEOREM ChainsEndAlways == ASSUME FewMembers PROVE PromotersSpec => []ChainsEnd
<1>1. PromotersInv => ChainsEnd
  BY DEF PromotersInv, PromotersShape, PromoterRows, PromotersTypeOK, ChainsEnd, PromoterRow, BinderRow
<1>2. PromotersInv /\ [PromotersNext]_promotersVars => PromotersInv'
  BY PromotersKept
<1> QED BY <1>1, <1>2, PromotersStart, PTL DEF PromotersSpec

-----------------------------------------------------------------------------
(* Price adjustments.  One request holds the order's lock, so that the items *)
(* it has read are those of the order until it commits.                     *)

HoldsOrder(a) == adjuster[a].pc \in {"locked", "pay", "write", "commit"}
HasShares(a) == adjuster[a].pc \in {"pay", "write", "commit"}

OneHolder == \A a, b \in Adjusters : HoldsOrder(a) /\ HoldsOrder(b) => a = b
SharesAreMade ==
    \A a \in Adjusters : HasShares(a) =>
       /\ adjuster[a].items = item
       /\ adjuster[a].share = DividePrice(item, adjuster[a].change)
PayPriceInHand ==
    /\ \A a \in Adjusters : adjuster[a].pc = "commit" => payPrice = NewPrice(adjuster[a])
    /\ priceFaults > 0 \/ payPrice = order.price \/ \E a \in Adjusters : adjuster[a].pc = "commit"

PriceInv == PriceTypeOK /\ ItemsAddUp /\ OneHolder /\ SharesAreMade /\ PayPriceInHand

LEMMA ItemsAre ==
    /\ Last \in Nat /\ Last > 0 /\ Items = 1..Last /\ Last \in Items
    /\ IsFiniteSet(Items) /\ Cardinality(Items) = Last
<1>1. PICK n \in Nat : n = Len(ItemPrices) /\ Items = 1..n /\ n > 0
  BY PriceAssumption DEF Items
<1>2. n \in Items /\ \A j \in Items : j <= n
  BY <1>1
<1>3. \A i \in Items : (\A j \in Items : j <= i) => i = n
  BY <1>1, <1>2
<1>4. Last = n
  BY <1>2, <1>3 DEF Last
<1>5. IsFiniteSet(1..n) /\ Cardinality(1..n) = n
  <2>1. IsFiniteSet(1..n) /\ Cardinality(1..n) = IF 1 > n THEN 0 ELSE n - 1 + 1
    BY <1>1, FS_Interval
  <2> QED BY <1>1, <2>1
<1> QED BY <1>1, <1>2, <1>4, <1>5

LEMMA ItemsEnd == IsFiniteSet(Items) /\ Last \in Items
BY ItemsAre

LEMMA ItemSumIs ==
    ASSUME NEW f, DOMAIN f = Items PROVE Sum(f) = SumFunctionOnSet(f, Items)
BY DEF Sum, SumFunction, SumFunctionOnSet, FoldFunction

LEMMA ItemSumIsInt == ASSUME NEW f \in [Items -> Int] PROVE Sum(f) \in Int
BY ItemsAre, ItemSumIs, SumIsInt

\* A quotient is less than one divisor away.
LEMMA QuotientIsNear ==
    ASSUME NEW a \in Int, NEW b \in Int, b # 0, NEW size \in Nat, size = IF b < 0 THEN -b ELSE b
    PROVE  /\ Quotient(a, b) \in Int
           /\ Quotient(a, b) * b - a < size /\ a - Quotient(a, b) * b < size
<1>1. ASSUME NEW x \in Nat, NEW y \in Nat, y > 0
      PROVE  x \div y \in Int /\ (x \div y) * y <= x /\ x < (x \div y) * y + y
  <2>1. x \div y \in Int
    BY <1>1
  <2>2. (x \div y) * y <= x
    BY <1>1
  <2>3. x < (x \div y) * y + y
    BY <1>1
  <2> QED BY <2>1, <2>2, <2>3
<1> DEFINE q(x, y) == IF x >= 0 THEN x \div y ELSE -((-x) \div y)
<1>2. ASSUME NEW x \in Int, NEW y \in Nat, y > 0
      PROVE  q(x, y) \in Int /\ q(x, y) * y - x < y /\ x - q(x, y) * y < y
  <2>1. CASE x >= 0
    BY <1>1, <1>2, <2>1
  <2>2. CASE x < 0
    <3>1. PICK z \in Nat : z = -x
      BY <2>2
    <3>2. PICK d \in Int : d = z \div y /\ d * y <= z /\ z < d * y + y
      BY <1>1, <1>2
    <3>3. q(x, y) = -d
      BY <2>2, <3>1, <3>2
    <3>4. (-d) * y = -(d * y)
      BY <3>2
    <3> HIDE DEF q
    <3> QED BY <3>1, <3>2, <3>3, <3>4
  <2> QED BY <2>1, <2>2
<1>3. Quotient(a, b) = IF b > 0 THEN q(a, b) ELSE q(-a, -b)
  BY DEF Quotient
<1> HIDE DEF q
<1>4. CASE b > 0
  BY <1>2, <1>3, <1>4
<1>5. CASE b < 0
  <2>1. PICK c \in Nat : c = -b /\ c > 0
    BY <1>5
  <2>2. PICK m \in Int : m = -a
    OBVIOUS
  <2>5. PICK d \in Int : d = q(m, c) /\ d * c - m < c /\ m - d * c < c
    BY <1>2, <2>1
  <2>3. Quotient(a, b) = d
    BY <1>3, <1>5, <2>1, <2>2, <2>5
  <2>4. d * b = -(d * c)
    BY <2>1, <2>5
  <2> QED BY <1>5, <2>1, <2>2, <2>3, <2>4, <2>5
<1> QED BY <1>4, <1>5

LEMMA PartIsInt ==
    ASSUME NEW prices \in [Items -> Int], NEW change \in Int, NEW i \in Items
    PROVE  Part(prices, change, i) \in Int
<1>1. Sum(prices) \in Int /\ Last \in Int /\ Last # 0 /\ prices[i] \in Int
  BY ItemSumIsInt, ItemsAre
<1>2. CASE Sum(prices) = 0
  BY <1>1, <1>2, ItemsAre, QuotientIsNear DEF Part, Even
<1>3. CASE Sum(prices) # 0
  <2>1. PICK s \in Int : s = Sum(prices) /\ s # 0
    BY <1>1, <1>3
  <2>2. PICK size \in Nat : size = IF s < 0 THEN -s ELSE s
    BY <2>1
  <2>3. change * prices[i] \in Int
    BY <1>1
  <2> QED BY <1>3, <2>1, <2>2, <2>3, QuotientIsNear DEF Part
<1> QED BY <1>2, <1>3

\* What dividePriceToOrderItems returns.
LEMMA DividedIsWhole ==
    ASSUME NEW prices \in [Items -> Int], NEW change \in Int
    PROVE  /\ DividePrice(prices, change) \in [Items -> Int]
           /\ Sum(DividePrice(prices, change)) = change
           /\ \A i \in Items \ {Last} : DividePrice(prices, change)[i] = Part(prices, change, i)
<1> DEFINE share == DividePrice(prices, change)
           f == [i \in Items \ {Last} |-> Part(prices, change, i)]
<1>1. IsFiniteSet(Items \ {Last})
  BY ItemsAre, FS_Subset
<1>2. Sum(f) = SumFunctionOnSet(f, Items \ {Last})
  BY DEF Sum, SumFunction, SumFunctionOnSet, FoldFunction
<1>3. Sum(f) \in Int
  <2>1. \A i \in Items \ {Last} : f[i] \in Int
    BY PartIsInt
  <2> QED BY <1>1, <1>2, <2>1, SumIsInt
<1>4. LastShare(prices, change) = change - Sum(f)
  BY DEF LastShare
<1>5. share = [i \in Items |-> IF i = Last THEN LastShare(prices, change) ELSE Part(prices, change, i)]
  BY DEF DividePrice
<1>6. DOMAIN share = Items /\ \A i \in Items : share[i] \in Int
  BY <1>3, <1>4, <1>5, PartIsInt
<1>7. /\ share[Last] = change - Sum(f)
      /\ \A i \in Items \ {Last} : share[i] = Part(prices, change, i) /\ f[i] = share[i]
  BY <1>4, <1>5, ItemsAre
<1>a. share \in [Items -> Int]
  BY <1>3, <1>4, <1>5, PartIsInt
<1> HIDE DEF share, f
<1>8. SumFunctionOnSet(share, Items) = share[Last] + SumFunctionOnSet(share, Items \ {Last})
  BY <1>6, ItemsEnd, SumRemove
<1>9. SumFunctionOnSet(share, Items \ {Last}) = SumFunctionOnSet(f, Items \ {Last})
  BY <1>1, <1>7, SumSame
<1>10. Sum(share) = change
  BY <1>2, <1>3, <1>6, <1>7, <1>8, <1>9, ItemSumIs
<1> QED BY <1>7, <1>10, <1>a DEF share

LEMMA DividedIsFair ==
    ASSUME NEW prices \in [Items -> Int], NEW change \in Int, NEW share,
           share = DividePrice(prices, change), NEW sum \in Int, sum = Sum(prices), sum # 0,
           NEW size \in Nat, size = IF sum < 0 THEN -sum ELSE sum, NEW i \in Items
    PROVE  /\ share[i] * sum - change * prices[i] < Last * size
           /\ -(share[i] * sum - change * prices[i]) < Last * size
<1> DEFINE gap == [j \in Items |-> share[j] * sum - change * prices[j]]
<1>1. /\ share \in [Items -> Int] /\ Sum(share) = change
      /\ \A j \in Items \ {Last} : share[j] = Part(prices, change, j)
  BY DividedIsWhole
<1>2. ASSUME NEW j \in Items \ {Last} PROVE gap[j] < size /\ -gap[j] < size
  <2>1. prices[j] \in Int /\ change * prices[j] \in Int
    OBVIOUS
  <2>2. share[j] = Quotient(change * prices[j], sum)
    BY <1>1 DEF Part
  <2>3. /\ share[j] * sum - change * prices[j] < size
        /\ change * prices[j] - share[j] * sum < size
    BY <2>1, <2>2, QuotientIsNear
  <2>4. share[j] * sum \in Int
    BY <1>1
  <2>5. gap[j] = share[j] * sum - change * prices[j]
    OBVIOUS
  <2> HIDE DEF gap
  <2> QED BY <2>1, <2>3, <2>4, <2>5
<1>3. /\ \A j \in Items : gap[j] \in Int /\ gap[j] = sum * share[j] + (-change) * prices[j]
      /\ DOMAIN gap = Items
  <2>1. ASSUME NEW j \in Items PROVE gap[j] \in Int /\ gap[j] = sum * share[j] + (-change) * prices[j]
    <3>1. \A x, p \in Int : x * sum - change * p = sum * x + (-change) * p /\ x * sum - change * p \in Int
      OBVIOUS
    <3> QED BY <1>1, <3>1
  <2> QED BY <2>1
<1>4. gap[i] = share[i] * sum - change * prices[i]
  OBVIOUS
<1> HIDE DEF gap
<1>5. SumFunctionOnSet(gap, Items) = 0
  <2> DEFINE given == [j \in Items |-> Times(sum, share[j])]
             due == [j \in Items |-> Times(change, prices[j])]
  <2>1. \A j \in Items : /\ share[j] \in Int /\ given[j] = Times(sum, share[j])
                         /\ prices[j] \in Int /\ due[j] = Times(change, prices[j])
    BY <1>1
  <2>2. \A j \in Items : given[j] \in Int /\ due[j] \in Int /\ gap[j] = given[j] - due[j]
    BY <1>3, <2>1 DEF Times
  <2> HIDE DEF given, due
  <2>4. SumFunctionOnSet(given, Items) = Times(sum, SumFunctionOnSet(share, Items))
    BY <2>1, ItemsEnd, SumTimes
  <2>5. SumFunctionOnSet(due, Items) = Times(change, SumFunctionOnSet(prices, Items))
    BY <2>1, ItemsEnd, SumTimes
  <2>6. SumFunctionOnSet(gap, Items) = SumFunctionOnSet(given, Items) - SumFunctionOnSet(due, Items)
    BY <2>2, ItemsEnd, SumMinus
  <2>3. SumFunctionOnSet(share, Items) = change /\ SumFunctionOnSet(prices, Items) = sum
    BY <1>1, ItemSumIs
  <2> QED BY <2>3, <2>4, <2>5, <2>6 DEF Times
<1>6. /\ IsFiniteSet(Items \ {Last}) /\ Cardinality(Items \ {Last}) = Last - 1
  <2>1. Cardinality(Items \ {Last}) = Cardinality(Items) - 1 /\ IsFiniteSet(Items \ {Last})
    BY ItemsEnd, FS_RemoveElement
  <2> QED BY <2>1, ItemsAre
<1>7. size > 0
  OBVIOUS
<1>8. Last * size = (Last - 1) * size + size
  BY ItemsAre
<1>9. (Last - 1) * size \in Nat
  BY ItemsAre
<1>10. CASE i # Last
  BY <1>2, <1>3, <1>4, <1>8, <1>9, <1>10
<1>11. CASE i = Last
  <2>1. SumFunctionOnSet(gap, Items) = gap[Last] + SumFunctionOnSet(gap, Items \ {Last})
    BY <1>3, ItemsEnd, SumRemove
  <2>2. SumFunctionOnSet(gap, Items \ {Last}) <= (Last - 1) * size
    <3>1. \A j \in Items \ {Last} : gap[j] \in Int /\ gap[j] <= size
      BY <1>2, <1>3
    <3> QED BY <1>6, <3>1, SumBelow
  <2>3. -SumFunctionOnSet(gap, Items \ {Last}) <= (Last - 1) * size
    <3> DEFINE neg == [j \in Items |-> -gap[j]]
    <3>1. \A j \in Items \ {Last} : neg[j] \in Int /\ neg[j] <= size
      BY <1>2, <1>3
    <3>2. SumFunctionOnSet(neg, Items \ {Last}) <= (Last - 1) * size
      <4> HIDE DEF neg
      <4> QED BY <1>6, <3>1, SumBelow
    <3> DEFINE zero == [j \in Items |-> 0]
    <3>3. \A j \in Items \ {Last} : zero[j] \in Int /\ gap[j] \in Int /\ neg[j] = zero[j] - gap[j]
      BY <1>3
    <3>4. /\ SumFunctionOnSet(zero, Items \ {Last}) = 0
          /\ SumFunctionOnSet(neg, Items \ {Last})
                = SumFunctionOnSet(zero, Items \ {Last}) - SumFunctionOnSet(gap, Items \ {Last})
      <4>1. \A j \in Items \ {Last} : zero[j] = 0
        OBVIOUS
      <4> HIDE DEF neg, zero
      <4> QED BY <1>6, <3>3, <4>1, SumMinus, SumOfZeros
    <3>5. SumFunctionOnSet(gap, Items \ {Last}) \in Int
      BY <1>3, <1>6, SumIsInt
    <3> HIDE DEF neg, zero
    <3> QED BY <3>2, <3>4, <3>5
  <2>4. SumFunctionOnSet(gap, Items \ {Last}) \in Int /\ gap[Last] \in Int
    BY <1>3, <1>6, ItemsAre, SumIsInt
  <2>5. gap[Last] <= (Last - 1) * size /\ -gap[Last] <= (Last - 1) * size
    BY <1>5, <1>9, <2>1, <2>2, <2>3, <2>4
  <2> QED BY <1>4, <1>7, <1>8, <1>9, <1>11, <2>4, <2>5
<1> QED BY <1>10, <1>11

LEMMA FairOfInv == ASSUME PriceInv PROVE SharesAreFair
<1> SUFFICES ASSUME NEW a \in Adjusters, HasShares(a)
             PROVE  LET l == adjuster[a]
                        sum == Sum(l.items)
                        size == IF sum < 0 THEN -sum ELSE sum
                        gap(i) == l.share[i] * sum - l.change * l.items[i] IN
                    /\ Sum(l.share) = l.change
                    /\ sum # 0 => \A i \in Items : gap(i) < Last * size /\ -gap(i) < Last * size
                    /\ sum = 0 => \A i, j \in Items \ {Last} : l.share[i] = l.share[j]
  BY DEF SharesAreFair, HasShares
<1>1. PICK l : l = adjuster[a]
  OBVIOUS
<1>2. /\ l.items = item /\ l.share = DividePrice(item, l.change) /\ l.change \in Int
      /\ item \in [Items -> Int]
  BY <1>1 DEF PriceInv, PriceTypeOK, SharesAreMade
<1>3. PICK sum \in Int : sum = Sum(l.items)
  BY <1>2, ItemSumIsInt
<1>4. PICK size \in Nat : size = IF sum < 0 THEN -sum ELSE sum
  OBVIOUS
<1>5. Sum(l.share) = l.change
  BY <1>2, DividedIsWhole
<1>6. ASSUME sum # 0, NEW i \in Items
      PROVE  /\ l.share[i] * sum - l.change * l.items[i] < Last * size
             /\ -(l.share[i] * sum - l.change * l.items[i]) < Last * size
  BY <1>2, <1>3, <1>4, <1>6, DividedIsFair
<1>7. ASSUME sum = 0, NEW i \in Items \ {Last}, NEW j \in Items \ {Last} PROVE l.share[i] = l.share[j]
  <2>1. l.share[i] = Part(item, l.change, i) /\ l.share[j] = Part(item, l.change, j)
    BY <1>2, DividedIsWhole
  <2>2. Sum(item) = 0
    BY <1>2, <1>3, <1>7
  <2> QED BY <2>1, <2>2 DEF Part
<1> QED BY <1>1, <1>3, <1>4, <1>5, <1>6, <1>7

-----------------------------------------------------------------------------
AdjusterRow == [pc : {"idle", "update", "locked", "pay", "write", "commit"},
                change : Int, price : Int, adjust : Int,
                items : [Items -> Int], share : [Items -> Int]]

LEMMA NoRequestIsRow == NoRequest \in AdjusterRow /\ NoRequest.pc = "idle"
BY DEF NoRequest, AdjusterRow, Zero

\* A step of one request that leaves what is committed alone.
LEMMA AdjusterGoesOn ==
    ASSUME PriceInv, NEW a \in Adjusters, NEW l \in AdjusterRow, Ask(a, l),
           UNCHANGED <<order, item, payPrice, paid, lost>>,
           changes' \in 0..MaxChanges, priceFaults' \in 0..MaxPriceFaults, priceFaults' >= priceFaults,
           l.pc \in {"locked", "pay", "write", "commit"} => HoldsOrder(a) \/ ~Locked,
           l.pc \in {"pay", "write", "commit"} =>
              l.items = item /\ l.share = DividePrice(item, l.change),
           l.pc # "commit", adjuster[a].pc = "commit" => priceFaults' > 0
    PROVE  PriceInv'
<1>1. /\ adjuster \in [Adjusters -> AdjusterRow] /\ priceFaults \in Int
      /\ adjuster' = [adjuster EXCEPT ![a] = l]
  BY PriceAssumption DEF PriceInv, PriceTypeOK, AdjusterRow, Ask
<1>2. /\ adjuster' \in [Adjusters -> AdjusterRow] /\ adjuster'[a] = l
      /\ \A b \in Adjusters \ {a} : adjuster'[b] = adjuster[b]
  BY <1>1
<1>3. PriceTypeOK'
  BY <1>2 DEF PriceInv, PriceTypeOK, AdjusterRow
<1>4. ItemsAddUp'
  BY DEF PriceInv, ItemsAddUp
<1>5. OneHolder'
  BY <1>2 DEF PriceInv, OneHolder, HoldsOrder, Locked
<1>6. SharesAreMade'
  <2>1. ASSUME NEW b \in Adjusters, HasShares(b)'
        PROVE  adjuster'[b].items = item /\ adjuster'[b].share = DividePrice(item, adjuster'[b].change)
    BY <1>2, <2>1 DEF PriceInv, SharesAreMade, HasShares
  <2> QED BY <2>1 DEF SharesAreMade, DividePrice, LastShare, Part, Even
<1>7. PayPriceInHand'
  <2>1. \A b \in Adjusters : adjuster'[b].pc = "commit" => b # a /\ adjuster'[b] = adjuster[b]
    BY <1>2
  <2>2. \A b \in Adjusters :
           adjuster[b].pc = "commit" => (b = a /\ priceFaults' > 0) \/ adjuster'[b].pc = "commit"
    BY <1>2
  <2>3. priceFaults > 0 => priceFaults' > 0
    BY <1>1, <1>3 DEF PriceTypeOK
  <2> QED BY <2>1, <2>2, <2>3 DEF PriceInv, PayPriceInHand, NewPrice
<1> QED BY <1>3, <1>4, <1>5, <1>6, <1>7 DEF PriceInv

LEMMA AdjusterTyped ==
    ASSUME PriceInv
    PROVE  /\ adjuster \in [Adjusters -> AdjusterRow]
           /\ order \in [price : Int, adjust : Int] /\ item \in [Items -> Int]
           /\ payPrice \in Int /\ lost \in Int /\ paid \in BOOLEAN
           /\ changes \in 0..MaxChanges /\ priceFaults \in 0..MaxPriceFaults
           /\ MaxChanges \in Nat /\ MaxPriceFaults \in Nat
BY PriceAssumption DEF PriceInv, PriceTypeOK, AdjusterRow

LEMMA ReadOrderStep ==
    ASSUME PriceInv, NEW a \in Adjusters, NEW change \in Changes, ReadOrder(a, change)
    PROVE  PriceInv'
<1> DEFINE l == [NoRequest EXCEPT !.pc = "update", !.change = change, !.price = order.price,
                                  !.adjust = order.adjust]
<1>1. Ask(a, l) /\ UNCHANGED <<order, item, payPrice, paid, lost, priceFaults>> /\ changes < MaxChanges
      /\ changes' = changes + 1 /\ adjuster[a].pc = "idle"
  BY DEF ReadOrder
<1>2. l \in AdjusterRow /\ l.pc = "update"
  <2>1. change \in Int /\ order.price \in Int /\ order.adjust \in Int
    BY PriceAssumption, AdjusterTyped
  <2> QED BY <2>1, NoRequestIsRow DEF AdjusterRow
<1> HIDE DEF l
<1>3. changes' \in 0..MaxChanges /\ priceFaults' \in 0..MaxPriceFaults /\ priceFaults' >= priceFaults
  BY <1>1, AdjusterTyped
<1> QED BY <1>1, <1>2, <1>3, AdjusterGoesOn

LEMMA UpdateOrderStep == ASSUME PriceInv, NEW a \in Adjusters, UpdateOrder(a) PROVE PriceInv'
<1>1. PICK old \in AdjusterRow : old = adjuster[a]
  BY AdjusterTyped
<1> DEFINE l == [old EXCEPT !.pc = "locked"]
<1>2. Ask(a, l) /\ UNCHANGED <<order, item, payPrice, paid, lost, changes, priceFaults>> /\ ~Locked
      /\ old.pc = "update"
  BY <1>1 DEF UpdateOrder, Continue
<1>3. l \in AdjusterRow /\ l.pc = "locked"
  BY DEF AdjusterRow
<1> HIDE DEF l
<1>4. changes' \in 0..MaxChanges /\ priceFaults' \in 0..MaxPriceFaults /\ priceFaults' >= priceFaults
  BY <1>2, AdjusterTyped
<1> QED BY <1>1, <1>2, <1>3, <1>4, AdjusterGoesOn

LEMMA UpdateItemsStep == ASSUME PriceInv, NEW a \in Adjusters, UpdateItems(a) PROVE PriceInv'
<1>1. PICK old \in AdjusterRow : old = adjuster[a]
  BY AdjusterTyped
<1>2. PICK share \in [Items -> Int] : share = DividePrice(item, old.change)
  <2>1. item \in [Items -> Int] /\ old.change \in Int
    BY AdjusterTyped DEF AdjusterRow
  <2> QED BY <2>1, DividedIsWhole
<1> DEFINE l == [old EXCEPT !.pc = "pay", !.items = item, !.share = share]
<1>3. Ask(a, l) /\ UNCHANGED <<order, item, payPrice, paid, lost, changes, priceFaults>>
      /\ old.pc = "locked"
  BY <1>1, <1>2 DEF UpdateItems
<1>4. l \in AdjusterRow /\ l.pc = "pay" /\ l.items = item /\ l.share = share /\ l.change = old.change
  BY AdjusterTyped DEF AdjusterRow
<1> HIDE DEF l
<1>5. changes' \in 0..MaxChanges /\ priceFaults' \in 0..MaxPriceFaults /\ priceFaults' >= priceFaults
  BY <1>3, AdjusterTyped
<1>6. HoldsOrder(a)
  BY <1>1, <1>3 DEF HoldsOrder
<1> QED BY <1>1, <1>2, <1>3, <1>4, <1>5, <1>6, AdjusterGoesOn

LEMMA ReadPayOrderStep == ASSUME PriceInv, NEW a \in Adjusters, ReadPayOrder(a) PROVE PriceInv'
<1>1. PICK old \in AdjusterRow : old = adjuster[a]
  BY AdjusterTyped
<1>2. /\ UNCHANGED <<order, item, payPrice, paid, lost, changes, priceFaults>> /\ old.pc = "pay"
      /\ IF paid THEN Ask(a, NoRequest) ELSE Ask(a, [old EXCEPT !.pc = "write"])
  BY <1>1 DEF ReadPayOrder, Continue
<1>3. changes' \in 0..MaxChanges /\ priceFaults' \in 0..MaxPriceFaults /\ priceFaults' >= priceFaults
  BY <1>2, AdjusterTyped
<1>4. old.items = item /\ old.share = DividePrice(item, old.change) /\ HoldsOrder(a)
  BY <1>1, <1>2 DEF PriceInv, SharesAreMade, HasShares, HoldsOrder
<1> DEFINE l == [old EXCEPT !.pc = "write"]
<1>5. l \in AdjusterRow /\ l.pc = "write" /\ l.items = old.items /\ l.share = old.share
      /\ l.change = old.change
  BY DEF AdjusterRow
<1>6. paid \/ Ask(a, l)
  BY <1>2
<1> HIDE DEF l
<1>7. CASE paid
  BY <1>1, <1>2, <1>3, <1>7, NoRequestIsRow, AdjusterGoesOn
<1>8. CASE ~paid
  BY <1>1, <1>2, <1>3, <1>4, <1>5, <1>6, <1>8, AdjusterGoesOn
<1> QED BY <1>7, <1>8

LEMMA WritePayPriceStep == ASSUME PriceInv, NEW a \in Adjusters, UpdatePayOrderPrice(a) PROVE PriceInv'
<1>1. PICK old \in AdjusterRow : old = adjuster[a]
  BY AdjusterTyped
<1> DEFINE l == [old EXCEPT !.pc = "commit"]
<1>2. /\ Ask(a, l) /\ payPrice' = NewPrice(old) /\ old.pc = "write"
      /\ UNCHANGED <<order, item, paid, lost, changes, priceFaults>>
  BY <1>1 DEF UpdatePayOrderPrice, Continue
<1>3. /\ l \in AdjusterRow /\ l.pc = "commit" /\ l.items = old.items /\ l.share = old.share
      /\ l.change = old.change /\ l.price = old.price
  BY DEF AdjusterRow
<1> HIDE DEF l
<1>4. /\ adjuster' \in [Adjusters -> AdjusterRow] /\ adjuster'[a] = l
      /\ \A b \in Adjusters \ {a} : adjuster'[b] = adjuster[b]
  BY <1>2, <1>3, AdjusterTyped DEF Ask
<1>5. payPrice' \in Int /\ payPrice' = NewPrice(l)
  <2>1. old.price \in Int /\ old.change \in Int
    BY DEF AdjusterRow
  <2> QED BY <1>2, <1>3, <2>1 DEF NewPrice
<1>6. PriceTypeOK'
  BY <1>2, <1>4, <1>5, AdjusterTyped DEF PriceTypeOK, AdjusterRow
<1>7. ItemsAddUp'
  BY <1>2 DEF PriceInv, ItemsAddUp
<1>8. OneHolder'
  BY <1>1, <1>2, <1>3, <1>4 DEF PriceInv, OneHolder, HoldsOrder
<1>9. SharesAreMade'
  <2>1. ASSUME NEW b \in Adjusters, HasShares(b)'
        PROVE  adjuster'[b].items = item /\ adjuster'[b].share = DividePrice(item, adjuster'[b].change)
    BY <1>1, <1>2, <1>3, <1>4, <2>1 DEF PriceInv, SharesAreMade, HasShares
  <2> QED BY <1>2, <2>1 DEF SharesAreMade, DividePrice, LastShare, Part, Even
<1>10. PayPriceInHand'
  <2>1. \A b \in Adjusters : adjuster'[b].pc = "commit" => b = a
    BY <1>3, <1>4, <1>8 DEF OneHolder, HoldsOrder
  <2> QED BY <1>3, <1>4, <1>5, <2>1 DEF PayPriceInHand, NewPrice
<1> QED BY <1>6, <1>7, <1>8, <1>9, <1>10 DEF PriceInv

LEMMA CommitPriceStep == ASSUME PriceInv, NEW a \in Adjusters, CommitPrice(a) PROVE PriceInv'
<1>1. PICK old \in AdjusterRow : old = adjuster[a]
  BY AdjusterTyped
<1>2. /\ old.pc = "commit" /\ Ask(a, NoRequest)
      /\ order' = [price |-> NewPrice(old), adjust |-> old.adjust + old.change]
      /\ item' = [i \in Items |-> old.items[i] + old.share[i]]
      /\ lost' = lost + (order.price - old.price)
      /\ UNCHANGED <<payPrice, paid, changes, priceFaults>>
  BY <1>1 DEF CommitPrice
<1>3. /\ old.items = item /\ old.share = DividePrice(item, old.change)
      /\ item \in [Items -> Int] /\ old.change \in Int /\ old.price \in Int /\ old.adjust \in Int
      /\ order.price \in Int /\ lost \in Int /\ payPrice = NewPrice(old)
      /\ Sum(item) = order.price + lost
  <2>1. old.change \in Int /\ old.price \in Int /\ old.adjust \in Int
    BY DEF AdjusterRow
  <2> QED BY <1>1, <1>2, <2>1, AdjusterTyped
         DEF PriceInv, SharesAreMade, HasShares, PayPriceInHand, ItemsAddUp
<1>4. old.share \in [Items -> Int] /\ Sum(old.share) = old.change
  BY <1>3, DividedIsWhole
<1>5. item' \in [Items -> Int] /\ \A i \in Items : item'[i] = item[i] + old.share[i]
  BY <1>2, <1>3, <1>4
<1>6. /\ adjuster' \in [Adjusters -> AdjusterRow] /\ adjuster'[a].pc = "idle"
      /\ \A b \in Adjusters \ {a} : adjuster'[b] = adjuster[b]
  BY <1>2, NoRequestIsRow, AdjusterTyped DEF Ask
<1>7. ~Locked'
  <2>1. \A b \in Adjusters \ {a} : adjuster[b].pc \notin {"locked", "pay", "write", "commit"}
    BY <1>1, <1>2 DEF PriceInv, OneHolder, HoldsOrder
  <2> QED BY <1>6, <2>1 DEF Locked
<1>8. order' \in [price : Int, adjust : Int] /\ order'.price = old.price + old.change /\ lost' \in Int
  BY <1>2, <1>3 DEF NewPrice
<1>9. PriceTypeOK'
  BY <1>2, <1>5, <1>6, <1>8, AdjusterTyped DEF PriceTypeOK, AdjusterRow
<1>10. ItemsAddUp'
  <2>1. SumFunctionOnSet(item', Items) = SumFunctionOnSet(item, Items) + SumFunctionOnSet(old.share, Items)
    <3>1. \A i \in Items : /\ item[i] \in Int /\ old.share[i] \in Int
                           /\ item'[i] = item[i] + old.share[i]
      BY <1>3, <1>4, <1>5
    <3> QED BY <3>1, ItemsEnd, SumPlus
  <2>2. /\ SumFunctionOnSet(item', Items) = Sum(item') /\ SumFunctionOnSet(item, Items) = Sum(item)
        /\ SumFunctionOnSet(old.share, Items) = Sum(old.share)
    BY <1>3, <1>4, <1>5, ItemSumIs
  <2>3. Sum(item') = order'.price + lost'
    BY <1>2, <1>3, <1>4, <1>8, <2>1, <2>2
  <2> QED BY <2>3 DEF ItemsAddUp, Sum
<1>11. OneHolder' /\ SharesAreMade'
  BY <1>7 DEF OneHolder, HoldsOrder, SharesAreMade, HasShares, Locked
<1>12. PayPriceInHand'
  BY <1>2, <1>3, <1>7, <1>8 DEF PayPriceInHand, Locked, NewPrice
<1> QED BY <1>9, <1>10, <1>11, <1>12 DEF PriceInv

LEMMA AdjustmentFailsStep == ASSUME PriceInv, NEW a \in Adjusters, AdjustmentFails(a) PROVE PriceInv'
<1>1. /\ Ask(a, NoRequest) /\ UNCHANGED <<order, item, payPrice, paid, lost, changes>>
      /\ priceFaults < MaxPriceFaults /\ priceFaults' = priceFaults + 1
  BY DEF AdjustmentFails
<1>2. /\ changes' \in 0..MaxChanges /\ priceFaults' \in 0..MaxPriceFaults
      /\ priceFaults' >= priceFaults /\ priceFaults' > 0
  BY <1>1, AdjusterTyped
<1> QED BY <1>1, <1>2, NoRequestIsRow, AdjusterGoesOn

LEMMA PriceStarts == PriceInit => PriceInv
<1> SUFFICES ASSUME PriceInit PROVE PriceInv
  OBVIOUS
<1>1. ItemPrices \in [Items -> Int] /\ Sum(ItemPrices) \in Int
  <2>1. ItemPrices \in [Items -> Int]
    BY PriceAssumption DEF Items
  <2> QED BY <2>1, ItemSumIsInt
<1>2. \A a \in Adjusters : adjuster[a] = NoRequest
  BY DEF PriceInit
<1>3. adjuster \in [Adjusters -> AdjusterRow]
  BY NoRequestIsRow DEF PriceInit
<1>4. PriceTypeOK
  <2>1. order \in [price : Int, adjust : Int] /\ item \in [Items -> Int] /\ payPrice \in Int
    BY <1>1 DEF PriceInit
  <2>2. lost \in Int /\ changes \in 0..MaxChanges /\ priceFaults \in 0..MaxPriceFaults
    BY PriceAssumption DEF PriceInit
  <2>3. paid \in BOOLEAN
    BY DEF PriceInit
  <2> QED BY <1>3, <2>1, <2>2, <2>3 DEF PriceTypeOK, AdjusterRow
<1>5. ItemsAddUp
  BY <1>1 DEF PriceInit, ItemsAddUp
<1> QED BY <1>2, <1>4, <1>5, NoRequestIsRow
        DEF PriceInit, PriceInv, OneHolder, HoldsOrder, SharesAreMade, HasShares, PayPriceInHand

LEMMA PriceKept == ASSUME PriceInv, [PriceNext]_priceVars PROVE PriceInv'
<1>1. ASSUME UNCHANGED <<order, item, payPrice, lost, changes, priceFaults, adjuster>>, paid' \in BOOLEAN
      PROVE  PriceInv'
  <2>1. PriceTypeOK' /\ ItemsAddUp'
    BY <1>1 DEF PriceInv, PriceTypeOK, ItemsAddUp
  <2>2. OneHolder' /\ SharesAreMade' /\ PayPriceInHand'
    BY <1>1 DEF PriceInv, OneHolder, HoldsOrder, SharesAreMade, HasShares, PayPriceInHand
  <2> QED BY <2>1, <2>2 DEF PriceInv
<1>2. CASE UNCHANGED priceVars
  BY <1>1, <1>2, AdjusterTyped DEF priceVars
<1>3. CASE PayOrderPaid
  BY <1>1, <1>3 DEF PayOrderPaid
<1> QED BY <1>2, <1>3, ReadOrderStep, UpdateOrderStep, UpdateItemsStep, ReadPayOrderStep,
           WritePayPriceStep, CommitPriceStep, AdjustmentFailsStep DEF PriceNext

(* However administrators adjust one order at a time, and wherever one of    *)
(* them is cut off: the items say what the order's price was made of, each  *)
(* share is its item's part of the change, and the pay order asks for the    *)
(* order's price unless a request is at work or was cut off                 *)
(* (order_update.go:318, :339 and :383).                                    *)
THEOREM PricesAgreeAlways == PriceSpec => []PricesAgree
<1>1. PriceInv => PricesAgree
  <2> SUFFICES ASSUME PriceInv PROVE PricesAgree
    OBVIOUS
  <2>1. SharesAreFair
    BY FairOfInv
  <2>2. PayPriceFollows
    BY DEF PriceInv, PayPriceInHand, PayPriceFollows, Locked
  <2> QED BY <2>1, <2>2 DEF PriceInv, PricesAgree
<1>2. PriceInv /\ [PriceNext]_priceVars => PriceInv'
  BY PriceKept
<1> QED BY <1>1, <1>2, PriceStarts, PTL DEF PriceSpec

-----------------------------------------------------------------------------
(* Product stock.  A row that a transaction has written is locked: what the  *)
(* transaction made of it still starts from what is committed.              *)

SkuRecord == [state : {"none", "live", "gone"}, stock : Nat, sales : Int]
PlacesOf(q, s) == {i \in DOMAIN q : q[i] = s}
UnitsOf(l, s) == l.by * Cardinality(PlacesOf(l.form, s))
Gains(l) == [s \in Skus |-> IF s \in DOMAIN l.write THEN l.write[s].stock - skuRow[s].stock ELSE 0]

IsDesk(l) == {"rows", "by", "form", "todo", "write", "held", "pc"} \subseteq DOMAIN l

\* What an order has written is its rows with as many units less, or more.
OrderDesk(l) ==
    /\ l.pc \in {"move", "moved"} /\ l.by \in {-1, 1}
    /\ l.rows \in Seq(Skus) /\ l.form \in Seq(Skus)
    /\ DOMAIN l.write \subseteq Skus /\ \A i \in DOMAIN l.form : l.form[i] \in DOMAIN l.write
    /\ \A s \in DOMAIN l.write :
          /\ l.write[s] \in SkuRecord /\ l.write[s].state = "live" /\ skuRow[s].state = "live"
          /\ l.write[s].sales = skuRow[s].sales - UnitsOf(l, s)
    /\ SumFunctionOnSet(Gains(l), Skus) = l.by * Len(l.form)

\* What an editor has written is the form's stock and the sales there are.
EditorDesk(l) ==
    /\ l.pc \in {"edit", "skus", "delete"}
    /\ l.pc # "skus" => DOMAIN l.write = {}
    /\ l.pc # "delete" => /\ DOMAIN l.form \subseteq Skus
                          /\ \A s \in DOMAIN l.form : l.form[s] \in Nat
    /\ l.pc = "skus" => /\ l.todo \subseteq DOMAIN l.form /\ DOMAIN l.write = DOMAIN l.form \ l.todo
                        /\ \A s \in DOMAIN l.write :
                              /\ l.write[s] \in SkuRecord /\ skuRow[s].state # "gone"
                              /\ l.write[s].state = "live" /\ l.write[s].stock = l.form[s]
                              /\ l.write[s].sales = skuRow[s].sales

RenamerDesk(l) ==
    /\ l.pc = "rename" /\ DOMAIN l.write = {}
    /\ l.todo \subseteq Skus /\ \A s \in l.todo : l.form[s] \in SkuRecord

AnyDesk(d, l) ==
    /\ IsDesk(l)
    /\ d \in Orders => OrderDesk(l)
    /\ d \in Editors => EditorDesk(l)
    /\ d \in Renamers => RenamerDesk(l)

StockRows ==
    /\ skuRow \in [Skus -> SkuRecord]
    /\ spuRow \in [status : {"shelf", "recycled", "deleted"}, stock : Int]
    /\ moved \in [Skus -> Int]
NewRows == \A s \in Skus : skuRow[s].state = "none" => skuRow[s].sales = 0 /\ moved[s] = 0
AtDesks == DOMAIN desk \subseteq Requests /\ \A d \in DOMAIN desk : AnyDesk(d, desk[d])
WritesApart ==
    \A d, e \in DOMAIN desk : d # e => DOMAIN desk[d].write \cap DOMAIN desk[e].write = {}

StockInv == StockRows /\ NewRows /\ AtDesks /\ WritesApart

LEMMA SkusFinite == IsFiniteSet(Skus) /\ IsFiniteSet(Live) /\ Live \subseteq Skus
BY StockAssumption, FS_Subset DEF Live

LEMMA SumOverIs == ASSUME NEW f, NEW S, IsFiniteSet(S) PROVE SumOver(S, f) = SumFunctionOnSet(f, S)
<1> DEFINE g == [s \in S |-> f[s]]
<1>1. SumOver(S, f) = SumFunctionOnSet(g, S)
  BY DEF SumOver, SumFunction, SumFunctionOnSet, FoldFunction
<1>2. \A s \in S : g[s] = f[s]
  OBVIOUS
<1> HIDE DEF g
<1> QED BY <1>1, <1>2, SumSame

\* One more row in the list of an order is one more unit of that row.
LEMMA OneMorePlace ==
    ASSUME NEW q \in Seq(Skus), NEW s \in Skus, NEW t \in Skus, NEW b \in {-1, 1}
    PROVE  /\ b * Cardinality(PlacesOf(q, t)) \in Int
           /\ b * Cardinality(PlacesOf(Append(q, s), t))
                 = b * Cardinality(PlacesOf(q, t)) + (IF t = s THEN b ELSE 0)
<1>1. PICK n \in Nat : n = Len(q) /\ DOMAIN q = 1..n
  OBVIOUS
<1>2. /\ DOMAIN Append(q, s) = 1..(n + 1) /\ Append(q, s)[n + 1] = s
      /\ \A i \in 1..n : Append(q, s)[i] = q[i]
  BY <1>1
<1>3. IsFiniteSet(PlacesOf(q, t)) /\ Cardinality(PlacesOf(q, t)) \in Nat /\ n + 1 \notin PlacesOf(q, t)
  <2>1. PlacesOf(q, t) \subseteq 1..n /\ n + 1 \notin PlacesOf(q, t)
    BY <1>1 DEF PlacesOf
  <2>2. IsFiniteSet(1..n)
    BY FS_Interval
  <2>3. IsFiniteSet(PlacesOf(q, t))
    BY <2>1, <2>2, FS_Subset
  <2> QED BY <2>1, <2>3, FS_CardinalityType
<1>4. CASE t = s
  <2>1. PlacesOf(Append(q, s), t) = PlacesOf(q, t) \cup {n + 1}
    BY <1>1, <1>2, <1>4 DEF PlacesOf
  <2>2. Cardinality(PlacesOf(Append(q, s), t)) = Cardinality(PlacesOf(q, t)) + 1
    BY <1>3, <2>1, FS_AddElement
  <2> QED BY <1>3, <1>4, <2>2
<1>5. CASE t # s
  <2>1. PlacesOf(Append(q, s), t) = PlacesOf(q, t)
    BY <1>1, <1>2, <1>5 DEF PlacesOf
  <2> QED BY <1>3, <1>5, <2>1
<1> QED BY <1>4, <1>5

-----------------------------------------------------------------------------
\* A desk notices nothing of the rows it has not written.
LEMMA DeskStays ==
    ASSUME StockRows, StockRows', NEW d, NEW l, AnyDesk(d, l),
           \A s \in DOMAIN l.write : skuRow'[s] = skuRow[s]
    PROVE  AnyDesk(d, l)'
<1>1. IsDesk(l) => IsDesk(l)'
  BY Zenon DEF IsDesk
<1>0. RenamerDesk(l) => RenamerDesk(l)'
  BY DEF RenamerDesk, SkuRecord
<1>2. EditorDesk(l) => EditorDesk(l)'
  BY DEF EditorDesk
<1>3. ASSUME OrderDesk(l) PROVE OrderDesk(l)'
  <2>1. \A s \in Skus : Gains(l)'[s] = Gains(l)[s]
    BY DEF Gains
  <2>2. SumFunctionOnSet(Gains(l)', Skus) = SumFunctionOnSet(Gains(l), Skus)
    BY <2>1, SkusFinite, SumSame
  <2> QED BY <1>3, <2>2 DEF OrderDesk, UnitsOf
<1> QED BY <1>0, <1>1, <1>2, <1>3 DEF AnyDesk

LEMMA DesksGoOn ==
    ASSUME StockInv, StockRows', NewRows', NEW d \in Requests, NEW l, Sits(d, l), AnyDesk(d, l)',
           \A e \in DOMAIN desk \ {d} : \A s \in DOMAIN desk[e].write : skuRow'[s] = skuRow[s]
                  /\ s \notin DOMAIN l.write
    PROVE  StockInv'
<1>1. /\ DOMAIN desk' = DOMAIN desk \cup {d} /\ desk'[d] = l
      /\ \A e \in DOMAIN desk \ {d} : desk'[e] = desk[e]
  BY DEF Sits
<1>2. ASSUME NEW e \in DOMAIN desk \ {d} PROVE AnyDesk(e, desk[e])'
  <2>1. PICK m : m = desk[e] /\ AnyDesk(e, m)
    BY DEF StockInv, AtDesks
  <2>2. AnyDesk(e, m)'
    BY <2>1, DeskStays DEF StockInv
  <2> QED BY <1>1, <2>1, <2>2
<1>3. AnyDesk(d, desk[d])'
  BY <1>1
<1>4. AtDesks'
  BY <1>1, <1>2, <1>3 DEF StockInv, AtDesks
<1>5. WritesApart'
  BY <1>1 DEF StockInv, WritesApart
<1> QED BY <1>4, <1>5 DEF StockInv

LEMMA DeskLeft ==
    ASSUME StockInv, StockRows', NewRows', NEW d, Leaves(d),
           \A e \in DOMAIN desk \ {d} : \A s \in DOMAIN desk[e].write : skuRow'[s] = skuRow[s]
    PROVE  StockInv'
<1>1. DOMAIN desk' = DOMAIN desk \ {d} /\ \A e \in DOMAIN desk \ {d} : desk'[e] = desk[e]
  BY DEF Leaves, Restrict
<1>2. ASSUME NEW e \in DOMAIN desk \ {d} PROVE AnyDesk(e, desk[e])'
  <2>1. PICK m : m = desk[e] /\ AnyDesk(e, m)
    BY DEF StockInv, AtDesks
  <2>2. AnyDesk(e, m)'
    BY <2>1, DeskStays DEF StockInv
  <2> QED BY <1>1, <2>1, <2>2
<1>3. AtDesks'
  BY <1>1, <1>2 DEF StockInv, AtDesks
<1>4. WritesApart'
  BY <1>1 DEF StockInv, WritesApart
<1> QED BY <1>3, <1>4 DEF StockInv

LEMMA RowsStay ==
    ASSUME StockInv, UNCHANGED <<skuRow, moved>>, spuRow' \in [status : {"shelf", "recycled", "deleted"}, stock : Int]
    PROVE  StockRows' /\ NewRows'
BY DEF StockInv, StockRows, NewRows

LEMMA AgreementStays ==
    ASSUME StocksAgree, UNCHANGED <<skuRow, moved>>, spuRow.status = "deleted" => spuRow'.status = "deleted",
           spuRow'.status # "deleted" => spuRow'.stock = spuRow.stock
    PROVE  StocksAgree'
BY DEF StocksAgree, Live

\* An empty desk, and one at which nothing is written yet.
LEMMA NewDeskIs ==
    /\ IsDesk(NewDesk) /\ NewDesk.rows = << >> /\ NewDesk.by = 0 /\ NewDesk.form = << >>
    /\ NewDesk.todo = {} /\ NewDesk.write = << >> /\ NewDesk.held = {} /\ NewDesk.pc = "new"
    /\ DOMAIN NewDesk.write = {}
BY DEF NewDesk, IsDesk

LEMMA GainsNothing ==
    ASSUME NEW l, DOMAIN l.write = {} PROVE SumFunctionOnSet(Gains(l), Skus) = 0
<1>1. \A s \in Skus : Gains(l)[s] = 0
  BY DEF Gains
<1> QED BY <1>1, SkusFinite, SumOfZeros

-----------------------------------------------------------------------------
\* Steps of an order.
LEMMA StartMoveKeeps ==
    ASSUME StockInv, NEW d \in Orders, NEW rows \in Seq(Skus), NEW by \in {-1, 1}, StartMove(d, rows, by)
    PROVE  StockInv' /\ (StocksAgree => StocksAgree')
<1>1. PICK o : /\ o = NewDesk /\ IsDesk(o) /\ DOMAIN o.write = {} /\ o.form = << >>
               /\ Sits(d, [o EXCEPT !.pc = "move", !.rows = rows, !.by = by])
  BY NewDeskIs DEF StartMove
<1>2. PICK k : k = [o EXCEPT !.pc = "move", !.rows = rows, !.by = by]
  OBVIOUS
<1>3. k.rows = rows /\ k.by = by /\ k.form = << >> /\ DOMAIN k.write = {} /\ k.pc = "move"
  BY <1>1, <1>2 DEF IsDesk
<1>4. IsDesk(k)
  BY <1>1, <1>2 DEF IsDesk
<1>5. Sits(d, k) /\ UNCHANGED <<skuRow, spuRow, moved>>
  BY <1>1, <1>2 DEF StartMove
<1>6. OrderDesk(k)'
  <2>1. SumFunctionOnSet(Gains(k)', Skus) = 0
    <3>1. \A s \in Skus : Gains(k)'[s] = 0
      BY <1>3 DEF Gains
    <3> QED BY <3>1, SkusFinite, SumOfZeros
  <2>2. by * Len(<< >>) = 0 /\ << >> \in Seq(Skus)
    OBVIOUS
  <2> QED BY <1>3, <2>1, <2>2 DEF OrderDesk
<1>7. AnyDesk(d, k)'
  BY <1>4, <1>6, StockAssumption DEF AnyDesk, IsDesk
<1>8. StockRows' /\ NewRows'
  BY <1>5, RowsStay DEF StockInv, StockRows
<1>9. StockInv'
  BY <1>3, <1>5, <1>7, <1>8, DesksGoOn DEF Requests
<1> QED BY <1>5, <1>9, AgreementStays

\* The request at work, and where its desk stands.
LEMMA OrderAt ==
    ASSUME StockInv, NEW d \in Orders, d \in DOMAIN desk
    PROVE  d \in Requests /\ IsDesk(desk[d]) /\ OrderDesk(desk[d])
BY DEF StockInv, AtDesks, AnyDesk, Requests

LEMMA EditorAt ==
    ASSUME StockInv, NEW d \in Editors, d \in DOMAIN desk
    PROVE  d \in Requests /\ IsDesk(desk[d]) /\ EditorDesk(desk[d])
BY DEF StockInv, AtDesks, AnyDesk, Requests

LEMMA RenamerAt ==
    ASSUME StockInv, NEW d \in Renamers, d \in DOMAIN desk
    PROVE  d \in Requests /\ IsDesk(desk[d]) /\ RenamerDesk(desk[d])
BY DEF StockInv, AtDesks, AnyDesk, Requests

LEMMA OneKind ==
    /\ \A d \in Orders : \A l : IsDesk(l) /\ OrderDesk(l) => AnyDesk(d, l)
    /\ \A d \in Editors : \A l : IsDesk(l) /\ EditorDesk(l) => AnyDesk(d, l)
    /\ \A d \in Renamers : \A l : IsDesk(l) /\ RenamerDesk(l) => AnyDesk(d, l)
BY StockAssumption DEF AnyDesk

\* A step that changes no table, and one desk or none.
LEMMA OnlyTheDesk ==
    ASSUME StockInv, UNCHANGED <<skuRow, spuRow, moved>>, NEW d \in Requests, NEW l,
           Sits(d, l), AnyDesk(d, l),
           \A e \in DOMAIN desk \ {d} : DOMAIN desk[e].write \cap DOMAIN l.write = {}
    PROVE  StockInv' /\ (StocksAgree => StocksAgree')
<1>1. StockRows' /\ NewRows'
  BY RowsStay DEF StockInv, StockRows
<1>2. AnyDesk(d, l)'
  BY <1>1, DeskStays DEF StockInv
<1>3. StockInv'
  BY <1>1, <1>2, DesksGoOn
<1> QED BY <1>3, AgreementStays

LEMMA OnlyLeaves ==
    ASSUME StockInv, UNCHANGED <<skuRow, spuRow, moved>>, NEW d, Leaves(d)
    PROVE  StockInv' /\ (StocksAgree => StocksAgree')
<1>1. StockRows' /\ NewRows'
  BY RowsStay DEF StockInv, StockRows
<1> QED BY <1>1, DeskLeft, AgreementStays

LEMMA WrittenAreSkus == ASSUME StockInv, NEW e \in DOMAIN desk PROVE DOMAIN desk[e].write \subseteq Skus
<1>1. e \in Requests /\ AnyDesk(e, desk[e])
  BY DEF StockInv, AtDesks
<1>2. CASE e \in Orders
  BY <1>1, <1>2 DEF AnyDesk, OrderDesk
<1>3. CASE e \in Editors
  BY <1>1, <1>3 DEF AnyDesk, EditorDesk
<1>4. CASE e \in Renamers
  BY <1>1, <1>4 DEF AnyDesk, RenamerDesk
<1> QED BY <1>1, <1>2, <1>3, <1>4 DEF Requests

LEMMA NotTaken ==
    ASSUME NEW l, OrderDesk(l), NEW s, s \notin DOMAIN l.write PROVE UnitsOf(l, s) = 0
<1>1. PlacesOf(l.form, s) = {}
  BY DEF OrderDesk, PlacesOf
<1>2. l.by * 0 = 0
  BY DEF OrderDesk
<1> QED BY <1>1, <1>2, FS_EmptySet DEF UnitsOf

LEMMA OneMoreMoved ==
    ASSUME StockRows, NEW l, OrderDesk(l), l.pc = "move", l.rows # << >>, NEW s \in Skus, s = Head(l.rows),
           NEW row \in SkuRecord, NEW new \in SkuRecord, row.state = "live",
           s \in DOMAIN l.write => row = l.write[s], s \notin DOMAIN l.write => row = skuRow[s],
           new.state = row.state, new.stock = row.stock + l.by, new.sales = row.sales - l.by,
           NEW w, DOMAIN w = DOMAIN l.write \cup {s}, w[s] = new,
                  \A t \in DOMAIN l.write \ {s} : w[t] = l.write[t],
           NEW k, k.pc = "move", k.by = l.by, k.rows = Tail(l.rows), k.form = Append(l.form, s), k.write = w
    PROVE  OrderDesk(k)
<1>1. k.rows \in Seq(Skus) /\ k.form \in Seq(Skus) /\ k.by \in {-1, 1} /\ k.pc \in {"move", "moved"}
  BY DEF OrderDesk
<1>2. DOMAIN k.write \subseteq Skus
  BY DEF OrderDesk
<1>3. \A i \in DOMAIN k.form : k.form[i] \in DOMAIN k.write
  <2>1. PICK n \in Nat : n = Len(l.form) /\ DOMAIN l.form = 1..n
    BY DEF OrderDesk
  <2>2. DOMAIN k.form = 1..(n + 1) /\ k.form[n + 1] = s /\ \A i \in 1..n : k.form[i] = l.form[i]
    BY <2>1 DEF OrderDesk
  <2> QED BY <2>1, <2>2 DEF OrderDesk
<1>4. \A t \in Skus : UnitsOf(l, t) \in Int /\ UnitsOf(k, t) = UnitsOf(l, t) + (IF t = s THEN l.by ELSE 0)
  <2>1. l.form \in Seq(Skus) /\ l.by \in {-1, 1}
    BY DEF OrderDesk
  <2>2. ASSUME NEW t \in Skus
        PROVE  UnitsOf(l, t) \in Int /\ UnitsOf(k, t) = UnitsOf(l, t) + (IF t = s THEN l.by ELSE 0)
    <3>1. /\ l.by * Cardinality(PlacesOf(l.form, t)) \in Int
          /\ l.by * Cardinality(PlacesOf(Append(l.form, s), t))
                = l.by * Cardinality(PlacesOf(l.form, t)) + (IF t = s THEN l.by ELSE 0)
      BY <2>1, OneMorePlace
    <3> QED BY <3>1 DEF UnitsOf
  <2> QED BY <2>2
<1>0. /\ row.stock \in Nat /\ row.sales \in Int /\ l.by \in Int
      /\ \A t \in Skus : /\ skuRow[t] \in SkuRecord /\ skuRow[t].stock \in Nat
                          /\ skuRow[t].sales \in Int
  <2>1. row.stock \in Nat /\ row.sales \in Int
    BY DEF SkuRecord
  <2>2. \A t \in Skus : skuRow[t] \in SkuRecord /\ skuRow[t].stock \in Nat /\ skuRow[t].sales \in Int
    BY DEF StockRows, SkuRecord
  <2>3. l.by \in Int
    BY DEF OrderDesk
  <2> QED BY <2>1, <2>2, <2>3
<1>5. ASSUME NEW t \in DOMAIN k.write
      PROVE  /\ k.write[t] \in SkuRecord /\ k.write[t].state = "live" /\ skuRow[t].state = "live"
             /\ k.write[t].sales = skuRow[t].sales - UnitsOf(k, t)
  <2>1. t \in Skus /\ skuRow[t] \in SkuRecord /\ l.by \in Int
    BY <1>2, <1>5 DEF OrderDesk, StockRows
  <2>2. CASE t = s
    <3>1. ASSUME s \in DOMAIN l.write
          PROVE  row.sales = skuRow[s].sales - UnitsOf(l, s) /\ skuRow[s].state = "live"
      BY <3>1 DEF OrderDesk
    <3>2. ASSUME s \notin DOMAIN l.write
          PROVE  row.sales = skuRow[s].sales - UnitsOf(l, s) /\ skuRow[s].state = "live"
      <4>1. UnitsOf(l, s) = 0
        BY <3>2, NotTaken
      <4> QED BY <1>0, <3>2, <4>1
    <3>3. row.sales = skuRow[s].sales - UnitsOf(l, s) /\ skuRow[s].state = "live"
      BY <3>1, <3>2
    <3>4. UnitsOf(l, s) \in Int /\ UnitsOf(k, s) = UnitsOf(l, s) + l.by
      BY <1>4
    <3> QED BY <1>0, <2>2, <3>3, <3>4
  <2>3. CASE t # s
    <3>1. t \in DOMAIN l.write /\ k.write[t] = l.write[t]
      BY <1>5, <2>3
    <3>2. UnitsOf(k, t) = UnitsOf(l, t)
      BY <1>4, <2>1, <2>3
    <3> QED BY <3>1, <3>2 DEF OrderDesk
  <2> QED BY <2>2, <2>3
<1>6. SumFunctionOnSet(Gains(k), Skus) = k.by * Len(k.form)
  <2>1. \A t \in Skus : skuRow[t] \in SkuRecord
    BY DEF StockRows
  <2>2. \A t \in Skus : Gains(l)[t] \in Int
    BY <2>1 DEF Gains, OrderDesk, SkuRecord
  <2>3. \A t \in Skus : Gains(k)[t] \in Int
    BY <1>5, <2>1 DEF Gains, SkuRecord
  <2>4. \A t \in Skus \ {s} : Gains(l)[t] = Gains(k)[t]
    BY DEF Gains
  <2>5. Gains(k)[s] = k.write[s].stock - skuRow[s].stock
    BY DEF Gains
  <2>6. Gains(l)[s] = row.stock - skuRow[s].stock
    BY <2>1 DEF Gains, SkuRecord
  <2>7. Gains(k)[s] - Gains(l)[s] = l.by
    BY <1>0, <2>5, <2>6
  <2>8. SumFunctionOnSet(Gains(k), Skus) = SumFunctionOnSet(Gains(l), Skus) + (Gains(k)[s] - Gains(l)[s])
    BY <2>2, <2>3, <2>4, SkusFinite, SumChange
  <2>9. PICK n \in Nat : n = Len(l.form) /\ Len(k.form) = n + 1
    BY DEF OrderDesk
  <2>10. \A m \in Nat : /\ -1 * (m + 1) = -1 * m + (-1)
                        /\ 1 * (m + 1) = 1 * m + 1
    OBVIOUS
  <2>11. SumFunctionOnSet(Gains(l), Skus) = l.by * n
    BY <2>9 DEF OrderDesk
  <2>12. l.by * n + l.by = l.by * (n + 1)
    BY <2>10 DEF OrderDesk
  <2> QED BY <2>7, <2>8, <2>9, <2>11, <2>12
<1> QED BY <1>1, <1>2, <1>3, <1>5, <1>6 DEF OrderDesk

LEMMA MoveSkuKeeps ==
    ASSUME StockInv, NEW d \in Orders, MoveSku(d)
    PROVE  StockInv' /\ (StocksAgree => StocksAgree')
<1>1. UNCHANGED <<skuRow, spuRow, moved>>
  BY DEF MoveSku
<1>2. PICK l : /\ l = desk[d] /\ d \in DOMAIN desk /\ d \in Requests /\ IsDesk(l) /\ OrderDesk(l)
               /\ l.pc = "move" /\ l.rows # << >>
  BY OrderAt DEF MoveSku, Ready
<1>3. PICK s \in Skus : s = Head(l.rows)
  BY <1>2 DEF OrderDesk
<1>4. PICK row : row = SeenBy(d, s)
  OBVIOUS
<1>5. /\ s \in DOMAIN l.write => row = l.write[s]
      /\ s \notin DOMAIN l.write => row = skuRow[s]
      /\ row \in SkuRecord
  BY <1>2, <1>3, <1>4 DEF SeenBy, OrderDesk, StockInv, StockRows
<1>6. CASE Leaves(d)
  BY <1>1, <1>6, OnlyLeaves
<1>7. CASE ~Leaves(d)
  <2>1. PICK new : new = [row EXCEPT !.stock = @ + l.by, !.sales = @ - l.by]
    OBVIOUS
  <2>2. PICK w : w = Writing(d, s, new)
    OBVIOUS
  <2>3. PICK k : k = [l EXCEPT !.rows = Tail(l.rows), !.form = Append(@, s), !.write = w]
    OBVIOUS
  <2>4. row.state = "live" /\ Enough(row, l.by) /\ Sits(d, k) /\ SkuFree(d, s)
    BY <1>2, <1>3, <1>4, <1>7, <2>1, <2>2, <2>3 DEF MoveSku
  <2>5. /\ new.state = row.state /\ new.stock = row.stock + l.by /\ new.sales = row.sales - l.by
        /\ new \in SkuRecord
    <3>1. row.stock \in Nat /\ row.sales \in Int /\ l.by \in Int /\ row.stock + l.by \in Nat
      BY <1>2, <1>5, <2>4 DEF SkuRecord, Enough, OrderDesk
    <3>2. new.state = row.state /\ new.stock = row.stock + l.by /\ new.sales = row.sales - l.by
      BY <1>5, <2>1 DEF SkuRecord
    <3>3. new = [row EXCEPT !.stock = row.stock + l.by, !.sales = row.sales - l.by]
      BY <2>1
    <3>4. row.stock + l.by \in Nat /\ row.sales - l.by \in Int
      BY <3>1
    <3>5. PICK a \in Nat : a = row.stock + l.by
      BY <3>4
    <3>6. PICK b \in Int : b = row.sales - l.by
      BY <3>4
    <3>7. new = [row EXCEPT !.stock = a, !.sales = b]
      BY <3>3, <3>5, <3>6
    <3>8. new \in SkuRecord
      BY <1>5, <3>7 DEF SkuRecord
    <3> QED BY <3>2, <3>8
  <2>6. DOMAIN w = DOMAIN l.write \cup {s} /\ w[s] = new /\ \A t \in DOMAIN l.write \ {s} : w[t] = l.write[t]
    BY <1>2, <2>2 DEF Writing
  <2>7. /\ IsDesk(k) /\ k.pc = "move" /\ k.by = l.by /\ k.rows = Tail(l.rows)
        /\ k.form = Append(l.form, s) /\ k.write = w
    BY <1>2, <2>3 DEF IsDesk
  <2>8. OrderDesk(k)
    BY <1>2, <1>3, <1>5, <2>4, <2>5, <2>6, <2>7, OneMoreMoved DEF StockInv
  <2>9. \A e \in DOMAIN desk \ {d} : DOMAIN desk[e].write \cap DOMAIN k.write = {}
    BY <1>2, <2>4, <2>6, <2>7 DEF StockInv, WritesApart, SkuFree
  <2>10. AnyDesk(d, k)
    BY <2>7, <2>8, OneKind
  <2> QED BY <1>1, <1>2, <2>4, <2>9, <2>10, OnlyTheDesk
<1> QED BY <1>6, <1>7

LEMMA MoveSpuKeeps ==
    ASSUME StockInv, NEW d \in Orders, MoveSpu(d)
    PROVE  StockInv' /\ (StocksAgree => StocksAgree')
<1>1. UNCHANGED <<skuRow, spuRow, moved>>
  BY DEF MoveSpu
<1>2. PICK l : l = desk[d] /\ d \in DOMAIN desk /\ d \in Requests /\ IsDesk(l) /\ OrderDesk(l)
  BY OrderAt DEF MoveSpu, Ready
<1>3. CASE Leaves(d)
  BY <1>1, <1>3, OnlyLeaves
<1>4. CASE ~Leaves(d)
  <2>1. PICK k : k = [l EXCEPT !.pc = "moved", !.held = {"spu"}]
    OBVIOUS
  <2>2. Sits(d, k)
    BY <1>2, <1>4, <2>1 DEF MoveSpu
  <2>3. /\ IsDesk(k) /\ k.pc = "moved" /\ k.by = l.by /\ k.rows = l.rows /\ k.form = l.form
         /\ k.write = l.write
    BY <1>2, <2>1 DEF IsDesk
  <2>4. SumFunctionOnSet(Gains(k), Skus) = SumFunctionOnSet(Gains(l), Skus)
    <3>1. \A t \in Skus : Gains(k)[t] = Gains(l)[t]
      BY <2>3 DEF Gains
    <3> QED BY <3>1, SkusFinite, SumSame
  <2>5. OrderDesk(k)
    BY <1>2, <2>3, <2>4 DEF OrderDesk, UnitsOf
  <2>6. \A e \in DOMAIN desk \ {d} : DOMAIN desk[e].write \cap DOMAIN k.write = {}
    BY <1>2, <2>3 DEF StockInv, WritesApart
  <2> QED BY <1>1, <1>2, <2>2, <2>3, <2>5, <2>6, OneKind, OnlyTheDesk
<1> QED BY <1>3, <1>4

LEMMA CommitMoveKeeps ==
    ASSUME StockInv, NEW d \in Orders, CommitMove(d)
    PROVE  StockInv' /\ (StocksAgree => StocksAgree')
<1>1. PICK l : l = desk[d] /\ d \in DOMAIN desk /\ OrderDesk(l)
  BY OrderAt DEF CommitMove, Ready
<1>2. \A s \in Skus : UnitsOf(l, s) \in Int /\ moved'[s] = moved[s] - UnitsOf(l, s)
  BY <1>1, OneMorePlace DEF CommitMove, UnitsOf, PlacesOf, OrderDesk
<1>3. DOMAIN moved' = Skus /\ moved' \in [Skus -> Int]
  BY <1>2 DEF CommitMove, StockInv, StockRows
<1>4. /\ skuRow' = [s \in Skus |-> skuRow'[s]]
      /\ \A s \in Skus : skuRow'[s] = IF s \in DOMAIN l.write THEN l.write[s] ELSE skuRow[s]
  BY <1>1 DEF CommitMove, Commits, SeenBy
<1>5. skuRow' \in [Skus -> SkuRecord]
  BY <1>1, <1>4 DEF OrderDesk, StockInv, StockRows
<1>6. /\ spuRow' \in [status : {"shelf", "recycled", "deleted"}, stock : Int]
      /\ spuRow'.status = spuRow.status /\ spuRow'.stock = spuRow.stock + l.by * Len(l.form)
  <2>1. l.by * Len(l.form) \in Int
    BY <1>1 DEF OrderDesk
  <2>2. spuRow' = [spuRow EXCEPT !.stock = @ + l.by * Len(l.form)]
    BY <1>1 DEF CommitMove, AllMoved
  <2> QED BY <2>1, <2>2 DEF StockInv, StockRows
<1>7. NewRows'
  <2>1. ASSUME NEW s \in Skus, skuRow'[s].state = "none" PROVE skuRow'[s].sales = 0 /\ moved'[s] = 0
    <3>1. s \notin DOMAIN l.write
      BY <1>1, <1>4, <2>1 DEF OrderDesk
    <3>2. UnitsOf(l, s) = 0 /\ skuRow'[s] = skuRow[s]
      BY <1>1, <1>4, <3>1, NotTaken
    <3>3. skuRow[s].sales = 0 /\ moved[s] = 0
      BY <2>1, <3>2 DEF StockInv, NewRows
    <3> QED BY <1>2, <3>2, <3>3
  <2> QED BY <2>1 DEF NewRows
<1>8. StockRows'
  BY <1>3, <1>5, <1>6 DEF StockRows
<1>9. \A e \in DOMAIN desk \ {d} : \A s \in DOMAIN desk[e].write : skuRow'[s] = skuRow[s]
  <2>1. ASSUME NEW e \in DOMAIN desk \ {d}, NEW s \in DOMAIN desk[e].write
         PROVE s \in Skus /\ s \notin DOMAIN l.write
    BY <1>1, WrittenAreSkus DEF StockInv, WritesApart
  <2> QED BY <1>4, <2>1
<1>10. StockInv'
  BY <1>7, <1>8, <1>9, DeskLeft DEF CommitMove
<1>11. Live' = Live
  BY <1>1, <1>4 DEF Live, OrderDesk
<1>12. ASSUME StocksAgree, spuRow.status # "deleted" PROVE StocksAgree'
  <2> DEFINE f == [s \in Skus |-> skuRow[s].stock]
             h == [s \in Skus |-> skuRow'[s].stock]
             g == Gains(l)
  <2>1. \A s \in Skus : f[s] \in Int /\ g[s] \in Int /\ h[s] = f[s] + g[s]
    BY <1>1, <1>4 DEF StockInv, StockRows, SkuRecord, OrderDesk, Gains
  <2>2. \A s \in Skus \ Live : g[s] = 0
    BY <1>1 DEF Gains, OrderDesk, Live
  <2>3. SumFunctionOnSet(g, Skus) = l.by * Len(l.form)
    BY <1>1 DEF OrderDesk
  <2>4. spuRow.stock = SumOver(Live, f)
    BY <1>12 DEF StocksAgree
  <2>5. SumOver(Live, h) = SumFunctionOnSet(h, Live) /\ SumOver(Live, f) = SumFunctionOnSet(f, Live)
    BY SkusFinite, SumOverIs
  <2> HIDE DEF f, g, h
  <2>6. SumFunctionOnSet(g, Live) = SumFunctionOnSet(g, Skus)
    BY <2>1, <2>2, SkusFinite, SumOfMembers
  <2>7. SumFunctionOnSet(h, Live) = SumFunctionOnSet(f, Live) + SumFunctionOnSet(g, Live)
    BY <2>1, SkusFinite, SumPlus
  <2>8. spuRow'.stock = SumOver(Live', h)
    BY <1>6, <1>11, <2>3, <2>4, <2>5, <2>6, <2>7
  <2>9. \A s \in Live : skuRow'[s].sales = moved'[s]
    <3>1. ASSUME NEW s \in Live PROVE skuRow'[s].sales = moved'[s]
      <4>1. /\ s \in Skus /\ skuRow[s].sales = moved[s] /\ moved[s] \in Int
            /\ moved'[s] = moved[s] - UnitsOf(l, s) /\ UnitsOf(l, s) \in Int
        BY <1>2, <1>12 DEF StocksAgree, Live, StockInv, StockRows
      <4>2. CASE s \in DOMAIN l.write
        BY <1>1, <1>4, <4>1, <4>2 DEF OrderDesk
      <4>3. CASE s \notin DOMAIN l.write
        <5>1. UnitsOf(l, s) = 0 /\ skuRow'[s] = skuRow[s]
          BY <1>1, <1>4, <4>1, <4>3, NotTaken
        <5> QED BY <4>1, <5>1
      <4> QED BY <4>2, <4>3
    <3> QED BY <3>1
  <2> QED BY <1>11, <2>8, <2>9 DEF StocksAgree, h
<1>13. StocksAgree /\ spuRow.status = "deleted" => StocksAgree'
  BY <1>6 DEF StocksAgree
<1> QED BY <1>10, <1>12, <1>13

-----------------------------------------------------------------------------
\* Steps of an editor.
LEMMA StartEditKeeps ==
    ASSUME StockInv, NEW d \in Editors, NEW form, DOMAIN form \subseteq Skus,
           \A s \in DOMAIN form : form[s] \in Nat, StartEdit(d, form)
    PROVE  StockInv' /\ (StocksAgree => StocksAgree')
<1>1. PICK o : o = NewDesk /\ IsDesk(o) /\ DOMAIN o.write = {}
  BY NewDeskIs
<1>2. PICK k : k = [o EXCEPT !.pc = "edit", !.form = form]
  OBVIOUS
<1>3. Sits(d, k) /\ UNCHANGED <<skuRow, spuRow, moved>>
  BY <1>1, <1>2 DEF StartEdit
<1>4. IsDesk(k) /\ k.pc = "edit" /\ k.form = form /\ DOMAIN k.write = {}
  BY <1>1, <1>2 DEF IsDesk
<1>5. EditorDesk(k)
  BY <1>4 DEF EditorDesk
<1> QED BY <1>3, <1>4, <1>5, OneKind, OnlyTheDesk DEF Requests

LEMMA EditSpuKeeps ==
    ASSUME StockInv, NEW d \in Editors, EditSpu(d)
    PROVE  StockInv' /\ (StocksAgree => StocksAgree')
<1>1. UNCHANGED <<skuRow, spuRow, moved>>
  BY DEF EditSpu
<1>2. PICK l : l = desk[d] /\ d \in DOMAIN desk /\ d \in Requests /\ IsDesk(l) /\ EditorDesk(l) /\ l.pc = "edit"
  BY EditorAt DEF EditSpu, Ready
<1>3. CASE Leaves(d)
  BY <1>1, <1>3, OnlyLeaves
<1>4. CASE ~Leaves(d)
  <2>1. PICK k : k = [l EXCEPT !.pc = "skus", !.held = {"spu"}, !.todo = DOMAIN l.form]
    OBVIOUS
  <2>2. Sits(d, k)
    BY <1>2, <1>4, <2>1 DEF EditSpu
  <2>3. IsDesk(k) /\ k.pc = "skus" /\ k.todo = DOMAIN l.form /\ k.form = l.form /\ k.write = l.write
    BY <1>2, <2>1 DEF IsDesk
  <2>4. DOMAIN k.write = {}
    BY <1>2, <2>3 DEF EditorDesk
  <2>5. EditorDesk(k)
    BY <1>2, <2>3, <2>4 DEF EditorDesk
  <2> QED BY <1>1, <1>2, <2>2, <2>3, <2>4, <2>5, OneKind, OnlyTheDesk
<1> QED BY <1>3, <1>4

LEMMA EditSkuKeeps ==
    ASSUME StockInv, NEW d \in Editors, NEW s \in Skus, EditSku(d, s)
    PROVE  StockInv' /\ (StocksAgree => StocksAgree')
<1>1. UNCHANGED <<skuRow, spuRow, moved>>
  BY DEF EditSku
<1>2. PICK l : /\ l = desk[d] /\ d \in DOMAIN desk /\ d \in Requests /\ IsDesk(l) /\ EditorDesk(l)
               /\ l.pc = "skus" /\ s \in l.todo
  BY EditorAt DEF EditSku, Ready
<1>3. CASE Leaves(d)
  BY <1>1, <1>3, OnlyLeaves
<1>4. CASE ~Leaves(d)
  <2>1. PICK row \in SkuRecord : row = skuRow[s]
    BY DEF StockInv, StockRows
  <2>2. PICK a \in Nat : a = l.form[s]
    BY <1>2 DEF EditorDesk
  <2>3. PICK new : new = Saved(row, a)
    OBVIOUS
  <2>4. PICK w : w = Writing(d, s, new)
    OBVIOUS
  <2>5. PICK k : k = [l EXCEPT !.todo = @ \ {s}, !.write = w]
    OBVIOUS
  <2>6. row.state # "gone" /\ Sits(d, k) /\ SkuFree(d, s)
    BY <1>2, <1>4, <2>1, <2>2, <2>3, <2>4, <2>5 DEF EditSku
  <2>7. new \in SkuRecord /\ new.state = "live" /\ new.stock = a /\ new.sales = row.sales
    <3>1. new = [row EXCEPT !.state = "live", !.stock = a]
      BY <2>3 DEF Saved
    <3> QED BY <2>1, <2>2, <3>1 DEF SkuRecord
  <2>8. DOMAIN w = DOMAIN l.write \cup {s} /\ w[s] = new /\ \A t \in DOMAIN l.write \ {s} : w[t] = l.write[t]
    BY <1>2, <2>4 DEF Writing
  <2>9. IsDesk(k) /\ k.pc = "skus" /\ k.todo = l.todo \ {s} /\ k.form = l.form /\ k.write = w
    BY <1>2, <2>5 DEF IsDesk
  <2>10. ASSUME NEW t \in DOMAIN w
         PROVE  /\ w[t] \in SkuRecord /\ skuRow[t].state # "gone" /\ w[t].state = "live"
                /\ w[t].stock = l.form[t] /\ w[t].sales = skuRow[t].sales
    <3>1. CASE t = s
      BY <2>1, <2>2, <2>6, <2>7, <2>8, <3>1
    <3>2. CASE t # s
      <4>1. t \in DOMAIN l.write /\ w[t] = l.write[t]
        BY <2>8, <3>2
      <4> QED BY <1>2, <4>1 DEF EditorDesk
    <3> QED BY <3>1, <3>2
  <2>11. DOMAIN w = DOMAIN l.form \ (l.todo \ {s}) /\ l.todo \ {s} \subseteq DOMAIN l.form
    BY <1>2, <2>8 DEF EditorDesk
  <2>12. DOMAIN l.form \subseteq Skus /\ \A t \in DOMAIN l.form : l.form[t] \in Nat
    BY <1>2 DEF EditorDesk
  <2>13. EditorDesk(k)
    BY <2>9, <2>10, <2>11, <2>12 DEF EditorDesk
  <2>14. \A e \in DOMAIN desk \ {d} : DOMAIN desk[e].write \cap DOMAIN k.write = {}
    BY <1>2, <2>6, <2>8, <2>9 DEF StockInv, WritesApart, SkuFree
  <2> QED BY <1>1, <1>2, <2>6, <2>9, <2>13, <2>14, OneKind, OnlyTheDesk
<1> QED BY <1>3, <1>4

LEMMA CommitEditKeeps ==
    ASSUME StockInv, NEW d \in Editors, CommitEdit(d)
    PROVE  StockInv' /\ (StocksAgree => StocksAgree')
<1>1. PICK l : /\ l = desk[d] /\ d \in DOMAIN desk /\ EditorDesk(l) /\ l.pc = "skus" /\ l.todo = {}
               /\ DOMAIN l.form \subseteq Skus
  BY EditorAt DEF CommitEdit, Ready, EditorDesk
<1>2. DOMAIN l.write = DOMAIN l.form
  BY <1>1 DEF EditorDesk
<1>3. \A s \in Skus :
         skuRow'[s] = IF s \in Live \ DOMAIN l.form THEN [skuRow[s] EXCEPT !.state = "gone"]
                      ELSE IF s \in DOMAIN l.form THEN l.write[s] ELSE skuRow[s]
  BY <1>1, <1>2 DEF CommitEdit, SeenBy
<1>4. ASSUME NEW s \in Skus
      PROVE  /\ skuRow'[s] \in SkuRecord
             /\ s \in DOMAIN l.form => /\ skuRow'[s].state = "live" /\ skuRow'[s].stock = l.form[s]
                                       /\ skuRow'[s].sales = skuRow[s].sales /\ skuRow[s].state # "gone"
             /\ s \notin DOMAIN l.form => skuRow'[s].state # "live"
             /\ s \notin Live \cup DOMAIN l.form => skuRow'[s] = skuRow[s]
  <2>1. PICK row \in SkuRecord : row = skuRow[s]
    BY DEF StockInv, StockRows
  <2>2. CASE s \in DOMAIN l.form
    BY <1>1, <1>2, <1>3, <2>2, ZenonT(40) DEF EditorDesk
  <2>3. CASE s \in Live \ DOMAIN l.form
    <3>1. skuRow'[s] = [row EXCEPT !.state = "gone"]
      BY <1>3, <2>1, <2>3
    <3> QED BY <2>1, <2>3, <3>1 DEF SkuRecord
  <2>4. CASE s \notin Live \cup DOMAIN l.form
    BY <1>3, <2>1, <2>4 DEF Live
  <2> QED BY <2>2, <2>3, <2>4
<1>5. skuRow' \in [Skus -> SkuRecord]
  <2>1. skuRow' = [s \in Skus |-> skuRow'[s]]
    BY DEF CommitEdit
  <2> QED BY <1>4, <2>1
<1>6. /\ spuRow'.status = spuRow.status /\ spuRow'.stock = SumFunctionOnSet(l.form, DOMAIN l.form)
      /\ spuRow' \in [status : {"shelf", "recycled", "deleted"}, stock : Int]
  <2>1. SumFunction(l.form) = SumFunctionOnSet(l.form, DOMAIN l.form)
    BY DEF SumFunction, SumFunctionOnSet, FoldFunction
  <2>2. IsFiniteSet(DOMAIN l.form)
    BY <1>1, SkusFinite, FS_Subset
  <2>3. PICK n \in Int : n = SumFunctionOnSet(l.form, DOMAIN l.form)
    BY <1>1, <2>2, SumIsInt DEF EditorDesk
  <2>4. spuRow' = [spuRow EXCEPT !.stock = n]
    BY <1>1, <2>1, <2>3 DEF CommitEdit
  <2> QED BY <2>3, <2>4 DEF StockInv, StockRows
<1>7. moved' = moved
  BY DEF CommitEdit
<1>8. StockRows' /\ NewRows'
  <2>1. ASSUME NEW s \in Skus, skuRow'[s].state = "none" PROVE skuRow'[s].sales = 0 /\ moved'[s] = 0
    <3>1. CASE s \in DOMAIN l.form
      BY <1>4, <2>1, <3>1
    <3>2. CASE s \in Live \ DOMAIN l.form
      BY <1>3, <2>1, <3>2 DEF StockInv, StockRows, SkuRecord
    <3>3. CASE s \notin Live \cup DOMAIN l.form
      BY <1>4, <1>7, <2>1, <3>3 DEF StockInv, NewRows
    <3> QED BY <3>1, <3>2, <3>3
  <2> QED BY <1>5, <1>6, <1>7, <2>1 DEF StockRows, NewRows, StockInv
<1>9. \A e \in DOMAIN desk \ {d} : \A s \in DOMAIN desk[e].write : skuRow'[s] = skuRow[s]
  <2>1. ASSUME NEW e \in DOMAIN desk \ {d}, NEW s \in DOMAIN desk[e].write PROVE skuRow'[s] = skuRow[s]
    <3>1. s \in Skus /\ s \notin DOMAIN l.write
      BY <1>1, WrittenAreSkus DEF StockInv, WritesApart
    <3>2. s \notin Live \ DOMAIN l.form
      BY <1>1 DEF CommitEdit, SkuFree
    <3> QED BY <1>2, <1>4, <3>1, <3>2
  <2> QED BY <2>1
<1>10. StockInv'
  BY <1>8, <1>9, DeskLeft DEF CommitEdit
<1>11. Live' = DOMAIN l.form
  BY <1>1, <1>4 DEF Live
<1>12. ASSUME StocksAgree, spuRow.status # "deleted" PROVE StocksAgree'
  <2> DEFINE h == [s \in Skus |-> skuRow'[s].stock]
  <2>1. IsFiniteSet(DOMAIN l.form)
    BY <1>1, SkusFinite, FS_Subset
  <2>2. \A s \in DOMAIN l.form : h[s] = l.form[s]
    BY <1>1, <1>4
  <2> HIDE DEF h
  <2>3. SumOver(DOMAIN l.form, h) = SumFunctionOnSet(l.form, DOMAIN l.form)
    BY <2>1, <2>2, SumOverIs, SumSame
  <2>4. \A s \in DOMAIN l.form : skuRow'[s].sales = moved[s]
    <3>1. ASSUME NEW s \in DOMAIN l.form PROVE skuRow[s].sales = moved[s]
      <4>1. s \in Skus /\ skuRow[s].state \in {"none", "live"}
        BY <1>1, <1>4 DEF StockInv, StockRows, SkuRecord
      <4> QED BY <1>12, <4>1 DEF StockInv, NewRows, StocksAgree, Live
    <3> QED BY <1>1, <1>4, <3>1
  <2> QED BY <1>6, <1>7, <1>11, <2>3, <2>4 DEF StocksAgree, h
<1>13. StocksAgree /\ spuRow.status = "deleted" => StocksAgree'
  BY <1>6 DEF StocksAgree
<1> QED BY <1>10, <1>12, <1>13

LEMMA UpdateSpuStatusKeeps ==
    ASSUME StockInv, NEW d \in Editors, UpdateSpuStatus(d)
    PROVE  StockInv' /\ (StocksAgree => StocksAgree')
<1>1. UNCHANGED <<skuRow, moved, desk>> /\ spuRow.status # "deleted"
  BY DEF UpdateSpuStatus
<1>2. /\ spuRow' \in [status : {"shelf", "recycled", "deleted"}, stock : Int]
      /\ spuRow'.status # "deleted" /\ spuRow'.stock = spuRow.stock
  BY DEF UpdateSpuStatus, StockInv, StockRows
<1>3. StockRows' /\ NewRows'
  BY <1>1, <1>2, RowsStay
<1>4. AtDesks'
  <2>1. ASSUME NEW e \in DOMAIN desk PROVE AnyDesk(e, desk[e])'
    <3>1. PICK m : m = desk[e] /\ AnyDesk(e, m)
      BY DEF StockInv, AtDesks
    <3>2. AnyDesk(e, m)'
      BY <1>1, <1>3, <3>1, DeskStays DEF StockInv
    <3> QED BY <1>1, <3>1, <3>2
  <2> QED BY <1>1, <2>1 DEF StockInv, AtDesks
<1>5. WritesApart'
  BY <1>1 DEF StockInv, WritesApart
<1> QED BY <1>1, <1>2, <1>3, <1>4, <1>5, AgreementStays DEF StockInv

LEMMA DeleteSpuKeeps ==
    ASSUME StockInv, NEW d \in Editors, DeleteSpu(d)
    PROVE  StockInv' /\ (StocksAgree => StocksAgree')
<1>1. PICK o : o = NewDesk /\ IsDesk(o) /\ DOMAIN o.write = {}
  BY NewDeskIs
<1>2. PICK k : k = [o EXCEPT !.pc = "delete", !.held = {"spu"}]
  OBVIOUS
<1>3. Sits(d, k) /\ UNCHANGED <<skuRow, spuRow, moved>>
  BY <1>1, <1>2 DEF DeleteSpu
<1>4. IsDesk(k) /\ k.pc = "delete" /\ DOMAIN k.write = {}
  BY <1>1, <1>2 DEF IsDesk
<1>5. EditorDesk(k)
  BY <1>4 DEF EditorDesk
<1> QED BY <1>3, <1>4, <1>5, OneKind, OnlyTheDesk DEF Requests

LEMMA DeleteSkuBySpuIdKeeps ==
    ASSUME StockInv, NEW d \in Editors, DeleteSkuBySpuId(d)
    PROVE  StockInv' /\ StocksAgree'
<1>1. /\ \A s \in Skus : skuRow'[s] = IF s \in Live THEN [skuRow[s] EXCEPT !.state = "gone"] ELSE skuRow[s]
      /\ skuRow' = [s \in Skus |-> skuRow'[s]]
      /\ moved' = moved
  BY DEF DeleteSkuBySpuId
<1>2. ASSUME NEW s \in Skus PROVE skuRow'[s] \in SkuRecord /\ (skuRow'[s].state = "none" => skuRow'[s] = skuRow[s])
  <2>1. PICK row \in SkuRecord : row = skuRow[s]
    BY DEF StockInv, StockRows
  <2>2. CASE s \in Live
    <3>1. skuRow'[s] = [row EXCEPT !.state = "gone"]
      BY <1>1, <2>1, <2>2
    <3> QED BY <2>1, <3>1 DEF SkuRecord
  <2>3. CASE s \notin Live
    BY <1>1, <2>1, <2>3
  <2> QED BY <2>2, <2>3
<1>3. skuRow' \in [Skus -> SkuRecord]
  BY <1>1, <1>2
<1>4. /\ spuRow' \in [status : {"shelf", "recycled", "deleted"}, stock : Int]
      /\ spuRow'.status = "deleted"
  BY DEF DeleteSkuBySpuId, StockInv, StockRows
<1>5. StockRows'
  BY <1>1, <1>3, <1>4 DEF StockRows, StockInv
<1>6. NewRows'
  BY <1>1, <1>2 DEF NewRows, StockInv
<1>7. \A e \in DOMAIN desk \ {d} : \A s \in DOMAIN desk[e].write : skuRow'[s] = skuRow[s]
  <2>1. ASSUME NEW e \in DOMAIN desk \ {d}, NEW s \in DOMAIN desk[e].write PROVE skuRow'[s] = skuRow[s]
    <3>1. s \in Skus /\ s \notin Live
      BY WrittenAreSkus DEF DeleteSkuBySpuId, SkuFree
    <3> QED BY <1>1, <3>1
  <2> QED BY <2>1
<1>8. StockInv'
  BY <1>5, <1>6, <1>7, DeskLeft DEF DeleteSkuBySpuId
<1> QED BY <1>4, <1>8 DEF StocksAgree

-----------------------------------------------------------------------------
\* Steps of a rename.
LEMMA StartRenameKeeps ==
    ASSUME StockInv, NEW d \in Renamers, StartRename(d)
    PROVE  StockInv' /\ (StocksAgree => StocksAgree')
<1>1. PICK o : o = NewDesk /\ IsDesk(o) /\ DOMAIN o.write = {}
  BY NewDeskIs
<1>2. PICK k : k = [o EXCEPT !.pc = "rename", !.todo = Live, !.form = [s \in Live |-> skuRow[s]]]
  OBVIOUS
<1>3. Sits(d, k) /\ UNCHANGED <<skuRow, spuRow, moved>>
  BY <1>1, <1>2 DEF StartRename
<1>4. IsDesk(k) /\ k.pc = "rename" /\ DOMAIN k.write = {}
       /\ k.todo = Live /\ k.form = [s \in Live |-> skuRow[s]]
  BY <1>1, <1>2 DEF IsDesk
<1>5. \A s \in Live : s \in Skus /\ skuRow[s] \in SkuRecord
  BY DEF Live, StockInv, StockRows
<1>6. RenamerDesk(k)
  BY <1>4, <1>5 DEF RenamerDesk
<1> QED BY <1>3, <1>4, <1>6, OneKind, OnlyTheDesk DEF Requests

\* A row that is what it was when it was read stays what it is.
LEMMA WriteRowKeeps ==
    ASSUME StockInv, NEW d \in Renamers, NEW s \in Skus, WriteRow(d, s)
    PROVE  /\ StockInv' /\ d \in DOMAIN desk /\ s \in desk[d].todo
           /\ d \in DOMAIN desk' => s \notin desk'[d].todo
           /\ skuRow'[s] = skuRow[s] \/ skuRow[s] = desk[d].form[s] => (StocksAgree => StocksAgree')
<1>1. PICK l : l = desk[d] /\ d \in DOMAIN desk /\ d \in Requests /\ IsDesk(l) /\ RenamerDesk(l)
       /\ s \in l.todo
  BY RenamerAt DEF WriteRow, Ready
<1>2. PICK row \in SkuRecord : row = skuRow[s]
  BY DEF StockInv, StockRows
<1>3. PICK a \in Nat : a = UnlessZero(row.stock, l.form[s].stock)
  BY <1>1, <1>2 DEF UnlessZero, RenamerDesk, SkuRecord
<1>4. PICK b \in Int : b = UnlessZero(row.sales, l.form[s].sales)
  BY <1>1, <1>2 DEF UnlessZero, RenamerDesk, SkuRecord
<1>5. PICK new \in SkuRecord : new = [row EXCEPT !.stock = a, !.sales = b]
  BY <1>2, <1>3, <1>4 DEF SkuRecord
<1>6. new.state = row.state /\ (row = l.form[s] => new = row)
  BY <1>2, <1>3, <1>4, <1>5 DEF SkuRecord, UnlessZero
<1>7. skuRow' = skuRow \/ (skuRow' = [skuRow EXCEPT ![s] = new] /\ row.state = "live")
  BY <1>1, <1>2, <1>3, <1>4, <1>5 DEF WriteRow, StockInv, StockRows
<1>8. spuRow' = spuRow /\ moved' = moved /\ SkuFree(d, s)
  BY DEF WriteRow
<1>9. StockRows' /\ NewRows'
  BY <1>2, <1>6, <1>7, <1>8 DEF StockInv, StockRows, NewRows
<1>10. \A e \in DOMAIN desk \ {d} : \A t \in DOMAIN desk[e].write : skuRow'[t] = skuRow[t]
  BY <1>7, <1>8, WrittenAreSkus DEF SkuFree, StockInv, StockRows
<1>11. skuRow'[s] = skuRow[s] \/ row = l.form[s] => skuRow' = skuRow
  BY <1>2, <1>6, <1>7 DEF StockInv, StockRows
<1>12. skuRow' = skuRow => (StocksAgree => StocksAgree')
  BY <1>8, AgreementStays
<1>13. CASE l.todo = {s}
  <2>1. Leaves(d)
    BY <1>1, <1>13 DEF WriteRow
  <2>2. StockInv'
    BY <1>9, <1>10, <2>1, DeskLeft
  <2>3. d \notin DOMAIN desk'
    BY <2>1 DEF Leaves, Restrict
  <2> QED BY <1>1, <1>2, <1>11, <1>12, <2>2, <2>3
<1>14. CASE l.todo # {s}
  <2>1. PICK k : k = [l EXCEPT !.todo = @ \ {s}]
    OBVIOUS
  <2>2. Sits(d, k)
    BY <1>1, <1>14, <2>1 DEF WriteRow
  <2>3. IsDesk(k) /\ k.pc = l.pc /\ k.write = l.write /\ k.form = l.form /\ k.todo = l.todo \ {s}
    BY <1>1, <2>1 DEF IsDesk
  <2>4. AnyDesk(d, k) /\ DOMAIN k.write = {}
    BY <1>1, <2>3, OneKind DEF RenamerDesk
  <2>5. AnyDesk(d, k)'
    BY <1>9, <2>4, DeskStays DEF StockInv
  <2>6. StockInv'
    BY <1>1, <1>9, <1>10, <2>2, <2>4, <2>5, DesksGoOn
  <2>7. desk'[d] = k
    BY <2>2 DEF Sits
  <2> QED BY <1>1, <1>2, <1>11, <1>12, <2>3, <2>6, <2>7
<1> QED BY <1>13, <1>14

-----------------------------------------------------------------------------
LEMMA StockInitOK == StockInit => StockInv
<1> SUFFICES ASSUME StockInit PROVE StockInv
  OBVIOUS
<1>1. \A s \in Skus : skuRow[s] \in SkuRecord /\ skuRow[s].sales = 0 /\ moved[s] = 0
  BY DEF StockInit, NoneSku, SkuRecord
<1>2. skuRow \in [Skus -> SkuRecord] /\ moved \in [Skus -> Int]
  BY <1>1 DEF StockInit
<1>3. Cardinality(FirstSkus) \in Int
  BY StockAssumption, FS_Subset, FS_CardinalityType
<1>4. spuRow \in [status : {"shelf", "recycled", "deleted"}, stock : Int]
  BY <1>3 DEF StockInit
<1>5. DOMAIN desk = {}
  BY DEF StockInit
<1> QED BY <1>1, <1>2, <1>4, <1>5 DEF StockInv, StockRows, NewRows, AtDesks, WritesApart

\* The step of a rename that the property speaks of.
RenamedOver ==
    \E d \in Renamers \cap DOMAIN desk : \E s \in desk[d].todo :
        /\ skuRow'[s] # skuRow[s] /\ skuRow[s] # desk[d].form[s]
        /\ d \in DOMAIN desk' => s \notin desk'[d].todo

LEMMA StockStep ==
    ASSUME StockInv, [StockNext]_stockVars
    PROVE  StockInv' /\ (StocksAgree /\ ~StocksAgree' => RenamedOver)
<1>1. CASE \E d \in Orders : \E s, t \in Skus, by \in {-1, 1}
       : StartMove(d, <<s>>, by) \/ StartMove(d, <<s, t>>, by)
  <2>1. PICK d \in Orders, s \in Skus, t \in Skus, by \in {-1, 1}
         : StartMove(d, <<s>>, by) \/ StartMove(d, <<s, t>>, by)
    BY <1>1
  <2>2. <<s>> \in Seq(Skus) /\ <<s, t>> \in Seq(Skus)
    OBVIOUS
  <2> QED BY <2>1, <2>2, StartMoveKeeps
<1>2. CASE \E d \in Orders : MoveSku(d) \/ MoveSpu(d) \/ CommitMove(d)
  BY <1>2, MoveSkuKeeps, MoveSpuKeeps, CommitMoveKeeps
<1>3. CASE \E d \in Editors : \E S \in SUBSET Skus : \E form \in [S -> 0..MaxStock] : StartEdit(d, form)
  <2>1. PICK d \in Editors, S \in SUBSET Skus : \E form \in [S -> 0..MaxStock] : StartEdit(d, form)
    BY <1>3
  <2>3. PICK form \in [S -> 0..MaxStock] : StartEdit(d, form)
    BY <2>1
  <2>2. DOMAIN form \subseteq Skus /\ \A s \in DOMAIN form : form[s] \in Nat
    BY <2>3, StockAssumption
  <2> QED BY <2>2, <2>3, StartEditKeeps
<1>4. CASE \E d \in Editors : EditSpu(d) \/ CommitEdit(d) \/ UpdateSpuStatus(d)
       \/ DeleteSpu(d) \/ DeleteSkuBySpuId(d)
  BY <1>4, EditSpuKeeps, CommitEditKeeps, UpdateSpuStatusKeeps, DeleteSpuKeeps, DeleteSkuBySpuIdKeeps
<1>5. CASE \E d \in Editors, s \in Skus : EditSku(d, s)
  BY <1>5, EditSkuKeeps
<1>6. CASE \E d \in Renamers : StartRename(d)
  BY <1>6, StartRenameKeeps
<1>7. CASE \E d \in Renamers, s \in Skus : WriteRow(d, s)
  <2>1. PICK d \in Renamers, s \in Skus : WriteRow(d, s)
    BY <1>7
  <2>2. /\ StockInv' /\ d \in DOMAIN desk /\ s \in desk[d].todo
        /\ d \in DOMAIN desk' => s \notin desk'[d].todo
        /\ skuRow'[s] = skuRow[s] \/ skuRow[s] = desk[d].form[s] => (StocksAgree => StocksAgree')
    BY <2>1, WriteRowKeeps
  <2> QED BY <2>2 DEF RenamedOver
<1>8. CASE \E d \in Requests : RollBack(d)
  BY <1>8, OnlyLeaves DEF RollBack
<1>9. CASE UNCHANGED stockVars
  BY <1>9 DEF stockVars, StockInv, StockRows, SkuRecord, NewRows, AtDesks, AnyDesk, OrderDesk, EditorDesk, RenamerDesk,
              UnitsOf, WritesApart, StocksAgree, Gains, Live
<1> QED BY <1>1, <1>2, <1>3, <1>4, <1>5, <1>6, <1>7, <1>8, <1>9 DEF StockNext

LEMMA StockInvTypes == StockInv => StockTypeOK
<1> SUFFICES ASSUME StockInv PROVE StockTypeOK
  OBVIOUS
<1>1. skuRow \in [Skus -> [state : {"none", "live", "gone"}, stock : Nat, sales : Int]]
  BY DEF StockInv, StockRows, SkuRecord
<1>2. ASSUME NEW d \in DOMAIN desk
      PROVE  desk[d].pc \in {"move", "moved", "edit", "skus", "delete", "rename"}
  <2>1. d \in Orders \/ d \in Editors \/ d \in Renamers
    BY DEF StockInv, AtDesks, Requests
  <2>2. d \in Orders => desk[d].pc \in {"move", "moved"}
    BY OrderAt DEF OrderDesk
  <2>3. d \in Editors => desk[d].pc \in {"edit", "skus", "delete"}
    BY EditorAt DEF EditorDesk
  <2>4. d \in Renamers => desk[d].pc = "rename"
    BY RenamerAt DEF RenamerDesk
  <2> QED BY <2>1, <2>2, <2>3, <2>4
<1> QED BY <1>1, <1>2 DEF StockTypeOK, StockInv, StockRows

(* Stock is never negative, and what the product's row says of it parts from  *)
(* the rows of its SKUs, or their sales from what orders took, in one kind    *)
(* of step only: a rename that writes back a row changed since it was read.   *)
THEOREM StockExplainedAlways == StockSpec => StockExplained
<1>1. StockInit => StockInv
  BY StockInitOK
<1>2. StockInv /\ [StockNext]_stockVars => StockInv'
  BY StockStep
<1>3. StockInv => StockTypeOK
  BY StockInvTypes
<1>4. StockInv /\ [StockNext]_stockVars => [StocksAgree /\ ~StocksAgree' => RenamedOver]_stockVars
  BY StockStep
<1> QED BY <1>1, <1>2, <1>3, <1>4, PTL DEF StockSpec, StockExplained, OnlyRenamesDisagree, RenamedOver
=============================================================================
