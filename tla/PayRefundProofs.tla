-------------------------- MODULE PayRefundProofs --------------------------
(***************************************************************************)
(* What holds of PayRefund for every number of refunds and requests, every  *)
(* price and both protocols; above all, that it implements RefundLedger.    *)
(*                                                                         *)
(* The lock of the order makes the second check and the insert of a refund  *)
(* one step as far as others can see (Locked), the lock of the refund makes *)
(* its update and the order's one step (Held).  Told and Placing say what a *)
(* request knows of the channel: it was told SUCCESS only of a refund that  *)
(* the channel made, and only it has the refund it inserted to place.       *)
(***************************************************************************)
EXTENDS PayRefund, SumTheorems, TLAPS

Named == \A p \in Requests :
            /\ local[p].pc # "idle" => local[p].refund \in Refunds
            /\ local[p].pc \in {"lockOrder", "insertRefund"} => local[p].price \in Amounts
            /\ local[p].pc \in {"readRefund", "casRefund"} => local[p].msg \in {"success", "failure"}

Locked == /\ \A p, q \in Requests :
                local[p].pc = "insertRefund" /\ local[q].pc = "insertRefund" => p = q
          /\ \A p \in Requests :
                local[p].pc = "insertRefund" => local[p].price <= Price - refunded

Held == /\ \A p \in Requests :
              local[p].pc \in {"readOrder", "casOrder"} => Pending(local[p].refund)
        /\ \A p, q \in Requests :
              /\ local[p].pc \in {"readOrder", "casOrder"}
              /\ local[q].pc \in {"readOrder", "casOrder"}
              /\ local[p].refund = local[q].refund
              => p = q

Reserved ==
    \A r \in Refunds : Pending(r) => /\ refund[r].price \in 1..(Price - refunded)
                                     /\ \A s \in Refunds : Pending(s) => s = r

Told == \A p \in Requests :
           /\ \/ local[p].pc \in {"readRefund", "casRefund"} /\ local[p].msg = "success"
              \/ local[p].pc \in {"readOrder", "casOrder"}
              => channel[local[p].refund] = "success"
           /\ /\ local[p].pc \in {"readRefund", "casRefund"} /\ local[p].msg = "failure"
              /\ protocol = "weixin"
              => channel[local[p].refund] = "closed"

Placing ==
    /\ \A r \in Refunds : refund[r].status = "none" => channel[r] = "none"
    /\ \A p \in Requests : local[p].pc = "unifiedRefund" =>
          /\ refund[local[p].refund].status # "none"
          /\ channel[local[p].refund] = "none"
    /\ \A p, q \in Requests :
          /\ local[p].pc = "unifiedRefund" /\ local[q].pc = "unifiedRefund"
          /\ local[p].refund = local[q].refund
          => p = q

FailedIsClosed ==
    protocol = "weixin" => \A r \in Refunds : refund[r].status = "failure" => channel[r] = "closed"

Consistent == /\ Named /\ Locked /\ Held /\ Reserved /\ Told /\ Placing
              /\ SuccessIsRefunded /\ FailedIsClosed /\ OneTaskPerRefund

IInv == TypeOK /\ Consistent

-----------------------------------------------------------------------------
LEMMA IdleTyped == Idle \in LocalState
BY PayRefundAssumption DEF Idle, LocalState

(* A message never changes what it is about: moving a request on touches its *)
(* own record only.                                                         *)
LEMMA GotoTyped ==
    ASSUME local \in [Requests -> LocalState], NEW p \in Requests, NEW l \in LocalState, Goto(p, l)
    PROVE  /\ local' \in [Requests -> LocalState]
           /\ local'[p] = l
           /\ \A q \in Requests : q # p => local'[q] = local[q]
BY DEF Goto

LEMMA AdvanceTyped ==
    ASSUME local \in [Requests -> LocalState], NEW p \in Requests,
           NEW pc \in {"insertRefund", "unifiedRefund", "casRefund", "readOrder"}, Advance(p, pc)
    PROVE  /\ local' \in [Requests -> LocalState]
           /\ local'[p].pc = pc /\ local'[p].refund = local[p].refund
           /\ local'[p].price = local[p].price /\ local'[p].msg = local[p].msg
           /\ \A q \in Requests : q # p => local'[q] = local[q]
<1>1. local[p] \in LocalState
  OBVIOUS
<1>2. [local[p] EXCEPT !.pc = pc] \in LocalState
  BY <1>1 DEF LocalState
<1>3. /\ [local[p] EXCEPT !.pc = pc].pc = pc
      /\ [local[p] EXCEPT !.pc = pc].refund = local[p].refund
      /\ [local[p] EXCEPT !.pc = pc].price = local[p].price
      /\ [local[p] EXCEPT !.pc = pc].msg = local[p].msg
  BY <1>1 DEF LocalState
<1> QED BY <1>2, <1>3, GotoTyped DEF Advance

LEMMA NotifiedTyped ==
    ASSUME NEW r \in Refunds, NEW m \in {"success", "failure"}
    PROVE  /\ Notified(r, m) \in LocalState
           /\ Notified(r, m).pc = "readRefund" /\ Notified(r, m).refund = r
           /\ Notified(r, m).msg = m
<1>1. Notified(r, m) \in LocalState
  BY IdleTyped DEF Notified, LocalState
<1> QED BY <1>1 DEF Notified, Idle

(* A request that ends, with no row changed.                                *)
LEMMA Settle ==
    ASSUME IInv, NEW p \in Requests, Goto(p, Idle), faults' \in 0..MaxFaults,
           UNCHANGED <<protocol, refunded, refund, channel, tasks>>
    PROVE  IInv'
<1> USE DEF IInv, Consistent
<1>1. /\ local' \in [Requests -> LocalState]
      /\ local'[p] = Idle
      /\ \A q \in Requests : q # p => local'[q] = local[q]
  BY GotoTyped, IdleTyped DEF TypeOK
<1>2. Idle.pc = "idle" /\ Idle.msg = "none"
  BY DEF Idle
<1>3. TypeOK'
  BY <1>1 DEF TypeOK
<1>4. Named' /\ Locked' /\ Told'
  BY <1>1, <1>2 DEF Named, Locked, Told
<1>5. Held' /\ Reserved'
  BY <1>1, <1>2 DEF Held, Reserved, Pending
<1>6. Placing'
  BY <1>1, <1>2 DEF Placing
<1> QED BY <1>3, <1>4, <1>5, <1>6 DEF SuccessIsRefunded, FailedIsClosed, OneTaskPerRefund

(* A request that has yet to lock anything, or to hear of the channel.      *)
LEMMA Begin ==
    ASSUME IInv, NEW p \in Requests, NEW l \in LocalState, Goto(p, l),
           l.pc \in {"lockOrder", "getRefund"}, l.refund \in Refunds,
           l.pc = "lockOrder" => l.price \in Amounts,
           UNCHANGED <<protocol, refunded, refund, channel, tasks, faults>>
    PROVE  IInv'
<1> USE DEF IInv, Consistent
<1>1. /\ local' \in [Requests -> LocalState] /\ local'[p] = l
      /\ \A q \in Requests : q # p => local'[q] = local[q]
  BY GotoTyped DEF TypeOK
<1>2. TypeOK' /\ Named'
  BY <1>1 DEF TypeOK, Named
<1>3. Locked' /\ Told'
  BY <1>1 DEF Locked, Told
<1>4. Held' /\ Reserved'
  BY <1>1 DEF Held, Reserved, Pending
<1>5. Placing'
  BY <1>1 DEF Placing
<1> QED BY <1>2, <1>3, <1>4, <1>5 DEF SuccessIsRefunded, FailedIsClosed, OneTaskPerRefund

(* A request that starts NotifyRefund with what the channel says.           *)
LEMMA StartNotify ==
    ASSUME IInv, NEW p \in Requests, NEW r \in Refunds, NEW m \in {"success", "failure"},
           Goto(p, Notified(r, m)), faults' = faults,
           UNCHANGED <<protocol, refunded, refund, channel, tasks>>,
           m = "success" => channel[r] = "success",
           m = "failure" /\ protocol = "weixin" => channel[r] = "closed"
    PROVE  IInv'
<1> USE DEF IInv, Consistent
<1>1. /\ local' \in [Requests -> LocalState]
      /\ local'[p].pc = "readRefund" /\ local'[p].refund = r /\ local'[p].msg = m
      /\ \A q \in Requests : q # p => local'[q] = local[q]
  BY GotoTyped, NotifiedTyped DEF TypeOK
<1>3. TypeOK'
  BY <1>1 DEF TypeOK
<1>4. Named' /\ Locked' /\ Told'
  BY <1>1 DEF Named, Locked, Told
<1>5. Held' /\ Reserved'
  BY <1>1 DEF Held, Reserved, Pending
<1>6. Placing'
  BY <1>1 DEF Placing
<1> QED BY <1>3, <1>4, <1>5, <1>6 DEF SuccessIsRefunded, FailedIsClosed, OneTaskPerRefund

-----------------------------------------------------------------------------
(* CreateRefund up to its commit.                                           *)
LEMMA CreateConsistent ==
    ASSUME IInv, NEW p \in Requests, CreateLock(p) \/ CreateInsert(p)
    PROVE  IInv'
<1> USE DEF IInv, Consistent
<1>0. faults' \in 0..MaxFaults /\ UNCHANGED <<protocol, refunded, channel, tasks, faults>>
  BY DEF CreateLock, CreateInsert, TypeOK
<1>1. CASE Goto(p, Idle) /\ UNCHANGED refund
  BY <1>0, <1>1, Settle
<1>2. CASE CreateLock(p) /\ Advance(p, "insertRefund")
  <2>0. /\ local[p].pc = "lockOrder" /\ OrderFree /\ local[p].price <= Price - refunded
        /\ UNCHANGED refund
    BY <1>2 DEF CreateLock, Advance, Goto, RecheckPrice, Affordable, TypeOK, Idle, LocalState
  <2>1. /\ local' \in [Requests -> LocalState]
        /\ local'[p].pc = "insertRefund" /\ local'[p].refund = local[p].refund
        /\ local'[p].price = local[p].price
        /\ \A q \in Requests : q # p => local'[q] = local[q]
    BY <1>2, AdvanceTyped DEF TypeOK
  <2>2. TypeOK'
    BY <1>0, <2>0, <2>1 DEF TypeOK
  <2>3. Named' /\ Told'
    BY <1>0, <2>0, <2>1 DEF Named, Told
  <2>4. Locked'
    BY <1>0, <2>0, <2>1 DEF Locked, OrderFree
  <2>5. Held' /\ Reserved' /\ Placing'
    BY <1>0, <2>0, <2>1 DEF Held, Reserved, Placing, Pending
  <2> QED BY <1>0, <2>0, <2>2, <2>3, <2>4, <2>5
          DEF SuccessIsRefunded, FailedIsClosed, OneTaskPerRefund
<1>3. CASE CreateInsert(p) /\ Advance(p, "unifiedRefund")
  <2> DEFINE r == local[p].refund
             new == [status |-> "waiting", price |-> local[p].price]
  <2>0. /\ local[p].pc = "insertRefund"
        /\ NoRefundingOrder /\ refund[r].status = "none"
        /\ refund' = [refund EXCEPT ![r] = new]
    BY <1>3 DEF CreateInsert, Advance, Goto, RecheckRefunding, PayRefundExists, TypeOK, Idle, LocalState
  <2>1. /\ local' \in [Requests -> LocalState]
        /\ local'[p].pc = "unifiedRefund" /\ local'[p].refund = r
        /\ \A q \in Requests : q # p => local'[q] = local[q]
    BY <1>3, AdvanceTyped DEF TypeOK
  <2>2. r \in Refunds /\ local[p].price \in Amounts /\ local[p].price \in 1..(Price - refunded)
    <3>1. r \in Refunds /\ local[p].price \in Amounts /\ local[p].price <= Price - refunded
      BY <2>0 DEF Named, Locked
    <3>2. refunded \in 0..Price
      BY DEF TypeOK
    <3>3. local[p].price \in Nat \ {0} /\ Price \in Nat
      BY <3>1, PayRefundAssumption
    <3> QED BY ONLY <3>1, <3>2, <3>3
  <2>3. \A s \in Refunds : refund'[s] = IF s = r THEN new ELSE refund[s]
    BY <2>0, <2>2 DEF TypeOK
  <2> HIDE DEF r
  <2>4. new.status = "waiting" /\ new.price = local[p].price
    OBVIOUS
  <2> HIDE DEF new
  <2>5. TypeOK'
    <3>1. refund' \in [Refunds -> [status : RefundStatus, price : Amounts \cup {0}]]
      BY <2>0, <2>2 DEF TypeOK, RefundStatus, new
    <3> QED BY <1>0, <2>1, <3>1 DEF TypeOK
  <2>6. Named' /\ Told'
    BY <1>0, <2>1, <2>2 DEF Named, Told
  <2>7. Locked'
    BY <1>0, <2>1 DEF Locked
  <2>8. Held'
    BY <2>0, <2>1, <2>3, <2>4 DEF Held, Pending
  <2>9. Reserved'
    BY <1>0, <2>0, <2>2, <2>3, <2>4 DEF Reserved, Pending, NoRefundingOrder
  <2>10. Placing'
    BY <1>0, <2>0, <2>1, <2>2, <2>3, <2>4 DEF Placing, Named
  <2> QED BY <1>0, <2>0, <2>3, <2>4, <2>5, <2>6, <2>7, <2>8, <2>9, <2>10
          DEF SuccessIsRefunded, FailedIsClosed, OneTaskPerRefund
<1> QED BY <1>1, <1>2, <1>3 DEF CreateLock, CreateInsert

(* The call to the channel: it has no record of the refund yet.             *)
LEMMA PlaceConsistent ==
    ASSUME IInv, NEW p \in Requests,
           UnifiedRefundWeixin(p) \/ UnifiedRefundAlipay(p) \/ UnifiedRefundLost(p)
    PROVE  IInv'
<1> USE DEF IInv, Consistent
<1> DEFINE r == local[p].refund
<1>0. /\ local[p].pc = "unifiedRefund" /\ UNCHANGED <<protocol, refunded, refund, tasks>>
      /\ faults' \in 0..MaxFaults
  BY PayRefundAssumption
  DEF UnifiedRefundWeixin, UnifiedRefundAlipay, UnifiedRefundLost, TypeOK
<1>1. PICK state \in {"none", "processing", "success", "closed"} :
         /\ channel' = [channel EXCEPT ![r] = state]
         /\ \/ Goto(p, Idle)
            \/ /\ state = "success" /\ Goto(p, Notified(r, "success"))
            \/ /\ state = "closed" /\ Goto(p, Notified(r, "failure"))
  <2>1. channel[r] = "none" /\ channel = [channel EXCEPT ![r] = channel[r]]
    BY <1>0 DEF Placing, TypeOK
  <2>2. CASE UnifiedRefundWeixin(p)
    BY <2>2 DEF UnifiedRefundWeixin, Answered, ConvertRefund
  <2>3. CASE UnifiedRefundAlipay(p)
    BY <2>1, <2>3 DEF UnifiedRefundAlipay
  <2>4. CASE UnifiedRefundLost(p)
    BY <2>1, <2>4 DEF UnifiedRefundLost
  <2> QED BY <2>2, <2>3, <2>4
<1>2. r \in Refunds /\ channel[r] = "none" /\ refund[r].status # "none"
  BY <1>0 DEF Named, Placing
<1>3. \A s \in Refunds : channel'[s] = IF s = r THEN state ELSE channel[s]
  BY <1>1, <1>2 DEF TypeOK
<1>4. PICK l \in LocalState :
         /\ Goto(p, l)
         /\ l.pc \in {"idle", "readRefund"}
         /\ l.pc = "readRefund" => /\ l.refund = r
                                   /\ \/ l.msg = "success" /\ state = "success"
                                      \/ l.msg = "failure" /\ state = "closed"
  <2>1. CASE Goto(p, Idle)
    <3>1. Idle.pc = "idle" /\ Idle \in LocalState
      BY IdleTyped DEF Idle
    <3> QED BY <2>1, <3>1
  <2>2. ASSUME NEW m \in {"success", "failure"}, Goto(p, Notified(r, m)),
               \/ m = "success" /\ state = "success"
               \/ m = "failure" /\ state = "closed"
        PROVE  \E l \in LocalState :
                 /\ Goto(p, l)
                 /\ l.pc \in {"idle", "readRefund"}
                 /\ l.pc = "readRefund" => /\ l.refund = r
                                           /\ \/ l.msg = "success" /\ state = "success"
                                              \/ l.msg = "failure" /\ state = "closed"
    BY <1>2, <2>2, NotifiedTyped
  <2> QED BY <1>1, <2>1, <2>2
<1>5. /\ local' \in [Requests -> LocalState] /\ local'[p] = l
      /\ \A q \in Requests : q # p => local'[q] = local[q]
  BY <1>4, GotoTyped DEF TypeOK
<1> HIDE DEF r
<1>6. TypeOK'
  BY <1>0, <1>1, <1>2, <1>5 DEF TypeOK
<1>7. Named' /\ Locked'
  BY <1>0, <1>2, <1>4, <1>5 DEF Named, Locked
<1>8. Held' /\ Reserved'
  BY <1>0, <1>4, <1>5 DEF Held, Reserved, Pending
<1>9. Told'
  BY <1>0, <1>2, <1>3, <1>4, <1>5 DEF Told, Named
<1>10. Placing'
  BY <1>0, <1>2, <1>3, <1>4, <1>5 DEF Placing, Named, r
<1> QED BY <1>0, <1>2, <1>3, <1>6, <1>7, <1>8, <1>9, <1>10
        DEF SuccessIsRefunded, FailedIsClosed, OneTaskPerRefund

(* The channel decides a refund it has taken.                               *)
LEMMA ChannelConsistent ==
    ASSUME IInv, NEW r \in Refunds, ChannelProcesses(r)
    PROVE  IInv'
<1> USE DEF IInv, Consistent
<1>1. /\ channel[r] = "processing"
      /\ UNCHANGED <<protocol, refunded, refund, tasks, faults, local>>
      /\ \A s \in Refunds : \/ channel'[s] = channel[s]
                            \/ s = r /\ channel'[s] \in {"success", "closed"}
      /\ channel' \in [Refunds -> {"none", "processing", "success", "closed"}]
  BY DEF ChannelProcesses, TypeOK
<1>2. TypeOK'
  BY <1>1 DEF TypeOK
<1>3. Named' /\ Locked' /\ Held' /\ Reserved' /\ OneTaskPerRefund'
  BY <1>1 DEF Named, Locked, Held, Reserved, OneTaskPerRefund, Pending
<1>4. Told'
  BY <1>1 DEF Told, Named
<1>5. Placing'
  BY <1>1 DEF Placing, Named
<1> QED BY <1>1, <1>2, <1>3, <1>4, <1>5 DEF SuccessIsRefunded, FailedIsClosed

(* NotifyRefund up to the order: nothing is committed yet.                  *)
LEMMA NotifyConsistent ==
    ASSUME IInv, NEW p \in Requests, ReadRefund(p) \/ UpdateRefund(p) \/ ReadOrder(p)
    PROVE  IInv'
<1> USE DEF IInv, Consistent
<1>0. UNCHANGED <<protocol, refunded, refund, channel, tasks, faults>> /\ faults' \in 0..MaxFaults
  BY DEF ReadRefund, UpdateRefund, ReadOrder, TypeOK
<1>1. CASE Goto(p, Idle)
  BY <1>0, <1>1, Settle
<1>2. ASSUME NEW pc \in {"casRefund", "readOrder", "casOrder"},
             /\ local' \in [Requests -> LocalState]
             /\ local'[p].pc = pc /\ local'[p].refund = local[p].refund
             /\ local'[p].msg = local[p].msg
             /\ \A q \in Requests : q # p => local'[q] = local[q],
             \/ pc = "casRefund" /\ local[p].pc = "readRefund"
             \/ /\ pc = "readOrder" /\ local[p].pc = "casRefund" /\ local[p].msg = "success"
                /\ RefundFree(local[p].refund) /\ Pending(local[p].refund)
             \/ pc = "casOrder" /\ local[p].pc = "readOrder"
      PROVE  IInv'
  <2>1. TypeOK'
    BY <1>0, <1>2 DEF TypeOK
  <2>2. Named' /\ Locked' /\ Reserved'
    BY <1>0, <1>2 DEF Named, Locked, Reserved, Pending
  <2>3. Held'
    BY <1>0, <1>2 DEF Held, Pending, RefundFree
  <2>4. Told'
    BY <1>0, <1>2 DEF Told
  <2>5. Placing'
    BY <1>0, <1>2 DEF Placing
  <2> QED BY <1>0, <2>1, <2>2, <2>3, <2>4, <2>5
          DEF SuccessIsRefunded, FailedIsClosed, OneTaskPerRefund
<1>3. CASE ReadRefund(p) /\ Advance(p, "casRefund")
  <2>1. local[p].pc = "readRefund"
    BY <1>3 DEF ReadRefund
  <2> QED BY <1>2, <1>3, <2>1, AdvanceTyped DEF TypeOK
<1>4. CASE UpdateRefund(p) /\ Pending(local[p].refund) /\ Advance(p, "readOrder")
  <2>1. /\ local[p].pc = "casRefund" /\ local[p].msg = "success"
        /\ RefundFree(local[p].refund)
    BY <1>4 DEF UpdateRefund
  <2> QED BY <1>2, <1>4, <2>1, AdvanceTyped DEF TypeOK
<1>5. CASE ReadOrder(p) /\ Goto(p, [local[p] EXCEPT !.pc = "casOrder", !.seen = refunded])
  <2> DEFINE l == [local[p] EXCEPT !.pc = "casOrder", !.seen = refunded]
  <2>1. /\ l \in LocalState /\ l.pc = "casOrder" /\ l.refund = local[p].refund
        /\ l.msg = local[p].msg
    BY DEF TypeOK, LocalState
  <2>2. local[p].pc = "readOrder"
    BY <1>5 DEF ReadOrder
  <2> QED BY <1>2, <1>5, <2>1, <2>2, GotoTyped DEF TypeOK
<1> QED BY <1>1, <1>3, <1>4, <1>5 DEF ReadRefund, UpdateRefund, ReadOrder

(* A refund becomes final: with it the order (on success) and the task.     *)
LEMMA FinalConsistent ==
    ASSUME IInv, NEW p \in Requests, UpdateOrderRefundPrice(p) \/ UpdateRefundFailure(p)
    PROVE  IInv'
<1> USE DEF IInv, Consistent
<1> DEFINE r == local[p].refund
<1>0. /\ Goto(p, Idle) /\ UNCHANGED <<protocol, channel, faults>> /\ faults' \in 0..MaxFaults
      /\ local[p].pc \in {"casOrder", "casRefund"}
  BY DEF UpdateOrderRefundPrice, UpdateRefundFailure, TypeOK
<1>1. CASE UNCHANGED <<refunded, refund, tasks>>
  BY <1>0, <1>1, Settle
<1>2. ASSUME NEW status \in {"success", "failure"},
             /\ refund' = [refund EXCEPT ![r].status = status]
             /\ tasks' = [tasks EXCEPT ![r] = @ + 1]
             /\ Pending(r)
             /\ \A q \in Requests : local[q].pc \in {"readOrder", "casOrder"}
                                    /\ local[q].refund = r => q = p
             /\ status = "success" =>
                   /\ OrderFree /\ refunded' = refunded + refund[r].price
                   /\ channel[r] = "success"
             /\ status = "failure" =>
                   refunded' = refunded /\ (protocol = "weixin" => channel[r] = "closed")
      PROVE  IInv'
  <2>1. r \in Refunds
    BY <1>0 DEF Named
  <2> HIDE DEF r
  <2>2. /\ \A s \in Refunds : /\ refund'[s].status = IF s = r THEN status ELSE refund[s].status
                              /\ refund'[s].price = refund[s].price
                              /\ tasks'[s] = IF s = r THEN tasks[s] + 1 ELSE tasks[s]
        /\ refund' \in [Refunds -> [status : RefundStatus, price : Amounts \cup {0}]]
        /\ tasks' \in [Refunds -> Nat]
    BY <1>2, <2>1 DEF TypeOK, RefundStatus
  <2>3. /\ local' \in [Requests -> LocalState] /\ local'[p] = Idle
        /\ \A q \in Requests : q # p => local'[q] = local[q]
    BY <1>0, GotoTyped, IdleTyped DEF TypeOK
  <2>4. Idle.pc = "idle" /\ Idle.msg = "none"
    BY DEF Idle
  <2>5. refunded' \in 0..Price
    <3>1. refund[r].price \in 1..(Price - refunded) /\ refunded \in 0..Price
      BY <1>2, <2>1 DEF Reserved, TypeOK
    <3> QED BY <1>2, <3>1, PayRefundAssumption
  <2>6. TypeOK'
    BY <1>0, <2>2, <2>3, <2>5 DEF TypeOK
  <2>7. Named' /\ Told'
    BY <1>0, <2>3, <2>4 DEF Named, Told
  <2>8. Locked'
    BY <1>2, <2>3, <2>4 DEF Locked, OrderFree
  <2>9. Held'
    BY <1>2, <2>1, <2>2, <2>3, <2>4 DEF Held, Pending, Named
  <2>10. Reserved'
    BY <1>2, <2>1, <2>2 DEF Reserved, Pending
  <2>11. Placing'
    BY <1>0, <1>2, <2>1, <2>2, <2>3, <2>4 DEF Placing, Pending, Named
  <2>12. SuccessIsRefunded' /\ FailedIsClosed'
    BY <1>0, <1>2, <2>1, <2>2 DEF SuccessIsRefunded, FailedIsClosed
  <2>13. OneTaskPerRefund'
    BY <1>2, <2>1, <2>2 DEF OneTaskPerRefund, Pending
  <2> QED BY <2>6, <2>7, <2>8, <2>9, <2>10, <2>11, <2>12, <2>13
<1>3. CASE UpdateOrderRefundPrice(p) /\ refunded = local[p].seen
  <2>1. /\ Pending(r) /\ channel[r] = "success"
        /\ \A q \in Requests : local[q].pc \in {"readOrder", "casOrder"}
                               /\ local[q].refund = r => q = p
    BY <1>3 DEF UpdateOrderRefundPrice, Held, Told
  <2>2. /\ OrderFree /\ refunded' = refunded + refund[r].price
        /\ refund' = [refund EXCEPT ![r].status = "success"]
        /\ tasks' = [tasks EXCEPT ![r] = @ + 1]
    BY <1>3 DEF UpdateOrderRefundPrice, CreatePayNotifyTask
  <2> QED BY <1>2, <2>1, <2>2
<1>4. CASE UpdateRefundFailure(p) /\ Pending(r)
  <2>1. /\ protocol = "weixin" => channel[r] = "closed"
        /\ \A q \in Requests : ~(local[q].pc \in {"readOrder", "casOrder"}
                                 /\ local[q].refund = r)
    BY <1>4 DEF UpdateRefundFailure, Told, RefundFree
  <2>2. /\ refunded' = refunded
        /\ refund' = [refund EXCEPT ![r].status = "failure"]
        /\ tasks' = [tasks EXCEPT ![r] = @ + 1]
    BY <1>4 DEF UpdateRefundFailure, CreatePayNotifyTask, FailedRefund
  <2> QED BY <1>2, <1>4, <2>1, <2>2
<1> QED BY <1>1, <1>3, <1>4 DEF UpdateOrderRefundPrice, UpdateRefundFailure

(* The invariant is inductive.                                              *)
THEOREM Inductive == Spec => []IInv
<1>1. Init => IInv
  <2> SUFFICES ASSUME Init PROVE IInv
    OBVIOUS
  <2>1. /\ local \in [Requests -> LocalState]
        /\ \A p \in Requests : local[p].pc = "idle" /\ local[p].msg = "none"
    BY IdleTyped DEF Init, Idle
  <2>2. /\ \A r \in Refunds : refund[r].status = "none" /\ channel[r] = "none" /\ tasks[r] = 0
        /\ refund \in [Refunds -> [status : RefundStatus, price : Amounts \cup {0}]]
        /\ channel \in [Refunds -> {"none", "processing", "success", "closed"}]
        /\ tasks \in [Refunds -> Nat]
    BY DEF Init, RefundStatus
  <2>3. TypeOK
    BY <2>1, <2>2, PayRefundAssumption DEF Init, TypeOK
  <2> QED BY <2>1, <2>2, <2>3 DEF IInv, Consistent, Named, Locked, Held, Reserved, Told, Placing,
               SuccessIsRefunded, FailedIsClosed, OneTaskPerRefund, Pending
<1>2. IInv /\ [Next]_vars => IInv'
  <2> SUFFICES ASSUME IInv, [Next]_vars PROVE IInv'
    OBVIOUS
  <2>1. ASSUME NEW p \in Requests, NEW r \in Refunds, NEW price \in Amounts,
               CreateValidate(p, r, price)
        PROVE IInv'
    <3> DEFINE l == [Idle EXCEPT !.pc = "lockOrder", !.refund = r, !.price = price]
    <3>1. l \in LocalState /\ l.pc = "lockOrder" /\ l.refund = r /\ l.price = price
      BY IdleTyped DEF LocalState, Idle
    <3>2. Goto(p, l) /\ UNCHANGED <<protocol, refunded, refund, channel, tasks, faults>>
      BY <2>1 DEF CreateValidate
    <3> HIDE DEF l
    <3> QED BY <3>1, <3>2, Begin
  <2>2. ASSUME NEW p \in Requests, NEW r \in Refunds, Callback(p, r) PROVE IInv'
    <3>1. PICK m \in {"success", "failure"} :
             /\ Goto(p, Notified(r, m))
             /\ m = "success" => channel[r] = "success"
             /\ m = "failure" => channel[r] = "closed"
      BY <2>2 DEF Callback, ConvertRefund, IInv, TypeOK
    <3>2. UNCHANGED <<protocol, refunded, refund, channel, tasks, faults>>
      BY <2>2 DEF Callback
    <3> QED BY <3>1, <3>2, StartNotify
  <2>3. ASSUME NEW p \in Requests, NEW r \in Refunds, SyncFind(p, r) PROVE IInv'
    <3> DEFINE l == [Idle EXCEPT !.pc = "getRefund", !.refund = r]
    <3>1. l \in LocalState /\ l.pc = "getRefund" /\ l.refund = r
      BY IdleTyped DEF LocalState, Idle
    <3>2. Goto(p, l) /\ UNCHANGED <<protocol, refunded, refund, channel, tasks, faults>>
      BY <2>3 DEF SyncFind
    <3> HIDE DEF l
    <3> QED BY <3>1, <3>2, Begin
  <2>4. ASSUME NEW p \in Requests, SyncQuery(p) PROVE IInv'
    <3> DEFINE r == local[p].refund
    <3>1. UNCHANGED <<protocol, refunded, refund, channel, tasks, faults>> /\ r \in Refunds
          /\ faults' \in 0..MaxFaults
      BY <2>4 DEF SyncQuery, IInv, Consistent, Named, TypeOK
    <3>2. \/ Goto(p, Idle)
          \/ \E m \in {"success", "failure"} :
             /\ Goto(p, Notified(r, m))
             /\ m = "success" => channel[r] = "success"
             /\ m = "failure" /\ protocol = "weixin" => channel[r] = "closed"
      BY <2>4, <3>1 DEF SyncQuery, Answered, ConvertRefund, UnknownRefund, IInv, TypeOK
    <3> HIDE DEF r
    <3>3. CASE Goto(p, Idle)
      BY <3>1, <3>3, Settle
    <3>4. CASE \E m \in {"success", "failure"} :
             /\ Goto(p, Notified(r, m))
             /\ m = "success" => channel[r] = "success"
             /\ m = "failure" /\ protocol = "weixin" => channel[r] = "closed"
      BY <3>1, <3>4, StartNotify
    <3> QED BY <3>2, <3>3, <3>4
  <2>5. ASSUME NEW p \in Requests, CreateRefund(p) PROVE IInv'
    BY <2>5, CreateConsistent, PlaceConsistent DEF CreateRefund
  <2>6. ASSUME NEW p \in Requests, NotifyRefund(p) PROVE IInv'
    BY <2>6, NotifyConsistent, FinalConsistent DEF NotifyRefund
  <2>7. ASSUME NEW p \in Requests, Fail(p) PROVE IInv'
    <3>1. faults' \in 0..MaxFaults
      BY <2>7, PayRefundAssumption DEF Fail, IInv, TypeOK
    <3> QED BY <2>7, <3>1, Settle DEF Fail
  <2>8. ASSUME NEW r \in Refunds, ChannelProcesses(r) PROVE IInv'
    BY <2>8, ChannelConsistent
  <2>9. CASE UNCHANGED vars
    BY <2>9 DEF vars, IInv, Consistent, TypeOK, Named, Locked, Held, Reserved, Told, Placing,
                SuccessIsRefunded, FailedIsClosed, OneTaskPerRefund, Pending
  <2> QED BY <2>1, <2>2, <2>3, <2>4, <2>5, <2>6, <2>7, <2>8, <2>9 DEF Next
<1> QED BY <1>1, <1>2, PTL DEF Spec

-----------------------------------------------------------------------------
(* The order is never refunded beyond its price, pending refund included.   *)
THEOREM WithinPriceAlways == Spec => []WithinPrice
<1>1. IInv => WithinPrice
  <2> SUFFICES ASSUME IInv PROVE WithinPrice
    OBVIOUS
  <2>1. refunded \in 0..Price /\ Reserved
    BY DEF IInv, Consistent, TypeOK
  <2> QED BY <2>1 DEF WithinPrice, Ledger!WithinPrice, Reserved, Pending
<1> QED BY <1>1, Inductive, PTL

(* The merchant has one task for every final refund, none for another.      *)
THEOREM OneTaskAlways == Spec => []OneTaskPerRefund
<1>1. IInv => OneTaskPerRefund
  BY DEF IInv, Consistent
<1> QED BY <1>1, Inductive, PTL

(* A SUCCESS is the channel's, whichever way it was learnt.                 *)
THEOREM SuccessIsRefundedAlways == Spec => []SuccessIsRefunded
<1>1. IInv => SuccessIsRefunded
  BY DEF IInv, Consistent
<1> QED BY <1>1, Inductive, PTL

(* Every refund fits, is told once and was made if it says so, for any       *)
(* number of refunds and requests, with either protocol (refund.go).        *)
THEOREM RefundAccountedAlways == Spec => []RefundAccounted
<1>1. IInv => TypeOK
  BY DEF IInv
<1> QED BY <1>1, Inductive, WithinPriceAlways, OneTaskAlways, SuccessIsRefundedAlways, PTL
        DEF RefundAccounted

(* With WeChat, a FAILURE is one the channel has closed (convertRefund).     *)
THEOREM WeixinFailureIsClosedAlways == Spec => []WeixinFailureIsClosed
<1>1. IInv => WeixinFailureIsClosed
  BY DEF IInv, Consistent, FailedIsClosed, WeixinFailureIsClosed, FailedIsNotRefunded
<1> QED BY <1>1, Inductive, PTL

(* Every step is a step of the ledger or leaves it alone: the insert of a    *)
(* refund reserves, the commit of a notification settles or releases.       *)
LEMMA StepIsLedgerStep ==
    ASSUME IInv, [Next]_vars
    PROVE  [Ledger!Next]_(Ledger!ledger)
<1>0. TypeOK /\ Named /\ Locked /\ Held /\ Reserved
  BY DEF IInv, Consistent
<1>1. ASSUME UNCHANGED <<refunded, refund>> PROVE [Ledger!Next]_(Ledger!ledger)
  BY <1>1 DEF Ledger!ledger
<1>2. ASSUME NEW p \in Requests, CreateInsert(p) PROVE [Ledger!Next]_(Ledger!ledger)
  <2>0. PICK r \in Refunds, a \in Amounts : r = local[p].refund /\ a = local[p].price
    BY <1>0, <1>2 DEF Named, CreateInsert
  <2>1. CASE UNCHANGED refund
    BY <1>1, <1>2, <2>1 DEF CreateInsert
  <2>2. CASE /\ NoRefundingOrder /\ refund[r].status = "none"
             /\ refund' = [refund EXCEPT ![r] = [status |-> "waiting", price |-> a]]
    <3>1. r \in Refunds /\ a \in Amounts /\ a <= Price - refunded
      BY <1>0, <1>2, <2>0 DEF Named, Locked, CreateInsert
    <3>2. a \in 1..(Price - refunded) /\ a \in 1..Price
      <4>1. a \in Nat \ {0} /\ Price \in Nat /\ refunded \in 0..Price
        BY <1>0, <3>1, PayRefundAssumption DEF TypeOK
      <4> QED BY ONLY <3>1, <4>1
    <3>3. /\ [s \in Refunds |-> refund'[s].status]
               = [[s \in Refunds |-> refund[s].status] EXCEPT ![r] = "waiting"]
          /\ [s \in Refunds |-> refund'[s].price]
               = [[s \in Refunds |-> refund[s].price] EXCEPT ![r] = a]
      BY <1>0, <2>2, <3>1 DEF TypeOK
    <3>4. Ledger!Reserve(r, a)
      BY <1>2, <2>2, <3>1, <3>2, <3>3 DEF Ledger!Reserve, CreateInsert, NoRefundingOrder
    <3>5. Ledger!Next
      BY <3>1, <3>2, <3>4 DEF Ledger!Next
    <3> QED BY <3>5
  <2> QED BY <1>2, <2>0, <2>1, <2>2 DEF CreateInsert, RecheckRefunding, PayRefundExists
<1>3. ASSUME NEW p \in Requests, UpdateOrderRefundPrice(p)
      PROVE  [Ledger!Next]_(Ledger!ledger)
  <2>0. PICK r \in Refunds : r = local[p].refund
    BY <1>0, <1>3 DEF Named, UpdateOrderRefundPrice
  <2>1. CASE UNCHANGED <<refunded, refund>>
    BY <1>1, <2>1
  <2>2. CASE refunded = local[p].seen
    <3>1. r \in Refunds /\ refund[r].status = "waiting"
      BY <1>0, <1>3, <2>0 DEF Named, Held, Pending, UpdateOrderRefundPrice
    <3>2. refund' = [refund EXCEPT ![r].status = "success"]
          /\ refunded' = refunded + refund[r].price
      BY <1>3, <2>0, <2>2 DEF UpdateOrderRefundPrice
    <3>3. /\ [s \in Refunds |-> refund'[s].status]
               = [[s \in Refunds |-> refund[s].status] EXCEPT ![r] = "success"]
          /\ [s \in Refunds |-> refund'[s].price] = [s \in Refunds |-> refund[s].price]
      BY <1>0, <3>1, <3>2 DEF TypeOK
    <3>4. Ledger!Settle(r)
      BY <3>1, <3>2, <3>3 DEF Ledger!Settle
    <3>5. Ledger!Next
      BY <3>1, <3>4 DEF Ledger!Next
    <3> QED BY <3>5
  <2> QED BY <1>3, <2>0, <2>1, <2>2 DEF UpdateOrderRefundPrice
<1>4. ASSUME NEW p \in Requests, UpdateRefundFailure(p)
      PROVE  [Ledger!Next]_(Ledger!ledger)
  <2>0. PICK r \in Refunds : r = local[p].refund
    BY <1>0, <1>4 DEF Named, UpdateRefundFailure
  <2>1. CASE UNCHANGED <<refunded, refund>>
    BY <1>1, <2>1
  <2>2. CASE Pending(r)
    <3>1. r \in Refunds /\ refund[r].status = "waiting"
      BY <1>0, <1>4, <2>0, <2>2 DEF Named, Pending, UpdateRefundFailure
    <3>2. refund' = [refund EXCEPT ![r].status = "failure"] /\ refunded' = refunded
      BY <1>4, <2>0, <2>2 DEF UpdateRefundFailure, FailedRefund
    <3>3. /\ [s \in Refunds |-> refund'[s].status]
               = [[s \in Refunds |-> refund[s].status] EXCEPT ![r] = "failure"]
          /\ [s \in Refunds |-> refund'[s].price] = [s \in Refunds |-> refund[s].price]
      BY <1>0, <3>1, <3>2 DEF TypeOK
    <3>4. Ledger!Release(r)
      BY <3>1, <3>2, <3>3 DEF Ledger!Release
    <3>5. Ledger!Next
      BY <3>1, <3>4 DEF Ledger!Next
    <3> QED BY <3>5
  <2> QED BY <1>4, <2>0, <2>1, <2>2 DEF UpdateRefundFailure
<1> QED
  BY <1>1, <1>2, <1>3, <1>4
  DEF Next, vars, CreateValidate, Callback, SyncFind, SyncQuery, CreateRefund, CreateLock,
      UnifiedRefundWeixin, UnifiedRefundAlipay, UnifiedRefundLost, NotifyRefund, ReadRefund,
      UpdateRefund, ReadOrder, Fail, ChannelProcesses

(* The refunds of an order behave as if each operation were atomic           *)
(* (CreateRefund, NotifyRefund and SyncRefund of refund.go).                *)
THEOREM Refinement == Spec => ImplementsLedger
<1>1. Init => Ledger!Init
  BY DEF Init, Ledger!Init
<1>2. IInv /\ [Next]_vars => [Ledger!Next]_(Ledger!ledger)
  BY StepIsLedgerStep
<1> QED BY <1>1, <1>2, Inductive, PTL DEF Spec, ImplementsLedger, Ledger!Spec

-----------------------------------------------------------------------------
(* The sum.  It is enough to look at the ledger: a reservation touches an    *)
(* amount that is not summed, a settlement adds one, a release none.         *)
Prices == [r \in Refunds |-> refund[r].price]
Successful == {r \in Refunds : refund[r].status = "success"}
Summed == IsFiniteSet(Successful) /\ refunded = SumFunctionOnSet(Prices, Successful)

LEMMA LedgerKeepsSum ==
    ASSUME TypeOK, TypeOK', Summed, [Ledger!Next]_(Ledger!ledger)
    PROVE  Summed'
<1>1. /\ \A r \in Refunds : Prices[r] = refund[r].price /\ Prices[r] \in Int
      /\ \A r \in Refunds : Prices'[r] = refund'[r].price /\ Prices'[r] \in Int
  <2>1. \A a \in Amounts \cup {0} : a \in Int
    BY PayRefundAssumption
  <2>2. /\ \A r \in Refunds : refund[r].price \in Amounts \cup {0}
        /\ \A r \in Refunds : refund'[r].price \in Amounts \cup {0}
    BY DEF TypeOK
  <2> QED BY <2>1, <2>2 DEF Prices
<1>2. Successful \subseteq Refunds /\ IsFiniteSet(Successful)
  BY DEF Successful, Summed
<1> DEFINE status == [r \in Refunds |-> refund[r].status]
           price == [r \in Refunds |-> refund[r].price]
<1>3. ASSUME Successful' = Successful, refunded' = refunded,
             \A r \in Successful : refund'[r].price = refund[r].price
      PROVE  Summed'
  <2>1. SumFunctionOnSet(Prices', Successful) = SumFunctionOnSet(Prices, Successful)
    BY <1>1, <1>2, <1>3, SumSame
  <2> QED BY <1>2, <1>3, <2>1 DEF Summed
<1>4. CASE UNCHANGED Ledger!ledger
  <2>1. refunded' = refunded /\ status' = status /\ price' = price
    BY <1>4 DEF Ledger!ledger
  <2>2. \A r \in Refunds : refund'[r].status = refund[r].status /\ refund'[r].price = refund[r].price
    <3>1. \A r \in Refunds : /\ status[r] = refund[r].status /\ status'[r] = refund'[r].status
                            /\ price[r] = refund[r].price /\ price'[r] = refund'[r].price
      OBVIOUS
    <3> QED BY <2>1, <3>1
  <2> QED BY <1>2, <1>3, <2>1, <2>2 DEF Successful
<1>5. ASSUME NEW r \in Refunds, NEW a \in 1..Price, Ledger!Reserve(r, a) PROVE Summed'
  <2>1. /\ status[r] = "none" /\ status' = [status EXCEPT ![r] = "waiting"]
        /\ price' = [price EXCEPT ![r] = a] /\ refunded' = refunded
    BY <1>5 DEF Ledger!Reserve
  <2>2. /\ refund[r].status = "none" /\ refund'[r].status = "waiting"
        /\ \A s \in Refunds \ {r} : /\ refund'[s].status = refund[s].status
                                   /\ refund'[s].price = refund[s].price
    <3>1. \A s \in Refunds : /\ status[s] = refund[s].status /\ status'[s] = refund'[s].status
                            /\ price[s] = refund[s].price /\ price'[s] = refund'[s].price
      OBVIOUS
    <3> QED BY <2>1, <3>1
  <2> QED BY <1>2, <1>3, <2>1, <2>2 DEF Successful
<1>6. ASSUME NEW r \in Refunds, Ledger!Settle(r) PROVE Summed'
  <2>1. /\ status[r] = "waiting" /\ status' = [status EXCEPT ![r] = "success"]
        /\ price' = price /\ refunded' = refunded + price[r]
    BY <1>6 DEF Ledger!Settle
  <2>2. /\ refund[r].status = "waiting" /\ refund'[r].status = "success"
        /\ refunded' = refunded + refund[r].price
        /\ \A s \in Refunds \ {r} : refund'[s].status = refund[s].status
        /\ \A s \in Refunds : refund'[s].price = refund[s].price
    <3>1. \A s \in Refunds : /\ status[s] = refund[s].status /\ status'[s] = refund'[s].status
                            /\ price[s] = refund[s].price /\ price'[s] = refund'[s].price
      OBVIOUS
    <3> QED BY <2>1, <3>1
  <2>3. r \notin Successful /\ Successful' = Successful \cup {r}
    BY <2>2 DEF Successful
  <2>4. IsFiniteSet(Successful') /\ Successful' \subseteq Refunds
    BY <1>2, <2>3, FS_AddElement
  <2>5. SumFunctionOnSet(Prices', Successful') = SumFunctionOnSet(Prices, Successful')
    BY <1>1, <2>2, <2>4, SumSame
  <2>6. SumFunctionOnSet(Prices, Successful \cup {r}) = Prices[r] + SumFunctionOnSet(Prices, Successful)
    BY <1>1, <1>2, <2>3, SumAdd
  <2>7. SumFunctionOnSet(Prices, Successful) \in Int
    BY <1>1, <1>2, SumIsInt
  <2> QED BY <1>1, <2>2, <2>3, <2>4, <2>5, <2>6, <2>7 DEF Summed
<1>7. ASSUME NEW r \in Refunds, Ledger!Release(r) PROVE Summed'
  <2>1. /\ status[r] = "waiting" /\ status' = [status EXCEPT ![r] = "failure"]
        /\ price' = price /\ refunded' = refunded
    BY <1>7 DEF Ledger!Release
  <2>2. /\ refund[r].status = "waiting" /\ refund'[r].status = "failure"
        /\ \A s \in Refunds \ {r} : refund'[s].status = refund[s].status
        /\ \A s \in Refunds : refund'[s].price = refund[s].price
    <3>1. \A s \in Refunds : /\ status[s] = refund[s].status /\ status'[s] = refund'[s].status
                            /\ price[s] = refund[s].price /\ price'[s] = refund'[s].price
      OBVIOUS
    <3> QED BY <2>1, <3>1
  <2> QED BY <1>2, <1>3, <2>1, <2>2 DEF Successful
<1> QED BY <1>4, <1>5, <1>6, <1>7 DEF Ledger!Next

(* refund_price is the sum of the refunds that succeeded, for any number of  *)
(* them: nothing is counted twice or lost (UpdateOrderRefundPrice).         *)
THEOREM RefundedIsSumAlways == Spec => []RefundedIsSum
<1>1. Init => Summed
  <2> SUFFICES ASSUME Init PROVE Summed
    OBVIOUS
  <2>1. Successful = {} /\ refunded = 0
    BY DEF Init, Successful
  <2> QED BY <2>1, SumEmpty, FS_EmptySet DEF Summed
<1>2. IInv /\ IInv' /\ Summed /\ [Next]_vars => Summed'
  BY StepIsLedgerStep, LedgerKeepsSum DEF IInv
<1>3. Summed => RefundedIsSum
  BY DEF Summed, RefundedIsSum, Prices, Successful
<1> QED BY <1>1, <1>2, <1>3, Inductive, PTL DEF Spec
=============================================================================
