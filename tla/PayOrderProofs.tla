--------------------------- MODULE PayOrderProofs ---------------------------
(***************************************************************************)
(* What holds of PayOrder for every number of submissions and requests.    *)
(*                                                                         *)
(* PaidOnce and OneTaskPerPayment rest on the guard of the order's update:  *)
(* a payment is accepted only while the order waits, and a waiting order    *)
(* has neither a paid extension nor a task (Unpaid).  What makes that       *)
(* inductive is the row locks (Locks, JobLocks: what a transaction has      *)
(* updated stays WAITING until it commits) and what each request knows      *)
(* (Knows: a success is only ever reported of an extension the channel has  *)
(* been paid for).                                                          *)
(***************************************************************************)
EXTENDS PayOrder, TLAPS

Locks ==
    /\ \A p \in Requests : local[p].held => /\ local[p].pc \in {"readOrder", "casOrder"}
                                            /\ local[p].ext \in Exts
                                            /\ ext[local[p].ext] = "waiting"
    /\ \A p, q \in Requests :
          local[p].held /\ local[q].held /\ local[p].ext = local[q].ext => p = q

JobLocks ==
    /\ local[Job].pc \in {"idle", "expireOrder", "expireExts"}
    /\ local[Job].pc = "expireExts" =>
          \A p \in Requests : local[p].held => local[p].ext > local[Job].ext

Knows ==
    /\ \A p \in Requests :
          /\ local[p].pc \in {"readExt", "casExt", "readOrder", "casOrder"} =>
                local[p].ext \in Exts /\ local[p].msg \in {"success", "closed"}
          /\ local[p].pc = "casOrder" => local[p].held
          /\ local[p].pc = "readOrder" /\ ~local[p].held => Paid(local[p].ext)
          /\ local[p].pc = "unifiedOrder" =>
                /\ local[p].ext \in Exts
                /\ ext[local[p].ext] # "none"
                /\ channel[local[p].ext].state = "none"
          /\ local[p].msg = "success" /\ local[p].pc \in {"readExt", "casExt", "readOrder", "casOrder"}
                => channel[local[p].ext].state = "paid"
    /\ \A p, q \in Requests :
          /\ local[p].pc = "unifiedOrder" /\ local[q].pc = "unifiedOrder"
          /\ local[p].ext = local[q].ext
          => p = q
    /\ \A e \in Exts : ext[e] = "none" => channel[e].state = "none"

Unpaid == order.status \in {"none", "waiting"} => \A e \in Exts : ~Paid(e)

Consistent == /\ Locks /\ JobLocks /\ Knows
              /\ Unpaid /\ PaymentBacked /\ OneTaskPerPayment

IInv == TypeOK /\ Consistent

-----------------------------------------------------------------------------
LEMMA IdleTyped == Idle \in LocalState
BY PayOrderAssumption DEF Idle, LocalState

LEMMA ExtsTyped == \A e \in Exts : e \in 0..MaxExts
BY PayOrderAssumption DEF Exts

LEMMA ProcsTyped == Job \in Procs /\ \A p \in Requests : p \in Procs /\ p # Job
BY PayOrderAssumption DEF Procs

LEMMA GotoTyped ==
    ASSUME local \in [Procs -> LocalState], NEW p \in Procs, NEW l \in LocalState, Goto(p, l)
    PROVE  /\ local' \in [Procs -> LocalState]
           /\ local'[p] = l
           /\ \A q \in Procs : q # p => local'[q] = local[q]
BY DEF Goto

LEMMA InitTyped == ASSUME Init PROVE TypeOK
<1> USE PayOrderAssumption, IdleTyped, ExtsTyped, ProcsTyped DEF TypeOK
<1>1. order \in [status : OrderStatus, price : Prices \cup {0}, ext : 0..MaxExts]
  BY DEF Init, OrderStatus
<1>2. channel \in [Exts -> [state : {"none", "open", "paid", "closed"}, amount : Prices \cup {0}]]
  BY DEF Init
<1>3. ext \in [Exts -> ExtStatus]
  BY DEF Init, ExtStatus
<1>5. tasks \in Nat /\ faults \in 0..MaxFaults
  BY DEF Init
<1>6. expired \in BOOLEAN
  BY Zenon DEF Init
<1>4. local \in [Procs -> LocalState]
  BY DEF Init
<1> QED BY <1>1, <1>2, <1>3, <1>4, <1>5, <1>6

LEMMA StepTyped == ASSUME TypeOK, [Next]_vars PROVE TypeOK'
<1> USE PayOrderAssumption, IdleTyped, ExtsTyped, ProcsTyped DEF TypeOK
<1> USE DEF OrderStatus, ExtStatus
<1>1. ASSUME NEW price \in Prices, CreateOrder(price) PROVE TypeOK'
  BY <1>1 DEF CreateOrder
<1>2. ASSUME NEW p \in Requests, Submit(p) PROVE TypeOK'
  <2>1. CASE SubmitValidate(p)
    <3>1. [Idle EXCEPT !.pc = "insertExt", !.price = order.price] \in LocalState
      BY DEF LocalState
    <3> QED BY <2>1, <3>1, GotoTyped DEF SubmitValidate
  <2>2. CASE SubmitInsert(p)
    <3>1. PICK e \in Exts : /\ ext' = [ext EXCEPT ![e] = "waiting"]
                            /\ Goto(p, [local[p] EXCEPT !.pc = "unifiedOrder", !.ext = e])
      BY <2>2 DEF SubmitInsert
    <3>2. [local[p] EXCEPT !.pc = "unifiedOrder", !.ext = e] \in LocalState
      <4>1. local[p] \in LocalState /\ e \in 0..MaxExts
        OBVIOUS
      <4> QED BY ONLY <4>1 DEF LocalState
    <3> QED BY <2>2, <3>1, <3>2, GotoTyped DEF SubmitInsert
  <2>3. CASE SubmitAccepted(p)
    <3>1. PICK state \in {"open", "paid"} :
            /\ channel' = [channel EXCEPT ![local[p].ext] =
                             [state |-> state, amount |-> local[p].price]]
            /\ Goto(p, IF state = "paid"
                       THEN [local[p] EXCEPT !.pc = "readExt", !.msg = "success"] ELSE Idle)
      BY <2>3 DEF SubmitAccepted
    <3>2. [local[p] EXCEPT !.pc = "readExt", !.msg = "success"] \in LocalState
      BY DEF LocalState
    <3>3. local[p].price \in Prices \cup {0}
      BY DEF LocalState
    <3>4. [state |-> state, amount |-> local[p].price] \in
            [state : {"none", "open", "paid", "closed"}, amount : Prices \cup {0}]
      BY <3>3
    <3> QED BY <2>3, <3>1, <3>2, <3>4, GotoTyped DEF SubmitAccepted
  <2>4. CASE SubmitRefused(p)
    <3>1. [local[p] EXCEPT !.pc = "readExt", !.msg = "closed"] \in LocalState
      BY DEF LocalState
    <3>2. local[p].price \in Prices \cup {0}
      BY DEF LocalState
    <3>3. [state |-> "open", amount |-> local[p].price] \in
            [state : {"none", "open", "paid", "closed"}, amount : Prices \cup {0}]
      BY <3>2
    <3> QED BY <2>4, <3>1, <3>3, GotoTyped DEF SubmitRefused
  <2> QED BY <1>2, <2>1, <2>2, <2>3, <2>4 DEF Submit
<1>3. ASSUME NEW p \in Requests, Notify(p) PROVE TypeOK'
  <2>0. \A pc \in {"casExt", "readOrder", "casOrder"} : [local[p] EXCEPT !.pc = pc] \in LocalState
    BY DEF LocalState
  <2>m. local[p].msg \in {"none", "success", "closed"}
    BY DEF LocalState
  <2>1. CASE ReadExtension(p)
    BY <2>0, <2>1, GotoTyped DEF ReadExtension, Advance
  <2>2. CASE UpdateExtension(p)
    <3>1. [local[p] EXCEPT !.pc = "readOrder", !.held = TRUE] \in LocalState
      BY DEF LocalState
    <3> QED BY <2>2, <3>1, GotoTyped DEF UpdateExtension
  <2>3. CASE ReadOrderSuccess(p)
    BY <2>0, <2>3, GotoTyped DEF ReadOrderSuccess, Advance, CommitExtension
  <2>4. CASE ReadOrderClosed(p)
    BY <2>0, <2>4, GotoTyped DEF ReadOrderClosed, Advance, CommitExtension
  <2>5. CASE UpdateOrderSuccess(p)
    <3>1. PaidOrder(p) \in [status : OrderStatus, price : Prices \cup {0}, ext : 0..MaxExts]
      BY DEF PaidOrder, LocalState
    <3> QED BY <2>5, <3>1, GotoTyped DEF UpdateOrderSuccess, CommitExtension, CreatePayNotifyTask
  <2>6. CASE UpdateOrderClosed(p)
    BY <2>6, GotoTyped DEF UpdateOrderClosed, CommitExtension, ClosedOrder
  <2> QED BY <1>3, <2>1, <2>2, <2>3, <2>4, <2>5, <2>6 DEF Notify
<1>4. ASSUME NEW p \in Requests, NEW e \in Exts, Callback(p, e) \/ SyncOrder(p, e)
      PROVE TypeOK'
  <2>1. channel[e].amount \in Prices \cup {0}
    OBVIOUS
  <2>2. e \in 0..MaxExts
    OBVIOUS
  <2>3. ASSUME NEW m \in {"success", "closed"} PROVE Notified(e, m) \in LocalState
    BY ONLY <2>1, <2>2, IdleTyped, m \in {"success", "closed"} DEF Notified, LocalState
  <2> QED BY <1>4, <2>3, GotoTyped DEF Callback, SyncOrder
<1>5. ASSUME NEW p \in Requests, ValidateOrderActuallyPaid(p) PROVE TypeOK'
  BY <1>4, <1>5 DEF ValidateOrderActuallyPaid
<1>6. ASSUME NEW p \in Requests, NEW price \in Prices, RepriceRead(p, price) PROVE TypeOK'
  <2>1. [Idle EXCEPT !.pc = "reprice", !.price = price] \in LocalState
    BY DEF LocalState
  <2> QED BY <1>6, <2>1, GotoTyped DEF RepriceRead
<1>7. ASSUME NEW p \in Requests, RepriceUpdate(p) PROVE TypeOK'
  <2>1. local[p].price \in Prices \cup {0}
    BY DEF LocalState
  <2> QED BY <1>7, <2>1, GotoTyped DEF RepriceUpdate
<1>8. ASSUME NEW e \in Exts, UserPays(e) \/ ChannelCloses(e) PROVE TypeOK'
  BY <1>8 DEF UserPays, ChannelCloses
<1>9. CASE ExpireOrder
  <2>1. CASE ExpireFind
    <3>1. [local[Job] EXCEPT !.pc = "expireOrder"] \in LocalState
      BY DEF LocalState
    <3> QED BY <2>1, <3>1, GotoTyped DEF ExpireFind, Advance
  <2>2. CASE ExpireUpdateOrder
    <3>1. ASSUME NEW n \in 0..MaxExts
          PROVE [Idle EXCEPT !.pc = "expireExts", !.last = n] \in LocalState
      BY DEF LocalState
    <3> QED BY <2>2, <3>1, GotoTyped DEF ExpireUpdateOrder
  <2>3. CASE ExpireUpdateExt
    <3>1. local[Job].ext \in 0..MaxExts /\ local[Job].last \in 0..MaxExts
      BY DEF LocalState
    <3>2. local[Job].ext + 1 \in 0..MaxExts
      BY <2>3, <3>1 DEF ExpireUpdateExt
    <3>3. [local[Job] EXCEPT !.ext = local[Job].ext + 1] \in LocalState
      BY <3>2 DEF LocalState
    <3> QED BY <2>3, <3>3, GotoTyped DEF ExpireUpdateExt
  <2>4. CASE ExpireCommit
    BY <2>4, GotoTyped DEF ExpireCommit, ClosedOrder
  <2> QED BY <1>9, <2>1, <2>2, <2>3, <2>4 DEF ExpireOrder
<1>10. CASE ExpireTimePasses
  BY <1>10 DEF ExpireTimePasses
<1>11. ASSUME NEW p \in Procs, Fail(p) PROVE TypeOK'
  BY <1>11, GotoTyped DEF Fail
<1>12. CASE DeadlockVictim
  BY <1>12, GotoTyped DEF DeadlockVictim
<1>13. CASE UNCHANGED vars
  BY <1>13 DEF vars
<1>14. CASE UpdateOrderRefundPrice
  BY <1>14 DEF UpdateOrderRefundPrice
<1> QED
  BY <1>1, <1>2, <1>3, <1>4, <1>5, <1>6, <1>7, <1>8, <1>9, <1>10, <1>11, <1>12, <1>13, <1>14
  DEF Next

(* Every variable keeps its type: the status values of pay_order and         *)
(* pay_order_extension, and what a request holds between two statements.     *)
THEOREM TypeCorrect == Spec => []TypeOK
BY InitTyped, StepTyped, PTL DEF Spec

-----------------------------------------------------------------------------
(* A process that gives up, or finishes with nothing to write, leaves the    *)
(* invariant as it is.                                                      *)
LEMMA Settle ==
    ASSUME IInv, NEW p \in Procs, Goto(p, Idle), UNCHANGED <<order, ext, channel, tasks>>
    PROVE  Consistent'
<1> USE PayOrderAssumption, ProcsTyped DEF IInv, Consistent
<1>1. /\ local'[p] = Idle
      /\ \A q \in Procs : q # p => local'[q] = local[q]
  BY GotoTyped, IdleTyped DEF TypeOK
<1>2. Idle.pc = "idle" /\ Idle.held = FALSE /\ Idle.msg = "none"
  BY DEF Idle
<1>3. Locks'
  BY <1>1, <1>2 DEF Locks
<1>4. JobLocks'
  BY <1>1, <1>2 DEF JobLocks
<1>5. Knows'
  BY <1>1, <1>2 DEF Knows, Paid
<1> QED BY <1>3, <1>4, <1>5 DEF Unpaid, PaymentBacked, OneTaskPerPayment, Paid

(* So does a request that goes on without changing a row, as long as what   *)
(* it then knows is true.                                                   *)
LEMMA Proceed ==
    ASSUME IInv, NEW p \in Requests, NEW l \in LocalState, Goto(p, l),
           UNCHANGED <<order, ext, channel, tasks>>,
           l.pc \in {"insertExt", "readExt", "casExt", "readOrder", "casOrder", "reprice"},
           l.pc \in {"readExt", "casExt", "readOrder", "casOrder"} =>
              l.ext \in Exts /\ l.msg \in {"success", "closed"},
           l.pc = "casOrder" => l.held,
           l.pc = "readOrder" /\ ~l.held => Paid(l.ext),
           l.msg = "success" => channel[l.ext].state = "paid",
           l.held => /\ l.pc \in {"readOrder", "casOrder"}
                     /\ ext[l.ext] = "waiting"
                     /\ \/ local[p].held /\ l.ext = local[p].ext
                        \/ ExtensionFree(l.ext)
    PROVE  Consistent'
<1> USE PayOrderAssumption, ProcsTyped DEF IInv, Consistent
<1>1. /\ local'[p] = l
      /\ \A q \in Procs : q # p => local'[q] = local[q]
  BY GotoTyped DEF TypeOK
<1>2. Locks'
  BY <1>1 DEF Locks, ExtensionFree
<1>3. JobLocks'
  <2>1. l.ext \in 0..MaxExts /\ local[Job].ext \in 0..MaxExts
    BY DEF TypeOK, LocalState
  <2>2. l.held /\ local[Job].pc = "expireExts" => l.ext > local[Job].ext
    BY <2>1 DEF JobLocks, ExtensionFree
  <2> QED BY <1>1, <2>2 DEF JobLocks
<1>4. Knows'
  BY <1>1 DEF Knows, Paid
<1> QED BY <1>2, <1>3, <1>4 DEF Unpaid, PaymentBacked, OneTaskPerPayment, Paid

(* The placing of a submission: the extension is new, and until the channel  *)
(* has answered it holds no record of it.                                   *)
LEMMA SubmitConsistent ==
    ASSUME IInv, TypeOK', NEW p \in Requests, Submit(p)
    PROVE  Consistent'
<1> USE PayOrderAssumption, ProcsTyped DEF IInv
<1>l. local[p] \in LocalState
  BY DEF TypeOK
<1>1. CASE SubmitValidate(p)
  <2>1. [Idle EXCEPT !.pc = "insertExt", !.price = order.price] \in LocalState
    BY <1>1, IdleTyped DEF LocalState, TypeOK, SubmitValidate, OrderStatus
  <2>2. /\ [Idle EXCEPT !.pc = "insertExt", !.price = order.price].pc = "insertExt"
        /\ ~[Idle EXCEPT !.pc = "insertExt", !.price = order.price].held
        /\ [Idle EXCEPT !.pc = "insertExt", !.price = order.price].msg = "none"
    BY DEF Idle
  <2> QED BY <1>1, <2>1, <2>2, Proceed DEF SubmitValidate
<1>2. CASE SubmitInsert(p)
  <2>1. PICK e \in Exts : /\ NextExt(e)
                          /\ ext' = [ext EXCEPT ![e] = "waiting"]
                          /\ Goto(p, [local[p] EXCEPT !.pc = "unifiedOrder", !.ext = e])
    BY <1>2 DEF SubmitInsert
  <2>2. /\ local'[p].pc = "unifiedOrder" /\ local'[p].ext = e
        /\ local'[p].held = local[p].held /\ local'[p].msg = local[p].msg
        /\ \A q \in Procs : q # p => local'[q] = local[q]
    BY <2>1, <1>l DEF Goto, TypeOK, LocalState
  <2>3. ext[e] = "none" /\ ext \in [Exts -> ExtStatus] /\ ~local[p].held
    BY <1>2, <2>1 DEF NextExt, TypeOK, SubmitInsert, Consistent, Locks
  <2>4. \A f \in Exts : ext'[f] = IF f = e THEN "waiting" ELSE ext[f]
    BY <2>1, <2>3
  <2>5. UNCHANGED <<order, channel, tasks>>
    BY <1>2 DEF SubmitInsert
  <2>6. Locks' /\ JobLocks'
    BY <2>2, <2>3, <2>4 DEF Consistent, Locks, JobLocks
  <2>7. Knows'
    BY <2>2, <2>3, <2>4, <2>5 DEF Consistent, Knows, Paid
  <2>8. \A f \in Exts : Paid(f)' <=> Paid(f)
    BY <2>3, <2>4 DEF Paid
  <2> QED BY <2>5, <2>6, <2>7, <2>8
          DEF Consistent, Unpaid, PaymentBacked, OneTaskPerPayment
<1>3. CASE SubmitAccepted(p) \/ SubmitRefused(p)
  <2>1. PICK state \in {"none", "open", "paid"}, l \in LocalState :
           /\ channel' = [channel EXCEPT ![local[p].ext] =
                            [state |-> state, amount |-> channel'[local[p].ext].amount]]
           /\ Goto(p, l)
           /\ l.msg = "success" => state = "paid"
           /\ \/ l = Idle
              \/ /\ l.pc = "readExt" /\ l.ext = local[p].ext
                 /\ l.msg \in {"success", "closed"} /\ l.held = local[p].held
    <3>1. CASE SubmitAccepted(p)
      <4>1. PICK state \in {"open", "paid"} :
              /\ channel' = [channel EXCEPT ![local[p].ext] =
                               [state |-> state, amount |-> local[p].price]]
              /\ Goto(p, IF state = "paid"
                         THEN [local[p] EXCEPT !.pc = "readExt", !.msg = "success"] ELSE Idle)
        BY <3>1 DEF SubmitAccepted
      <4>2. /\ [local[p] EXCEPT !.pc = "readExt", !.msg = "success"] \in LocalState
            /\ Idle \in LocalState /\ Idle.msg = "none"
        BY <1>l, IdleTyped DEF LocalState, Idle
      <4>3. local[p].ext \in Exts /\ channel \in [Exts -> [state : {"none", "open", "paid", "closed"},
                             amount : Prices \cup {0}]]
        BY <3>1 DEF SubmitAccepted, Consistent, Knows, TypeOK
      <4>4. channel'[local[p].ext].amount = local[p].price
        BY <4>1, <4>3
      <4>5. channel' = [channel EXCEPT ![local[p].ext] =
                            [state |-> state, amount |-> channel'[local[p].ext].amount]]
        BY <4>1, <4>4
      <4>6. CASE state = "paid"
        <5> DEFINE l == [local[p] EXCEPT !.pc = "readExt", !.msg = "success"]
        <5>1. /\ Goto(p, l) /\ l.msg = "success" /\ l.pc = "readExt"
              /\ l.ext = local[p].ext /\ l.held = local[p].held
          BY <4>1, <4>6, <1>l DEF LocalState
        <5> QED BY <4>2, <4>5, <4>6, <5>1
      <4>7. CASE state = "open"
        <5>1. Goto(p, Idle)
          BY <4>1, <4>7
        <5> QED BY <4>2, <4>5, <4>7, <5>1
      <4> QED BY <4>6, <4>7
    <3>2. CASE SubmitRefused(p)
      <4> DEFINE l == [local[p] EXCEPT !.pc = "readExt", !.msg = "closed"]
      <4>1. /\ Goto(p, l) /\ l.msg = "closed" /\ l.pc = "readExt"
            /\ l.ext = local[p].ext /\ l.held = local[p].held /\ l \in LocalState
        BY <3>2, <1>l DEF SubmitRefused, LocalState
      <4>2. local[p].ext \in Exts /\ channel[local[p].ext].state = "none"
            /\ channel \in [Exts -> [state : {"none", "open", "paid", "closed"},
                             amount : Prices \cup {0}]]
        BY <3>2 DEF SubmitRefused, Consistent, Knows, TypeOK
      <4>3. channel[local[p].ext] = [state |-> "none", amount |-> channel[local[p].ext].amount]
        BY <4>2
      <4>4. \/ channel' = [channel EXCEPT ![local[p].ext] =
                        [state |-> "open", amount |-> local[p].price]]
            \/ channel' = channel
        BY <3>2 DEF SubmitRefused
      <4>5. PICK state \in {"none", "open"} : channel' = [channel EXCEPT ![local[p].ext] =
                            [state |-> state, amount |-> channel'[local[p].ext].amount]]
        <5>1. CASE channel' = channel
          <6>1. channel' = [channel EXCEPT ![local[p].ext] = channel[local[p].ext]]
            BY <4>2, <5>1
          <6> QED BY <4>3, <5>1, <6>1
        <5>2. CASE channel' = [channel EXCEPT ![local[p].ext] =
                                 [state |-> "open", amount |-> local[p].price]]
          <6>1. channel'[local[p].ext].amount = local[p].price
            BY <4>2, <5>2
          <6> QED BY <5>2, <6>1
        <5> QED BY <4>4, <5>1, <5>2
      <4> QED BY <4>1, <4>5
    <3> QED BY <1>3, <3>1, <3>2
  <2>2. /\ local[p].ext \in Exts /\ channel[local[p].ext].state = "none"
        /\ ext[local[p].ext] # "none" /\ ~local[p].held /\ ~Paid(local[p].ext)
    BY <1>3 DEF SubmitAccepted, SubmitRefused, Consistent, Knows, Locks, PaymentBacked
  <2>3. \A f \in Exts : channel'[f].state = IF f = local[p].ext THEN state ELSE channel[f].state
    BY <2>1, <2>2 DEF TypeOK
  <2>4. UNCHANGED <<order, ext, tasks>>
    BY <1>3 DEF SubmitAccepted, SubmitRefused
  <2>5. local'[p] = l /\ \A q \in Procs : q # p => local'[q] = local[q]
    BY <2>1, GotoTyped DEF TypeOK
  <2>6. Idle.pc = "idle" /\ Idle.held = FALSE /\ Idle.msg = "none"
    BY DEF Idle
  <2>7. Locks' /\ JobLocks'
    BY <2>1, <2>2, <2>4, <2>5, <2>6 DEF Consistent, Locks, JobLocks
  <2>8. Knows'
    <3>1. local[p].pc = "unifiedOrder"
      BY <1>3 DEF SubmitAccepted, SubmitRefused
    <3> QED BY <2>1, <2>2, <2>3, <2>4, <2>5, <2>6, <3>1 DEF Consistent, Knows, Paid
  <2> QED BY <2>2, <2>3, <2>4, <2>7, <2>8
          DEF Consistent, Unpaid, PaymentBacked, OneTaskPerPayment, Paid
<1> QED BY <1>1, <1>2, <1>3 DEF Submit

-----------------------------------------------------------------------------
(* The commit of a callback's transaction.  The order is still WAITING, so   *)
(* nothing is paid and no task exists; the extension is the callback's own.  *)
LEMMA CommitConsistent ==
    ASSUME IInv, NEW p \in Requests, local[p].pc = "casOrder",
           order.status = "waiting", Goto(p, Idle), UNCHANGED channel,
           CommitExtension(p),
           \/ /\ local[p].msg = "success" /\ order' = PaidOrder(p) /\ tasks' = tasks + 1
           \/ /\ local[p].msg = "closed" /\ order' = ClosedOrder /\ tasks' = tasks
    PROVE  Consistent'
<1> USE PayOrderAssumption, ProcsTyped DEF IInv
<1>1. /\ local'[p] = Idle
      /\ \A q \in Procs : q # p => local'[q] = local[q]
  BY GotoTyped, IdleTyped DEF TypeOK
<1>2. Idle.pc = "idle" /\ Idle.held = FALSE /\ Idle.msg = "none"
  BY DEF Idle
<1> DEFINE e == local[p].ext
<1>3. /\ local[p].held /\ e \in Exts /\ ext[e] = "waiting"
      /\ \A q \in Requests : local[q].held /\ local[q].ext = e => q = p
      /\ local[p].msg = "success" => channel[e].state = "paid"
  BY DEF Consistent, Locks, Knows
<1>4. \A f \in Exts : ext'[f] = IF f = e THEN local[p].msg ELSE ext[f]
  BY <1>3 DEF CommitExtension, TypeOK
<1>5. Locks' /\ JobLocks'
  BY <1>1, <1>2, <1>3, <1>4 DEF Consistent, Locks, JobLocks
<1>6. Knows'
  BY <1>1, <1>2, <1>3, <1>4 DEF Consistent, Knows, Paid
<1>7. (\A f \in Exts : ~Paid(f)) /\ tasks = 0
  BY DEF Consistent, Unpaid, OneTaskPerPayment
<1>8. CASE local[p].msg = "success"
  <2>1. \A f \in Exts : Paid(f)' <=> f = e
    BY <1>3, <1>4, <1>7, <1>8 DEF Paid
  <2>2. order'.status = "success" /\ order'.ext = e /\ tasks' = 1
    <3>1. order' = PaidOrder(p) /\ tasks' = 1
      BY <1>7, <1>8
    <3>2. order \in [status : OrderStatus, price : Prices \cup {0}, ext : 0..MaxExts]
      BY DEF TypeOK
    <3> QED BY ONLY <3>1, <3>2 DEF PaidOrder
  <2> QED BY <1>3, <1>5, <1>6, <1>8, <2>1, <2>2
          DEF Consistent, Unpaid, PaymentBacked, OneTaskPerPayment
<1>9. CASE local[p].msg = "closed"
  <2>1. \A f \in Exts : ~Paid(f)'
    BY <1>3, <1>4, <1>7, <1>9 DEF Paid
  <2>2. order'.status = "closed" /\ tasks' = 0
    BY <1>7, <1>9 DEF ClosedOrder, TypeOK
  <2> QED BY <1>5, <1>6, <2>1, <2>2
          DEF Consistent, Unpaid, PaymentBacked, OneTaskPerPayment
<1> QED BY <1>8, <1>9

(* The whole of NotifyOrder.                                                *)
LEMMA NotifyConsistent ==
    ASSUME IInv, NEW p \in Requests, Notify(p)
    PROVE  Consistent'
<1> USE PayOrderAssumption, ProcsTyped DEF IInv
<1>l. local[p] \in LocalState
  BY DEF TypeOK
<1>h. local[p].held => /\ local[p].pc \in {"readOrder", "casOrder"}
                       /\ local[p].ext \in Exts
                       /\ ext[local[p].ext] = "waiting"
  BY DEF Consistent, Locks
<1>k. /\ local[p].pc \in {"readExt", "casExt", "readOrder", "casOrder"} =>
            /\ local[p].ext \in Exts /\ local[p].msg \in {"success", "closed"}
            /\ local[p].msg = "success" => channel[local[p].ext].state = "paid"
      /\ local[p].pc = "casOrder" => local[p].held
      /\ local[p].pc = "readOrder" /\ ~local[p].held => Paid(local[p].ext)
  BY DEF Consistent, Knows
<1> DEFINE At(pc) == [local[p] EXCEPT !.pc = pc]
<1>a. \A pc \in {"casExt", "readOrder", "casOrder"} :
         /\ At(pc) \in LocalState /\ At(pc).pc = pc /\ At(pc).ext = local[p].ext
         /\ At(pc).msg = local[p].msg /\ At(pc).held = local[p].held
  BY <1>l DEF LocalState
<1> HIDE DEF At
<1>1. CASE ReadExtension(p)
  <2>0. /\ UNCHANGED <<order, ext, channel, tasks>>
        /\ local[p].pc = "readExt"
        /\ \/ Goto(p, Idle)
           \/ Goto(p, At("casExt"))
           \/ Paid(local[p].ext) /\ Goto(p, At("readOrder"))
    BY <1>1 DEF ReadExtension, Advance, At, Paid
  <2>1. CASE Goto(p, Idle)
    BY <2>0, <2>1, Settle
  <2>2. CASE Goto(p, At("casExt"))
    BY <2>0, <2>2, <1>a, <1>h, <1>k, Proceed
  <2>3. CASE Paid(local[p].ext) /\ Goto(p, At("readOrder"))
    BY <2>0, <2>3, <1>a, <1>h, <1>k, Proceed
  <2> QED BY <2>0, <2>1, <2>2, <2>3
<1>2. CASE UpdateExtension(p)
  <2> DEFINE l == [local[p] EXCEPT !.pc = "readOrder", !.held = TRUE]
  <2>0. /\ UNCHANGED <<order, ext, channel, tasks>>
        /\ local[p].pc = "casExt"
        /\ ExtensionFree(local[p].ext)
        /\ \/ Goto(p, Idle)
           \/ ext[local[p].ext] = "waiting" /\ Goto(p, l)
    BY <1>2 DEF UpdateExtension
  <2>1. CASE Goto(p, Idle)
    BY <2>0, <2>1, Settle
  <2>2. CASE ext[local[p].ext] = "waiting" /\ Goto(p, l)
    <3>1. l \in LocalState /\ l.pc = "readOrder" /\ l.held
          /\ l.ext = local[p].ext /\ l.msg = local[p].msg
      BY <1>l DEF LocalState
    <3> HIDE DEF l
    <3> QED BY <2>0, <2>2, <3>1, <1>k, Proceed
  <2> QED BY <2>0, <2>1, <2>2
<1>3. CASE ReadOrderSuccess(p) \/ ReadOrderClosed(p)
  <2>1. local[p].pc = "readOrder" /\ UNCHANGED <<order, channel, tasks>>
    BY <1>3 DEF ReadOrderSuccess, ReadOrderClosed
  <2>2. CASE order.status = "waiting" /\ Goto(p, At("casOrder")) /\ UNCHANGED ext
    <3>1. local[p].held
      BY <1>k, <2>1, <2>2 DEF Consistent, Unpaid
    <3> QED BY <1>a, <1>h, <1>k, <2>1, <2>2, <3>1, Proceed
  <2>3. CASE Goto(p, Idle) /\ UNCHANGED ext
    BY <2>1, <2>3, Settle
  <2>4. CASE AlreadyPaidBy(local[p].ext) /\ Goto(p, Idle) /\ CommitExtension(p)
    <3>1. ~local[p].held
      BY <1>h, <2>4 DEF AlreadyPaidBy, Consistent, PaymentBacked, Paid
    <3> QED BY <2>1, <2>4, <3>1, Settle DEF CommitExtension
  <2>5. CASE order.status # "waiting" /\ Goto(p, Idle) /\ CommitExtension(p)
             /\ local[p].msg = "closed"
    <3>1. CASE ~local[p].held
      BY <2>1, <2>5, <3>1, Settle DEF CommitExtension
    <3>2. CASE local[p].held
      <4>1. /\ local'[p] = Idle
            /\ \A q \in Procs : q # p => local'[q] = local[q]
        BY <2>5, GotoTyped, IdleTyped DEF TypeOK
      <4>2. Idle.pc = "idle" /\ Idle.held = FALSE /\ Idle.msg = "none"
        BY DEF Idle
      <4>3. \A f \in Exts : ext'[f] = IF f = local[p].ext THEN "closed" ELSE ext[f]
        BY <1>h, <2>5, <3>2 DEF CommitExtension, TypeOK
      <4>4. \A f \in Exts : Paid(f)' <=> Paid(f)
        BY <1>h, <3>2, <4>3 DEF Paid
      <4>5. Locks' /\ JobLocks'
        BY <1>h, <3>2, <4>1, <4>2, <4>3 DEF Consistent, Locks, JobLocks
      <4>6. Knows'
        BY <1>h, <2>1, <3>2, <4>1, <4>2, <4>3 DEF Consistent, Knows, Paid
      <4> QED BY <2>1, <4>4, <4>5, <4>6
              DEF Consistent, Unpaid, PaymentBacked, OneTaskPerPayment
    <3> QED BY <3>1, <3>2
  <2> QED BY <1>3, <2>2, <2>3, <2>4, <2>5
          DEF ReadOrderSuccess, ReadOrderClosed, Advance, At
<1>4. CASE UpdateOrderSuccess(p) \/ UpdateOrderClosed(p)
  <2>1. CASE OrderStillWaiting
    BY <1>4, <2>1, CommitConsistent
    DEF UpdateOrderSuccess, UpdateOrderClosed, OrderStillWaiting, CreatePayNotifyTask
  <2>2. CASE ~OrderStillWaiting
    BY <1>4, <2>2, Settle DEF UpdateOrderSuccess, UpdateOrderClosed
  <2> QED BY <2>1, <2>2
<1> QED BY <1>1, <1>2, <1>3, <1>4 DEF Notify

(* A callback or a query starts NotifyOrder with what the channel says.     *)
LEMMA CallbackConsistent ==
    ASSUME IInv, NEW p \in Requests, NEW e \in Exts, Callback(p, e) \/ SyncOrder(p, e)
    PROVE  Consistent'
<1> USE PayOrderAssumption, ProcsTyped, ExtsTyped DEF IInv
<1>1. ASSUME NEW m \in {"success", "closed"}
      PROVE  /\ Notified(e, m) \in LocalState
             /\ Notified(e, m).pc = "readExt" /\ Notified(e, m).ext = e
             /\ Notified(e, m).msg = m /\ ~Notified(e, m).held
  <2>1. channel[e].amount \in Prices \cup {0} /\ e \in 0..MaxExts
    BY DEF TypeOK
  <2>2. Notified(e, m) \in LocalState
    BY ONLY <2>1, IdleTyped, m \in {"success", "closed"} DEF Notified, LocalState
  <2> QED BY <2>2 DEF Notified, Idle
<1>3. UNCHANGED <<order, ext, channel, tasks>>
  BY DEF Callback, SyncOrder
<1>4. PICK m \in {"success", "closed"} : /\ Goto(p, Notified(e, m))
                                         /\ m = "success" => channel[e].state = "paid"
  BY DEF Callback, SyncOrder
<1> DEFINE l == Notified(e, m)
<1>5. /\ l \in LocalState /\ l.pc = "readExt" /\ l.ext = e /\ l.msg = m /\ ~l.held
      /\ Goto(p, l)
  BY <1>1, <1>4
<1> HIDE DEF l
<1> QED BY <1>3, <1>4, <1>5, Proceed

(* ExpireOrder: the extensions it closes are WAITING and held by no callback. *)
LEMMA ExpireConsistent ==
    ASSUME IInv, ExpireOrder
    PROVE  Consistent'
<1> USE PayOrderAssumption, ProcsTyped DEF IInv
<1>l. local[Job] \in LocalState
  BY DEF TypeOK
<1>1. CASE ExpireFind \/ ExpireUpdateOrder \/ ExpireUpdateExt
  <2>1. UNCHANGED <<order, ext, channel, tasks>>
        /\ \A q \in Requests : local'[q] = local[q]
    BY <1>1 DEF ExpireFind, ExpireUpdateOrder, ExpireUpdateExt, Goto, Advance, TypeOK
  <2>2. JobLocks'
    <3>1. CASE ExpireFind
      <4>1. local'[Job].pc = "expireOrder"
        BY <3>1, <1>l DEF ExpireFind, Goto, Advance, TypeOK, LocalState
      <4> QED BY <4>1 DEF JobLocks
    <3>2. CASE ExpireUpdateOrder
      <4>1. local'[Job].pc = "expireExts" /\ local'[Job].ext = 0
        BY <3>2 DEF ExpireUpdateOrder, Goto, TypeOK, Idle
      <4>2. \A q \in Requests : local[q].held => local[q].ext > 0
        BY DEF Consistent, Locks, Exts
      <4> QED BY <2>1, <4>1, <4>2 DEF JobLocks
    <3>3. CASE ExpireUpdateExt
      <4> DEFINE e == local[Job].ext + 1
      <4>1. local'[Job].pc = "expireExts" /\ local'[Job].ext = e
        BY <3>3, <1>l DEF ExpireUpdateExt, Goto, TypeOK, LocalState
      <4>2. e \in Nat /\ e - 1 = local[Job].ext
        BY <1>l DEF LocalState
      <4>3. \A q \in Requests : local[q].held =>
               local[q].ext \in Nat /\ local[q].ext > local[Job].ext /\ ext[local[q].ext] = "waiting"
        BY <3>3 DEF ExpireUpdateExt, Consistent, Locks, JobLocks, Exts
      <4>4. \A q \in Requests : local[q].held => local[q].ext # e
        BY <3>3, <4>3 DEF ExpireUpdateExt, ExtensionFree
      <4> QED BY <2>1, <4>1, <4>2, <4>3, <4>4 DEF JobLocks
    <3> QED BY <1>1, <3>1, <3>2, <3>3
  <2>3. Locks' /\ Knows'
    BY <2>1 DEF Consistent, Locks, Knows, Paid
  <2> QED BY <2>1, <2>2, <2>3 DEF Consistent, Unpaid, PaymentBacked, OneTaskPerPayment, Paid
<1>2. CASE ExpireCommit
  <2>1. /\ local'[Job] = Idle
        /\ \A q \in Requests : local'[q] = local[q]
        /\ UNCHANGED <<channel, tasks>>
    BY <1>2, GotoTyped, IdleTyped DEF ExpireCommit, TypeOK
  <2>2. \A f \in Exts : \/ ext'[f] = ext[f]
                        \/ ext[f] = "waiting" /\ ext'[f] = "closed" /\ f <= local[Job].ext
    BY <1>2 DEF ExpireCommit, ToClose
  <2>3. \A f \in Exts : Paid(f)' <=> Paid(f)
    BY <2>2 DEF Paid
  <2>4. order'.status = "closed" /\ order'.ext = order.ext
    BY <1>2 DEF ExpireCommit, ClosedOrder, TypeOK
  <2>5. \A q \in Requests : local[q].held =>
           /\ local[q].ext \in Exts
           /\ ext[local[q].ext] = "waiting" /\ local[q].ext > local[Job].ext
    BY <1>2 DEF ExpireCommit, Consistent, Locks, JobLocks
  <2>6. \A q \in Requests : local[q].held => ext'[local[q].ext] = "waiting"
    <3>1. local[Job].ext \in Nat /\ \A f \in Exts : f \in Nat
      BY <1>l DEF LocalState, Exts
    <3> QED BY <2>2, <2>5, <3>1
  <2>7. Locks'
    BY <2>1, <2>5, <2>6 DEF Consistent, Locks
  <2>8. JobLocks'
    BY <2>1 DEF JobLocks, Idle
  <2>9. Knows'
    BY <2>1, <2>2, <2>3 DEF Consistent, Knows, Paid
  <2> QED BY <2>1, <2>3, <2>4, <2>7, <2>8, <2>9
          DEF Consistent, Unpaid, PaymentBacked, OneTaskPerPayment
<1> QED BY <1>1, <1>2 DEF ExpireOrder

(* The invariant is inductive.                                              *)
THEOREM Inductive == Spec => []IInv
<1> USE PayOrderAssumption, ProcsTyped
<1>1. Init => IInv
  <2> SUFFICES ASSUME Init PROVE IInv
    OBVIOUS
  <2>1. TypeOK
    BY InitTyped
  <2>2. \A p \in Procs : local[p].pc = "idle" /\ ~local[p].held /\ local[p].msg = "none"
    BY DEF Init, Idle
  <2>3. /\ \A e \in Exts : ext[e] = "none" /\ channel[e].state = "none"
        /\ order.status = "none" /\ tasks = 0
    BY DEF Init
  <2> QED BY <2>1, <2>2, <2>3 DEF IInv, Consistent, Locks, JobLocks, Knows, Unpaid,
                                 PaymentBacked, OneTaskPerPayment, Paid
<1>2. IInv /\ [Next]_vars => IInv'
  <2> SUFFICES ASSUME IInv, [Next]_vars PROVE IInv'
    OBVIOUS
  <2>0. TypeOK /\ TypeOK'
    BY StepTyped DEF IInv
  <2> SUFFICES Consistent'
    BY <2>0 DEF IInv
  <2>1. ASSUME NEW price \in Prices, CreateOrder(price) PROVE Consistent'
    <3>1. order.status = "none" /\ order'.status = "waiting"
          /\ UNCHANGED <<ext, channel, tasks, local>>
      BY <2>0, <2>1 DEF CreateOrder, TypeOK
    <3> QED BY <3>1 DEF IInv, Consistent, Locks, JobLocks, Knows, Unpaid,
                        PaymentBacked, OneTaskPerPayment, Paid
  <2>2. ASSUME NEW p \in Requests, Submit(p) PROVE Consistent'
    BY <2>0, <2>2, SubmitConsistent
  <2>3. ASSUME NEW p \in Requests, Notify(p) PROVE Consistent'
    BY <2>3, NotifyConsistent
  <2>4. ASSUME NEW p \in Requests, NEW e \in Exts, Callback(p, e) \/ SyncOrder(p, e)
        PROVE Consistent'
    BY <2>4, CallbackConsistent
  <2>5. ASSUME NEW p \in Requests, ValidateOrderActuallyPaid(p) PROVE Consistent'
    BY <2>4, <2>5 DEF ValidateOrderActuallyPaid
  <2>6. ASSUME NEW p \in Requests, NEW price \in Prices, RepriceRead(p, price)
        PROVE Consistent'
    <3> DEFINE l == [Idle EXCEPT !.pc = "reprice", !.price = price]
    <3>1. l \in LocalState
      BY IdleTyped DEF LocalState
    <3>2. l.pc = "reprice" /\ l.msg = "none" /\ ~l.held
      BY DEF Idle
    <3>3. Goto(p, l) /\ UNCHANGED <<order, ext, channel, tasks>>
      BY <2>6 DEF RepriceRead
    <3> HIDE DEF l
    <3> QED BY <3>1, <3>2, <3>3, Proceed
  <2>7. ASSUME NEW p \in Requests, RepriceUpdate(p) PROVE Consistent'
    <3>1. order'.status = order.status /\ order'.ext = order.ext
          /\ UNCHANGED <<ext, channel, tasks>>
      BY <2>0, <2>7 DEF RepriceUpdate, TypeOK
    <3>2. /\ local'[p].pc = "idle" /\ ~local'[p].held /\ local'[p].msg = "none"
          /\ \A q \in Procs : q # p => local'[q] = local[q]
      BY <2>0, <2>7, GotoTyped, IdleTyped DEF RepriceUpdate, TypeOK, Idle
    <3> QED BY <3>1, <3>2 DEF IInv, Consistent, Locks, JobLocks, Knows, Unpaid,
                              PaymentBacked, OneTaskPerPayment, Paid
  <2>8. ASSUME NEW e \in Exts, UserPays(e) \/ ChannelCloses(e) PROVE Consistent'
    <3>1. /\ channel[e].state = "open"
          /\ UNCHANGED <<order, ext, tasks, local>>
          /\ \A f \in Exts : \/ channel'[f].state = channel[f].state
                             \/ f = e /\ channel'[f].state \in {"paid", "closed"}
      BY <2>0, <2>8 DEF UserPays, ChannelCloses, TypeOK
    <3> QED BY <3>1 DEF IInv, Consistent, Locks, JobLocks, Knows, Unpaid,
                        PaymentBacked, OneTaskPerPayment, Paid
  <2>9. CASE ExpireOrder
    BY <2>9, ExpireConsistent
  <2>10. CASE ExpireTimePasses \/ UNCHANGED vars
    BY <2>10 DEF ExpireTimePasses, vars, IInv, Consistent, Locks, JobLocks, Knows, Unpaid,
                 PaymentBacked, OneTaskPerPayment, Paid
  <2>11. ASSUME NEW p \in Procs, Fail(p) PROVE Consistent'
    BY <2>11, Settle DEF Fail
  <2>12. CASE DeadlockVictim
    BY <2>12, Settle DEF DeadlockVictim
  <2>13. CASE UpdateOrderRefundPrice
    <3>1. /\ order.status = "success" /\ order'.status = "refund" /\ order'.ext = order.ext
          /\ UNCHANGED <<ext, channel, tasks, local>>
      BY <2>0, <2>13 DEF UpdateOrderRefundPrice, TypeOK
    <3> QED BY <3>1 DEF IInv, Consistent, Locks, JobLocks, Knows, Unpaid,
                        PaymentBacked, OneTaskPerPayment, Paid
  <2> QED
    BY <2>1, <2>2, <2>3, <2>4, <2>5, <2>6, <2>7, <2>8, <2>9, <2>10, <2>11, <2>12, <2>13
    DEF Next
<1> QED BY <1>1, <1>2, PTL DEF Spec

(* At most one submission is ever accepted, whatever the number of requests. *)
THEOREM PaidOnceAlways == Spec => []PaidOnce
<1>1. IInv => PaidOnce
  BY DEF IInv, Consistent, PaymentBacked, PaidOnce
<1> QED BY <1>1, Inductive, PTL

(* The merchant's task exists exactly when a payment has been accepted.     *)
THEOREM OneTaskAlways == Spec => []OneTaskPerPayment
<1>1. IInv => OneTaskPerPayment
  BY DEF IInv, Consistent
<1> QED BY <1>1, Inductive, PTL

(* Every accepted payment is the channel's and the order's.                 *)
THEOREM PaymentBackedAlways == Spec => []PaymentBacked
<1>1. IInv => PaymentBacked
  BY DEF IInv, Consistent
<1> QED BY <1>1, Inductive, PTL

(* Payment, order, submissions and the merchant's task never part           *)
(* (order.go: notifyOrderSuccessTx).                                        *)
THEOREM PaymentRecordedAlways == Spec => []PaymentRecorded
BY TypeCorrect, PaidOnceAlways, OneTaskAlways, PaymentBackedAlways, PTL DEF PaymentRecorded

(* CLOSED is final for the order, CLOSED and SUCCESS for an extension.      *)
THEOREM FinalStaysAlways == Spec => FinalStays
<1> USE PayOrderAssumption, ProcsTyped
<1> DEFINE Stays == /\ order.status = "closed" => order'.status = "closed"
                   /\ \A e \in Exts : ext[e] \in {"success", "closed"} => ext'[e] = ext[e]
<1>1. ASSUME IInv, Next PROVE Stays
  <2>0. TypeOK
    BY <1>1 DEF IInv
  <2>1. ASSUME NEW p \in Requests, CommitExtension(p)
        PROVE  \A e \in Exts : ext[e] \in {"success", "closed"} => ext'[e] = ext[e]
    <3>1. local[p].held => local[p].ext \in Exts /\ ext[local[p].ext] = "waiting"
      BY <1>1 DEF IInv, Consistent, Locks
    <3> QED BY <2>0, <2>1, <3>1 DEF CommitExtension, TypeOK
  <2>2. ASSUME NEW p \in Requests, Notify(p) PROVE Stays
    <3>1. order.status = "closed" => order'.status = "closed"
      BY <2>2 DEF Notify, ReadExtension, UpdateExtension, ReadOrderSuccess, ReadOrderClosed,
                  UpdateOrderSuccess, UpdateOrderClosed, OrderStillWaiting
    <3>2. UNCHANGED ext \/ CommitExtension(p)
      BY <2>2 DEF Notify, ReadExtension, UpdateExtension, ReadOrderSuccess, ReadOrderClosed,
                  UpdateOrderSuccess, UpdateOrderClosed
    <3> QED BY <2>1, <3>1, <3>2
  <2>3. ASSUME NEW p \in Requests, Submit(p) PROVE Stays
    BY <2>0, <2>3 DEF Submit, SubmitValidate, SubmitInsert, SubmitAccepted, SubmitRefused,
                      NextExt, TypeOK
  <2>4. CASE ExpireOrder
    BY <2>0, <2>4 DEF ExpireOrder, ExpireFind, ExpireUpdateOrder, ExpireUpdateExt,
                      ExpireCommit, ToClose, ClosedOrder, TypeOK
  <2>5. ASSUME NEW p \in Requests, RepriceUpdate(p) PROVE Stays
    BY <2>0, <2>5 DEF RepriceUpdate, TypeOK
  <2>6. CASE \E price \in Prices : CreateOrder(price)
    BY <2>0, <2>6 DEF CreateOrder, TypeOK
  <2>7. CASE UpdateOrderRefundPrice
    BY <2>0, <2>7 DEF UpdateOrderRefundPrice, TypeOK
  <2> QED
    BY <1>1, <2>2, <2>3, <2>4, <2>5, <2>6, <2>7
    DEF Next, Callback, SyncOrder, ValidateOrderActuallyPaid, RepriceRead, UserPays,
        ChannelCloses, ExpireTimePasses, Fail, DeadlockVictim
<1>2. IInv /\ [Next]_vars => [Stays]_vars
  BY <1>1
<1> QED BY <1>2, Inductive, PTL DEF Spec, FinalStays

-----------------------------------------------------------------------------
(* What a reader of the row may rely on.  A request or job that is about to  *)
(* write the row by id has seen it, so that it is there.                    *)
Seen == \A p \in Procs :
           /\ local[p].pc \in {"reprice", "expireOrder", "expireExts"} => order.status # "none"
           /\ local[p].pc = "reprice" => local[p].price \in Prices

LEMMA RowFields ==
    ASSUME order \in [status : OrderStatus, price : Prices \cup {0}, ext : 0..MaxExts],
           NEW s, NEW c, NEW e
    PROVE  /\ [order EXCEPT !.status = s].status = s
           /\ [order EXCEPT !.status = s].price = order.price
           /\ [order EXCEPT !.status = s].ext = order.ext
           /\ [order EXCEPT !.price = c].status = order.status
           /\ [order EXCEPT !.price = c].price = c
           /\ [order EXCEPT !.price = c].ext = order.ext
           /\ [order EXCEPT !.status = s, !.price = c].status = s
           /\ [order EXCEPT !.status = s, !.price = c].price = c
           /\ [order EXCEPT !.status = s, !.price = c].ext = order.ext
           /\ [order EXCEPT !.status = s, !.ext = e].status = s
           /\ [order EXCEPT !.status = s, !.ext = e].price = order.price
           /\ [order EXCEPT !.status = s, !.ext = e].ext = e
OBVIOUS

LEMMA WhoWritesOrder ==
    ASSUME [Next]_vars
    PROVE  \/ order' = order
           \/ \E price \in Prices : CreateOrder(price)
           \/ \E p \in Requests : \/ (UpdateOrderSuccess(p) /\ OrderStillWaiting)
                                  \/ (UpdateOrderClosed(p) /\ OrderStillWaiting)
                                  \/ RepriceUpdate(p)
           \/ ExpireCommit \/ UpdateOrderRefundPrice
<1>1. CASE UNCHANGED vars
  BY <1>1 DEF vars
<1>2. ASSUME NEW p \in Requests, Submit(p) PROVE order' = order
  BY <1>2 DEF Submit, SubmitValidate, SubmitInsert, SubmitAccepted, SubmitRefused
<1>3. ASSUME NEW p \in Requests, Notify(p)
      PROVE  \/ order' = order
             \/ (UpdateOrderSuccess(p) /\ OrderStillWaiting)
             \/ (UpdateOrderClosed(p) /\ OrderStillWaiting)
  BY <1>3 DEF Notify, ReadExtension, UpdateExtension, ReadOrderSuccess, ReadOrderClosed,
              UpdateOrderSuccess, UpdateOrderClosed
<1>4. ASSUME NEW p \in Requests,
             \/ \E e \in Exts : Callback(p, e) \/ SyncOrder(p, e)
             \/ ValidateOrderActuallyPaid(p)
             \/ \E price \in Prices : RepriceRead(p, price)
      PROVE  order' = order
  BY <1>4 DEF Callback, SyncOrder, ValidateOrderActuallyPaid, RepriceRead
<1>5. ASSUME \/ \E e \in Exts : UserPays(e) \/ ChannelCloses(e)
             \/ ExpireTimePasses
             \/ \E p \in Procs : Fail(p)
             \/ DeadlockVictim
      PROVE  order' = order
  BY <1>5 DEF UserPays, ChannelCloses, ExpireTimePasses, Fail, DeadlockVictim
<1>6. CASE ExpireOrder
  BY <1>6 DEF ExpireOrder, ExpireFind, ExpireUpdateOrder, ExpireUpdateExt
<1> QED BY <1>1, <1>2, <1>3, <1>4, <1>5, <1>6 DEF Next

(* Each step writes the row as PayRow does, or not at all.                  *)
LEMMA StepIsRowStep ==
    ASSUME IInv, Seen, [Next]_vars
    PROVE  [Row!Next]_([status |-> order.status, price |-> order.price, paid |-> order.ext # 0])
<1> USE PayOrderAssumption, ProcsTyped
<1> DEFINE row == [status |-> order.status, price |-> order.price, paid |-> order.ext # 0]
<1>0. order \in [status : OrderStatus, price : Prices \cup {0}, ext : 0..MaxExts]
  BY DEF IInv, TypeOK
<1>a. /\ row.status = order.status /\ row.price = order.price
      /\ row.paid = (order.ext # 0)
  OBVIOUS
<1>b. ASSUME NEW s, NEW c, NEW d, order'.status = s, order'.price = c, (order'.ext # 0) = d
      PROVE  Row!Written(s, c, d)
  BY <1>b DEF Row!Written
<1>1. CASE order' = order
  BY <1>1
<1>2. ASSUME NEW price \in Prices, CreateOrder(price) PROVE Row!Create(price)
  <2>1. order.status = "none" /\ order' = [order EXCEPT !.status = "waiting", !.price = price]
    BY <1>2 DEF CreateOrder
  <2>2. order'.status = "waiting" /\ order'.price = price /\ order'.ext = order.ext
    BY <1>0, <2>1, RowFields
  <2> QED BY <1>a, <1>b, <2>1, <2>2 DEF Row!Create
<1>3. ASSUME NEW p \in Requests, UpdateOrderSuccess(p), OrderStillWaiting PROVE Row!Pay
  <2>1. order.status = "waiting" /\ order' = [order EXCEPT !.status = "success", !.ext = local[p].ext]
    BY <1>3 DEF UpdateOrderSuccess, OrderStillWaiting, PaidOrder
  <2>2. order'.status = "success" /\ order'.price = order.price /\ order'.ext = local[p].ext
    BY <1>0, <2>1, RowFields
  <2>3. local[p].ext # 0
    BY <1>3 DEF UpdateOrderSuccess, IInv, Consistent, Knows, Exts
  <2> QED BY <1>a, <1>b, <2>1, <2>2, <2>3 DEF Row!Pay
<1>4. ASSUME NEW p \in Requests, UpdateOrderClosed(p), OrderStillWaiting PROVE Row!Close
  <2>1. order.status = "waiting" /\ order' = [order EXCEPT !.status = "closed"]
    BY <1>4 DEF UpdateOrderClosed, OrderStillWaiting, ClosedOrder
  <2>2. order'.status = "closed" /\ order'.price = order.price /\ order'.ext = order.ext
    BY <1>0, <2>1, RowFields
  <2> QED BY <1>a, <1>b, <2>1, <2>2 DEF Row!Close
<1>5. ASSUME ExpireCommit PROVE Row!Close
  <2>1. order.status # "none" /\ order' = [order EXCEPT !.status = "closed"]
    BY <1>5 DEF ExpireCommit, ClosedOrder, Seen, Procs
  <2>2. order'.status = "closed" /\ order'.price = order.price /\ order'.ext = order.ext
    BY <1>0, <2>1, RowFields
  <2> QED BY <1>a, <1>b, <2>1, <2>2 DEF Row!Close
<1>6. ASSUME NEW p \in Requests, RepriceUpdate(p)
      PROVE  local[p].price \in Prices /\ Row!Reprice(local[p].price)
  <2>1. /\ order.status # "none" /\ local[p].price \in Prices
        /\ order' = [order EXCEPT !.price = local[p].price]
    BY <1>6 DEF RepriceUpdate, Seen
  <2>2. order'.status = order.status /\ order'.price = local[p].price /\ order'.ext = order.ext
    BY <1>0, <2>1, RowFields
  <2> QED BY <1>a, <1>b, <2>1, <2>2 DEF Row!Reprice
<1>7. ASSUME UpdateOrderRefundPrice PROVE Row!Refund
  <2>1. order.status = "success" /\ order' = [order EXCEPT !.status = "refund"]
    BY <1>7 DEF UpdateOrderRefundPrice
  <2>2. order'.status = "refund" /\ order'.price = order.price /\ order'.ext = order.ext
    BY <1>0, <2>1, RowFields
  <2> QED BY <1>a, <1>b, <2>1, <2>2 DEF Row!Refund
<1>8. \/ order' = order
      \/ \E price \in Prices : CreateOrder(price)
      \/ \E p \in Requests : \/ (UpdateOrderSuccess(p) /\ OrderStillWaiting)
                             \/ (UpdateOrderClosed(p) /\ OrderStillWaiting)
                             \/ RepriceUpdate(p)
      \/ ExpireCommit \/ UpdateOrderRefundPrice
  BY WhoWritesOrder
<1> QED BY <1>1, <1>2, <1>3, <1>4, <1>5, <1>6, <1>7, <1>8 DEF Row!Next

LEMMA SeenKept ==
    ASSUME IInv, Seen, [Next]_vars
    PROVE  Seen'
<1> USE PayOrderAssumption, ProcsTyped
<1>0. /\ order \in [status : OrderStatus, price : Prices \cup {0}, ext : 0..MaxExts]
      /\ local \in [Procs -> LocalState]
  BY DEF IInv, TypeOK
<1>1. order.status # "none" => order'.status # "none"
  <2>1. [Row!Next]_([status |-> order.status, price |-> order.price, paid |-> order.ext # 0])
    BY StepIsRowStep
  <2> DEFINE row == [status |-> order.status, price |-> order.price, paid |-> order.ext # 0]
  <2>2. row.status = order.status /\ row'.status = order'.status
    OBVIOUS
  <2>3. row.status # "none" => row'.status # "none"
    BY <2>1, <2>2 DEF Row!Next, Row!Create, Row!Reprice, Row!Pay, Row!Refund, Row!Close, Row!Written
  <2> QED BY <2>2, <2>3
<1>2. ASSUME NEW p \in Procs, NEW q \in Procs, NEW l, Goto(p, l),
             \/ l.pc \notin {"reprice", "expireOrder", "expireExts"}
             \/ /\ (order.status # "none" \/ local[p].pc = l.pc)
                /\ l.pc = "reprice" => l.price \in Prices
      PROVE  /\ local'[q].pc \in {"reprice", "expireOrder", "expireExts"} => order'.status # "none"
             /\ local'[q].pc = "reprice" => local'[q].price \in Prices
  <2>1. local'[q] = IF q = p THEN l ELSE local[q]
    BY <1>0, <1>2 DEF Goto
  <2> QED BY <1>1, <1>2, <2>1 DEF Seen
<1>3. ASSUME NEW p \in Procs, NEW l, Goto(p, l),
             \/ l.pc \notin {"reprice", "expireOrder", "expireExts"}
             \/ /\ (order.status # "none" \/ local[p].pc = l.pc)
                /\ l.pc = "reprice" => l.price \in Prices
      PROVE  Seen'
  BY <1>2, <1>3 DEF Seen
<1>i. Idle.pc = "idle"
  BY DEF Idle
<1>a. \A p \in Procs, pc \in STRING : [local[p] EXCEPT !.pc = pc].pc = pc
  BY <1>0 DEF LocalState
<1>4. CASE UNCHANGED local
  BY <1>1, <1>4 DEF Seen
<1>10. ASSUME NEW p \in Procs, Goto(p, Idle) PROVE Seen'
  BY <1>3, <1>10, <1>i
<1>5. ASSUME NEW p \in Requests, Submit(p) PROVE Seen'
  <2>1. PICK l : Goto(p, l) /\ l.pc \in {"insertExt", "unifiedOrder", "readExt", "idle"}
    <3>1. \A e \in Exts : [local[p] EXCEPT !.pc = "unifiedOrder", !.ext = e].pc = "unifiedOrder"
      BY <1>0 DEF LocalState
    <3>2. \A m \in {"success", "closed"} : [local[p] EXCEPT !.pc = "readExt", !.msg = m].pc = "readExt"
      BY <1>0 DEF LocalState
    <3>3. [Idle EXCEPT !.pc = "insertExt", !.price = order.price].pc = "insertExt"
      BY DEF Idle
    <3> QED BY <1>5, <1>i, <3>1, <3>2, <3>3
            DEF Submit, SubmitValidate, SubmitInsert, SubmitAccepted, SubmitRefused
  <2> QED BY <1>3, <2>1
<1>6. ASSUME NEW p \in Requests, Notify(p) PROVE Seen'
  <2>1. [local[p] EXCEPT !.pc = "readOrder", !.held = TRUE].pc = "readOrder"
    BY <1>0 DEF LocalState
  <2>2. ASSUME NEW pc \in {"casExt", "readOrder", "casOrder"}, Advance(p, pc) PROVE Seen'
    <3>1. [local[p] EXCEPT !.pc = pc].pc = pc
      BY <1>a
    <3> QED BY <1>3, <2>2, <3>1 DEF Advance
  <2>3. CASE ReadExtension(p)
    BY <1>10, <2>2, <2>3 DEF ReadExtension
  <2>4. CASE UpdateExtension(p)
    BY <1>3, <1>10, <2>1, <2>4 DEF UpdateExtension
  <2>5. CASE ReadOrderSuccess(p) \/ ReadOrderClosed(p)
    BY <1>10, <2>2, <2>5 DEF ReadOrderSuccess, ReadOrderClosed
  <2>6. CASE UpdateOrderSuccess(p) \/ UpdateOrderClosed(p)
    BY <1>10, <2>6 DEF UpdateOrderSuccess, UpdateOrderClosed
  <2> QED BY <1>6, <2>3, <2>4, <2>5, <2>6 DEF Notify
<1>7. ASSUME NEW p \in Requests, NEW e \in Exts, Callback(p, e) \/ SyncOrder(p, e) PROVE Seen'
  <2>1. \A m : Notified(e, m).pc = "readExt"
    BY DEF Notified, Idle
  <2> QED BY <1>3, <1>7, <2>1 DEF Callback, SyncOrder
<1>8. ASSUME NEW p \in Requests, NEW price \in Prices, RepriceRead(p, price) PROVE Seen'
  <2> DEFINE l == [Idle EXCEPT !.pc = "reprice", !.price = price]
  <2>1. l.pc = "reprice" /\ l.price = price
    BY DEF Idle
  <2>2. Goto(p, l) /\ order.status = "waiting"
    BY <1>8 DEF RepriceRead
  <2> HIDE DEF l
  <2> QED BY <1>3, <2>1, <2>2
<1>9. CASE ExpireOrder
  <2>1. CASE ExpireFind
    <3>1. [local[Job] EXCEPT !.pc = "expireOrder"].pc = "expireOrder"
      BY <1>a
    <3> QED BY <1>3, <2>1, <3>1 DEF ExpireFind, Advance
  <2>2. CASE ExpireUpdateOrder
    <3>1. \A n \in 0..MaxExts : [Idle EXCEPT !.pc = "expireExts", !.last = n].pc = "expireExts"
      BY DEF Idle
    <3>2. order.status # "none"
      BY <2>2 DEF ExpireUpdateOrder, Seen
    <3> QED BY <1>3, <2>2, <3>1, <3>2 DEF ExpireUpdateOrder
  <2>3. CASE ExpireUpdateExt
    <3> DEFINE l == [local[Job] EXCEPT !.ext = local[Job].ext + 1]
    <3>1. l.pc = local[Job].pc
      BY <1>0 DEF LocalState
    <3>2. local[Job].pc = "expireExts" /\ Goto(Job, l)
      BY <2>3 DEF ExpireUpdateExt
    <3> HIDE DEF l
    <3> QED BY <1>3, <3>1, <3>2
  <2>4. CASE ExpireCommit
    BY <1>10, <2>4 DEF ExpireCommit
  <2> QED BY <1>9, <2>1, <2>2, <2>3, <2>4 DEF ExpireOrder
<1>11. ASSUME NEW p \in Requests, ValidateOrderActuallyPaid(p) PROVE Seen'
  BY <1>7, <1>11 DEF ValidateOrderActuallyPaid
<1>12. ASSUME NEW p \in Requests, RepriceUpdate(p) PROVE Seen'
  BY <1>10, <1>12 DEF RepriceUpdate
<1>13. CASE \/ \E price \in Prices : CreateOrder(price)
            \/ \E e \in Exts : UserPays(e) \/ ChannelCloses(e)
            \/ UpdateOrderRefundPrice \/ ExpireTimePasses
            \/ UNCHANGED vars
  BY <1>4, <1>13 DEF CreateOrder, UserPays, ChannelCloses, UpdateOrderRefundPrice, ExpireTimePasses,
                     vars
<1>14. CASE \/ \E p \in Procs : Fail(p)
            \/ DeadlockVictim
  BY <1>10, <1>14 DEF Fail, DeadlockVictim
<1> QED BY <1>5, <1>6, <1>7, <1>8, <1>9, <1>11, <1>12, <1>13, <1>14 DEF Next

(* Whatever requests, callbacks, queries and jobs do between their           *)
(* statements (order.go:141 to :701), the row is only ever written as if    *)
(* each operation were atomic.                                              *)
THEOREM Refinement == Spec => ImplementsRow
<1> DEFINE row == [status |-> order.status, price |-> order.price, paid |-> order.ext # 0]
<1>1. Init => Row!Init /\ Seen
  <2> SUFFICES ASSUME Init PROVE Row!Init /\ Seen
    OBVIOUS
  <2>1. Row!Init
    BY DEF Init, Row!Init
  <2>2. \A p \in Procs : local[p].pc = "idle"
    BY DEF Init, Idle
  <2> QED BY <2>1, <2>2 DEF Seen
<1>2. IInv /\ Seen /\ [Next]_vars => [Row!Next]_row /\ Seen'
  BY StepIsRowStep, SeenKept
<1> QED BY <1>1, <1>2, Inductive, PTL DEF Spec, ImplementsRow, Row!Spec
=============================================================================
