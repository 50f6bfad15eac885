------------------------------- MODULE Wallet -------------------------------
(***************************************************************************)
(* One member's wallet: recharges, their refunds and an administrator's     *)
(* changes of the balance (src/internal/service/pay/wallet).                *)
(*                                                                         *)
(* No operation opens a transaction: each statement commits by itself, and  *)
(* what an error or a crash leaves behind stays.  The routes that report a  *)
(* payment or a refund take their ids from any caller: any recharge may be  *)
(* reported with any pay order that is SUCCESS, and an ended refund any     *)
(* number of times.  How a pay refund ends is decided in PayRefund.         *)
(***************************************************************************)
EXTENDS Integers, Sequences, FiniteSets, Functions

CONSTANTS Recharges,       \* recharges of the wallet
          Clients,         \* requests
          Total,           \* what a recharge credits, its bonus included
          Adjustments,     \* amounts an administrator adds, negative ones too
          MaxAdjustments,  \* bound on the changes by administrators
          MaxRefundTries,  \* bound on the pay refunds of one recharge
          MaxResettled,    \* bound on reporting a refund again
          MaxWalletFaults  \* bound on errors and crashes

ASSUME WalletAssumption ==
          /\ IsFiniteSet(Clients) /\ IsFiniteSet(Recharges)
          /\ Total \in Nat \ {0} /\ Adjustments \subseteq Int
          /\ MaxAdjustments \in Nat /\ MaxWalletFaults \in Nat
          /\ MaxRefundTries \in Nat /\ MaxResettled \in Nat

VARIABLES wallet,          \* the row of pay_wallet
          txn,             \* pay_wallet_transaction: rows per recharge, and the adjustments' sum
          recharge,        \* the rows of pay_wallet_recharge
          rechargeRefunds, \* the pay refunds of each recharge, in order
          settled,         \* <<recharge, n>>: refunds whose end has moved the wallet
          resettled,       \* how often the end of a settled one moved it again
          adjusted,        \* changes by administrators so far
          walletFaults,    \* errors and crashes so far
          client           \* what each request holds between two statements

walletVars == <<wallet, txn, recharge, rechargeRefunds, settled, resettled, adjusted,
                walletFaults, client>>

Resting == [pc |-> "idle", recharge |-> {}, amount |-> 0, seen |-> 0, refund |-> 0, end |-> "none"]

Moving(p, c) == client' = [client EXCEPT ![p] = c]
Ends(p) == Moving(p, Resting)

WalletInit ==
    /\ wallet = [balance |-> 0, frozen |-> 0, recharged |-> 0, expense |-> 0]
    /\ txn = [credit |-> [r \in Recharges |-> 0], refund |-> [r \in Recharges |-> 0], adjust |-> 0]
    /\ recharge = [r \in Recharges |-> [paid |-> FALSE, refund |-> 0, status |-> "none"]]
    /\ rechargeRefunds = [r \in Recharges |-> << >>]
    /\ settled = {}
    /\ resettled = 0
    /\ adjusted = 0
    /\ walletFaults = 0
    /\ client = [p \in Clients |-> Resting]

-----------------------------------------------------------------------------
(* AddWalletBalance: an update by id, then the transaction's row.            *)

Expense(amount) == IF amount < 0 THEN -amount ELSE 0

AddBalance(p) ==
    LET amount == client[p].amount IN
    /\ client[p].pc = "add"
    /\ wallet' = [wallet EXCEPT !.balance = @ + amount,
                                !.recharged = @ + (IF amount > 0 THEN amount ELSE 0),
                                !.expense = @ + Expense(amount)]
    /\ Moving(p, [client[p] EXCEPT !.pc = "log"])
    /\ UNCHANGED <<txn, recharge, rechargeRefunds, settled, resettled, adjusted, walletFaults>>

CreateWalletTransaction(p) ==
    /\ client[p].pc = "log"
    /\ txn' = IF client[p].recharge = {}
              THEN [txn EXCEPT !.adjust = @ + client[p].amount]
              ELSE [txn EXCEPT !.credit =
                      [r \in Recharges |-> @[r] + (IF r \in client[p].recharge THEN 1 ELSE 0)]]
    /\ Ends(p)
    /\ UNCHANGED <<wallet, recharge, rechargeRefunds, settled, resettled, adjusted, walletFaults>>

\* Mutant: the balance is not looked at.
AnyBalance(a) == TRUE
Suffices(a) == a < 0 => wallet.balance >= -a

UpdateWalletBalance(p, a) ==
    /\ client[p].pc = "idle"
    /\ adjusted < MaxAdjustments /\ adjusted' = adjusted + 1
    /\ Suffices(a)
    /\ Moving(p, [Resting EXCEPT !.pc = "add", !.amount = a, !.seen = wallet.balance])
    /\ UNCHANGED <<wallet, txn, recharge, rechargeRefunds, settled, resettled, walletFaults>>

-----------------------------------------------------------------------------
(* UpdateWalletRechargerPaid: some pay order is SUCCESS, whosever it is.     *)

RechargePaidRead(p, r) ==
    /\ client[p].pc = "idle"
    /\ ~recharge[r].paid
    /\ Moving(p, [Resting EXCEPT !.pc = "paid", !.recharge = {r}])
    /\ UNCHANGED <<wallet, txn, recharge, rechargeRefunds, settled, resettled, adjusted, walletFaults>>

NotYetPaid(r) == ~recharge[r].paid

RechargePaidUpdate(p) ==
    \E r \in client[p].recharge :
        /\ client[p].pc = "paid"
        /\ IF NotYetPaid(r)
           THEN /\ recharge' = [recharge EXCEPT ![r].paid = TRUE]
                /\ Moving(p, [client[p] EXCEPT !.pc = "add", !.amount = Total])
           ELSE Ends(p) /\ UNCHANGED recharge
        /\ UNCHANGED <<wallet, txn, rechargeRefunds, settled, resettled, adjusted, walletFaults>>

-----------------------------------------------------------------------------
(* RefundWalletRecharge: freeze, ask for the refund, note its id.           *)

RefundRechargeRead(p, r) ==
    /\ client[p].pc = "idle"
    /\ recharge[r].paid /\ recharge[r].refund = 0
    /\ Moving(p, [Resting EXCEPT !.pc = "freeze", !.recharge = {r}])
    /\ UNCHANGED <<wallet, txn, recharge, rechargeRefunds, settled, resettled, adjusted, walletFaults>>

ToFreeze == Total

FreezePrice(p) ==
    /\ client[p].pc = "freeze"
    /\ IF wallet.balance >= ToFreeze
       THEN /\ wallet' = [wallet EXCEPT !.balance = @ - ToFreeze, !.frozen = @ + ToFreeze]
            /\ Moving(p, [client[p] EXCEPT !.pc = "ask"])
       ELSE Ends(p) /\ UNCHANGED wallet
    /\ UNCHANGED <<txn, recharge, rechargeRefunds, settled, resettled, adjusted, walletFaults>>

\* The whole price was refunded, or a refund of it is pending.
Refunding(r) == \E i \in DOMAIN rechargeRefunds[r] : rechargeRefunds[r][i] # "failure"

\* Refused too if the recharge has no paid pay order of its own, or within one
\* second of another, since both have one number.
AskRefund(p) ==
    \E r \in client[p].recharge :
        /\ client[p].pc = "ask"
        /\ \/ /\ ~Refunding(r) /\ Len(rechargeRefunds[r]) < MaxRefundTries
              /\ rechargeRefunds' = [rechargeRefunds EXCEPT ![r] = Append(@, "waiting")]
              /\ Moving(p, [client[p] EXCEPT !.pc = "note", !.refund = Len(rechargeRefunds[r]) + 1])
           \/ Ends(p) /\ UNCHANGED rechargeRefunds
        /\ UNCHANGED <<wallet, txn, recharge, settled, resettled, adjusted, walletFaults>>

NoteRefund(p) ==
    \E r \in client[p].recharge :
        /\ client[p].pc = "note"
        /\ recharge' = [recharge EXCEPT ![r].refund = client[p].refund, ![r].status = "waiting"]
        /\ Ends(p)
        /\ UNCHANGED <<wallet, txn, rechargeRefunds, settled, resettled, adjusted, walletFaults>>

\* The pay refund ends, as PayRefund has it.
SettleRefund(r, i) ==
    /\ rechargeRefunds[r][i] = "waiting"
    /\ \E end \in {"success", "failure"} :
          rechargeRefunds' = [rechargeRefunds EXCEPT ![r][i] = end]
    /\ UNCHANGED <<wallet, txn, recharge, settled, resettled, adjusted, walletFaults, client>>

-----------------------------------------------------------------------------
(* UpdateWalletRechargeRefunded, which looks at no status of the recharge.   *)

RefundedRead(p, r, i) ==
    /\ client[p].pc = "idle"
    /\ rechargeRefunds[r][i] # "waiting"
    /\ recharge[r].refund = i
    /\ <<r, i>> \in settled => resettled < MaxResettled
    /\ Moving(p, [Resting EXCEPT !.pc = "settle", !.recharge = {r}, !.refund = i,
                                 !.end = rechargeRefunds[r][i]])
    /\ UNCHANGED <<wallet, txn, recharge, rechargeRefunds, settled, resettled, adjusted, walletFaults>>

\* The wallet moves for this refund, for the first time or again.
Settle(r, i) ==
    /\ settled' = settled \cup {<<r, i>>}
    /\ resettled' = resettled + (IF <<r, i>> \in settled THEN 1 ELSE 0)

AfterTake == "logRefund"

TakeFrozen(p) ==
    \E r \in client[p].recharge :
        /\ client[p].pc = "settle" /\ client[p].end = "success"
        /\ wallet' = [wallet EXCEPT !.frozen = @ - Total, !.recharged = @ - Total]
        /\ Settle(r, client[p].refund)
        /\ Moving(p, [client[p] EXCEPT !.pc = AfterTake])
        /\ UNCHANGED <<txn, recharge, rechargeRefunds, adjusted, walletFaults>>

\* An error of this insert is ignored.
LogRefund(p) ==
    \E r \in client[p].recharge :
        /\ client[p].pc = "logRefund"
        /\ \/ txn' = [txn EXCEPT !.refund[r] = @ + 1] /\ UNCHANGED walletFaults
           \/ /\ walletFaults < MaxWalletFaults /\ walletFaults' = walletFaults + 1
              /\ UNCHANGED txn
        /\ Moving(p, [client[p] EXCEPT !.pc = "status"])
        /\ UNCHANGED <<wallet, recharge, rechargeRefunds, settled, resettled, adjusted>>

UnfreezePrice(p) ==
    \E r \in client[p].recharge :
        /\ client[p].pc = "settle" /\ client[p].end = "failure"
        /\ IF wallet.frozen >= Total
           THEN /\ wallet' = [wallet EXCEPT !.balance = @ + Total, !.frozen = @ - Total]
                /\ Settle(r, client[p].refund)
                /\ Moving(p, [client[p] EXCEPT !.pc = "status"])
           ELSE Ends(p) /\ UNCHANGED <<wallet, settled, resettled>>
        /\ UNCHANGED <<txn, recharge, rechargeRefunds, adjusted, walletFaults>>

WriteRefundStatus(p) ==
    \E r \in client[p].recharge :
        /\ client[p].pc = "status"
        /\ recharge' = [recharge EXCEPT ![r].status = client[p].end]
        /\ Ends(p)
        /\ UNCHANGED <<wallet, txn, rechargeRefunds, settled, resettled, adjusted, walletFaults>>

\* An error, a cancelled call, a crash: nothing is taken back.
WalletFail(p) ==
    /\ client[p].pc # "idle"
    /\ walletFaults < MaxWalletFaults /\ walletFaults' = walletFaults + 1
    /\ Ends(p)
    /\ UNCHANGED <<wallet, txn, recharge, rechargeRefunds, settled, resettled, adjusted>>

WalletNext ==
    \/ \E p \in Clients :
          \/ AddBalance(p) \/ CreateWalletTransaction(p)
          \/ \E a \in Adjustments : UpdateWalletBalance(p, a)
          \/ \E r \in Recharges : \/ RechargePaidRead(p, r) \/ RefundRechargeRead(p, r)
                                 \/ \E i \in DOMAIN rechargeRefunds[r] : RefundedRead(p, r, i)
          \/ RechargePaidUpdate(p)
          \/ FreezePrice(p) \/ AskRefund(p) \/ NoteRefund(p)
          \/ TakeFrozen(p) \/ LogRefund(p) \/ UnfreezePrice(p) \/ WriteRefundStatus(p)
          \/ WalletFail(p)
    \/ \E r \in Recharges : \E i \in DOMAIN rechargeRefunds[r] : SettleRefund(r, i)

WalletSpec == WalletInit /\ [][WalletNext]_walletVars

-----------------------------------------------------------------------------
WalletTypeOK ==
    /\ wallet \in [balance : Int, frozen : Int, recharged : Int, expense : Nat]
    /\ txn \in [credit : [Recharges -> Nat], refund : [Recharges -> Nat], adjust : Int]
    /\ recharge \in [Recharges -> [paid : BOOLEAN, refund : 0..MaxRefundTries,
                                   status : {"none", "waiting", "success", "failure"}]]
    /\ rechargeRefunds \in [Recharges -> Seq({"waiting", "success", "failure"})]
    /\ settled \subseteq Recharges \X (1..MaxRefundTries)
    /\ resettled \in Nat
    /\ adjusted \in 0..MaxAdjustments
    /\ walletFaults \in 0..MaxWalletFaults
    /\ client \in [Clients -> [pc : {"idle", "paid", "add", "log", "freeze", "ask", "note",
                                    "settle", "logRefund", "status"},
                              recharge : SUBSET Recharges, amount : Int, seen : Int,
                              refund : 0..MaxRefundTries, end : {"none", "success", "failure"}]]

(* The four columns of the wallet agree after every statement: what the      *)
(* member has is what came in less what went out.                            *)
ColumnsAgree == wallet.balance + wallet.frozen = wallet.recharged - wallet.expense

\* Credits of r that are under way.
Crediting(r) == {p \in Clients : client[p].pc \in {"add", "log"} /\ client[p].recharge = {r}}

(* However often and however many at a time report a recharge as paid, it    *)
(* is credited once; and only a fault between its two transactions loses it  *)
(* (recharge.go:132).                                                        *)
CreditedOnce ==
    \A r \in Recharges :
        /\ txn.credit[r] + Cardinality(Crediting(r)) <= (IF recharge[r].paid THEN 1 ELSE 0)
        /\ walletFaults = 0 /\ recharge[r].paid => txn.credit[r] + Cardinality(Crediting(r)) = 1

\* The refunds that the recharges have noted.
Noted == {<<r, recharge[r].refund>> : r \in {q \in Recharges : recharge[q].refund # 0}}

(* What the noted refunds will take from the wallet or give back to it is    *)
(* frozen, but for one price for each report of an end that had moved the    *)
(* wallet before (recharge.go:190); requests that are cut off lose none.     *)
FrozenCoversPending ==
    wallet.frozen + Total * resettled >= Total * Cardinality(Noted \ settled)

\* Changes of the wallet whose row is still to be inserted, and the rows.
ToLog(p) == CASE client[p].pc = "log"       -> client[p].amount
              [] client[p].pc = "logRefund" -> -Total
              [] OTHER                      -> 0
Worth(r) == Total * (txn.credit[r] - txn.refund[r])
Unlogged == SumFunctionOnSet([p \in Clients |-> ToLog(p)], Clients)
Logged == txn.adjust + SumFunctionOnSet([r \in Recharges |-> Worth(r)], Recharges)

(* Without faults the transactions explain the wallet.                      *)
TransactionsExplain == walletFaults = 0 => wallet.balance + wallet.frozen = Logged + Unlogged

(* Together: the wallet, its transactions and its recharges tell one story.  *)
WalletExplained ==
    WalletTypeOK /\ ColumnsAgree /\ CreditedOnce /\ FrozenCoversPending /\ TransactionsExplain

(* The balance is overdrawn only by a change that was checked against a      *)
(* balance another request has changed since (wallet.go:147).                *)
OverdraftIsStale ==
    [][wallet'.balance < 0 /\ wallet'.balance < wallet.balance
         => \E p \in Clients : client[p].pc = "add" /\ client[p].seen # wallet.balance]_walletVars

(* Together: the wallet is explained, and where it is overdrawn a stale look  *)
(* at the balance is to blame.                                              *)
WalletAccounted == []WalletExplained /\ OverdraftIsStale
=============================================================================
