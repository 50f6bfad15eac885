----------------------------- MODULE Brokerage -----------------------------
(***************************************************************************)
(* The brokerage of one member: what is earned, unfrozen, withdrawn and     *)
(* given back (src/internal/service/mall/trade/brokerage).                  *)
(*                                                                         *)
(* Record and balance are separate statements that commit by themselves;    *)
(* CreateBrokerageWithdraw opens a transaction, but only the withdrawal's   *)
(* own row is part of it.  The transfer of an approved withdrawal through a *)
(* channel fails: CreateTransfer takes "no transfer of this number yet" for *)
(* an error and inserts none.                                              *)
(***************************************************************************)
EXTENDS Integers, FiniteSets, Functions

CONSTANTS Earnings,           \* shares of orders
          Withdrawals,        \* withdrawals of the member
          Workers,            \* requests of member and administrators, runs of the job
          Share, Payout,      \* amounts of an earning and of a withdrawal
          MaxBrokerageFaults  \* bound on errors and crashes

ASSUME BrokerageAssumption == /\ IsFiniteSet(Earnings \cup Withdrawals \cup Workers)
                              /\ {Share, Payout} \subseteq Nat \ {0}
                              /\ MaxBrokerageFaults \in Nat

VARIABLES account,          \* brokerage_price and frozen_price of the member
          earning,          \* brokerage_record rows of the earnings
          withdrawal,       \* the rows of brokerage_withdraw
          entries,          \* brokerage_record rows of withdrawals: taken and given back
          brokerageFaults,  \* errors and crashes so far
          worker            \* what each process holds between two statements

brokerageVars == <<account, earning, withdrawal, entries, brokerageFaults, worker>>

Unoccupied == [pc |-> "idle", list |-> {}, frozen |-> FALSE, w |-> {}, verdict |-> "none"]

Occupy(p, l) == worker' = [worker EXCEPT ![p] = l]
Proceed(p, pc) == Occupy(p, [worker[p] EXCEPT !.pc = pc])
Free(p) == Occupy(p, Unoccupied)

BrokerageInit ==
    /\ account = [price |-> 0, frozen |-> 0]
    /\ earning = [e \in Earnings |-> "none"]
    /\ withdrawal \in [Withdrawals -> [status : {"none"}, api : BOOLEAN]]
    /\ entries = [taken |-> [w \in Withdrawals |-> 0], back |-> [w \in Withdrawals |-> 0]]
    /\ brokerageFaults = 0
    /\ worker = [p \in Workers |-> Unoccupied]

-----------------------------------------------------------------------------
(* addBrokerageForLevel: the records, then the balance they belong to.       *)

AddRecords(p, e) ==
    /\ worker[p].pc = "idle"
    /\ earning[e] = "none"
    /\ \E frozenDays \in BOOLEAN :
          /\ earning' = [earning EXCEPT ![e] = IF frozenDays THEN "wait" ELSE "settled"]
          /\ Occupy(p, [Unoccupied EXCEPT !.pc = "credit", !.frozen = frozenDays])
    /\ UNCHANGED <<account, withdrawal, entries, brokerageFaults>>

Credit(p) ==
    /\ worker[p].pc = "credit"
    /\ account' = IF worker[p].frozen THEN [account EXCEPT !.frozen = @ + Share]
                                      ELSE [account EXCEPT !.price = @ + Share]
    /\ Free(p)
    /\ UNCHANGED <<earning, withdrawal, entries, brokerageFaults>>

-----------------------------------------------------------------------------
(* UnfreezeRecord: the due records, then one after the other.                *)

UnfreezeFind(p) ==
    /\ worker[p].pc = "idle"
    /\ \E due \in SUBSET {e \in Earnings : earning[e] = "wait"} :
          /\ due # {}
          /\ Occupy(p, [Unoccupied EXCEPT !.pc = "unfreeze", !.list = due])
    /\ UNCHANGED <<account, earning, withdrawal, entries, brokerageFaults>>

StillWaits(e) == earning[e] = "wait"

UnfreezeRecord(p) ==
    \E e \in worker[p].list :
        /\ worker[p].pc = "unfreeze"
        /\ LET rest == [worker[p] EXCEPT !.list = @ \ {e}] IN
           IF StillWaits(e)
           THEN earning' = [earning EXCEPT ![e] = "settled"] /\ Occupy(p, [rest EXCEPT !.pc = "move"])
           ELSE Occupy(p, rest) /\ UNCHANGED earning
        /\ UNCHANGED <<account, withdrawal, entries, brokerageFaults>>

\* An error of this update is logged, and the next record is taken.
MoveFrozen(p) ==
    /\ worker[p].pc = "move"
    /\ \/ /\ account' = [price |-> account.price + Share, frozen |-> account.frozen - Share]
          /\ UNCHANGED brokerageFaults
       \/ /\ brokerageFaults < MaxBrokerageFaults /\ brokerageFaults' = brokerageFaults + 1
          /\ UNCHANGED account
    /\ Proceed(p, "unfreeze")
    /\ UNCHANGED <<earning, withdrawal, entries>>

UnfreezeEnd(p) ==
    /\ worker[p].pc = "unfreeze" /\ worker[p].list = {}
    /\ Free(p)
    /\ UNCHANGED <<account, earning, withdrawal, entries, brokerageFaults>>

-----------------------------------------------------------------------------
(* CreateBrokerageWithdraw: its row is there for others once it commits.     *)

CreateWithdraw(p, w) ==
    /\ worker[p].pc = "idle"
    /\ withdrawal[w].status = "none"
    /\ \A q \in Workers : w \notin worker[q].w
    /\ Occupy(p, [Unoccupied EXCEPT !.pc = "reduce", !.w = {w}])
    /\ UNCHANGED <<account, earning, withdrawal, entries, brokerageFaults>>

\* By id alone: whatever the balance is.
ReduceBrokerage(p) ==
    /\ worker[p].pc = "reduce"
    /\ account' = [price |-> account.price - Payout, frozen |-> account.frozen + Payout]
    /\ Proceed(p, "taken")
    /\ UNCHANGED <<earning, withdrawal, entries, brokerageFaults>>

RecordTaken(p) ==
    \E w \in worker[p].w :
        /\ worker[p].pc = "taken"
        /\ entries' = [entries EXCEPT !.taken[w] = @ + 1]
        /\ Proceed(p, "commit")
        /\ UNCHANGED <<account, earning, withdrawal, brokerageFaults>>

CommitWithdraw(p) ==
    \E w \in worker[p].w :
        /\ worker[p].pc = "commit"
        /\ withdrawal' = [withdrawal EXCEPT ![w].status = "auditing"]
        /\ Free(p)
        /\ UNCHANGED <<account, earning, entries, brokerageFaults>>

-----------------------------------------------------------------------------
(* AuditBrokerageWithdraw.                                                  *)

AuditRead(p, w, verdict) ==
    /\ worker[p].pc = "idle"
    /\ withdrawal[w].status = "auditing"
    /\ Occupy(p, [Unoccupied EXCEPT !.pc = "audit", !.w = {w}, !.verdict = verdict])
    /\ UNCHANGED <<account, earning, withdrawal, entries, brokerageFaults>>

\* Mutant: the update without its condition.
AuditsAnyway(w) == TRUE
Auditable(w) == withdrawal[w].status = "auditing"
AuditFail == "auditFail"

AuditUpdate(p) ==
    \E w \in worker[p].w :
        /\ worker[p].pc = "audit"
        /\ IF ~Auditable(w)
           THEN Free(p) /\ UNCHANGED withdrawal
           ELSE \/ /\ worker[p].verdict = "approve"
                   /\ withdrawal' = [withdrawal EXCEPT ![w].status = "auditSuccess"]
                   /\ IF withdrawal[w].api THEN Free(p) ELSE Proceed(p, "paid")
                \/ /\ worker[p].verdict = "refuse"
                   /\ withdrawal' = [withdrawal EXCEPT ![w].status = AuditFail]
                   /\ Proceed(p, "giveBack")
        /\ UNCHANGED <<account, earning, entries, brokerageFaults>>

\* Bank account and payment code: paid out by hand.
WithdrawSuccess(p) ==
    \E w \in worker[p].w :
        /\ worker[p].pc = "paid"
        /\ withdrawal' = [withdrawal EXCEPT ![w].status = "withdrawSuccess"]
        /\ Free(p)
        /\ UNCHANGED <<account, earning, entries, brokerageFaults>>

\* The frozen price stays as it is, after a refusal and after a payment.
AddBrokerage(p) ==
    /\ worker[p].pc = "giveBack"
    /\ account' = [account EXCEPT !.price = @ + Payout]
    /\ Proceed(p, "back")
    /\ UNCHANGED <<earning, withdrawal, entries, brokerageFaults>>

RecordBack(p) ==
    \E w \in worker[p].w :
        /\ worker[p].pc = "back"
        /\ entries' = [entries EXCEPT !.back[w] = @ + 1]
        /\ Free(p)
        /\ UNCHANGED <<account, earning, withdrawal, brokerageFaults>>

\* An error or a crash; a withdrawal that is not committed is rolled back.
BrokerageFail(p) ==
    /\ worker[p].pc # "idle"
    /\ brokerageFaults < MaxBrokerageFaults /\ brokerageFaults' = brokerageFaults + 1
    /\ withdrawal' = [w \in Withdrawals |->
                        IF w \in worker[p].w /\ withdrawal[w].status = "none"
                        THEN [withdrawal[w] EXCEPT !.status = "rolledBack"] ELSE withdrawal[w]]
    /\ Free(p)
    /\ UNCHANGED <<account, earning, entries>>

BrokerageNext ==
    \E p \in Workers :
       \/ \E e \in Earnings : AddRecords(p, e)
       \/ Credit(p)
       \/ UnfreezeFind(p) \/ UnfreezeRecord(p) \/ MoveFrozen(p) \/ UnfreezeEnd(p)
       \/ \E w \in Withdrawals : \/ CreateWithdraw(p, w)
                                 \/ \E v \in {"approve", "refuse"} : AuditRead(p, w, v)
       \/ ReduceBrokerage(p) \/ RecordTaken(p) \/ CommitWithdraw(p)
       \/ AuditUpdate(p) \/ WithdrawSuccess(p) \/ AddBrokerage(p) \/ RecordBack(p)
       \/ BrokerageFail(p)

BrokerageSpec == BrokerageInit /\ [][BrokerageNext]_brokerageVars

-----------------------------------------------------------------------------
BrokerageTypeOK ==
    /\ account \in [price : Int, frozen : Int]
    /\ earning \in [Earnings -> {"none", "wait", "settled"}]
    /\ withdrawal \in [Withdrawals ->
          [status : {"none", "rolledBack", "auditing", "auditSuccess", "withdrawSuccess", "auditFail"},
           api : BOOLEAN]]
    /\ entries \in [taken : [Withdrawals -> Nat], back : [Withdrawals -> Nat]]
    /\ brokerageFaults \in 0..MaxBrokerageFaults
    /\ worker \in [Workers ->
          [pc : {"idle", "credit", "unfreeze", "move", "reduce", "taken", "commit", "audit", "paid",
                 "giveBack", "back"},
           list : SUBSET Earnings, frozen : BOOLEAN, w : SUBSET Withdrawals,
           verdict : {"none", "approve", "refuse"}]]

At(pc) == {p \in Workers : worker[p].pc = pc}
Of(status) == Cardinality({e \in Earnings : earning[e] = status})
Due(frozen) == Cardinality({p \in At("credit") : worker[p].frozen = frozen})
Taken == SumFunctionOnSet(entries.taken, Withdrawals) + Cardinality(At("taken"))
GivenBack == SumFunctionOnSet(entries.back, Withdrawals) + Cardinality(At("back"))

(* Without faults the records explain the account, whichever runs of the job *)
(* and requests overlap (record.go:567): each earning is unfrozen once, and  *)
(* what was ever withdrawn stays in the frozen price.                        *)
AccountExplained ==
    brokerageFaults = 0 =>
       LET moving == Cardinality(At("move")) IN
       /\ account.frozen = Share * (Of("wait") + moving - Due(TRUE)) + Payout * Taken
       /\ account.price = Share * (Of("settled") - moving - Due(FALSE)) + Payout * (GivenBack - Taken)

(* Faults or not, a withdrawal that can be decided was deducted, and none is *)
(* given back twice, or both paid out and given back (withdraw.go:85).      *)
PaidOrGivenBack ==
    \A w \in Withdrawals :
        LET pending == {p \in At("paid") : w \in worker[p].w}
            returning == {p \in At("giveBack") \cup At("back") : w \in worker[p].w}
            returned == entries.back[w] + Cardinality(returning) IN
        /\ withdrawal[w].status \notin {"none", "rolledBack"} => entries.taken[w] = 1
        /\ returned <= 1
        /\ returned = 1 => withdrawal[w].status = "auditFail" /\ pending = {}

(* Together: records, withdrawals and the account of the user tell one story. *)
BrokerageExplained == BrokerageTypeOK /\ AccountExplained /\ PaidOrGivenBack
=============================================================================
