--------------------------- MODULE WalletCreation ---------------------------
(***************************************************************************)
(* GetOrCreateWallet (src/internal/service/pay/wallet/wallet.go): look,     *)
(* lock in Redis, look again, insert.  The table has no unique index, the   *)
(* lock lives five seconds, and whoever got it deletes the key at the end,  *)
(* whosever the key is by then.                                            *)
(***************************************************************************)
EXTENDS Integers, FiniteSets

CONSTANTS Visitors,      \* requests that need the wallet of one member
          MaxPolls,      \* how often a request without the lock looks again
          MaxHitches     \* bound on late holders, failing statements and crashes

ASSUME CreationAssumption == IsFiniteSet(Visitors) /\ MaxPolls \in Nat /\ MaxHitches \in Nat

VARIABLES wallets,   \* the member's rows in pay_wallet
          key,       \* who set the lock's key, which does not say so; {} if there is none
          overdue,   \* keys that expired before their holder was done
          failed,    \* second looks, inserts and processes that failed
          visitor    \* what each request does next

creationVars == <<wallets, key, overdue, failed, visitor>>

Absent == [pc |-> "find", polls |-> 0]
Visit(v, r) == visitor' = [visitor EXCEPT ![v] = r]
Then(v, pc) == Visit(v, [visitor[v] EXCEPT !.pc = pc])
Working(v) == visitor[v].pc \in {"again", "create", "unlock"}

CreationInit ==
    /\ wallets = 0
    /\ key = {}
    /\ overdue = 0
    /\ failed = 0
    /\ visitor = [v \in Visitors |-> Absent]

Mishap == failed + overdue < MaxHitches /\ failed' = failed + 1

FindWallet(v) ==
    /\ visitor[v].pc = "find" /\ wallets = 0
    /\ Then(v, "lock")
    /\ UNCHANGED <<wallets, key, overdue, failed>>

\* Mutant: SET instead of SETNX.
KeyIgnored == TRUE
KeyFree == key = {}

LockWallet(v) ==
    /\ visitor[v].pc = "lock"
    /\ IF KeyFree THEN key' = {v} /\ Then(v, "again")
                  ELSE Then(v, "poll") /\ UNCHANGED key
    /\ UNCHANGED <<wallets, overdue, failed>>

LooksAgain(v) == visitor[v].polls < MaxPolls

PollWallet(v) ==
    /\ visitor[v].pc = "poll"
    /\ Visit(v, IF wallets = 0 /\ LooksAgain(v) THEN [visitor[v] EXCEPT !.polls = @ + 1] ELSE Absent)
    /\ UNCHANGED <<wallets, key, overdue, failed>>

\* Any error of the second look is taken for "no wallet yet".
FindAgain(v) ==
    /\ visitor[v].pc = "again"
    /\ \/ Then(v, IF wallets > 0 THEN "unlock" ELSE "create") /\ UNCHANGED failed
       \/ Mishap /\ Then(v, "create")
    /\ UNCHANGED <<wallets, key, overdue>>

CreateWallet(v) ==
    /\ visitor[v].pc = "create"
    /\ \/ wallets' = wallets + 1 /\ UNCHANGED failed
       \/ Mishap /\ UNCHANGED wallets
    /\ Then(v, "unlock")
    /\ UNCHANGED <<key, overdue>>

\* Del without a look at the value: it may be the key of another request.
UnlockWallet(v) ==
    /\ visitor[v].pc = "unlock"
    /\ key' = {}
    /\ Visit(v, Absent)
    /\ UNCHANGED <<wallets, overdue, failed>>

KeyExpires ==
    /\ key # {}
    /\ key' = {}
    /\ \/ (\A v \in key : ~Working(v)) /\ UNCHANGED overdue
       \/ /\ \E v \in key : Working(v)
          /\ failed + overdue < MaxHitches /\ overdue' = overdue + 1
    /\ UNCHANGED <<wallets, failed, visitor>>

\* The process dies; its key stays until it expires.
VisitorDies(v) ==
    /\ Working(v)
    /\ Mishap
    /\ Visit(v, Absent)
    /\ UNCHANGED <<wallets, key, overdue>>

CreationNext ==
    \/ \E v \in Visitors : \/ FindWallet(v) \/ LockWallet(v) \/ PollWallet(v) \/ FindAgain(v)
                           \/ CreateWallet(v) \/ UnlockWallet(v) \/ VisitorDies(v)
    \/ KeyExpires

CreationSpec == CreationInit /\ [][CreationNext]_creationVars

-----------------------------------------------------------------------------
CreationTypeOK ==
    /\ wallets \in Nat
    /\ key \in SUBSET Visitors /\ Cardinality(key) <= 1
    /\ overdue \in Nat /\ failed \in Nat /\ overdue + failed <= MaxHitches
    /\ visitor \in [Visitors -> [pc : {"find", "lock", "poll", "again", "create", "unlock"},
                                 polls : 0..MaxPolls]]

(* A member gets a second wallet only if a holder of the lock was late or a  *)
(* statement failed, and each extra wallet takes one of them: that Del may   *)
(* remove the key of another request costs no more (wallet.go:74).          *)
ExtraWalletsExplained == wallets <= 1 + overdue + failed

(* Together with the types of the rows.                                     *)
WalletsExplained == CreationTypeOK /\ ExtraWalletsExplained
=============================================================================
