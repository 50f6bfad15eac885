------------------------------ MODULE Promoters ------------------------------
(***************************************************************************)
(* Who promotes whom (src/internal/service/mall/trade/brokerage/user.go):    *)
(* a member is bound to a promoter by himself or by an administrator, after *)
(* a walk up the chain of promoters that reads one row at a time.           *)
(***************************************************************************)
EXTENDS Integers

CONSTANTS People,     \* members
          Binders,    \* requests
          MaxHops,    \* rows a walk reads at most
          MaxBinds    \* bound on the requests begun

ASSUME PromotersAssumption == MaxHops \in Nat /\ MaxBinds \in Nat

VARIABLES promoter,   \* the rows: whether there, allowed to promote, and bound to whom
          everyone,   \* the configuration lets everyone promote
          raced,      \* history: a row changed between its reading by a walk and the write
          binds,      \* requests begun
          binder      \* what each request holds between two statements

promotersVars == <<promoter, everyone, raced, binds, binder>>

NoRow == [exists |-> FALSE, enabled |-> FALSE, by |-> {}]
NoBind == [pc |-> "idle", kind |-> "bind", user |-> {}, to |-> {}, cur |-> {}, hops |-> 0,
           insert |-> FALSE, seen |-> {}, stale |-> FALSE]
Become(c, l) == binder' = [binder EXCEPT ![c] = l]

PromotersInit ==
    /\ promoter = [u \in People |-> NoRow]
    /\ everyone \in BOOLEAN
    /\ raced = FALSE /\ binds = 0
    /\ binder = [c \in Binders |-> NoBind]

\* A row is written: the walks that have read it go on with what they saw.
Write(u, row) == promoter' = [promoter EXCEPT ![u] = row]
NowStale(u, l) == [l EXCEPT !.stale = @ \/ u \in l.seen]
WriteBy(c, u, row, l) ==
    /\ Write(u, row)
    /\ binder' = [d \in Binders |-> IF d = c THEN l
                                    ELSE IF row = promoter[u] THEN binder[d] ELSE NowStale(u, binder[d])]

\* BindBrokerageUser changes no binding, UpdateBrokerageUserId an existing row, CreateBrokerageUser adds one.
MayStart(kind, u, to) ==
    CASE kind = "bind" -> promoter[u].by = {}
      [] kind = "change" -> promoter[u].exists /\ promoter[u].by # to
      [] kind = "create" -> ~promoter[u].exists

\* Without a promoter there is no chain to look at.
StartBind(c, kind, u, to) ==
    /\ binder[c].pc = "idle" /\ binds < MaxBinds
    /\ MayStart(kind, u, to)
    /\ binds' = binds + 1
    /\ Become(c, [NoBind EXCEPT !.pc = IF to = {} THEN "write" ELSE "look", !.kind = kind,
                                !.user = {u}, !.to = to, !.insert = ~promoter[u].exists])
    /\ UNCHANGED <<promoter, everyone, raced>>

\* Up to the first row of the chain: the promoter may promote, and is not the user.
Walked(c, v, row) ==
    LET l == binder[c] IN
    IF ~row.enabled \/ l.user = {v} THEN NoBind
    ELSE [l EXCEPT !.pc = "walk", !.cur = row.by, !.seen = {v}]

\* GetOrCreateBrokerageUser: where everyone may promote, the row is made on the way.
LookPromoter(c, v) ==
    /\ binder[c].pc = "look" /\ binder[c].to = {v}
    /\ IF promoter[v].exists \/ ~everyone
       THEN Become(c, Walked(c, v, promoter[v])) /\ UNCHANGED promoter
       ELSE LET row == [NoRow EXCEPT !.exists = TRUE, !.enabled = TRUE] IN
            WriteBy(c, v, row, Walked(c, v, row))
    /\ UNCHANGED <<everyone, raced, binds>>

\* Mutant: only the first promoter is compared with the user.
FirstOnly(l) == l.cur = l.user /\ l.hops = 0
IsLoop(l) == l.cur = l.user

WalkUp(c) ==
    LET l == binder[c] IN
    /\ l.pc = "walk"
    /\ \/ /\ l.cur = {} \/ l.hops = MaxHops
          /\ Become(c, [l EXCEPT !.pc = "write"])
       \/ /\ l.cur # {} /\ l.hops < MaxHops /\ IsLoop(l)
          /\ Become(c, NoBind)
       \/ \E u \in l.cur :
             /\ l.hops < MaxHops /\ ~IsLoop(l)
             /\ Become(c, IF promoter[u].exists
                          THEN [l EXCEPT !.cur = promoter[u].by, !.hops = @ + 1, !.seen = @ \cup {u}]
                          ELSE [l EXCEPT !.pc = "write", !.seen = @ \cup {u}])
    /\ UNCHANGED <<promoter, everyone, raced, binds>>

\* One statement: an insert, which a second one's key refuses, or an update by id.
BindUser(c, u) ==
    LET l == binder[c] IN
    /\ l.pc = "write" /\ l.user = {u}
    /\ IF l.insert /\ promoter[u].exists
       THEN Become(c, NoBind) /\ UNCHANGED <<promoter, raced>>
       ELSE /\ WriteBy(c, u, [exists |-> TRUE, by |-> l.to,
                              enabled |-> IF l.insert THEN l.kind = "bind" /\ everyone
                                          ELSE promoter[u].enabled], NoBind)
            /\ raced' = (raced \/ l.stale)
    /\ UNCHANGED <<everyone, binds>>

UpdateBrokerageUserEnabled(u, enabled) ==
    /\ promoter[u].exists /\ promoter[u].enabled # enabled
    /\ Write(u, [promoter[u] EXCEPT !.enabled = enabled])
    /\ UNCHANGED <<everyone, raced, binds, binder>>

\* A statement fails, the process dies, or a configuration read refuses the bind.
BinderFails(c) ==
    /\ binder[c].pc # "idle"
    /\ Become(c, NoBind)
    /\ UNCHANGED <<promoter, everyone, raced, binds>>

PromotersNext ==
    \/ \E c \in Binders :
          \/ \E kind \in {"bind", "change", "create"}, u \in People, to \in {{}} \cup {{v} : v \in People} :
                StartBind(c, kind, u, to)
          \/ \E u \in People : LookPromoter(c, u) \/ BindUser(c, u)
          \/ WalkUp(c) \/ BinderFails(c)
    \/ \E u \in People, enabled \in BOOLEAN : UpdateBrokerageUserEnabled(u, enabled)

PromotersSpec == PromotersInit /\ [][PromotersNext]_promotersVars

-----------------------------------------------------------------------------
PromotersTypeOK ==
    /\ promoter \in [People -> [exists : BOOLEAN, enabled : BOOLEAN, by : SUBSET People]]
    /\ everyone \in BOOLEAN /\ raced \in BOOLEAN
    /\ binds \in 0..MaxBinds
    /\ binder \in [Binders -> [pc : {"idle", "look", "walk", "write"}, kind : {"bind", "change", "create"},
                               user : SUBSET People, to : SUBSET People, cur : SUBSET People,
                               hops : 0..MaxHops, insert : BOOLEAN, seen : SUBSET People, stale : BOOLEAN]]

(* No chain of promoters comes back to its start, unless a bind was written  *)
(* although a row of the chain had changed since its walk read it (line     *)
(* 386): without that, the walk of each request is as good as a check of    *)
(* the whole tree at the moment of the write.  Without a cycle, each group  *)
(* of members has one whose promoter is not in it.                          *)
CyclesAreRaced ==
    raced \/ \A U \in SUBSET People : U # {} => \E u \in U : promoter[u].by \cap U = {}

(* Nobody promotes himself, raced or not, and every promoter has a row.     *)
PromotersExist ==
    \A u, v \in People : v \in promoter[u].by => v # u /\ promoter[v].exists /\ promoter[u].exists

(* Together: the promoters form trees.                                      *)
ChainsEnd == PromotersTypeOK /\ CyclesAreRaced /\ PromotersExist
=============================================================================
