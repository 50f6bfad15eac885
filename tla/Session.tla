------------------------------ MODULE Session ------------------------------
(***************************************************************************)
(* The sessions of one user in Redis                                        *)
(* (src/internal/service/system/oauth2_token.go): each grant is a pair of   *)
(* an access and a refresh token, each with a key of its own.               *)
(***************************************************************************)
EXTENDS Integers, FiniteSets

CONSTANTS Devices,   \* requests: login, refresh, logout
          MaxGrants  \* bound on the grants

ASSUME SessionAssumption == MaxGrants \in Nat

VARIABLES access,   \* grants whose access key exists
          refresh,  \* grants whose refresh key exists
          parent,   \* the grant each grant was refreshed from; 0: a login
          ended,    \* grants whose logout was answered
          device    \* what each request holds between two calls of Redis

sessionVars == <<access, refresh, parent, ended, device>>

Grants == 1..MaxGrants
NotIssued == -1
AtRest == [pc |-> "idle", grant |-> 0]

Enter(d, pc, g) == device' = [device EXCEPT ![d] = [pc |-> pc, grant |-> g]]
Leave(d) == device' = [device EXCEPT ![d] = AtRest]
NewGrant(g) == parent[g] = NotIssued /\ \A h \in 1..(g - 1) : parent[h] # NotIssued

SessionInit ==
    /\ access = {} /\ refresh = {}
    /\ parent = [g \in Grants |-> NotIssued]
    /\ ended = {}
    /\ device = [d \in Devices |-> AtRest]

\* setAccessTokenToRedis: both keys in one script.
CreateAccessToken(g, from) ==
    /\ NewGrant(g)
    /\ access' = access \cup {g} /\ refresh' = refresh \cup {g}
    /\ parent' = [parent EXCEPT ![g] = from]

Login(d, g) ==
    /\ device[d].pc = "idle"
    /\ CreateAccessToken(g, 0)
    /\ UNCHANGED <<ended, device>>

-----------------------------------------------------------------------------
(* RefreshToken: read the grant, look at the user, consume it, issue a new.  *)

GetRefreshToken(d, g) ==
    /\ device[d].pc = "idle"
    /\ g \in refresh
    /\ Enter(d, "consume", g)
    /\ UNCHANGED <<access, refresh, parent, ended>>

\* Mutant: consumed on the word of the earlier read.
ReadIsEnough(g) == TRUE
StillThere(g) == g \in refresh
RevokedAccess(g) == {g}

RefreshConsume(d) ==
    LET g == device[d].grant IN
    /\ device[d].pc = "consume"
    /\ IF StillThere(g)
       THEN /\ refresh' = refresh \ {g} /\ access' = access \ RevokedAccess(g)
            /\ Enter(d, "issue", g)
       ELSE Leave(d) /\ UNCHANGED <<access, refresh>>
    /\ UNCHANGED <<parent, ended>>

RefreshIssue(d, g) ==
    /\ device[d].pc = "issue"
    /\ CreateAccessToken(g, device[d].grant)
    /\ Leave(d)
    /\ UNCHANGED ended

-----------------------------------------------------------------------------
(* RemoveAccessToken.                                                       *)

GetAccessToken(d, g) ==
    /\ device[d].pc = "idle"
    /\ g \in access
    /\ Enter(d, "remove", g)
    /\ UNCHANGED <<access, refresh, parent, ended>>

RevokedRefresh(g) == {g}

RemoveAccessToken(d) ==
    LET g == device[d].grant IN
    /\ device[d].pc = "remove"
    /\ access' = access \ {g} /\ refresh' = refresh \ RevokedRefresh(g)
    /\ ended' = ended \cup {g}
    /\ Leave(d)
    /\ UNCHANGED parent

\* The access key has half the life of the refresh key.
AccessExpires(g) ==
    /\ g \in access
    /\ access' = access \ {g}
    /\ UNCHANGED <<refresh, parent, ended, device>>

RefreshExpires(g) ==
    /\ g \in refresh \ access
    /\ refresh' = refresh \ {g}
    /\ UNCHANGED <<access, parent, ended, device>>

\* A failed call of Redis, a disabled user, a crash.
DeviceFails(d) ==
    /\ device[d].pc # "idle"
    /\ Leave(d)
    /\ UNCHANGED <<access, refresh, parent, ended>>

SessionNext ==
    \E g \in Grants :
       \/ \E d \in Devices : \/ Login(d, g) \/ GetRefreshToken(d, g) \/ RefreshIssue(d, g)
                             \/ GetAccessToken(d, g)
       \/ AccessExpires(g) \/ RefreshExpires(g)
    \/ \E d \in Devices : RefreshConsume(d) \/ RemoveAccessToken(d) \/ DeviceFails(d)

SessionSpec == SessionInit /\ [][SessionNext]_sessionVars

-----------------------------------------------------------------------------
SessionTypeOK ==
    /\ access \subseteq Grants /\ refresh \subseteq Grants /\ ended \subseteq Grants
    /\ parent \in [Grants -> NotIssued..MaxGrants]
    /\ device \in [Devices -> [pc : {"idle", "consume", "issue", "remove"}, grant : 0..MaxGrants]]

(* A refresh token yields one new session, however many requests present it  *)
(* at a time, and its own session has ended by then.                        *)
OneSuccessor ==
    \A g, h \in Grants :
        parent[h] > 0 => /\ parent[h] \notin access \cup refresh
                         /\ g # h => parent[g] # parent[h]

(* Both keys of a grant come and go together, but for the access key that    *)
(* expires first: no access token lives without its refresh token.          *)
NoLoneAccess == access \subseteq refresh

(* What a logout has ended stays ended: a refresh that overlaps it yields a   *)
(* new session, or nothing, and never the old one.                          *)
EndedStaysEnded == ended \cap (access \cup refresh) = {}

(* Together: a session has one successor, and ends with both its keys.       *)
SessionEndsOnce == SessionTypeOK /\ OneSuccessor /\ NoLoneAccess /\ EndedStaysEnded
=============================================================================
