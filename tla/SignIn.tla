------------------------------- MODULE SignIn -------------------------------
(***************************************************************************)
(* The daily sign-in of one member                                          *)
(* (src/internal/service/member/signin_record.go, point.go, level.go): the   *)
(* record in a transaction, the points in another one and the experience in *)
(* a third, which commit while the first is still open.                     *)
(***************************************************************************)
EXTENDS Integers, FiniteSets

CONSTANTS Signers,          \* requests of the member
          ConfigDays,       \* the days the rewards are configured for
          LastDate,         \* bound on the days that pass
          MaxSignIns,       \* bound on the inserts
          MaxSignInFaults   \* bound on failed statements and crashes, and on failed looks

ASSUME SignInAssumption ==
    /\ IsFiniteSet(Signers) /\ ConfigDays \in Nat \ {0} /\ LastDate \in Nat \ {0}
    /\ MaxSignIns \in Nat /\ MaxSignInFaults \in Nat

VARIABLES today,         \* the date
          sign,          \* sign-in records, open ones included, by id
          points,        \* rewards in the member's points
          experience,    \* rewards in the member's experience
          signInFaults,  \* faults so far
          failedLooks,   \* failed reads of the last record so far
          signer         \* what each request holds between two statements

signInVars == <<today, sign, points, experience, signInFaults, failedLooks, signer>>

SignIds == 1..MaxSignIns
NoSignIn == [status |-> "none", date |-> 0, day |-> 0]
Committed == {n \in SignIds : sign[n].status = "done"}

Asleep == [pc |-> "idle", day |-> 0, read |-> 0, saw |-> {}, blind |-> FALSE,
           id |-> 0, exp |-> 0]
Wake(p, l) == signer' = [signer EXCEPT ![p] = l]
GoOn(p, pc) == Wake(p, [signer[p] EXCEPT !.pc = pc])

SignInInit ==
    /\ today = 1
    /\ sign = [n \in SignIds |-> NoSignIn]
    /\ points = 0 /\ experience = 0 /\ signInFaults = 0 /\ failedLooks = 0
    /\ signer = [p \in Signers |-> Asleep]

Midnight ==
    /\ today < LastDate
    /\ today' = today + 1
    /\ UNCHANGED <<sign, points, experience, signInFaults, failedLooks, signer>>

\* The last record by id; a member without one has signed in on day 0 of no date.
LastRecord == IF Committed = {} THEN NoSignIn
              ELSE sign[CHOOSE n \in Committed : \A m \in Committed : m <= n]

\* Mutant: no look at the date.
SignedLongAgo == TRUE
NotSignedToday == LastRecord.date # today

\* The streak starts again when a day was missed, or behind the last reward.
NextDay == IF Committed # {} /\ LastRecord.date = today - 1 /\ LastRecord.day < ConfigDays
           THEN LastRecord.day + 1 ELSE 1

\* saw and blind are history: what there was to see, and whether the look failed.
Looks(p, day, blind) ==
    Wake(p, [Asleep EXCEPT !.pc = "insert", !.day = day, !.read = today, !.saw = Committed, !.blind = blind])

CheckSignedIn(p) ==
    /\ signer[p].pc = "idle"
    /\ NotSignedToday
    /\ Looks(p, NextDay, FALSE)
    /\ UNCHANGED <<today, sign, points, experience, signInFaults, failedLooks>>

\* An error of this read is dropped: the member has never signed in.
LookFails(p) ==
    /\ signer[p].pc = "idle" /\ failedLooks < MaxSignInFaults
    /\ failedLooks' = failedLooks + 1
    /\ Looks(p, 1, TRUE)
    /\ UNCHANGED <<today, sign, points, experience, signInFaults>>

InsertSignIn(p, n) ==
    /\ signer[p].pc = "insert"
    /\ sign[n].status = "none" /\ \A m \in 1..(n - 1) : sign[m].status # "none"
    /\ sign' = [sign EXCEPT ![n] = [status |-> "open", date |-> today, day |-> signer[p].day]]
    /\ Wake(p, [signer[p] EXCEPT !.pc = "points", !.id = n])
    /\ UNCHANGED <<today, points, experience, signInFaults, failedLooks>>

\* CreatePointRecord finds no transaction in its context, and commits its own.
CreatePointRecord(p) ==
    /\ signer[p].pc = "points"
    /\ points' = points + 1
    /\ GoOn(p, "experience")
    /\ UNCHANGED <<today, sign, experience, signInFaults, failedLooks>>

AddExperience(p) ==
    /\ signer[p].pc = "experience"
    /\ Wake(p, [signer[p] EXCEPT !.pc = "write", !.exp = experience])
    /\ UNCHANGED <<today, sign, points, experience, signInFaults, failedLooks>>

\* The sum is written by value; the level follows from it in the same statement.
WriteExperience(p) ==
    /\ signer[p].pc = "write"
    /\ experience' = signer[p].exp + 1
    /\ GoOn(p, "commit")
    /\ UNCHANGED <<today, sign, points, signInFaults, failedLooks>>

Ended(p, status) ==
    /\ sign' = [n \in SignIds |-> IF n = signer[p].id THEN [sign[n] EXCEPT !.status = status] ELSE sign[n]]
    /\ Wake(p, Asleep)

CommitSignIn(p) ==
    /\ signer[p].pc = "commit"
    /\ Ended(p, "done")
    /\ UNCHANGED <<today, points, experience, signInFaults, failedLooks>>

\* The record is rolled back, and only the record.
SignInFails(p) ==
    /\ signer[p].pc # "idle" /\ signInFaults < MaxSignInFaults
    /\ signInFaults' = signInFaults + 1
    /\ Ended(p, "rolledBack")
    /\ UNCHANGED <<today, points, experience, failedLooks>>

SignInNext ==
    \/ Midnight
    \/ \E p \in Signers :
          \/ CheckSignedIn(p) \/ LookFails(p)
          \/ CreatePointRecord(p) \/ AddExperience(p) \/ WriteExperience(p)
          \/ CommitSignIn(p) \/ SignInFails(p)
          \/ \E n \in SignIds : InsertSignIn(p, n)

SignInSpec == SignInInit /\ [][SignInNext]_signInVars

-----------------------------------------------------------------------------
SignInTypeOK ==
    /\ today \in 1..LastDate
    /\ sign \in [SignIds -> [status : {"none", "open", "done", "rolledBack"}, date : 0..LastDate,
                             day : 0..ConfigDays]]
    /\ points \in Nat /\ experience \in Nat
    /\ signInFaults \in 0..MaxSignInFaults /\ failedLooks \in 0..MaxSignInFaults
    /\ signer \in [Signers -> [pc : {"idle", "insert", "points", "experience", "write", "commit"},
                               day : 0..ConfigDays, read : 0..LastDate, saw : SUBSET SignIds,
                               blind : BOOLEAN, id : 0..MaxSignIns, exp : Nat]]

Rewarded == {p \in Signers : signer[p].pc \in {"experience", "write", "commit"}}

(* Every sign-in has its reward once, and a reward without a sign-in costs a *)
(* fault: the points were committed and the record was not (line 170).      *)
RewardsExplained ==
    LET earned == Cardinality(Committed) + Cardinality(Rewarded) IN
    points \in earned..(earned + signInFaults)

(* The experience never runs ahead of the points, although two requests can  *)
(* write over each other's sum (level.go:296), and is never less than one    *)
(* reward once a request has written it.                                    *)
ExperienceFollowsPoints == /\ experience <= points
                           /\ Committed # {} => experience >= 1

(* A second reward of the same date goes to a request that looked before the *)
(* first was committed (line 121), or whose look failed (line 117).          *)
SecondIsBlind ==
    \A p \in Signers : signer[p].id # 0 /\ ~signer[p].blind =>
       \A n \in signer[p].saw : sign[n].date # sign[signer[p].id].date

(* A streak is a streak: the record of a later day stands on one of the day  *)
(* before, unless midnight passed between look and insert; and a member whose *)
(* last record is of the day before goes on from it up to the last reward,   *)
(* unless the look failed.                                                  *)
StreakIsBacked ==
    \A p \in Signers :
       LET l == signer[p] IN
       /\ l.day > 1 => \E n \in l.saw : sign[n].date = l.read - 1 /\ sign[n].day = l.day - 1
       /\ l.id # 0 => sign[l.id].day = l.day /\ sign[l.id].date >= l.read
       /\ ~l.blind => \A n \in l.saw : (\A m \in l.saw : m <= n) =>
             (sign[n].date = l.read - 1 /\ sign[n].day < ConfigDays => l.day = sign[n].day + 1)

(* Together: records, points and experience tell one story.                 *)
SignInExplained ==
    SignInTypeOK /\ RewardsExplained /\ ExperienceFollowsPoints /\ SecondIsBlind /\ StreakIsBacked
=============================================================================
