------------------------------ MODULE SmsCode ------------------------------
(***************************************************************************)
(* The SMS codes of one mobile on one day                                   *)
(* (src/internal/service/system/sms_code.go): a script in Redis reserves    *)
(* the sending, the row is inserted, the message is sent, and a second      *)
(* script makes the code usable.  Codes are told apart by their row.        *)
(***************************************************************************)
EXTENDS Integers, FiniteSets

CONSTANTS Scenes,       \* login, reset of the password, ...
          Senders,      \* requests that send a code
          Guessers,     \* requests that enter one
          MaxPerDay,    \* SmsCodeMaxPerDay
          MaxCodes,     \* bound on the codes
          MaxSmsFaults  \* bound on errors, unconfirmed deliveries and crashes

ASSUME SmsAssumption == MaxPerDay \in Nat /\ MaxCodes \in Nat /\ MaxSmsFaults \in Nat

VARIABLES rate,       \* the nonce under the rate key; {}: it has expired
          daily,      \* the counter of the day
          stored,     \* the usable code of each scene
          code,       \* what became of each code, and its row's `used'
          smsFaults,  \* errors and crashes so far
          sender,     \* what each sending request does next
          guesser     \* the code each request has consumed and not marked

smsVars == <<rate, daily, stored, code, smsFaults, sender, guesser>>

Codes == 1..MaxCodes
Unsent == [scene |-> {}, delivered |-> FALSE, used |-> FALSE, read |-> 0, accepted |-> 0]
Silent == [pc |-> "idle", code |-> 0]

NewCode(n) == code[n].scene = {} /\ \A m \in 1..(n - 1) : code[m].scene # {}
Step(p, pc) == sender' = [sender EXCEPT ![p].pc = pc]
Finish(p) == sender' = [sender EXCEPT ![p] = Silent]

SmsInit ==
    /\ rate = {}
    /\ daily = 0
    /\ stored = [s \in Scenes |-> {}]
    /\ code = [n \in Codes |-> Unsent]
    /\ smsFaults = 0
    /\ sender = [p \in Senders |-> Silent]
    /\ guesser = [u \in Guessers |-> 0]

-----------------------------------------------------------------------------
BudgetLeft == daily < MaxPerDay

\* The script: rate key, counter, and the older code of the scene.
ReserveSmsCode(p, s, n) ==
    /\ sender[p].pc = "idle"
    /\ rate = {} /\ BudgetLeft
    /\ NewCode(n)
    /\ rate' = {n}
    /\ daily' = daily + 1
    /\ stored' = [stored EXCEPT ![s] = {}]
    /\ code' = [code EXCEPT ![n].scene = {s}]
    /\ sender' = [sender EXCEPT ![p] = [pc |-> "insert", code |-> n]]
    /\ UNCHANGED <<smsFaults, guesser>>

InsertRecord(p) ==
    /\ sender[p].pc = "insert"
    /\ Step(p, "send")
    /\ UNCHANGED <<rate, daily, stored, code, smsFaults, guesser>>

Send(p) ==
    /\ sender[p].pc = "send"
    /\ code' = [code EXCEPT ![sender[p].code].delivered = TRUE]
    /\ Step(p, "activate")
    /\ UNCHANGED <<rate, daily, stored, smsFaults, guesser>>

\* Mutant: whoever holds the rate key.
AnyReservation(n) == TRUE
StillReserved(n) == rate = {n}

ActivateSmsCode(p) ==
    /\ sender[p].pc = "activate"
    /\ \E s \in code[sender[p].code].scene :
          stored' = IF StillReserved(sender[p].code) THEN [stored EXCEPT ![s] = {sender[p].code}] ELSE stored
    /\ Finish(p)
    /\ UNCHANGED <<rate, daily, code, smsFaults, guesser>>

AfterFailure == daily

\* The message may have gone out although the request fails.
SenderFails(p) ==
    /\ sender[p].pc # "idle"
    /\ smsFaults < MaxSmsFaults /\ smsFaults' = smsFaults + 1
    /\ \E gone \in IF sender[p].pc = "send" THEN BOOLEAN ELSE {FALSE} :
          code' = [code EXCEPT ![sender[p].code].delivered = @ \/ gone]
    /\ daily' = AfterFailure
    /\ Finish(p)
    /\ UNCHANGED <<rate, stored, guesser>>

RateExpires ==
    /\ rate # {}
    /\ rate' = {}
    /\ UNCHANGED <<daily, stored, code, smsFaults, sender, guesser>>

CodeExpires(s) ==
    /\ stored[s] # {}
    /\ stored' = [stored EXCEPT ![s] = {}]
    /\ UNCHANGED <<rate, daily, code, smsFaults, sender, guesser>>

-----------------------------------------------------------------------------
(* UseSmsCode: GETDEL, compare, mark the row.                               *)

AfterRead(s) == {}

ReadCode(u, s, guess) ==
    /\ guesser[u] = 0
    /\ \E n \in stored[s] :
          /\ code' = [code EXCEPT ![n].read = @ + 1]
          /\ guesser' = [guesser EXCEPT ![u] = IF guess = n THEN n ELSE 0]
    /\ stored' = [stored EXCEPT ![s] = AfterRead(s)]
    /\ UNCHANGED <<rate, daily, smsFaults, sender>>

MarkUsed(u) ==
    LET n == guesser[u] IN
    /\ n # 0
    /\ IF code[n].used THEN UNCHANGED code
       ELSE code' = [code EXCEPT ![n].used = TRUE, ![n].accepted = @ + 1]
    /\ guesser' = [guesser EXCEPT ![u] = 0]
    /\ UNCHANGED <<rate, daily, stored, smsFaults, sender>>

\* The code is gone, and not accepted, or accepted without an answer.
GuesserFails(u) ==
    /\ guesser[u] # 0
    /\ smsFaults < MaxSmsFaults /\ smsFaults' = smsFaults + 1
    /\ \E written \in BOOLEAN : code' = [code EXCEPT ![guesser[u]].used = @ \/ written]
    /\ guesser' = [guesser EXCEPT ![u] = 0]
    /\ UNCHANGED <<rate, daily, stored, sender>>

SmsNext ==
    \/ \E p \in Senders : \/ \E s \in Scenes, n \in Codes : ReserveSmsCode(p, s, n)
                          \/ InsertRecord(p) \/ Send(p) \/ ActivateSmsCode(p) \/ SenderFails(p)
    \/ RateExpires
    \/ \E s \in Scenes : CodeExpires(s)
    \/ \E u \in Guessers : \/ \E s \in Scenes, guess \in 0..MaxCodes : ReadCode(u, s, guess)
                           \/ MarkUsed(u) \/ GuesserFails(u)

SmsSpec == SmsInit /\ [][SmsNext]_smsVars

-----------------------------------------------------------------------------
SmsTypeOK ==
    /\ rate \subseteq Codes
    /\ daily \in 0..MaxPerDay
    /\ stored \in [Scenes -> SUBSET Codes]
    /\ code \in [Codes -> [scene : SUBSET Scenes, delivered : BOOLEAN, used : BOOLEAN,
                           read : Nat, accepted : Nat]]
    /\ smsFaults \in 0..MaxSmsFaults
    /\ sender \in [Senders -> [pc : {"idle", "insert", "send", "activate"}, code : 0..MaxCodes]]
    /\ guesser \in [Guessers -> 0..MaxCodes]

(* A usable code has reached the member and is the latest of its scene,      *)
(* however long a sending takes and whoever reserves meanwhile (line 203).   *)
UsableIsLatest ==
    \A s \in Scenes : \A n \in stored[s] :
        /\ code[n].scene = {s} /\ code[n].delivered
        /\ \A m \in Codes : m > n => code[m].scene # {s}

(* A code is compared with one entry, a wrong one included, and accepted at  *)
(* most once, however many requests enter one at the same time (line 259).   *)
OneGuess == \A n \in Codes : code[n].read <= 1 /\ code[n].accepted <= code[n].read

(* Every message that reached the member counts against the limit of the     *)
(* day, failed requests included.                                           *)
DeliveriesCounted == Cardinality({n \in Codes : code[n].delivered}) <= daily

(* Together: a code is the latest, is guessed once, and its message counted. *)
CodeServesOnce == SmsTypeOK /\ UsableIsLatest /\ OneGuess /\ DeliveriesCounted
=============================================================================
