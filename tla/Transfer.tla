------------------------------ MODULE Transfer ------------------------------
(***************************************************************************)
(* One transfer to a member, which its WeChat channel keeps under the same  *)
(* number for every attempt (src/internal/service/pay/transfer.go).         *)
(*                                                                         *)
(* Rows are left by an earlier system: CreateTransfer looks for one of the  *)
(* withdrawal with First, takes "record not found" for an error, and so     *)
(* inserts none; a closed one it sends again.                              *)
(***************************************************************************)
EXTENDS Integers

CONSTANTS Calls,             \* notifications, queries of the job, repeated requests
          MaxSends,          \* bound on the repeated requests
          MaxTransferFaults  \* bound on errors, lost answers and crashes

ASSUME TransferAssumption == MaxSends \in Nat /\ MaxTransferFaults \in Nat

VARIABLES transfer,        \* status of the row of pay_transfer
          batch,           \* the channel's record of the number
          announced,       \* pay_notify_task rows of type TRANSFER
          sends,           \* repeated requests so far
          transferFaults,  \* errors, lost answers and crashes so far
          call             \* what each request holds between two statements

transferVars == <<transfer, batch, announced, sends, transferFaults, call>>

TransferOpen == {"waiting", "processing"}
TransferEnd == {"success", "closed"}
Hung == [pc |-> "idle", status |-> "none"]

Dial(c, r) == call' = [call EXCEPT ![c] = r]
HangUp(c) == Dial(c, Hung)

\* The row as its last owner left it: not sent, sent, or ended and announced.
TransferInit ==
    /\ \/ transfer \in TransferOpen /\ batch \in {"processing", "success", "closed"} /\ announced = 0
       \/ transfer = "waiting" /\ batch = "none" /\ announced = 0
       \/ transfer = "closed" /\ batch \in {"none", "closed"} /\ announced = 1
    /\ sends = 0
    /\ transferFaults = 0
    /\ call = [c \in Calls |-> Hung]

-----------------------------------------------------------------------------
(* CreateTransfer of a withdrawal that is audited again: the row is not set *)
(* to WAITING, which is 0 and left out of an update by a struct.            *)

ResendRead(c) ==
    /\ call[c].pc = "idle" /\ sends < MaxSends
    /\ transfer = "closed"
    /\ sends' = sends + 1
    /\ Dial(c, [pc |-> "send", status |-> "none"])
    /\ UNCHANGED <<transfer, batch, announced, transferFaults>>

\* A number whose batch has ended is an error there, read as CLOSED.
UnifiedTransfer(c) ==
    /\ call[c].pc = "send"
    /\ \/ /\ batch \in {"none", "processing"} /\ batch' = "processing"
          /\ Dial(c, [pc |-> "notify", status |-> "processing"])
       \/ /\ batch \in TransferEnd /\ UNCHANGED batch
          /\ Dial(c, [pc |-> "notify", status |-> "closed"])
    /\ UNCHANGED <<transfer, announced, sends, transferFaults>>

\* The request was refused, or its answer is lost after it was accepted.
SendFails(c) ==
    /\ call[c].pc = "send"
    /\ transferFaults < MaxTransferFaults /\ transferFaults' = transferFaults + 1
    /\ batch' \in IF batch = "none" THEN {"none", "processing"} ELSE {batch}
    /\ Dial(c, [pc |-> "notify", status |-> "closed"])
    /\ UNCHANGED <<transfer, announced, sends>>

BatchEnds ==
    /\ batch = "processing"
    /\ batch' \in TransferEnd
    /\ UNCHANGED <<transfer, announced, sends, transferFaults, call>>

-----------------------------------------------------------------------------
(* NotifyTransfer, for a callback, which comes any number of times and late, *)
(* and for SyncTransfer's query of an open row.                             *)

TransferCallback(c) ==
    /\ call[c].pc = "idle" /\ batch # "none"
    /\ \E s \in {batch, "processing"} : Dial(c, [pc |-> "notify", status |-> s])
    /\ UNCHANGED <<transfer, batch, announced, sends, transferFaults>>

SyncRead(c) ==
    /\ call[c].pc = "idle" /\ transfer \in TransferOpen
    /\ Dial(c, [pc |-> "query", status |-> "none"])
    /\ UNCHANGED <<transfer, batch, announced, sends, transferFaults>>

Unknown == batch = "none"
BatchStatus == batch

GetTransfer(c) ==
    /\ call[c].pc = "query"
    /\ IF Unknown THEN HangUp(c) ELSE Dial(c, [pc |-> "notify", status |-> BatchStatus])
    /\ UNCHANGED <<transfer, batch, announced, sends, transferFaults>>

\* The statuses a row may have when it is given this one.
From(status) == IF status = "processing" THEN {"waiting"} ELSE TransferOpen

NotifyTransferRead(c) ==
    /\ call[c].pc = "notify"
    /\ IF transfer \in From(call[c].status) THEN Dial(c, [call[c] EXCEPT !.pc = "update"]) ELSE HangUp(c)
    /\ UNCHANGED <<transfer, batch, announced, sends, transferFaults>>

\* Mutant: the update by id alone.
AnyStatus(status) == TRUE
MayBecome(status) == transfer \in From(status)
TaskFor(status) == IF status \in TransferEnd THEN {1} ELSE {0}

\* One transaction: the row and the task of the merchant.
NotifyTransferUpdate(c) ==
    /\ call[c].pc = "update"
    /\ IF MayBecome(call[c].status)
       THEN /\ transfer' = call[c].status
            /\ \E n \in TaskFor(call[c].status) : announced' = announced + n
       ELSE UNCHANGED <<transfer, announced>>
    /\ HangUp(c)
    /\ UNCHANGED <<batch, sends, transferFaults>>

TransferFail(c) ==
    /\ call[c].pc # "idle"
    /\ transferFaults < MaxTransferFaults /\ transferFaults' = transferFaults + 1
    /\ HangUp(c)
    /\ UNCHANGED <<transfer, batch, announced, sends>>

TransferNext ==
    \/ \E c \in Calls : \/ ResendRead(c) \/ UnifiedTransfer(c) \/ SendFails(c)
                        \/ TransferCallback(c) \/ SyncRead(c) \/ GetTransfer(c)
                        \/ NotifyTransferRead(c) \/ NotifyTransferUpdate(c)
                        \/ TransferFail(c)
    \/ BatchEnds

TransferSpec == TransferInit /\ [][TransferNext]_transferVars

\* A request goes on, and the job polls the open rows again and again.
TransferFairSpec ==
    /\ TransferSpec
    /\ \A c \in Calls :
          /\ WF_transferVars(UnifiedTransfer(c) \/ GetTransfer(c) \/ NotifyTransferRead(c)
                             \/ NotifyTransferUpdate(c))
          /\ SF_transferVars(SyncRead(c))

-----------------------------------------------------------------------------
TransferTypeOK ==
    /\ transfer \in TransferOpen \cup TransferEnd
    /\ batch \in {"none", "processing", "success", "closed"}
    /\ announced \in Nat
    /\ sends \in 0..MaxSends
    /\ transferFaults \in 0..MaxTransferFaults
    /\ call \in [Calls -> [pc : {"idle", "send", "query", "notify", "update"},
                           status : {"none", "processing", "success", "closed"}]]

(* The end of a transfer is announced to the merchant, once for each attempt *)
(* at the most: row and task commit together however callbacks and queries   *)
(* overlap (transfer.go:366).                                               *)
EndAnnounced == announced \in IF transfer \in TransferEnd THEN 1 .. sends + 1 ELSE 0 .. sends

(* The row says SUCCESS only if the channel paid, and PROCESSING only while *)
(* it has the order, although each answer is old when it is written.        *)
TransferIsBacked == /\ transfer = "success" => batch = "success"
                    /\ transfer = "processing" => batch # "none"

(* Together: the row is backed by the channel and told to the merchant.      *)
OutcomeRecorded == TransferTypeOK /\ EndAnnounced /\ TransferIsBacked

(* This holds at first and after every step, and no late answer or repeated  *)
(* request takes a SUCCESS back.                                            *)
TransferExplained ==
    /\ OutcomeRecorded
    /\ [][/\ OutcomeRecorded'
          /\ transfer = "success" => transfer' = "success"]_transferVars

(* That the channel paid is learnt by the later polling (transfer.go:250),    *)
(* since a closed transfer is set to WAITING before it is sent again          *)
(* (transfer.go:227).                                                       *)
PaidIsLearnt == batch = "success" ~> transfer = "success"
=============================================================================
