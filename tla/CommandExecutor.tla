-------------------------- MODULE CommandExecutor --------------------------
(***************************************************************************)
(* domain/executor.py: the funnel every command goes through, with the     *)
(* first synchronous stretch of the radio handlers (handlers.py), the      *)
(* session budgets and the CLI's approval port.  A step is what runs       *)
(* between two suspensions of execute(); audit.log() puts the event on an  *)
(* unbounded queue and never suspends.                                     *)
(***************************************************************************)
EXTENDS RiskAssessor, HackrfDriver

CONSTANTS Commands,              \* what the model may propose
          auto_approve_medium,   \* the CLI flag
          MAX_TX_SECONDS,        \* in IQ buffers; None when unset
          MAX_CAPTURE_SECONDS,   \* MAX_CAPTURE_MINUTES; None when unset
          MaxOverhead            \* bound: setup time charged on top of airtime

(* A command that no handler rejects moves some IQ, and an estimate, when  *)
(* there is one, is right: it is the size of the file that is sent.        *)
ASSUME CommandsAreCommands ==
  /\ Commands \subseteq Command
  /\ \A c \in Commands :
       /\ c.estimate \in {None, c.length}
       /\ c.valid /\ c.action = "transmit_iq" => c.center \in Nat /\ c.gain \in Int
       /\ c.valid /\ c.action = "capture_iq" =>
            c.duration \in Nat /\ (c.center = None) # (c.target = None)
       /\ c.valid /\ c.action = "sweep_spectrum_bulk" => c.ranges # None
       /\ c.valid => c.length > 0
ASSUME AutoApproveIsFlag == auto_approve_medium \in BOOLEAN
ASSUME BudgetsAreNumbers == {MAX_TX_SECONDS, MAX_CAPTURE_SECONDS} \subseteq Nat \cup {None}
ASSUME MaxOverheadIsNumber == MaxOverhead \in Nat

VARIABLES pc,              \* where the session is; see ChatSession for the REPL's values
          cmd,             \* the command in the funnel
          as_of,           \* list_active's "now"
          active_grants,   \* the rows it returned
          sweeps_left,     \* ranges a bulk sweep has still to receive
          tx_used, capture_used,     \* accumulated_seconds of the two budgets
          trail,           \* audit events of the command's trace, in order
          answered,        \* auxiliary: the operator approved this command
          assessed_at,     \* auxiliary: when its risk was assessed
          revoked_then,    \* auxiliary: the rows revoked when the table was read
          escaped          \* auxiliary: airtime that no budget check covered
budgetVars == <<tx_used, capture_used, escaped>>
commandVars == <<cmd, as_of, active_grants, answered, assessed_at, revoked_then>>
execVars == <<pc, sweeps_left, trail, commandVars, budgetVars>>

TypeExecutor ==
  /\ pc \in {"prompt", "thinking", "listing", "assessing", "approval",
             "offline", "radio", "exited", "terminated"}
  /\ cmd \in Commands \cup {None}
  /\ as_of \in Nat
  /\ active_grants \subseteq Grant
  /\ sweeps_left \in Nat
  /\ tx_used \in Nat /\ capture_used \in Int /\ escaped \in Nat
  /\ answered \in BOOLEAN
  /\ assessed_at \in Nat
  /\ revoked_then \subseteq Nat

InitExecutor ==
  /\ cmd = None
  /\ as_of = 0 /\ active_grants = {}
  /\ sweeps_left = 0
  /\ tx_used = 0 /\ capture_used = 0 /\ escaped = 0
  /\ trail = << >>
  /\ answered = FALSE /\ assessed_at = 0 /\ revoked_then = {}
-----------------------------------------------------------------------------
(* COMMAND_RECEIVED, up to the read of the grants table.                   *)
Receive(c) ==
  /\ pc = "thinking"
  /\ pc' = "listing"
  /\ cmd' = c
  /\ as_of' = clock
  /\ answered' = FALSE
  /\ trail' = <<"COMMAND_RECEIVED">>
  /\ UNCHANGED <<active_grants, assessed_at, revoked_then, sweeps_left, budgetVars,
                 driverVars, killVars, permVars>>

RevokedIds == {g.id : g \in {h \in grants : h.revoked_at # None}}

ListActive ==
  /\ pc = "listing"
  /\ pc' = "assessing"
  /\ active_grants' = ActiveAt(as_of)
  /\ revoked_then' = RevokedIds
  /\ UNCHANGED <<cmd, as_of, answered, assessed_at, sweeps_left, trail, budgetVars,
                 driverVars, killVars, permVars>>

risk == Assess(cmd, active_grants, clock)

(* A mutant: what has already been used is not added in. *)
OverCaptureBudget_Alone ==
  /\ cmd.action = "capture_iq"
  /\ cmd.duration # None
  /\ MAX_CAPTURE_SECONDS # None
  /\ cmd.duration > MAX_CAPTURE_SECONDS

OverCaptureBudget ==
  /\ cmd.action = "capture_iq"
  /\ cmd.duration # None
  /\ MAX_CAPTURE_SECONDS # None
  /\ capture_used + cmd.duration > MAX_CAPTURE_SECONDS

(* A mutant: what has already been used is not added in. *)
OverTxBudget_Alone ==
  /\ cmd.action = "transmit_iq"
  /\ MAX_TX_SECONDS # None
  /\ cmd.estimate # None
  /\ cmd.estimate > MAX_TX_SECONDS

OverTxBudget ==
  /\ cmd.action = "transmit_iq"
  /\ MAX_TX_SECONDS # None
  /\ cmd.estimate # None
  /\ tx_used + cmd.estimate > MAX_TX_SECONDS

Refused == OverCaptureBudget \/ OverTxBudget \/ risk.level = "BLOCKED"

(* CliApprovalPort.request returns True without asking.                    *)
AutoApproved == risk.level = "MEDIUM" /\ auto_approve_medium

(* execute() is left, and its locals are gone.                             *)
Leave(where) ==
  /\ pc' = where
  /\ cmd' = None
  /\ as_of' = 0 /\ assessed_at' = 0
  /\ active_grants' = {} /\ revoked_then' = {}
  /\ sweeps_left' = 0
  /\ answered' = FALSE

(* Over a session budget, or BLOCKED: no handler is called.                *)
Refuse ==
  /\ pc = "assessing"
  /\ Refused
  /\ Leave("thinking")
  /\ trail' = trail \o <<"RISK_ASSESSED", "BLOCKED">>
  /\ UNCHANGED <<budgetVars, driverVars, killVars, permVars>>

(* The verdict is not revised while the operator thinks.                   *)
AskOperator ==
  /\ pc = "assessing"
  /\ ~Refused
  /\ risk.requires_confirmation /\ ~AutoApproved
  /\ pc' = "approval"
  /\ trail' = trail \o <<"RISK_ASSESSED", "APPROVAL_REQUESTED">>
  /\ assessed_at' = clock
  /\ active_grants' = {}
  /\ UNCHANGED <<cmd, as_of, answered, revoked_then, sweeps_left, budgetVars,
                 driverVars, killVars, permVars>>

(* A mutant: the refusal leaves no row. *)
Deny_Unlogged ==
  /\ pc = "approval"
  /\ Leave("thinking")
  /\ UNCHANGED <<trail, budgetVars, driverVars, killVars, permVars>>

Deny ==
  /\ pc = "approval"
  /\ Leave("thinking")
  /\ trail' = Append(trail, "APPROVAL_DENIED")
  /\ UNCHANGED <<budgetVars, driverVars, killVars, permVars>>
-----------------------------------------------------------------------------
(* EXECUTED and the handler up to its first suspension; log is what the    *)
(* trail holds by then.  The handler's own checks or _check_stop() raise:  *)
(* RESULT, success=False.                                                  *)
DispatchFails(log) ==
  /\ cmd.action \in RadioActions
  /\ ~cmd.valid \/ stop_event
  /\ Leave("thinking")
  /\ trail' = log \o <<"EXECUTED", "RESULT">>
  /\ UNCHANGED driverVars

(* The handler has suspended; by_operator and at are when and by whom it   *)
(* was let through.                                                        *)
Dispatched(log, by_operator, at) ==
  /\ trail' = Append(log, "EXECUTED")
  /\ answered' = by_operator
  /\ assessed_at' = at
  /\ active_grants' = {}
  /\ UNCHANGED <<cmd, as_of, revoked_then>>

DispatchOffline ==
  /\ cmd.action \notin RadioActions
  /\ pc' = "offline"
  /\ UNCHANGED <<sweeps_left, driverVars>>

DispatchRadio ==
  /\ cmd.action \in RadioActions
  /\ cmd.valid /\ ~stop_event
  /\ pc' = "radio"
  /\ IF cmd.action = "transmit_iq"
     THEN BeginTx /\ UNCHANGED sweeps_left
     ELSE /\ BeginRx
          /\ sweeps_left' = IF cmd.action = "sweep_spectrum_bulk" THEN Len(cmd.ranges) ELSE 1

Dispatch(log, by_operator, at) ==
  /\ \/ DispatchFails(log)
     \/ (DispatchOffline \/ DispatchRadio) /\ Dispatched(log, by_operator, at)
  /\ UNCHANGED <<budgetVars, killVars, permVars>>

(* No operator: the tier is LOW, or the port approves MEDIUM by itself.    *)
Proceed ==
  /\ pc = "assessing"
  /\ ~Refused
  /\ risk.requires_confirmation => AutoApproved
  /\ Dispatch(trail \o (IF risk.requires_confirmation
                        THEN <<"RISK_ASSESSED", "APPROVAL_REQUESTED", "APPROVAL_GRANTED">>
                        ELSE <<"RISK_ASSESSED">>), FALSE, clock)

(* The "y" or CONFIRM of the operator.  Nothing is assessed again.         *)
Approve ==
  /\ pc = "approval"
  /\ Dispatch(Append(trail, "APPROVAL_GRANTED"), TRUE, assessed_at)
-----------------------------------------------------------------------------
Result ==
  /\ Leave("thinking")
  /\ trail' = Append(trail, "RESULT")

OfflineDone ==
  /\ pc = "offline"
  /\ Result
  /\ UNCHANGED <<budgetVars, driverVars, killVars, permVars>>

(* An exception that is neither a HackrfError nor a ValueError, OSError    *)
(* from a file or RuntimeError from libhackrf's set-up, leaves execute(),  *)
(* for its caller to deal with: no RESULT.                                 *)
OfflineEscapes(where) ==
  /\ pc = "offline"
  /\ Leave(where)
  /\ UNCHANGED <<trail, budgetVars, driverVars, killVars, permVars>>

(* The coroutine is out of the transfer without an answer: nothing is      *)
(* logged or charged.                                                      *)
Escapes(where, late) ==
  /\ Abandon(late, cmd.length)
  /\ Leave(where)
  /\ escaped' = escaped + sent
  /\ UNCHANGED <<trail, tx_used, capture_used, killVars, permVars>>

(* libhackrf's errors, before the try, in it, or in what a late start has  *)
(* set going; and the end of the finally clause, whoever called for it.    *)
TransferFails ==
  /\ pc = "radio"
  /\ transfer \in SetUp \/ (transfer \in Streaming /\ "start" \in left)
  /\ Unwind({})
  /\ UNCHANGED <<execVars, killVars, permVars>>

TransferEscapes(where) ==
  /\ pc = "radio"
  /\ \/ transfer \in SetUp \cup Unwinding
     \/ transfer = "storing" /\ cmd.action = "capture_iq"
  /\ Escapes(where, {})

(* transmit_iq comes back from the driver.  A killed one fails, and is not *)
(* charged for what it sent; one that went through is charged by the       *)
(* wall clock, set-up included.                                            *)
TxReturns ==
  /\ pc = "radio"
  /\ transfer = "tx_stopping"
  /\ TxDone
  /\ Result
  /\ escaped' = IF stop_event \/ cmd.estimate = None THEN escaped + sent ELSE escaped
  /\ IF stop_event
     THEN UNCHANGED tx_used
     ELSE \E overhead \in 0..MaxOverhead : tx_used' = tx_used + sent + overhead
  /\ UNCHANGED <<capture_used, killVars, permVars>>

(* The drain ended on the sentinel: KillSwitchTriggered.                   *)
RxKilled ==
  /\ pc = "radio"
  /\ transfer = "rx_stopping" /\ received < cmd.length
  /\ RxDone
  /\ Result
  /\ UNCHANGED <<budgetVars, killVars, permVars>>

(* A mutant: the stop event is not looked at between two sweeps. *)
NextSweep_Deaf ==
  /\ pc = "radio"
  /\ transfer = "storing"
  /\ sweeps_left > 1
  /\ BeginRx
  /\ sweeps_left' = sweeps_left - 1
  /\ UNCHANGED <<pc, trail, commandVars, budgetVars, killVars, permVars>>

(* The next range of a bulk sweep is a sweep_spectrum of its own, whose    *)
(* first act is _check_stop().                                             *)
NextSweep ==
  /\ pc = "radio"
  /\ transfer = "storing"
  /\ sweeps_left > 1
  /\ IF stop_event
     THEN RxDone /\ Result
     ELSE /\ BeginRx
          /\ sweeps_left' = sweeps_left - 1
          /\ UNCHANGED <<pc, trail, commandVars>>
  /\ UNCHANGED <<budgetVars, killVars, permVars>>

(* The file is written or the FFT done; a capture is charged the duration  *)
(* it asked for.                                                           *)
RxReturns ==
  /\ pc = "radio"
  /\ transfer = "storing"
  /\ sweeps_left <= 1
  /\ RxDone
  /\ Result
  /\ capture_used' = IF cmd.action = "capture_iq" /\ cmd.duration >= 0
                     THEN capture_used + cmd.duration ELSE capture_used
  /\ UNCHANGED <<tx_used, escaped, killVars, permVars>>

(* The task is cancelled: it goes to its finally clause, or, outside of    *)
(* the try or for a second time, it is gone at once.                       *)
TransferCancelled(where) ==
  /\ pc \in {"radio", "exited"}
  /\ \E late \in {{}, {"set_up"}, {"start"}, {"stop"}} :
       \/ Unwind(late) /\ UNCHANGED <<execVars, killVars, permVars>>
       \/ Escapes(where, late)

(* The worker threads' and the USB thread's own steps inside a transfer,   *)
(* and the coroutine's.                                                    *)
DeviceMoves ==
  \/ StartTx \/ TxCheck \/ TxHandOver(cmd.length) \/ TxEnd(cmd.length)
  \/ TxRaises \/ TxFlush \/ StartRx \/ RxCallback

DeviceRuns ==
  /\ pc \in {"radio", "exited"}
  /\ DeviceMoves
  /\ UNCHANGED <<execVars, killVars, permVars>>

CoroutineRuns ==
  /\ pc = "radio"
  /\ RxDrain(cmd.length) \/ RxStopped(cmd.length)
  /\ UNCHANGED <<execVars, killVars, permVars>>

(* What nobody waits for any more; a buffer of it is on nobody's account.  *)
LeftoversRun ==
  /\ LateCallReturns \/ CutOff \/ LateBuffer
  /\ escaped' = escaped + (on_air' - on_air)
  /\ UNCHANGED <<pc, sweeps_left, trail, commandVars, tx_used, capture_used,
                 killVars, permVars>>
-----------------------------------------------------------------------------
Transmitting == transfer \in TxStates

(* A callback that found the event down has a buffer to hand over yet.     *)
InFlight == (in_flight /\ sent < cmd.length) \/ "buffer" \in left

(* A row of the grants table that covers the command, was alive when the   *)
(* risk was assessed, and was not revoked when the table was read.         *)
BackedByGrant ==
  \E g \in grants :
    /\ CoversFrequency(g, cmd.center)
    /\ cmd.gain <= g.max_gain_db
    /\ g.expires_at > assessed_at
    /\ g.id \notin revoked_then

(* docs/safety.md: the radio transmits only off the blocked bands, and     *)
(* only what the operator approved, what --auto-approve-medium covers, or  *)
(* what a grant covers: the stored row, not the copy that was read.        *)
Authorised ==
  Transmitting =>
    /\ cmd.action = "transmit_iq"
    /\ ~is_blocked(cmd.center)
    /\ cmd.gain \in 0..MAX_TX_VGA_GAIN_DB
    /\ \/ answered
       \/ auto_approve_medium /\ is_in_ism(cmd.center) /\ cmd.gain <= MEDIUM_TX_VGA_GAIN_DB
       \/ BackedByGrant

(* MAX_TX_SECONDS and MAX_CAPTURE_MINUTES bound the session: the airtime   *)
(* of the transmissions that the pre-flight check could measure and that   *)
(* came to their end stays under the one, at every buffer sent and not     *)
(* only when the account is settled; the captures stay under the other.    *)
Unmeasured == IF Transmitting /\ cmd.estimate = None THEN sent ELSE 0

SessionBudgetsHold ==
  /\ MAX_TX_SECONDS # None => on_air <= MAX_TX_SECONDS + escaped + Unmeasured
  /\ MAX_CAPTURE_SECONDS # None => capture_used <= MAX_CAPTURE_SECONDS
=============================================================================
