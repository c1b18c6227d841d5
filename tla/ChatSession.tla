----------------------------- MODULE ChatSession -----------------------------
(***************************************************************************)
(* `hackrf-agent chat` (cli/chat_cmd.py): the REPL, the agent's turn, the  *)
(* executor, the driver, the kill switch and the grants table together,    *)
(* with the operator's Ctrl-C, a second terminal that grants and revokes,  *)
(* and the clock.                                                          *)
(***************************************************************************)
EXTENDS AnyHost

CONSTANTS MaxTurns,                  \* bound: lines typed at the prompt
          max_commands_per_turn      \* what the agent's cap on tool calls comes to

ASSUME TurnBounds == MaxTurns \in Nat /\ max_commands_per_turn \in Nat

VARIABLES turns, calls,   \* lines typed; commands of this turn
          reader,         \* the worker thread a hard exit left blocked in a read
          halted          \* auxiliary: Ctrl-C since this turn began
replVars == <<turns, calls, reader, halted>>
vars == <<grants, clock, stop_event, last_press, revoking, transfer, sent, in_flight,
          received, queued, sentinel, left, on_air, pc, cmd, as_of, active_grants,
          sweeps_left, tx_used, capture_used, trail, answered, assessed_at,
          revoked_then, escaped, turns, calls, reader, halted>>

Init ==
  /\ InitPermissions /\ InitKillSwitch /\ InitDriver /\ InitExecutor
  /\ pc = "prompt"
  /\ turns = 0 /\ calls = 0
  /\ reader = "none"
  /\ halted = FALSE
-----------------------------------------------------------------------------
(* "fresh turn - clear any prior kill flag", whatever became of the revoke *)
(* task that flag's press spawned.                                         *)
NewTurn ==
  /\ pc = "prompt"
  /\ turns < MaxTurns
  /\ pc' = "thinking"
  /\ turns' = turns + 1
  /\ calls' = 0
  /\ stop_event' = FALSE
  /\ halted' = FALSE
  /\ UNCHANGED <<reader, last_press, revoking, cmd, as_of, active_grants,
                 answered, assessed_at, revoked_then, sweeps_left, trail, budgetVars,
                 driverVars, permVars>>

(* One command: a tool call, or a step of one that is a play_sequence (see *)
(* the module PlaySequence).                                               *)
Submit ==
  /\ calls < max_commands_per_turn
  /\ \E c \in Commands : Receive(c)
  /\ calls' = calls + 1
  /\ UNCHANGED <<turns, reader, halted>>

(* end_turn, refusal, an LLM failure or the cap on tool calls.             *)
EndTurn ==
  /\ pc = "thinking"
  /\ pc' = "prompt"
  /\ UNCHANGED <<sweeps_left, trail, commandVars, budgetVars, driverVars, killVars,
                 permVars, replVars>>

Quit ==
  /\ pc = "prompt"
  /\ pc' = "exited"
  /\ UNCHANGED <<sweeps_left, trail, commandVars, budgetVars, driverVars, killVars,
                 permVars, replVars>>

(* What the executor and the driver do by themselves.                      *)
Funnel ==
  /\ \/ ListActive \/ Refuse \/ AskOperator \/ Proceed
     \/ OfflineDone \/ OfflineEscapes("exited") \/ TransferEscapes("exited")
     \/ TxReturns \/ RxKilled \/ NextSweep \/ RxReturns
     \/ pc = "radio" /\ (DeviceRuns \/ CoroutineRuns \/ TransferFails)
  /\ UNCHANGED replVars

OperatorAnswers == (Approve \/ Deny) /\ UNCHANGED replVars
-----------------------------------------------------------------------------
CtrlC ==
  /\ pc \notin {"exited", "terminated"}
  /\ FirstPress
  /\ halted' = TRUE
  /\ UNCHANGED <<turns, calls, reader, execVars, driverVars>>

(* The worker thread that a read would leave behind if the loop stopped.   *)
BlockedReader ==
  IF pc \in {"prompt", "approval"} THEN "stdin"
  ELSE IF transfer = "receiving" /\ queued = 0 /\ ~sentinel THEN "chunks"
  ELSE "none"

(* loop.stop(): asyncio.run cancels every task and closes the loop.        *)
DoubleCtrlC ==
  /\ pc \notin {"exited", "terminated"}
  /\ SecondPress
  /\ pc' = "exited"
  /\ reader' = BlockedReader
  /\ halted' = TRUE
  /\ UNCHANGED <<turns, calls, sweeps_left, trail, commandVars, budgetVars,
                 driverVars>>

KillTask == (RevokeAndLog \/ RevokeFailed) /\ UNCHANGED <<replVars, execVars, driverVars>>

(* Until the device is stopped the USB thread goes on, and what the        *)
(* cancelled coroutine leaves behind longer; a chunk wakes the thread that *)
(* waits for one.                                                          *)
DeviceRunsOn ==
  /\ pc = "exited"
  /\ DeviceRuns \/ LeftoversRun
  /\ reader' = IF queued' = queued /\ sentinel' = sentinel THEN reader ELSE "none"
  /\ UNCHANGED <<turns, calls, halted>>

(* asyncio.run cancels the turn; one more Ctrl-C ends that wait, too.      *)
TurnCancelled ==
  /\ pc = "exited"
  /\ TransferCancelled("exited")
  /\ UNCHANGED replVars

OperatorPressesEnter ==
  /\ pc = "exited"
  /\ reader = "stdin"
  /\ reader' = "none"
  /\ UNCHANGED <<turns, calls, halted, execVars, driverVars, killVars, permVars>>

(* The interpreter joins the worker threads before it exits.               *)
Terminate ==
  /\ pc = "exited"
  /\ transfer = "idle"
  /\ reader = "none" /\ left \cap LateCalls = {}
  /\ pc' = "terminated"
  /\ UNCHANGED <<sweeps_left, trail, commandVars, budgetVars, driverVars, killVars,
                 permVars, replVars>>
-----------------------------------------------------------------------------
(* grant tx, grant revoke or grant revoke-all, in another terminal.        *)
OtherTerminal ==
  /\ \/ \E i \in GrantIds, t \in GrantTemplates : GrantTx(i, t)
     \/ (\E g \in grants : Revoke(g)) \/ RevokeAllTx
  /\ UNCHANGED <<replVars, execVars, driverVars, killVars>>

TimePasses == Tick /\ UNCHANGED <<replVars, execVars, driverVars, killVars>>

Ended == pc \in {"exited", "terminated"} /\ UNCHANGED vars

Next ==
  \/ NewTurn \/ Submit \/ EndTurn \/ Quit \/ Funnel \/ OperatorAnswers
  \/ CtrlC \/ DoubleCtrlC \/ KillTask
  \/ DeviceRunsOn \/ TurnCancelled \/ OperatorPressesEnter \/ Terminate
  \/ OtherTerminal \/ TimePasses \/ Ended

Spec == Init /\ [][Next]_vars

(* The event loop resumes what is ready, libhackrf calls back and flushes, *)
(* and its calls return.  Nothing is assumed of the operator, of the other *)
(* terminal or of the model.                                               *)
Fairness ==
  /\ WF_vars(Funnel)
  /\ WF_vars(KillTask)
  /\ WF_vars(TurnCancelled)
  /\ WF_vars(Terminate)

FairSpec == Spec /\ Fairness
-----------------------------------------------------------------------------
TypeOK ==
  /\ HostTypes
  /\ turns \in Nat /\ calls \in Nat
  /\ reader \in {"none", "stdin", "chunks"}
  /\ halted \in BOOLEAN

HaltInv ==
  pc \notin {"exited", "terminated"} =>
    /\ halted => stop_event
    /\ left = {}

IInv == TypeOK /\ HaltInv /\ HostInv

TrailReceived == <<"COMMAND_RECEIVED">>
TrailAssessed == TrailReceived \o <<"RISK_ASSESSED">>
TrailAsked == TrailAssessed \o <<"APPROVAL_REQUESTED">>
TrailConsented == TrailAsked \o <<"APPROVAL_GRANTED">>

TrailsExecuted == {Append(TrailAssessed, "EXECUTED"), Append(TrailConsented, "EXECUTED")}
TrailsConcluded ==
  {<< >>, Append(TrailAssessed, "BLOCKED"), Append(TrailAsked, "APPROVAL_DENIED"),
   TrailAssessed \o <<"EXECUTED", "RESULT">>, TrailConsented \o <<"EXECUTED", "RESULT">>}

(* docs/architecture.md's audit trails: at every point of the funnel the   *)
(* trace tells where the command is, a radio that is busy has an EXECUTED  *)
(* row, and a transmission that no grant covers has an APPROVAL_GRANTED.   *)
TrailTellsTheStory ==
  /\ pc \in {"listing", "assessing"} => trail = TrailReceived
  /\ pc = "approval" => trail = TrailAsked
  /\ pc \in {"offline", "radio"} \/ transfer # "idle" => trail \in TrailsExecuted
  /\ pc \in {"prompt", "thinking"} => trail \in TrailsConcluded
  /\ Transmitting /\ ~BackedByGrant => trail = Append(TrailConsented, "EXECUTED")

(* Ctrl-C during a turn: until the next turn no buffer is sent, but the    *)
(* one whose callback was past its check of the event, and no transfer     *)
(* starts, whatever the model still proposes, the operator still approves, *)
(* and however far the transfer had got.                                   *)
KilledTurnIsSilent == [][ halted /\ pc # "exited" => FallsSilent ]_vars

(* The funnel keeps no command for ever: it answers, asks or gives up; and *)
(* neither does the driver, however the transfer goes (played out, killed, *)
(* cut short by the exit): the coroutine never waits for a callback that   *)
(* will not come (domain/executor.py:86-330, hw/hackrf_driver.py:385-565). *)
CommandConcludes ==
  pc \in {"listing", "assessing", "offline", "radio"} \/ transfer # "idle"
    ~> pc \in {"thinking", "approval", "exited"} /\ transfer = "idle"

(* TransmitAuthority, its liveness included.                               *)
TransmitPromise == Promise!Spec
=============================================================================
