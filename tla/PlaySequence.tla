---------------------------- MODULE PlaySequence ----------------------------
(***************************************************************************)
(* play_sequence (_execute_play_sequence, domain/executor.py) in a chat    *)
(* session: one tool call that sends several commands through the funnel,  *)
(* one after the other, and reports how each of them ended.                *)
(***************************************************************************)
EXTENDS ChatSession

CONSTANTS Plans,           \* the sequences the model may propose
          UnknownAction,   \* a step whose action is no CommandAction
          MAX_STEPS,       \* the longest sequence that validates; 8 in the code
          max_tool_calls_per_turn    \* the agent's cap: a sequence is one call

ASSUME PlansArePlans ==
  \A p \in Plans :
    /\ p.steps \in Seq(Commands \cup {UnknownAction})
    /\ p.stop_on_error \in BOOLEAN /\ p.nested \in BOOLEAN
ASSUME UnknownIsNoCommand == UnknownAction \notin Commands
ASSUME CapsAgree ==
  /\ MAX_STEPS \in Nat \ {0} /\ max_tool_calls_per_turn \in Nat
  /\ max_commands_per_turn = MAX_STEPS * max_tool_calls_per_turn

VARIABLES plan,        \* the sequence that is running, or None
          results,     \* for each step so far, did it succeed
          tool_calls,  \* tool calls of this turn, of which calls counts the commands
          odometer     \* auxiliary: on_air when the sequence began and after each step
sequenceVars == <<plan, results, odometer>>
allVars == <<grants, clock, stop_event, last_press, revoking, transfer, sent, in_flight,
             received, queued, sentinel, left, on_air, pc, cmd, as_of, active_grants,
             sweeps_left, tx_used, capture_used, trail, answered, assessed_at,
             revoked_then, escaped, turns, calls, reader, halted,
             plan, results, tool_calls, odometer>>

InitSequence ==
  /\ Init
  /\ plan = None
  /\ results = << >> /\ odometer = << >>
  /\ tool_calls = 0
-----------------------------------------------------------------------------
(* PlaySequenceArgs: two to MAX_STEPS steps, none of them a sequence.      *)
Validates(p) == Len(p.steps) \in 2..MAX_STEPS /\ ~p.nested

(* A sequence that does not validate is answered at once; it leaves no row *)
(* in the trail, and neither does one that does.                           *)
PlaySequence(p) ==
  /\ pc = "thinking" /\ plan = None
  /\ tool_calls < max_tool_calls_per_turn
  /\ tool_calls' = tool_calls + 1
  /\ IF Validates(p)
     THEN plan' = p /\ results' = << >> /\ odometer' = <<on_air>>
     ELSE UNCHANGED sequenceVars
  /\ UNCHANGED vars

SingleCommand ==
  /\ plan = None /\ tool_calls < max_tool_calls_per_turn
  /\ Submit
  /\ tool_calls' = tool_calls + 1
  /\ UNCHANGED sequenceVars

(* execute() has come back, or has not been called: nothing is awaited     *)
(* between two steps, so that nothing else happens there.                  *)
BetweenSteps == plan # None /\ pc = "thinking"

(* A mutant: a failed step does not end the sequence. *)
StepsLeft_OnAndOn == Len(results) < Len(plan.steps)

StepsLeft ==
  /\ Len(results) < Len(plan.steps)
  /\ plan.stop_on_error => \A i \in DOMAIN results : results[i]

NextStep == plan.steps[Len(results) + 1]

(* A mutant: the sequence was LOW, so its transmissions are not assessed.  *)
SendStep_AsApproved ==
  /\ BetweenSteps /\ StepsLeft
  /\ NextStep # UnknownAction
  /\ IF NextStep.action = "transmit_iq" /\ NextStep.valid /\ ~stop_event
     THEN /\ BeginTx
          /\ pc' = "radio" /\ cmd' = NextStep /\ trail' = <<"COMMAND_RECEIVED", "EXECUTED">>
          /\ UNCHANGED <<as_of, active_grants, answered, assessed_at, revoked_then,
                         sweeps_left, budgetVars, killVars, permVars>>
     ELSE Receive(NextStep)
  /\ calls' = calls + 1
  /\ UNCHANGED <<sequenceVars, tool_calls, turns, reader, halted>>

(* The next step goes through the whole funnel, as a command of its own.   *)
SendStep ==
  /\ BetweenSteps /\ StepsLeft
  /\ NextStep # UnknownAction
  /\ Receive(NextStep)
  /\ calls' = calls + 1
  /\ UNCHANGED <<sequenceVars, tool_calls, turns, reader, halted>>

(* A mutant: the unknown step is not counted, and so it is met again.      *)
SkipUnknown_Retried ==
  /\ BetweenSteps /\ StepsLeft
  /\ NextStep = UnknownAction
  /\ UNCHANGED allVars

SkipUnknown ==
  /\ BetweenSteps /\ StepsLeft
  /\ NextStep = UnknownAction
  /\ results' = Append(results, FALSE)
  /\ odometer' = Append(odometer, on_air)
  /\ UNCHANGED <<plan, tool_calls, vars>>

(* CommandResult: success when every step that ran succeeded.              *)
ReportSequence ==
  /\ BetweenSteps /\ ~StepsLeft
  /\ plan' = None
  /\ results' = << >> /\ odometer' = << >>
  /\ UNCHANGED <<tool_calls, vars>>
-----------------------------------------------------------------------------
(* What execute() returns to the sequence when it leaves the funnel now;   *)
(* a handler that only computes may reject its arguments.                  *)
Successes ==
  IF pc = "offline" THEN BOOLEAN
  ELSE {pc = "radio" /\ \/ transfer = "tx_stopping" /\ ~stop_event
                        \/ transfer = "storing" /\ sweeps_left <= 1}

(* An exception that leaves execute() takes the sequence and its results   *)
(* with it, and so does the end of the session.                            *)
KeepResults ==
  IF plan # None /\ pc # "thinking" /\ pc' = "thinking"
  THEN /\ results' \in {Append(results, ok) : ok \in Successes}
       /\ odometer' = Append(odometer, on_air')
       /\ UNCHANGED plan
  ELSE IF pc' = "exited"
  THEN plan' = None /\ results' = << >> /\ odometer' = << >>
  ELSE UNCHANGED sequenceVars

Alone(A) == ~BetweenSteps /\ A /\ KeepResults /\ UNCHANGED tool_calls

SequenceSteps == SendStep \/ SkipUnknown \/ ReportSequence

(* Everything else of the session, a sequence running or not.              *)
Others ==
  \/ EndTurn \/ Quit \/ OperatorAnswers \/ CtrlC \/ DoubleCtrlC \/ DeviceRunsOn
  \/ OperatorPressesEnter \/ OtherTerminal \/ TimePasses \/ Ended

NextSequence ==
  \/ NewTurn /\ tool_calls' = 0 /\ UNCHANGED sequenceVars
  \/ SingleCommand
  \/ \E p \in Plans : PlaySequence(p)
  \/ SequenceSteps
  \/ Alone(Funnel) \/ Alone(KillTask) \/ Alone(TurnCancelled) \/ Alone(Terminate)
  \/ Alone(Others)

SequenceSpec == InitSequence /\ [][NextSequence]_allVars

(* As in ChatSession; between two steps the coroutine does not suspend.    *)
FairSequenceSpec ==
  /\ SequenceSpec
  /\ WF_allVars(SequenceSteps)
  /\ WF_allVars(Alone(Funnel))
  /\ WF_allVars(Alone(KillTask))
  /\ WF_allVars(Alone(TurnCancelled))
  /\ WF_allVars(Alone(Terminate))
-----------------------------------------------------------------------------
(* docs/execute_command_schema.md:553 "No batching bypass": whatever a     *)
(* session does with sequences, a session of single commands could have    *)
(* done, one command after the other through the same funnel.  Only the    *)
(* cap of the agent comes to more: a sequence is one call of up to         *)
(* MAX_STEPS commands (domain/executor.py:362-403).                        *)
NoBatchingBypass == Spec

(* Why it is: with what is running counted in full, the commands never     *)
(* come to more than MAX_STEPS for each call.                              *)
RunningInv ==
  /\ plan \in Plans /\ Validates(plan)
  /\ tool_calls > 0
  /\ pc \in {"thinking", "listing", "assessing", "approval", "offline", "radio"}
  /\ LET begun == Len(results) + (IF pc = "thinking" THEN 0 ELSE 1)
     IN begun <= Len(plan.steps) /\ calls <= MAX_STEPS * (tool_calls - 1) + begun

SequenceInv ==
  /\ tool_calls \in 0..max_tool_calls_per_turn
  /\ results \in Seq(BOOLEAN)
  /\ calls \in Nat
  /\ plan = None => calls <= MAX_STEPS * tool_calls
  /\ plan # None => RunningInv

(* Every result is true of the radio: a step that is not a transmission,   *)
(* or was refused or unknown, put nothing on the air, one that is reported *)
(* as sent handed all of it over, and nothing came after the step at       *)
(* which the sequence was to stop (domain/executor.py:389-403).            *)
Aired(i) == odometer[i + 1] - odometer[i]

ResultsAreTrue ==
  plan # None =>
    \A i \in DOMAIN results :
      LET step == plan.steps[i]
          transmission == step # UnknownAction /\ step.action = "transmit_iq"
      IN /\ ~transmission => Aired(i) = 0
         /\ transmission /\ results[i] => Aired(i) = step.length
         /\ transmission /\ ~step.valid => Aired(i) = 0 /\ ~results[i]
         /\ plan.stop_on_error /\ ~results[i] => i = Len(results) /\ pc = "thinking"

(* Why they are: what the radio did says how the handler will end; the     *)
(* command in the funnel is the next step, and the air has had what it had *)
(* when the step began and what the step has sent.                         *)
OutcomeInv ==
  /\ pc = "offline" => cmd.action # "transmit_iq"
  /\ transfer \in RxStates => cmd.action # "transmit_iq"
  /\ pc = "radio" /\ transfer \in {"tx_flushing", "tx_stopping"} /\ ~stop_event
       => sent >= cmd.length

OdometerInv ==
  plan # None =>
    /\ odometer \in Seq(Nat) /\ Len(odometer) = Len(results) + 1
    /\ on_air = odometer[Len(odometer)] + sent
    /\ pc # "thinking" =>
         /\ cmd = NextStep
         /\ plan.stop_on_error => \A i \in DOMAIN results : results[i]

(* A sequence comes to its report, however its steps end, unless it waits  *)
(* for the operator: nothing is skipped over and over, and no step is      *)
(* waited for that will not come back (domain/executor.py:362-418).        *)
SequenceConcludes == plan # None ~> plan = None \/ pc = "approval"
=============================================================================
