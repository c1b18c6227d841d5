------------------------------ MODULE McpServer ------------------------------
(***************************************************************************)
(* mcp/server.py: the same executor and driver behind an MCP server.  Tool *)
(* calls are concurrent tasks that queue for the driver lock; the human    *)
(* answers through the host's elicitation form; SIGINT and SIGTERM set the *)
(* stop event and cancel the task that current_tool_task names.            *)
(*                                                                         *)
(* Only the holder of the lock is in the funnel, so the executor's         *)
(* variables are the holder's locals: pc is "thinking" when nobody is.     *)
(* The kill switch of the CLI is not installed here, and of its variables  *)
(* only the stop event is used.                                            *)
(***************************************************************************)
EXTENDS AnyHost

CONSTANT MaxCalls          \* bound: tool calls of one server process

ASSUME MaxCallsIsNumber == MaxCalls \in Nat

VARIABLES arrived,            \* tool calls received; a call is its number
          waiting,            \* driver_lock's waiters, in order, with their commands
          holder,             \* the call that holds driver_lock, or None
          current_tool_task,  \* the call that the signal handler would cancel
          cancelled,          \* calls whose task has a cancellation pending
          sigint_count
callVars == <<arrived, waiting, holder, current_tool_task, cancelled, sigint_count>>
vars == <<execVars, driverVars, killVars, permVars, callVars>>

Init ==
  /\ InitPermissions /\ InitKillSwitch /\ InitDriver /\ InitExecutor
  /\ pc = "thinking"
  /\ arrived = 0
  /\ waiting = << >>
  /\ holder = None /\ current_tool_task = None
  /\ cancelled = {}
  /\ sigint_count = 0
-----------------------------------------------------------------------------
(* asyncio.Lock does not count the waiters that are being cancelled.       *)
NobodyWaits == \A i \in DOMAIN waiting : waiting[i].call \in cancelled

(* _call_tool: the task registers itself, then asks for the lock; a lock   *)
(* that is free, with nobody waiting, is taken on the spot.                *)
CallTool ==
  /\ pc # "exited"
  /\ arrived < MaxCalls
  /\ arrived' = arrived + 1
  /\ current_tool_task' = arrived'
  /\ \E c \in Commands :
       IF holder = None /\ NobodyWaits
       THEN Receive(c) /\ holder' = arrived' /\ UNCHANGED waiting
       ELSE /\ waiting' = Append(waiting, [call |-> arrived', command |-> c])
            /\ UNCHANGED <<holder, execVars, driverVars, killVars, permVars>>
  /\ UNCHANGED <<cancelled, sigint_count>>

(* A mutant: the last to come is the first to be served. *)
LockPasses_Last ==
  /\ holder = None /\ waiting # << >>
  /\ LET next == waiting[Len(waiting)]
     IN  /\ next.call \notin cancelled
         /\ Receive(next.command)
         /\ holder' = next.call
  /\ waiting' = SubSeq(waiting, 1, Len(waiting) - 1)
  /\ UNCHANGED <<arrived, current_tool_task, cancelled, sigint_count>>

(* The first waiter wakes up and enters the funnel.                        *)
LockPasses ==
  /\ holder = None /\ waiting # << >>
  /\ LET next == Head(waiting)
     IN  /\ next.call \notin cancelled
         /\ Receive(next.command)
         /\ holder' = next.call
  /\ waiting' = Tail(waiting)
  /\ UNCHANGED <<arrived, current_tool_task, cancelled, sigint_count>>

(* The finally clause of a call, whoever is registered by now.             *)
Unregister == current_tool_task' = None

(* A mutant: the lock is acquired and released by hand, and the release is *)
(* forgotten.                                                              *)
ReleaseOrKeep_NoRelease ==
  /\ IF pc' = "thinking" THEN Unregister ELSE UNCHANGED current_tool_task
  /\ UNCHANGED <<holder, arrived, waiting, cancelled, sigint_count>>

(* Leaving execute() releases the lock in the same step.                   *)
ReleaseOrKeep ==
  /\ IF pc' = "thinking" THEN holder' = None /\ Unregister
                         ELSE UNCHANGED <<holder, current_tool_task>>
  /\ UNCHANGED <<arrived, waiting, cancelled, sigint_count>>

(* An exception that escapes execute() becomes the SDK's error response.   *)
(* Only the coroutine waits for a cancellation that is on its way.         *)
Funnel ==
  /\ \/ /\ holder \notin cancelled
        /\ \/ ListActive \/ Refuse \/ AskOperator \/ Proceed
           \/ OfflineDone \/ OfflineEscapes("thinking") \/ TransferEscapes("thinking")
           \/ TxReturns \/ RxKilled \/ NextSweep \/ RxReturns
           \/ CoroutineRuns \/ TransferFails
     \/ pc = "radio" /\ DeviceRuns
  /\ ReleaseOrKeep

LeftBehind == LeftoversRun /\ UNCHANGED callVars

(* "accept", or anything else, exceptions included.                        *)
HostAnswers ==
  /\ holder \notin cancelled
  /\ Approve \/ Deny
  /\ ReleaseOrKeep
-----------------------------------------------------------------------------
CancelRegistered == cancelled' = cancelled \cup ({current_tool_task} \ {None})

(* A mutant: the task is cancelled, and the driver is not told. *)
FirstSigint_NoStop ==
  /\ pc # "exited" /\ sigint_count = 0
  /\ sigint_count' = 1
  /\ CancelRegistered
  /\ UNCHANGED <<arrived, waiting, holder, current_tool_task,
                 execVars, driverVars, killVars, permVars>>

FirstSigint ==
  /\ pc # "exited" /\ sigint_count = 0
  /\ sigint_count' = 1
  /\ stop_event' = TRUE
  /\ CancelRegistered
  /\ UNCHANGED <<arrived, waiting, holder, current_tool_task,
                 last_press, revoking, execVars, driverVars, permVars>>

(* The process goes on; a second SIGTERM does the same again.              *)
Sigterm ==
  /\ pc # "exited"
  /\ stop_event' = TRUE
  /\ CancelRegistered
  /\ UNCHANGED <<arrived, waiting, holder, current_tool_task, sigint_count,
                 last_press, revoking, execVars, driverVars, permVars>>

(* sys.exit(1), however long after the first; or the host closes the       *)
(* stream of an idle server.                                               *)
Exit ==
  /\ pc # "exited"
  /\ \/ sigint_count = 1 /\ sigint_count' = 2
     \/ holder = None /\ waiting = << >> /\ UNCHANGED sigint_count
  /\ pc' = "exited"
  /\ UNCHANGED <<arrived, waiting, holder, current_tool_task, cancelled, sweeps_left, trail,
                 commandVars, budgetVars, driverVars, killVars, permVars>>

(* notifications/cancelled, for a call that has not been answered; the     *)
(* host may repeat it, and the stop event stays as it is.                  *)
HostCancels ==
  /\ pc # "exited"
  /\ \E n \in ({holder} \ {None}) \cup {waiting[i].call : i \in DOMAIN waiting} :
       cancelled' = cancelled \cup {n}
  /\ UNCHANGED <<arrived, waiting, holder, current_tool_task, sigint_count,
                 execVars, driverVars, killVars, permVars>>

(* CancelledError at the await that the call is suspended in.              *)
WaiterCancelled ==
  /\ pc # "exited"
  /\ \E i \in DOMAIN waiting :
       /\ waiting[i].call \in cancelled
       /\ waiting' = SubSeq(waiting, 1, i - 1) \o SubSeq(waiting, i + 1, Len(waiting))
       /\ cancelled' = cancelled \ {waiting[i].call}
  /\ Unregister
  /\ UNCHANGED <<arrived, holder, sigint_count, execVars, driverVars, killVars, permVars>>

(* A mutant: the cancelled call leaves the transfer as it is. *)
HolderCancelled_NoCleanup ==
  /\ pc # "exited"
  /\ holder # None /\ holder \in cancelled
  /\ Leave("thinking")
  /\ UNCHANGED <<trail, budgetVars, driverVars, killVars, permVars>>
  /\ holder' = None
  /\ cancelled' = cancelled \ {holder}
  /\ Unregister
  /\ UNCHANGED <<arrived, waiting, sigint_count>>

(* The lock is released when the coroutine is out of its finally clauses,  *)
(* or, cancelled there once more, when it is not: the stop is not waited   *)
(* for.                                                                    *)
HolderCancelled ==
  /\ pc # "exited"
  /\ holder # None /\ holder \in cancelled
  /\ TransferCancelled("thinking") \/ Dropped("thinking")
  /\ cancelled' = cancelled \ {holder}
  /\ IF pc' = "thinking" THEN holder' = None /\ Unregister
                         ELSE UNCHANGED <<holder, current_tool_task>>
  /\ UNCHANGED <<arrived, waiting, sigint_count>>

(* asyncio.run cancels the call; a third Ctrl-C ends that wait, too.       *)
ExitUnwinds ==
  /\ pc = "exited"
  /\ TransferCancelled("exited") \/ DeviceRuns
  /\ UNCHANGED callVars
-----------------------------------------------------------------------------
(* grant tx, grant revoke or grant revoke-all, in another terminal; and    *)
(* time passes.                                                            *)
OtherTerminal == TableMoves /\ UNCHANGED <<callVars, execVars, driverVars, killVars>>

Ended == pc = "exited" /\ transfer = "idle" /\ UNCHANGED vars

Next ==
  \/ CallTool \/ LockPasses \/ Funnel \/ HostAnswers
  \/ FirstSigint \/ Sigterm \/ HostCancels \/ Exit
  \/ WaiterCancelled \/ HolderCancelled \/ ExitUnwinds \/ LeftBehind
  \/ OtherTerminal \/ Ended

Spec == Init /\ [][Next]_vars

(* The event loop resumes what is ready; libhackrf calls back, and its     *)
(* calls return, also when nobody waits for them any more.  Nothing is     *)
(* assumed of the host, of the human or of who sends signals.              *)
Fairness ==
  /\ WF_vars(Funnel) /\ WF_vars(LockPasses)
  /\ WF_vars(WaiterCancelled) /\ WF_vars(HolderCancelled)
  /\ WF_vars(ExitUnwinds) /\ WF_vars(LeftBehind)

FairSpec == Spec /\ Fairness
-----------------------------------------------------------------------------
TypeOK ==
  /\ HostTypes
  /\ arrived \in Nat
  /\ waiting \in Seq([call : 1..arrived, command : Commands])
  /\ holder \in 1..arrived \cup {None}
  /\ current_tool_task \in 1..arrived \cup {None}
  /\ cancelled \subseteq 1..arrived
  /\ sigint_count \in 0..2

(* "Serialize on the driver lock (USB is exclusive)": whatever was         *)
(* cancelled, wherever it was and however often, one command is in the     *)
(* funnel and one coroutine in a transfer at most, and it has the lock.    *)
LockGuardsFunnel ==
  pc # "exited" => (holder = None <=> pc = "thinking") /\ (holder = None => transfer = "idle")

(* The device itself is not quite so safe (a call may be setting it up     *)
(* while what a cancelled one left behind is at it, too), but the air is:  *)
(* unless a call that transmits has the lock nothing goes out, but the one *)
(* buffer that a cancelled call's callback was filling already.            *)
LockGuardsAir == [][ holder = None \/ ~Transmitting => OnlyInFlight ]_vars

(* docs/mcp.md: "Concurrent tool calls are serialized ... first-in /       *)
(* first-out", except for the ones that are being cancelled.               *)
FirstInFirstOut ==
  [][ holder' # holder /\ holder' # None =>
        \A i \in DOMAIN waiting' :
          waiting'[i].call \notin cancelled' => holder' < waiting'[i].call ]_vars

(* A signal silences the radio for good, but for the one buffer that its   *)
(* callback was filling, also when it cancels the wrong call or none at    *)
(* all: the running one meets the stop event.                              *)
SignalSilences == [][ stop_event \/ sigint_count > 0 => FallsSilent ]_vars

(* A call that waits for the lock gets it, or is cancelled, unless a       *)
(* human has not answered the one in front of it, what a cancelled call    *)
(* left behind has cut off that one's stream, or the server is gone.       *)
Queued(n) == \E i \in DOMAIN waiting : waiting[i].call = n
CutOffForGood == transfer \in {"tx_stalled", "rx_stalled"}
CallsAreServed ==
  \A n \in 1..MaxCalls :
    Queued(n) ~> ~Queued(n) \/ pc \in {"approval", "exited"} \/ CutOffForGood
=============================================================================
