# Verification of the HackRF agent

TLA+ models of `hackrf_agent` (`src/src/hackrf_agent/`), the TLC runs that check
them and the TLAPS proofs about them. Paths below are relative to
`src/src/hackrf_agent/` unless they start with `docs/`, which is `src/docs/`.

The agent lets a language model drive a HackRF One: a software radio that can
receive anywhere and, which is the reason for most of the code, transmit. What
the model proposes goes through one funnel (assess, ask, execute, log), the
operator has a kill switch, and every step is written to an audit database.

    tlc -workers 2 -config <name>.cfg <Module>     one run (table below)
    tlapm HostProofs.tla                           proofs; also ChatSessionProofs,
                                                   PlaySequenceProofs, McpServerProofs,
                                                   RiskAssessorProofs, AgentLoopProofs,
                                                   AuditProofs, LineChannelProofs

## 1. Inventory

| Component | State it keeps | Operations | Talks to |
|---|---|---|---|
| Frequency policy, `domain/frequency_policy.py` | three constant band tables | `is_blocked`, `is_in_ism`, `is_in_amateur`, `range_is_blocked` | risk assessor |
| Risk assessor, `domain/risk_assessor.py` | none | `assess(command, grants)` -> LOW, MEDIUM, HIGH, BLOCKED | executor |
| Permission service, `domain/permission_service.py` | `grants` table in SQLite | `grant`, `list_active`, `revoke`, `revoke_all_tx` | executor, kill switch, `grant` CLI in another process |
| Session budgets, `domain/tx_budget.py`, `capture_budget.py` | `accumulated_seconds` | `would_exceed`, `charge` | executor |
| Command executor, `domain/executor.py`, `handlers.py` | one command at a time | `execute`: RECEIVED, ASSESSED, budget and BLOCKED checks, approval, EXECUTED, handler, RESULT | everything below and above |
| Driver, `hw/hackrf_driver.py` | device, RX queue, `done_event`; a callback under way; what cancelled transfers leave on their threads | sweep, capture, transmit; callbacks on libhackrf's USB thread | executor, kill switch (through `stop_event`) |
| Kill switch, `cli/kill_switch.py` | `stop_event`, time of the last press | Ctrl-C: set the event and spawn the revoke task; again within 2 s: `loop.stop()` | driver, permission service |
| Chat session, `cli/chat_cmd.py`, `cli/approval.py` | REPL, reader threads | a turn, the approval prompt, exit | agent, executor |
| Agent loop, `ai/agent.py` | message history | one turn: model, up to 20 tool calls, trim | LLM client, executor |
| LLM client, `ai/llm_client.py` | rolling window of request times | `send` | agent |
| Audit service, `domain/audit_service.py` | queue, writer task, `audit` table | `log`, `stop`, `rotate`, `query` | executor, `audit` CLI |
| MCP server, `mcp/server.py`, `approval_port.py` | `driver_lock`, `current_tool_task`, signal count | concurrent tool calls, SIGINT, SIGTERM, `notifications/cancelled` | the same executor, driver and tables |
| Sequences, `_execute_play_sequence` in `domain/executor.py` | results so far | up to eight commands in one tool call, each through `execute` | executor, agent |
| Decoders, `hw/analysis.py` | none | recordings in; bits, text, pages, frames out: line codes, RTTY, POCSAG, AX.25, APRS, Mode S | handlers |
| Spectral estimates, knowledge corpus, formatter, sessions, doctor, settings | none, or files | pure functions and I/O | handlers |

What is hard in it, and what makes each part correct:

* **Threads and suspension points.** `execute()` suspends while it reads the
  grants, while the operator thinks and while the radio runs; the kill switch
  runs on the loop in between, the callbacks run on another thread. Correct
  means that a transmission is always covered by an authority that was really
  there when it was assessed, and that Ctrl-C silences the turn wherever it lands.
* **The event and the table are two things.** Ctrl-C sets the event at once and
  revokes the grants in a task that may run late or fail; a new turn clears the
  event.
* **Accounts settled late.** The TX budget is checked before and charged after
  a transmission, by the wall clock; some transmissions cannot be measured
  beforehand and some never reach the charge.
* **Two processes, one database.** Grants are issued and revoked, and the audit
  table is rotated, by other processes.
* **A queue with one writer.** What is logged must land in order and without
  holes, whatever dies, and `stop()` must not hang.
* **A callback between its check and its buffer.** `tx_callback` looks at the
  event, then reads a file; Ctrl-C can land in between, and one buffer more goes
  out. Correct means one, and no more.
* **A lock with cancellation.** MCP calls queue for the radio and can be
  cancelled anywhere, more than once. A cancelled `await run_in_executor` does not
  stop the thread it waited for, so the device may be busy when the lock is free.
* **A history that is cut.** The model's messages are trimmed before each
  request, and a tool call must never be separated from its result, whatever
  was persisted and wherever the cut falls; a turn must end whatever the model
  answers.
* **Edges of tables and thresholds.** One hertz or one decibel is another tier.
* **One call, many commands.** A sequence runs inside the funnel and goes through
  it again for each step; steps fail, are refused, are killed half-way or raise.
* **Decoders of damaged recordings.** What is decoded is reported to a model
  that acts on it. Correct means that what was sent is read, that damage stays
  where it was done and that nothing that was not sent passes a checksum.

`PROJECT.json` lists each hazard at its line with the properties that cover it.

## 2. Modules

    Models  FrequencyPolicy            data types, band tables
        RiskAssessor                   the assessment, as operators
            Reassessment               the same command assessed again
        PermissionService              the grants table and the clock
            GrantsTable                the table alone, under any client
            KillSwitch                 + Ctrl-C and the revoke task
                HackrfDriver           + one transfer and its callbacks
                    CommandExecutor    + the funnel (with RiskAssessor)
                        AnyHost        + any program around the funnel
                            ChatSession    the CLI: REPL, operator, exit
                                PlaySequence   + sequences of commands
                            McpServer      the MCP server: lock, signals
    TransmitAuthority                  what any host promises, abstractly
    AuditService                       queue, writers, rotation
    OpenRouterClient                   the rate limit of the LLM client
        AgentLoop                      + turns, history, trimming
    BitStreams                         slicing, 2FSK symbols, patterns
        LineCodes  Rtty                NRZ, NRZI, Manchester, PWM, PPM; RTTY
            LineChannel                + a keying transmitter and the air
        Pocsag  Ax25 - Aprs  ModeS     pages; packets and reports; squitters
            PacketChannel              + transmitters and the air
    *MC, SampleCommands                instances for TLC
    HostProofs                         the table and the funnel under any host
        ChatSessionProofs - PlaySequenceProofs    McpServerProofs
    RiskAssessorProofs  AgentLoopProofs  AuditProofs  LineChannelProofs

`Models`, `FrequencyPolicy`, `RiskAssessor` have no state; `Reassessment` holds
the arguments of one assessment, as an agent and an operator change them: the
gain, the grants, the clock, the dwell, the list of ranges. Frequencies are in
units of 100 Hz, the largest unit in which every band edge of the tables is a
whole number and which keeps 6 GHz inside TLC's integers; durations of
captures and dwells in tenths of a second. A command is
a record of the arguments that the assessor, the budgets or the driver look at;
`None` stands for an argument that is missing or that the assessor's coercion
(`_get_int`, `_get_float`) rejects. The ends of a range of a bulk sweep are
looked at by a bare `isinstance(x, int)`, which lets `false` and `true` through as
0 and 1 Hz: a range says which of its ends were (`booleans`), and the single sweep
it is compared with goes through `_get_int`. `valid` collapses what the handlers check
before they touch the radio (argument model, path inside the session, file
size, grid alignment), and `length` is the IQ the transfer moves, in buffers.

`PermissionService` is the table as the set of its rows, with a clock. Every
method takes the time before it opens its connection: what is committed now is
stamped with the time of up to `MaxLag` ticks ago (`Stamps`), and may say that a
row was revoked before it was read as active. `list_active` is two steps: it
takes its "now" first (`CommandExecutor.as_of`) and reads the rows later, and
`Grant.is_active` looks at the clock a third time. What a revocation came before
can therefore not be told from `revoked_at`; the auxiliary variable
`revoked_then` has the rows that stood revoked in the table when it was read.

`KillSwitch` has the event, the time of the last press and the number of revoke
tasks that have not run. `RevokeAndLog` and `RevokeFailed` are the task's two
outcomes.

`HackrfDriver` is the coroutine and the USB thread of one transfer. A step is
what runs between two suspensions, or one callback; the callback that transmits
is two, its look at the event (`TxCheck`) and the buffer it returns with
(`TxHandOver`), and `in_flight` says that it is between them. `on_air` counts the
buffers handed over in the whole session, an auxiliary variable that nothing in
the code keeps. The receive side has the queue and the `None` sentinel that the
callback enqueues after Ctrl-C.

A transfer that is cancelled or fails goes through its finally clause
(`Unwind`), which awaits a stop; cancelled there once more, the coroutine is gone
before that stop has come back (`Abandon`). `left` is what goes on without it: the
device call it waited for (`set_up`, `start`, `stop`) and the buffer its callback
was filling. The calls return (`LateCallReturns`); in the meantime a late stop
ends the stream of the next transfer, and a late set-up takes its callbacks away
(`CutOff`). The buffer goes out or, as the file has been closed under it, does not
(`LateBuffer`): a callback that raises hands nothing over, which is how
python_hackrf is taken to behave, as no part of it is in the repository. A late
set-up may also retune the radio that the next call has tuned; frequencies are
not part of the driver's state (section 5 has the case).

`CommandExecutor` is `execute()`: `Receive`, `ListActive`, then one of
`Refuse`, `AskOperator`, `Proceed`; `Approve`, `Deny`; and the ways out of the
handler: `TxReturns`, `RxReturns`, `RxKilled`, `NextSweep`, the offline
handlers, and the exceptions that `execute()` does not catch (`OfflineEscapes`,
`TransferEscapes`). `trail` is the sequence of audit events of the command in
hand. `audit.log()` only puts on an unbounded queue and does not suspend, so a
row is written in the step that logs it.

`AnyHost` is the funnel and the driver under a program of which nothing is known
but what the code of the executor relies on: one command at a time is in the
funnel, only the funnel touches the driver, besides what cancelled commands have
left behind, a command may be cancelled wherever it is suspended, its finally
clauses included, the stop event is lowered over an idle transfer only. It may raise
the event at any time, and anybody may write the grants table. `HostSpec` is
that program. It is no component of the code: it is what `cli/chat_cmd.py` and
`mcp/server.py` have in common, and both are shown to implement it, so that what
is proved of the funnel is proved once.

`ChatSession` composes all of this with the REPL, Ctrl-C, the exit through
`loop.stop()` (coroutines cancelled, reader threads joined), another terminal
that runs `grant tx`, `grant revoke` and `grant revoke-all`, and the clock.
One auxiliary variable: `halted` (Ctrl-C since the turn began).

`PlaySequence` is the session with sequences: a tool call is a single command
or a plan, a list of commands and unknown actions with `stop_on_error`. Its
actions are those of the session, kept from running between two steps, where the
code does not suspend (`Alone`), and the loop of `_execute_play_sequence`:
`SendStep`, `SkipUnknown`, `ReportSequence`. What `execute()` returns is told
from where the funnel is left (`Successes`); what it raises takes the sequence
along. `calls` counts commands, `tool_calls` what the agent's cap counts;
`odometer` is an auxiliary record of what each step put on the air.

`McpServer` puts the same funnel and driver behind `driver_lock`. As only the
holder of the lock is in the funnel, the executor's variables are the holder's
locals. Its signal handlers set the event and cancel the task in the slot
`current_tool_task`; they neither revoke grants nor clear the event. The host
cancels any call, as often as it likes (`HostCancels`); the lock is released when
the coroutine is out of its finally clauses, waited for or not (`HolderCancelled`),
and what it leaves behind goes on under the next holder (`LeftBehind`).

`AuditService` is any number of processes with a queue and a writer task each,
over one database whose write lock they contend for, and rotations among them.

`OpenRouterClient` is `_wait_for_slot` with the clock: the deque as the ages of
its entries, the sleep as what is left of it, and `requests`, an auxiliary record
of the ages of all requests, oldest first, the forgotten ones included. The 0.01 s that the code adds to its sleep is
one tick. `AgentLoop` is `chat()` over it: a message is the set of tool calls it
carries and the call it answers; a response is any combination of a stop reason,
text and tool calls, because nothing ties the `finish_reason` of a provider to
what it lists. `ExecuteReturns` stands for the whole funnel, which
`ChatSession` has in full, there with an agent that may make any calls up to the cap.

The decoders are operators from a sequence of small integers (the envelope, or
the frequency of each symbol) to a record of what the function returns; only the
computation of that envelope and phase from complex samples is left out. Numbers
wider than TLC's are bit sequences: a codeword is its 32 bits, a checksum the
state of its register, a position counts ten-thousandths of a minute of arc.
`LineChannel` and `PacketChannel` are their environment: a transmitter, outside of
the repository, built from the formats that the docstrings name and not from the
decoders (codes are computed by a shift register where the decoder divides, a
frame is stuffed where the decoder unstuffs), and an air that adds bad samples,
jitter, noise, damaged codewords and bursts. In every state the properties
compare what was sent with what the decoder makes of the recording.

`TransmitAuthority` is the abstract radio: keyed for a number of buffers, it turns
to them one by one (`Turn`), only while the stop flag is down, emits the one it has
turned to (`Emit`), up flag or down, or gives it up, and falls silent; the flag is
lowered only over a radio that is not keyed. `TransmitSteps` is its safety part,
`TransmitPromise` all of it. `AnyHost.Promise` instantiates it with
`keyed <- Transmitting`, `allowance <- Allowance` (what the transfer has still to
turn to), `pending <- InFlight` (in its callback, or left behind),
`emitted <- on_air`, `stopped <- stop_event`.

## 3. Runs

| Run | States | What it shows |
|---|---|---|
| `RiskAssessorMC` | all pairs of sample points | the assessor is monotone in gain and authority, a bulk sweep is never laxer than its parts, as far as their ends are numbers and not booleans. The samples are both sides of every edge of the three tables and of every threshold. |
| `GrantsTableMC` | 314 k | nothing revives or is rewritten; after `revoke_all_tx` nothing is active until the next grant. |
| `ChatSessionMC_Tx` | 730 k | transmissions are authorised by a *stored* grant, an answer or the flag; within the cap; the audit trail tells where the command is; every step is one of `TransmitAuthority` or a stutter, so no buffer goes out while the event is up but the one that its callback was filling. |
| `ChatSessionMC_Live` | 230 k | receive side and liveness: commands and their transfers conclude, a keyed radio falls silent (all of `TransmitAuthority`); silent after Ctrl-C, but for the buffer in flight; captures within their budget; a bulk sweep killed between two ranges. |
| `PlaySequenceMC` | 165 k | every step of a sequence is a step of a session of single commands or a stutter; what is reported of each step is true of the radio; a sequence comes to its report. |
| `AuditServiceMC` | 79 k | no holes, order kept, rotation only from the front, a clean `stop()` means everything is written, `stop()` always ends, what is logged gets written. |
| `McpServerMC` | 160 k | three calls, cancelled by signals or by the host, repeatedly: every step is one of `HostSpec` or a stutter; the lock guards the funnel, and the air but for a buffer in flight; it is passed on first in, first out, and a waiting call is served; a signal silences the radio for good. |
| `AgentLoopMC` | 33 k | a request is pair-safe however the history was trimmed, a turn takes no more than its cap of tool calls, the rate limit holds at every instant, one sleep gives a slot, and a turn ends unless the executor waits for ever. |
| `LineChannelMC` | 650 k | the line codes read what was keyed: those of levels (NRZ, NRZI, Manchester) over one bad sample per symbol and a late start, those of pulses (PWM, PPM) over jitter; RTTY is back in step six marks and a shift code after any noise. |
| `PacketChannelMC` | 25 k | pages, frames, reports and squitters arrive whole where the air left them alone, squitters where the threshold lies right (`Detectable`); damage stays in its batch, frame or squitter; no wrong symbol in a frame and no short burst in a squitter makes what passes a checksum. |
| `ChatSessionMC_OnAirWithinCap` | violated | see findings |
| `LineChannelMC_AnyStopBitReads` | violated | see findings |

Each property of a passing run has a mutant in `PROJECT.json`: a definition of
the model changed the way a plausible bug would change the code, under which
TLC finds the property violated.

**Bounds.** Every bound is a constant that a guard names.
`MaxTurns = 2`: the hazards relate a Ctrl-C of one turn to the next.
`max_commands_per_turn = 2`, what the cap of 20 tool calls comes to: what a
command leaves behind for the next. `GrantIds = {1}` in a session, one tick of TTL, `MaxClock = 1`: the
row can expire before, between and after the three looks at the clock, be
revoked and be swept; `MaxLag = 1`, so that a commit can carry a time from before
a read that did not see it; several rows (3, over 4 ticks) are `GrantsTableMC`'s
subject. The template
is as wide as the radio, blocked bands included, because `grant()` does not
compare it with them. A transmission is 1 or 2 buffers, so that Ctrl-C can land
before, between and after; budgets are small enough that a second command
crosses them. `MaxQueued` bounds the RX queue (unbounded in the code): with 2, a
sentinel can stand behind chunks. `MaxOverhead = 1` is the set-up time that the
wall clock adds to the charge. `MaxCalls = 3`: one holds the
lock, two wait, so order matters, and one can be set up over what another has
left behind. The server's run is without grants and without time, which it shares
with the session through `CommandExecutor`: what they do to the funnel is the
subject of the sessions' runs, and of the proofs for any host. `MaxEvents = 2` per process and `MaxClock = 2` with
`keep_days = 1`: a rotation can cut between two events of a session.
`AgentLoopMC` has a window of two ticks and two requests, so that a turn can
reach the limit and an entry can be as old as the window; a history of four
messages and two calls per turn, so that the cut falls on a line of the
operator, a call and a result; three turns. `HistoryHoldsAPair` asks for at
least two messages: the code accepts any number, and with one the request after
a tool call is empty, with zero nothing is ever trimmed.
`PlaySequenceMC` has sequences of up to three steps (the code: eight) and two tool
calls in one turn, so that a sequence can follow a sequence or a single command
over the budget it used up; its plans have a step refused, one killed, one that
fails its checks, one unknown, with and without `stop_on_error`, and two that do
not validate. `LineChannelMC`: nine symbols of three samples (the fewest of which
one can be outvoted) and two bad ones; three pulses, jitter up to beyond the
tolerance; three typed codes, both shifts among them, three bits of noise.
Stop bits are one or two symbols there: one and a half is the finding.
`PacketChannelMC`: batches of four codewords (the code: sixteen), so that pages
of two or three cross them, three pages; damage of up to four bits, which the
BCH code is sure to find, in one codeword or one sync word; two frames, one of
which needs stuffing and contains a flag; one wrong symbol anywhere; three
squitters, stray preambles or silences, of 120 or 2600 samples (`Silences`), with bursts of 1, 2 and 24 bits in recordings of up to `MaxSamplesHit`
samples and a cap of two frames.

**Fairness.** Weak fairness of what the event loop and libhackrf do by
themselves: a task that is ready is resumed (`Funnel`, `KillTask`,
`LockPasses`, the cancelled tasks), a callback comes while a transfer runs, a
flush follows the end, the finally clauses run, a device call returns also when
nobody waits for it any more (`LeftBehind`), SQLite's busy handler gives up
(so an INSERT ends, one way or the other). `PlaySequence` adds the steps of the loop
itself, between which nothing is awaited. Nothing is assumed of the operator,
the model, the host, other terminals or signals. That libhackrf calls back is an
assumption about the device: the driver has no timeout, and a device that stops
calling back leaves `done_event.wait()` or `chunks.get()` waiting for ever. What
a late stop cuts off may not call back, for all the code does: that is the
exception of `CallsAreServed` (`CutOffForGood`).

**Deadlock** is checked in the sessions, where `Ended` marks the states in which
the process is gone; it is off in `GrantsTableMC`, `AuditServiceMC` and the two
channels, where the bounds end every behaviour.

## 4. What is proved

TLAPS checks these for every set of commands, grants and bounds allowed by the
ASSUMEs of the modules.

* `HostProofs`: of the grants table under any client, `TableTypeCorrect`,
  `GrantsNeverRevive`, `SweepIsComplete`; of any program that hosts the funnel,
  `HostsAreAuthorised`, `HostsKeepBudgets` and `HostsKeepThePromise` (every step is
  a step of `TransmitAuthority` or a stutter).
* `ChatSessionProofs`: the chat session is such a program (`SessionIsAHost`), hence
  `OnlyAuthorised`, `BudgetsHold`, `TransmitAuthorityKept`; and of its own,
  `TypeCorrect`, `KilledStaysSilent` and `TrailIsTrue` (the audit trail says where
  the command in hand is).
* `PlaySequenceProofs`: `SequencesAreSingleCalls` (a session with sequences
  implements one without: `NoBatchingBypass`), and with it `SequencesAreAuthorised`,
  `KilledSequencesAreSilent` and `SequencesLeaveTrueTrails`; `SequenceResultsAreTrue`
  (what is reported of a step is what the radio did in it). For every set of plans.
* `McpServerProofs`: the server is such a program too (`ServerIsAHost`), hence
  `ServerIsAuthorised`, `ServerKeepsBudgets`, `ServerKeepsThePromise`; and of its own,
  `ServerTypeCorrect`, `LockGuards`, `LockGuardsTheAir`, `ServedInOrder` and `SignalsSilence`, for any
  number of calls, any cancellations and signals.
* `RiskAssessorProofs`: `LouderIsNeverSaferHolds`, `LessAuthorityIsNeverSaferHolds`,
  `NoAppealHolds` (no grant overturns BLOCKED), `BulkIsNeverLaxerHolds`, for all frequencies, gains, dwells, lists
  of ranges, sets of grants and clocks (the third for ranges without booleans). The first two compare the
  assessments before and after a step of `Reassessment`.
* `AgentLoopProofs`: `RequestsArePairSafe` and `TurnsAreBounded`, for every
  window, cap and number of turns; `RateLimitHolds` and `SleepsOnce`, for every
  window and maximum of the rate limiter.
* `AuditProofs`: `TrailsHaveNoHoles`, `StopDrains` and `TailsAreLatest`, for any
  number of processes, rotations, lock time-outs and crashes.
* `LineChannelProofs`: `LevelsAreRead`, for recordings of any length in NRZ, NRZI
  and Manchester and any number of bad samples, one in each symbol; `PulsesAreRead`,
  for recordings of any length in PWM and PPM, with any of their pulses off its width
  or its place; `RttyIsRead`, for any sequence of characters, noise and rests, under
  the hypothesis that stop bits are whole symbols (`WholeStops`), without which it is
  false (finding 2).

The first part of `HostProofs` is what each operation does to the rows of the
table; the proofs of every module composed with it rest on it. The inductive invariant of the funnel under any
host is `HostInv` in `AnyHost`, that of a session is `IInv` in `ChatSession`, which
is `HostInv`, the types and `HaltInv` (Ctrl-C since the turn began means that the
event is up, and nothing is left behind while the REPL lives). The theorems of
silence allow the one buffer in flight, and no other (`OnlyInFlight`, `FallsSilent`). The parts of `HostInv`:

* `CommandInv`: what the control state says of the command in hand and of the
  driver (a busy transfer has a command and is in the funnel, or in a host that
  exits; a transmitter belongs to a `transmit_iq`).
* `SnapshotInv`: ids are unique, and of every row that `list_active` returned the
  row with its id is still stored, as it was but for its `revoked_at`, and did not
  stand revoked when the table was read. Rows are never deleted nor rewritten but
  to be revoked (`RowsPersist`), which is why it is kept. Without it `Authorised`,
  which speaks of the stored rows and not of the copy, does not follow at `Proceed`.
* `ApprovalInv`: what waits for an answer was not refused, so a "y" cannot
  key a blocked band.
* `AirtimeInv`: `sent` is at most the command's length, and a callback is in flight
  only in a transmission that has nothing left behind; a command that waits or
  transmits fits under the cap on top of what is used (`AffordableInv`: the
  check made before the approval is still good after it, because the funnel is
  serial); the account and the airtime that escaped it bound `on_air`
  (`LedgerInv`). `SessionBudgetsHold` follows, at every buffer.
* `CaptureInv`: the same for captures.

`SequencesAreSingleCalls` is a refinement without a mapping: the variables of
`ChatSession` are there, and every action of `PlaySequence` is one of its actions
or leaves them alone. The one guard that does not carry over is the cap:
`Submit` asks that fewer than `max_commands_per_turn` commands were submitted in
this turn, `SendStep` asks nothing. `SequenceInv` supplies it: with what is
running counted in full, commands never come to more than `MAX_STEPS` for each
tool call (`RunningInv` while a sequence runs). The theorems of
`ChatSessionProofs` then hold of sequences as they stand.

What a sequence reports is a different argument, for the results come from where
the funnel is left and not from the radio. Its invariant is `SequenceTruth`.
`OutcomeInv`: what has been sent says how the handler will end, so that a
transmission whose transfer winds up with the event down has sent all of it.
`OdometerInv`: the command in the funnel is the next step of the plan, and the
air has had what it had when that step began and what the step has sent since.
`TrailTellsTheStory` is inductive on top of `IInv`: each way into and out of the
funnel extends the trail by the rows that belong there, in the same step.

The inductive invariant of a conversation is `IInv` in `AgentLoop`. `PairedInv`:
ids grow with the history, so that a call that was taken up is told apart from
one that was merely persisted, and every result stands right after its call, so
that no two results are adjacent. Hence a cut drops at most one message more
than the window asks for (`TrimmedIsASuffix`), and a suffix that starts with no
result of a paired history is pair-safe (`PairedMeansPairSafe`). `CountInv`: the
messages since the operator's line are at most two for each call counted, one
more while the executor runs.

The rate limiter has `RateInv` in `OpenRouterClient`. The ages of all requests
are the forgotten ones, all of them older than the window, followed by the deque
(`Covers`), and the deque is never longer than the maximum; so what went out
within the window is in the deque. That a sleep lasts until the oldest entry has
left the window is the third part, and gives `SleepsOnce`.

The inductive invariant of the audit table is `IInv` in `AuditProofs`. It says
where every event of a process is. `QueueInv`: the queue holds the last events
logged, numbered without a gap and in order of time. `HandInv`: the writer's
hand holds the one before, no later than what is queued. `FileInv`: what was
taken off the queue and is not in the hand has been written, unless the writer
is gone; ids never repeat. `OrderInv`: the rows of one process grow in id,
number and time together, which a rotation by time (`RotateDeletes`) needs to
take from the front and `query`, which cuts by id, to show an unbroken run.
`LifeInv` ties the writer to the life of its process, and gives `StopDrains`.
`TailsAreLatest` counts: a row behind a row that is shown has no more rows
behind it (`LaterIsShown`, by the cardinality of finite sets).

The inductive invariant of the server is `IInv` in `McpServerProofs`: `HostInv`,
and the lock is held exactly while a call is in the funnel (`LockInv`);
the waiters are in the order of arrival (`QueueInv`), also after one is cancelled
in the middle (`LeavesTheMiddle`); only calls that arrived hold the lock, stand in
the slot or are cancelled (`CallsInv`); a signal that was counted has set the stop
event (`SignalInv`), which nothing clears. Without `CommandInv`, by which a
transfer runs only in the funnel or in a process that exits, the release of the
lock would not leave the transfer idle. That the server is a host rests on the lock:
a call is received only by the holder, and no other step touches the funnel.

The invariant of the line codes is `LevelsInv` in `LineChannelProofs`: the majority
of the three samples of each symbol (`Level`) is what the code keys for the bits
sent so far, by the level for NRZ, by the parity for NRZI, by the order of two
halves for Manchester. A step adds symbols and changes no earlier one
(`LevelsKeyed`). `SliceReads` shows that `slice_ook` returns those majorities,
provided that a symbol of each level is in the recording: without one, the midpoint
of the extremes says nothing, which is why `Sliceable` asks for data of both kinds.

That of the codes of pulses is `PulsesInv`. The samples that begin a run of ones
and those that end one, each set put in increasing order, are the pulses that were
keyed, one run for each (`RunsAre`), and the width of the run is the width keyed
(`PwmRuns`), or its place is on the side of its symbol that the bit says (`PpmRuns`).
`PulseAdds` is what makes it inductive: one more pulse is one more run, unless it
begins where the recording ends high (`EndsHigh`). PWM never ends high; PPM does
after a 0 whose pulse fills its half (`LastAtEnd`), and then the runs are one fewer
for each pair that touches (`Touching`), and nothing is said of which is which. An
increasing sequence is what its set of values is put in order to (`InOrderIs`, by
the cardinality of finite sets), so `Pulses` returns those runs.

That of RTTY is `RttyInv`: the bits of the recording, two samples to each, are the
items that were sent, one after the other (`LaidOut`): a character is a start bit,
its code and at least one mark; a rest is six marks; of noise nothing is said. What
the decoder makes of such bits is a recursive function, and what a recursive function
computes is shown here by induction down from its last argument: a least
counterexample (`Least`) gives `Downwards`, and a function that satisfies the
equations, built in the same way, shows that the one that CHOOSE takes does
(`FramesExist`, `TextExists`). Then, of the frames: six marks stop any search that is
out of step (`SixMarksCatch`: a frame that begins before them ends among them or at
the first symbol after them), and from an item on after which there is no noise the
frames are the codes that were sent (`InStep`). Of the text: whatever came before,
from a shift code on it is what `Meant` says (`TextLeads`, `TextInStep`, `MeantIs`).

The assumption on commands, `CommandsAreCommands`, says that an estimate of
airtime, when the pre-flight check has one, is the size of the file sent, and
that what no handler rejects has the arguments the handlers insist on.

**Only model-checked:** liveness (`CommandConcludes`, the liveness half of
`TransmitPromise`, `CallsAreServed`, `LoggedIsWritten`, `StopEnds`, `TurnConcludes`,
`SequenceConcludes`), which is out of the prover's reach; and the decoders of packets
(`PagesArrive`, `FramesArrive`, `SquittersArrive`, `NothingIsForged`). What they find
depends on checksums of up to 112 bits and on which patterns can occur across the
boundary of two fields; the argument is about each of those patterns, and it is their
number that is out of reach, not their recursion. TLC goes through the fields that
the bounds of `PacketChannelMC` allow.

## 5. Findings

Each has a run that TLC finds violated.

1. **A killed transmission costs nothing.** docs/safety.md:259 says on-air time
   is capped; the charge (`domain/executor.py:295`) is made only when the
   handler returns. What does hold is `SessionBudgetsHold`: the measured
   transmissions that came to their end are within the cap.
2. **1.5 stop bits are not read.** A comment (`hw/analysis.py:1254`) says that the
   search for the next start bit takes care of them, and the docstring offers
   them. The search is over symbols, and those lie on one grid from the first
   sample on (`fsk_bit_stream`): after one such stop bit the text is half a
   symbol off, and each symbol read is the mean of two. With whole stop bits
   `RttyCatchesUp` holds (`RttyIsRead`).

Disagreements seen while reading or modelling, which no run shows:

* `domain/risk_assessor.py:122-123` has any BLOCKED range block a whole bulk sweep.
  The check of a range (`domain/risk_assessor.py:235`) is a bare `isinstance`, to which
  `false` is an integer; that of a single sweep (line 151) refuses booleans. A range
  from `false` to 20 Hz is BLOCKED by itself and passes in a list. `BulkIsNeverLaxer`
  is about the other ranges, and the cap on the time about all.
* docs/mcp.md:251-252: the handle is not reentrant, and calls are serialized behind
  the lock. A call cancelled in its set-up, or twice, leaves its worker thread in the
  device and releases the lock (`hw/hackrf_driver.py:421-451,527-545`, and
  `except Exception` does not catch `CancelledError`); the next call sets the device
  up beside it. A late set-up may retune it, a late stop ends the stream. What does
  hold is `LockGuardsAir`: one buffer of the cancelled call, at most.
* `hw/analysis.py:1764-1765` has a peaked correlation suffice for clean captures. The
  threshold is the 99.5th percentile over the whole recording: one squitter in some
  thousands of samples is masked by a side lobe of its own preamble, 7 samples
  ahead, and in some tens of thousands the threshold is 0 and nothing is found.
  `SquittersArrive` asks for `Detectable`, which says where the threshold must lie.
* `hw/hackrf_driver.py:523` ignores whether the flush succeeded: a flush that fails
  ends a transmission that is reported and charged as complete. The model counts what
  was handed over, and does not tell the two flushes apart.
* docs/safety.md:215-217: TX is frozen after Ctrl-C until a new grant; the next
  line typed clears the event (`cli/chat_cmd.py:137`), and what the operator or
  the flag approves needs no grant. The turn itself does stay silent
  (`KilledTurnIsSilent`, proved).
* `domain/audit_service.py:241-244`: rotation waits until the queue is empty "so
  the ROTATED event lands before the delete happens"; an empty queue only means
  that the writer has taken the event.
* `mcp/server.py:72-73` and docs/mcp.md:257: SIGINT cancels the running tool call.
  There is one slot for concurrent calls (`mcp/server.py:133,139`), so it cancels
  the last that arrived, or none. The radio goes silent all the same
  (`SignalSilences`), an approval in progress does not.
* `ai/agent.py:185-186`: a response that ends the turn and lists tool calls all
  the same is persisted with them, against the comment, and later requests have a
  `tool_use` without a `tool_result`. What does hold, of the calls that `chat()`
  takes up, is `RequestIsPairSafe` (proved).
* docs/architecture.md:144 has an audit trail for every command; `play_sequence`
  itself leaves no row, whether it validates or not (its steps do).
* docs/execute_command_schema.md:553: without `stop_on_error` every step runs;
  not after an exception that leaves `execute()`.
* docs/architecture.md:214 promises a RESULT row after a hardware error; an
  exception that is neither `HackrfError` nor `ValueError` leaves `execute()`
  and the session (`domain/executor.py:299`). The model has that way out
  (`TransferEscapes`, `OfflineEscapes`).
* docs/execute_command_schema.md:47 offers `target_freq_hz` instead of
  `center_freq_hz`; the assessor requires the latter and blocks every capture
  without it (`domain/risk_assessor.py:290`).
* docs/ai-package.md:252 calls type mismatches of a tool call recoverable; arguments
  that are JSON but no object raise in `ai/agent.py:325`, outside of every
  `try`, and end the session (`InputIsNotAnObject`).
* `ai/llm_client.py:85-88` limits requests to 30 in 60 s, and leaves retries to
  the SDK: up to three requests to the provider for one slot.
* docs/safety.md:136 has total gain above 30 dB HIGH, `domain/risk_assessor.py:393` looks
  at the VGA gain alone.
* docs/safety.md:67-70 and `domain/frequency_policy.py:40` differ on Band 71.
* docs/safety.md:197-198: grants on blocked bands are refused;
  `domain/permission_service.py:40` does not compare (they have no effect: `NoAppealAgainstBlocked`).
* docs/safety.md:199: Ctrl-C revokes all grants; if the task fails, they stay
  (`cli/kill_switch.py:81`).
* docs/safety.md:253-254: an oversize transmission is refused beforehand; with
  a sample rate given as a string there is no estimate (`domain/executor.py:533`).
* docs/cli.md:319 says Ctrl-C ends the turn; the agent goes on proposing
  (`ai/agent.py:185`), and every radio command fails.
* docs/cli.md:308 and `cli/kill_switch.py:63` differ on Ctrl-C at an idle prompt.
* docs/safety.md:211-212: a double Ctrl-C exits at once; the interpreter first
  joins a worker thread that is blocked in a read (`cli/chat_cmd.py:126`).
* docs/mcp.md:257-260 and `mcp/server.py:218-262`: signals revoke nothing, the
  second SIGINT has no 2 s window, SIGTERM does not exit, and the event stays
  set, so that every later radio call fails.
* docs/troubleshooting.md:333 says rotation moves `agent.db` aside; it deletes rows.

What the decoders do that a caller may not expect, all of it in the models:

* `decode_pocsag` drops what a page has in the next batch, and the idle word with
  a wrong parity bit is taken for an address: `parity_ok` is computed and not
  looked at (`hw/analysis.py:959`).
* `decode_ads_b` takes the first crossing of the threshold, not the peak
  (`hw/analysis.py:1782-1793`); where equally strong preambles are more than half
  a percent of the recording's places, the percentile is their own value and none
  is found, and where they are too few it is too low (see above); silence after a stray preamble is a message of zeros whose checksum
  is good. The docstring's word on DF11 is not acted on: only 112-bit messages
  are read.
* `decode_ax25` does not see a flag that begins with the recording, and
  `num_aprs_frames` counts frames whose checksum is bad.
* `decode_ppm` reads two pulses that touch as one; `decode_rtty` asks for eight
  bits where a character has seven (`hw/analysis.py:1211,1231`).

## 6. What is not modelled

* **Spectral estimates** (`classify_modulation`, `estimate_*`, `spectrogram_summary`
  in `hw/analysis.py`, and `hw/dsp.py`): floating-point arithmetic on arrays, of
  which an integer model would show nothing. Of the decoders: rates that are not
  a whole number of samples per symbol, whose grid drifts against the signal
  (`hw/analysis.py:840`), and exponents or underscores in the numbers of an APRS
  report.
* **Knowledge corpus, result formatter, prompts, resources, session paths,
  settings, doctor**: pure I/O or text; no state that another part depends on.
* Of what is modelled: opening and closing of the device; what frequency a set-up
  that was left behind leaves the radio at; a flush that fails; a wall clock that is
  set back (the modelled clock only goes forward, and an expired grant stays expired
  under that assumption only); rates of Mode S recordings other than 2 MHz in the
  channel (the decoder is modelled for each);
  airtime within a buffer; power loss (a crash of the process is modelled);
  `VACUUM` after a rotation; events logged after `stop()`, which no writer reads.

## 7. Plan

Done, in this order: the assessor; the grants table; driver, executor and chat
session with their proofs and the abstract radio; the audit service; the MCP
server; the agent loop and the rate limit; sequences, with their proofs; the
decoders and their channels; the proofs of the audit table and of the server; the
funnel under any host, and both programs as hosts; the proofs of the audit trail,
of what sequences report, of the rate limit, of the assessor over lists of ranges
and of the line codes: of levels, of pulses, and RTTY.

What is left, by what it would add:

1. Proofs of single operators of the packet decoders: the layout of a POCSAG
   codeword, the address of an AX.25 frame, the position fields of a squitter; that
   unstuffing undoes stuffing, by `Downwards`.
2. `Arguments`: the argument models and the parsing of bands, durations and
   gains (`domain/args.py`, `cli/parsing.py`) as operators against a reference.
3. Opening and closing of the device, and its busy and missing states.
