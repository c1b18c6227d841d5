---------------------------- MODULE AuditService ----------------------------
(***************************************************************************)
(* domain/audit_service.py: the audit table of agent.db, shared by the     *)
(* processes that have it open.  In each, log() puts events on a queue     *)
(* that one writer task empties, row by row, each row committed before the *)
(* next is taken; `hackrf-agent audit rotate` is a process that deletes    *)
(* the old rows over a connection of its own.  SQLite lets one connection  *)
(* write at a time and makes the others wait, but not for ever.            *)
(*                                                                         *)
(* An event is its number in the sequence that its process logged.  The    *)
(* stop sentinel is not an element of the queue: what is logged behind it  *)
(* is never read.                                                          *)
(***************************************************************************)
EXTENDS Integers, Sequences, FiniteSets

CONSTANTS Loggers,      \* processes that log events: chat sessions, MCP servers
          Rotators,     \* processes running audit rotate
          keep_days,    \* in clock ticks
          None,         \* no process
          MaxEvents,    \* bound: events of one process
          MaxClock      \* bound: clock ticks

Services == Loggers \cup Rotators

ASSUME KeepIsPositive == keep_days \in Nat \ {0}
ASSUME NoneIsNoService == None \notin Services
ASSUME BoundsAreNumbers == MaxEvents \in Nat /\ MaxClock \in Nat

VARIABLES clock,
          audit,      \* the committed rows
          next_id,    \* AUTOINCREMENT: no id is used twice
          lock,       \* the process whose writer has a transaction open
          phase,      \* where each process is in start() .. stop()
          queue, writer, hand,   \* its queue, its writer task and the event that task holds
          logged,     \* events it has logged
          rotation, cutoff_ts,   \* where rotate() is, and its cutoff
          ever        \* auxiliary: every row that was ever committed
procVars == <<phase, queue, writer, hand, logged, rotation, cutoff_ts>>
tableVars == <<audit, next_id, ever>>
vars == <<clock, tableVars, lock, procVars>>

Event == [by : Services, n : Nat \ {0}, at : Nat, event : {"COMMAND", "ROTATED"}]
Row == [id : Nat, ev : Event]

TypeOK ==
  /\ clock \in Nat
  /\ audit \subseteq Row /\ ever \subseteq Row /\ next_id \in Nat
  /\ lock \in Services \cup {None}
  /\ phase \in [Services -> {"new", "running", "stopping", "stopped", "failed", "crashed"}]
  /\ queue \in [Services -> Seq(Event)]
  /\ writer \in [Services -> {"none", "waiting", "inserting", "committing", "done", "dead"}]
  /\ hand \in [Services -> Event \cup {None}]
  /\ logged \in [Services -> Nat]
  /\ rotation \in [Services -> {"none", "logging", "draining", "deleting", "done", "failed"}]
  /\ cutoff_ts \in [Services -> Int]

Init ==
  /\ clock = 0
  /\ audit = {} /\ ever = {} /\ next_id = 1
  /\ lock = None
  /\ phase = [s \in Services |-> "new"]
  /\ queue = [s \in Services |-> << >>]
  /\ writer = [s \in Services |-> "none"]
  /\ hand = [s \in Services |-> None]
  /\ logged = [s \in Services |-> 0]
  /\ rotation = [s \in Services |-> "none"]
  /\ cutoff_ts = [s \in Services |-> 0]
-----------------------------------------------------------------------------
(* The writer task opens its connection, or dies of it.                    *)
Start(s) ==
  /\ phase[s] = "new"
  /\ phase' = [phase EXCEPT ![s] = "running"]
  /\ \E w \in {"waiting", "dead"} : writer' = [writer EXCEPT ![s] = w]
  /\ UNCHANGED <<clock, tableVars, lock, queue, hand, logged, rotation, cutoff_ts>>

Enqueue(s, kind) ==
  /\ queue' = [queue EXCEPT ![s] = Append(@, [by |-> s, n |-> logged[s] + 1,
                                              at |-> clock, event |-> kind])]
  /\ logged' = [logged EXCEPT ![s] = @ + 1]

(* Nothing tells the caller that the writer is dead.                       *)
Log(s) ==
  /\ s \in Loggers
  /\ phase[s] = "running"
  /\ logged[s] < MaxEvents
  /\ Enqueue(s, "COMMAND")
  /\ UNCHANGED <<clock, tableVars, lock, phase, writer, hand, rotation, cutoff_ts>>

(* A mutant: the writer waits for a second event, to write two at a time. *)
Take_Batched(s) ==
  /\ writer[s] = "waiting"
  /\ \/ Len(queue[s]) > 1
     \/ queue[s] # << >> /\ phase[s] = "stopping"
  /\ hand' = [hand EXCEPT ![s] = Head(queue[s])]
  /\ queue' = [queue EXCEPT ![s] = Tail(@)]
  /\ writer' = [writer EXCEPT ![s] = "inserting"]
  /\ UNCHANGED <<clock, tableVars, lock, phase, logged, rotation, cutoff_ts>>

Take(s) ==
  /\ writer[s] = "waiting"
  /\ queue[s] # << >>
  /\ hand' = [hand EXCEPT ![s] = Head(queue[s])]
  /\ queue' = [queue EXCEPT ![s] = Tail(@)]
  /\ writer' = [writer EXCEPT ![s] = "inserting"]
  /\ UNCHANGED <<clock, tableVars, lock, phase, logged, rotation, cutoff_ts>>

(* The INSERT opens a transaction.                                         *)
Insert(s) ==
  /\ writer[s] = "inserting"
  /\ lock = None
  /\ lock' = s
  /\ writer' = [writer EXCEPT ![s] = "committing"]
  /\ UNCHANGED <<clock, tableVars, phase, queue, hand, logged, rotation, cutoff_ts>>

Commit(s) ==
  /\ writer[s] = "committing"
  /\ audit' = audit \cup {[id |-> next_id, ev |-> hand[s]]}
  /\ ever' = ever \cup {[id |-> next_id, ev |-> hand[s]]}
  /\ next_id' = next_id + 1
  /\ lock' = None
  /\ writer' = [writer EXCEPT ![s] = "waiting"]
  /\ hand' = [hand EXCEPT ![s] = None]
  /\ UNCHANGED <<clock, phase, queue, logged, rotation, cutoff_ts>>

Unlocked(s) == lock' = IF lock = s THEN None ELSE lock

(* A mutant: the error is swallowed and the next event is taken. *)
WriteFails_Skipped(s) ==
  /\ writer[s] \in {"inserting", "committing"}
  /\ writer' = [writer EXCEPT ![s] = "waiting"]
  /\ hand' = [hand EXCEPT ![s] = None]
  /\ Unlocked(s)
  /\ UNCHANGED <<clock, tableVars, phase, queue, logged, rotation, cutoff_ts>>

(* "database is locked", or a full disk: the exception ends the task, and  *)
(* closing its connection rolls the row back.                              *)
WriteFails(s) ==
  /\ writer[s] \in {"inserting", "committing"}
  /\ writer' = [writer EXCEPT ![s] = "dead"]
  /\ hand' = [hand EXCEPT ![s] = None]
  /\ Unlocked(s)
  /\ UNCHANGED <<clock, tableVars, phase, queue, logged, rotation, cutoff_ts>>
-----------------------------------------------------------------------------
(* rotate() is awaited before the process calls stop().                    *)
StopCalled(s) ==
  /\ phase[s] = "running"
  /\ s \in Rotators => rotation[s] \in {"done", "failed"}
  /\ phase' = [phase EXCEPT ![s] = "stopping"]
  /\ UNCHANGED <<clock, tableVars, lock, queue, writer, hand, logged, rotation, cutoff_ts>>

(* A mutant: the writer does not stop at the sentinel. *)
TakeSentinel_Ignored(s) ==
  /\ writer[s] = "waiting"
  /\ phase[s] = "stopping"
  /\ queue[s] = << >>
  /\ UNCHANGED vars

TakeSentinel(s) ==
  /\ writer[s] = "waiting"
  /\ phase[s] = "stopping"
  /\ queue[s] = << >>
  /\ writer' = [writer EXCEPT ![s] = "done"]
  /\ UNCHANGED <<clock, tableVars, lock, phase, queue, hand, logged, rotation, cutoff_ts>>

(* A mutant: stop() does not wait for the writer to end. *)
StopReturns_Early(s) ==
  /\ phase[s] = "stopping"
  /\ phase' = [phase EXCEPT ![s] = IF writer[s] = "dead" THEN "failed" ELSE "stopped"]
  /\ UNCHANGED <<clock, tableVars, lock, queue, writer, hand, logged, rotation, cutoff_ts>>

(* await self._writer_task: its exception is raised again here.            *)
StopReturns(s) ==
  /\ phase[s] = "stopping"
  /\ writer[s] \in {"done", "dead"}
  /\ phase' = [phase EXCEPT ![s] = IF writer[s] = "done" THEN "stopped" ELSE "failed"]
  /\ UNCHANGED <<clock, tableVars, lock, queue, writer, hand, logged, rotation, cutoff_ts>>

(* The process is killed, or loop.stop() cancels the writer with the rest. *)
Crash(s) ==
  /\ phase[s] \in {"running", "stopping"}
  /\ phase' = [phase EXCEPT ![s] = "crashed"]
  /\ writer' = [writer EXCEPT ![s] = "none"]
  /\ hand' = [hand EXCEPT ![s] = None]
  /\ queue' = [queue EXCEPT ![s] = << >>]
  /\ Unlocked(s)
  /\ UNCHANGED <<clock, tableVars, logged, rotation, cutoff_ts>>
-----------------------------------------------------------------------------
(* rotate(): the cutoff is fixed; stats() suspends before ROTATED is       *)
(* logged.                                                                 *)
RotateBegins(s) ==
  /\ s \in Rotators
  /\ phase[s] = "running" /\ rotation[s] = "none"
  /\ cutoff_ts' = [cutoff_ts EXCEPT ![s] = clock - keep_days]
  /\ rotation' = [rotation EXCEPT ![s] = "logging"]
  /\ UNCHANGED <<clock, tableVars, lock, phase, queue, writer, hand, logged>>

RotateLogs(s) ==
  /\ phase[s] = "running" /\ rotation[s] = "logging"
  /\ Enqueue(s, "ROTATED")
  /\ rotation' = [rotation EXCEPT ![s] = "draining"]
  /\ UNCHANGED <<clock, tableVars, lock, phase, writer, hand, cutoff_ts>>

(* "while not self._queue.empty(): await asyncio.sleep(0)".                *)
RotateDrained(s) ==
  /\ phase[s] = "running" /\ rotation[s] = "draining"
  /\ queue[s] = << >>
  /\ rotation' = [rotation EXCEPT ![s] = "deleting"]
  /\ UNCHANGED <<clock, tableVars, lock, phase, queue, writer, hand, logged, cutoff_ts>>

(* DELETE and commit: nobody else writes in between.                       *)
RotateDeletes(s) ==
  /\ phase[s] = "running" /\ rotation[s] = "deleting"
  /\ lock = None
  /\ audit' = {r \in audit : r.ev.at >= cutoff_ts[s]}
  /\ rotation' = [rotation EXCEPT ![s] = "done"]
  /\ UNCHANGED <<clock, next_id, ever, lock, phase, queue, writer, hand, logged, cutoff_ts>>

(* stats(), or the DELETE, raises.                                         *)
RotateFails(s) ==
  /\ phase[s] = "running" /\ rotation[s] \in {"logging", "deleting"}
  /\ rotation' = [rotation EXCEPT ![s] = "failed"]
  /\ UNCHANGED <<clock, tableVars, lock, phase, queue, writer, hand, logged, cutoff_ts>>

Tick ==
  /\ clock < MaxClock
  /\ clock' = clock + 1
  /\ UNCHANGED <<tableVars, lock, procVars>>
-----------------------------------------------------------------------------
WriterStep(s) == Take(s) \/ Insert(s) \/ Commit(s) \/ WriteFails(s) \/ TakeSentinel(s)
RotateStep(s) == RotateLogs(s) \/ RotateDrained(s) \/ RotateDeletes(s) \/ RotateFails(s)

Step(s) ==
  \/ Start(s) \/ Log(s) \/ WriterStep(s) \/ StopCalled(s) \/ StopReturns(s) \/ Crash(s)
  \/ RotateBegins(s) \/ RotateStep(s)

Next == (\E s \in Services : Step(s)) \/ Tick

Spec == Init /\ [][Next]_vars

(* The event loop runs what is ready, and SQLite's busy handler gives up.  *)
Fairness ==
  \A s \in Services : WF_vars(WriterStep(s)) /\ WF_vars(StopReturns(s)) /\ WF_vars(RotateStep(s))

FairSpec == Spec /\ Fairness
-----------------------------------------------------------------------------
(* A mutant: the oldest k, as LIMIT without DESC would have it. *)
Query_Oldest(s, k) ==
  {r \in audit : /\ r.ev.by = s
                 /\ Cardinality({q \in audit : q.ev.by = s /\ q.id < r.id}) < k}

(* query(session_id=s, limit=k): the newest k committed rows of a process. *)
Query(s, k) ==
  {r \in audit : /\ r.ev.by = s
                 /\ Cardinality({q \in audit : q.ev.by = s /\ q.id > r.id}) < k}

(* The trail of a process has no holes and is in order, however writers    *)
(* die, processes crash and rotations interleave: an event is in the file  *)
(* only if every earlier one was written before it, and what rotation has  *)
(* left of the trail is its end.                                           *)
WrittenInOrder ==
  \A e \in ever : \A m \in 1..e.ev.n :
    \E f \in ever : f.ev.by = e.ev.by /\ f.ev.n = m /\ f.id <= e.id

RotatedFromTheFront ==
  \A r \in audit, e \in ever : r.ev.by = e.ev.by /\ r.ev.n <= e.ev.n => e \in audit

TrailHasNoHoles == WrittenInOrder /\ RotatedFromTheFront

(* "Drain the queue": when stop() returns, and does not raise, every event *)
(* that was logged before it was called has been written.                  *)
StoppedMeansWritten ==
  \A s \in Services : phase[s] = "stopped" =>
    \A n \in 1..logged[s] : \E e \in ever : e.ev.by = s /\ e.ev.n = n

(* `audit tail --session` shows an unbroken run of what the session did,   *)
(* and once the writer has caught up the run includes its last event.      *)
TailIsLatest ==
  \A s \in Services, k \in 1..MaxEvents :
    LET shown == {r.ev.n : r \in Query(s, k)}
        caught_up == writer[s] = "waiting" /\ queue[s] = << >>
    IN  /\ \A m, n \in shown : m..n \subseteq shown
        /\ caught_up /\ shown # {} => logged[s] \in shown

(* What is logged gets written, unless the writer or the process dies.     *)
LoggedIsWritten ==
  \A s \in Services : \A n \in 1..MaxEvents :
    (logged[s] >= n) ~>
       \/ \E e \in ever : e.ev.by = s /\ e.ev.n = n
       \/ writer[s] = "dead" \/ phase[s] = "crashed"

(* stop() never hangs, dead writer or not.                                 *)
StopEnds == \A s \in Services : (phase[s] = "stopping") ~> (phase[s] # "stopping")
=============================================================================
