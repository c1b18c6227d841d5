---------------------------- MODULE AuditProofs ----------------------------
(***************************************************************************)
(* The audit table, for any processes, rotations and bounds: what the      *)
(* trail of a process looks like in the file.  The inductive invariant     *)
(* says where each event of a process is: written, in the writer's hand,   *)
(* in the queue, or lost with a writer that is gone.                       *)
(***************************************************************************)
EXTENDS AuditService, FiniteSetTheorems, TLAPS

Holding(s) == writer[s] \in {"inserting", "committing"}
Gone(s) == writer[s] \in {"none", "dead"}

(* The number of the last event the writer has taken off the queue.        *)
Taken(s) == logged[s] - Len(queue[s])

(* What is queued are the last events logged, in order and in time.        *)
InOrder(q, s, last, now) ==
  /\ Len(q) <= last
  /\ \A i \in 1..Len(q) :
       /\ q[i].by = s
       /\ q[i].n = last - Len(q) + i
       /\ q[i].at <= now
       /\ \A j \in 1..i : q[j].at <= q[i].at

QueueInv == \A s \in Services : InOrder(queue[s], s, logged[s], clock)

HandOk(s) ==
  Holding(s) =>
    /\ hand[s] \in Event
    /\ hand[s].by = s
    /\ hand[s].n = Taken(s)
    /\ hand[s].at <= clock
    /\ \A i \in 1..Len(queue[s]) : hand[s].at <= queue[s][i].at

HandInv == \A s \in Services : HandOk(s)

(* A writer that is alive has written what it has taken, but what it holds. *)
Written(s, n) == \E e \in ever : e.ev.by = s /\ e.ev.n = n

FileOk(s) ==
  ~Gone(s) => \A n \in 1..Taken(s) : (Holding(s) /\ n = Taken(s)) \/ Written(s, n)

(* ... and nothing else: what is in the file came before what is not.      *)
RowOk(s, e) ==
  /\ phase[s] # "new"
  /\ e.ev.at <= clock
  /\ ~Gone(s) => /\ e.ev.n <= Taken(s)
                 /\ Holding(s) => e.ev.n < Taken(s) /\ e.ev.at <= hand[s].at
                 /\ \A i \in 1..Len(queue[s]) : e.ev.at <= queue[s][i].at

FileInv ==
  /\ \A e \in ever : e.id < next_id
  /\ \A s \in Services : FileOk(s)
  /\ \A s \in Services : \A e \in ever : e.ev.by = s => RowOk(s, e)

(* The rows of a process are in the order of its events, by id and by time. *)
OrderInv ==
  \A e, f \in ever : e.ev.by = f.ev.by /\ e.ev.n <= f.ev.n => e.id <= f.id /\ e.ev.at <= f.ev.at

LifeOk(s) ==
  /\ phase[s] = "new" => writer[s] = "none" /\ logged[s] = 0 /\ queue[s] = << >>
  /\ writer[s] = "done" => queue[s] = << >> /\ phase[s] \in {"stopping", "stopped"}
  /\ phase[s] = "stopped" => writer[s] = "done"
  /\ writer[s] = "none" => phase[s] \in {"new", "crashed"}

LifeInv == \A s \in Services : LifeOk(s)

IInv ==
  /\ TypeOK /\ QueueInv /\ HandInv /\ FileInv /\ OrderInv /\ LifeInv
  /\ audit \subseteq ever /\ IsFiniteSet(ever)
  /\ TrailHasNoHoles
-----------------------------------------------------------------------------
(* Who leaves the queue of every process alone.                            *)
LEMMA QueueOnlyBy ==
  ASSUME [Next]_vars,
         \A s \in Services : ~Log(s) /\ ~RotateLogs(s) /\ ~Take(s) /\ ~Crash(s)
  PROVE  UNCHANGED <<queue, logged>>
<1>1. CASE \E s \in Services : Step(s)
  <2>1. PICK s \in Services : Step(s)
    BY <1>1
  <2> QED
    BY <2>1 DEF Step, WriterStep, RotateStep, Start, Insert, Commit, WriteFails, TakeSentinel,
                StopCalled, StopReturns, RotateBegins, RotateDrained, RotateDeletes, RotateFails
<1>2. CASE Tick \/ UNCHANGED vars
  BY <1>2 DEF Tick, vars, procVars
<1> QED
  BY <1>1, <1>2 DEF Next

LEMMA TypeInit == Init => TypeOK
  BY KeepIsPositive DEF Init, TypeOK, Services

LEMMA EnqueueType ==
  ASSUME TypeOK, NEW s \in Services, NEW kind \in {"COMMAND", "ROTATED"}, Enqueue(s, kind)
  PROVE  /\ queue' \in [Services -> Seq(Event)]
         /\ logged' \in [Services -> Nat]
<1>1. [by |-> s, n |-> logged[s] + 1, at |-> clock, event |-> kind] \in Event
  BY DEF TypeOK, Event
<1> QED
  BY <1>1 DEF TypeOK, Enqueue

LEMMA TypeStep ==
  ASSUME TypeOK, [Next]_vars, HandInv
  PROVE  TypeOK'
<1> USE DEF TypeOK, tableVars, procVars
<1>1. CASE \E s \in Services : Step(s)
  <2>1. PICK s \in Services : Step(s)
    BY <1>1
  <2>2. CASE Start(s) \/ StopCalled(s) \/ StopReturns(s) \/ TakeSentinel(s) \/ Insert(s)
    BY <2>2 DEF Start, StopCalled, StopReturns, TakeSentinel, Insert
  <2>3. CASE Log(s)
    BY <2>3, EnqueueType DEF Log
  <2>4. CASE RotateLogs(s)
    BY <2>4, EnqueueType DEF RotateLogs
  <2>5. CASE Take(s)
    <3>1. /\ queue[s] \in Seq(Event) /\ queue[s] # << >>
      BY <2>5 DEF Take
    <3>2. Head(queue[s]) \in Event /\ Tail(queue[s]) \in Seq(Event)
      BY <3>1
    <3> QED
      BY <2>5, <3>2 DEF Take
  <2>6. CASE Commit(s)
    <3>1. hand[s] \in Event
      BY <2>6 DEF Commit, HandInv, HandOk, Holding
    <3>2. [id |-> next_id, ev |-> hand[s]] \in Row
      BY <3>1 DEF Row
    <3> QED
      BY <2>6, <3>2 DEF Commit
  <2>7. CASE WriteFails(s) \/ Crash(s)
    <3>1. lock' \in Services \cup {None} /\ hand' \in [Services -> Event \cup {None}]
      BY <2>7 DEF WriteFails, Crash, Unlocked
    <3>2. CASE WriteFails(s)
      BY <3>1, <3>2 DEF WriteFails
    <3>3. CASE Crash(s)
      BY <3>1, <3>3 DEF Crash
    <3> QED BY <2>7, <3>2, <3>3
  <2>8. CASE RotateBegins(s) \/ RotateDrained(s) \/ RotateFails(s)
    <3>1. CASE RotateBegins(s)
      <4>1. clock - keep_days \in Int
        BY KeepIsPositive
      <4> QED BY <3>1, <4>1 DEF RotateBegins
    <3>2. CASE RotateDrained(s) \/ RotateFails(s)
      BY <3>2 DEF RotateDrained, RotateFails
    <3> QED BY <2>8, <3>1, <3>2
  <2>9. CASE RotateDeletes(s)
    BY <2>9 DEF RotateDeletes
  <2> QED
    BY <2>1, <2>2, <2>3, <2>4, <2>5, <2>6, <2>7, <2>8, <2>9 DEF Step, WriterStep, RotateStep
<1>2. CASE Tick
  BY <1>2 DEF Tick
<1>3. CASE UNCHANGED vars
  BY <1>3 DEF vars
<1> QED
  BY <1>1, <1>2, <1>3 DEF Next

LEMMA AppendInOrder ==
  ASSUME NEW q \in Seq(Event), NEW s, NEW last \in Nat, NEW now \in Nat, InOrder(q, s, last, now),
         NEW e \in Event, e.by = s, e.n = last + 1, e.at = now
  PROVE  InOrder(Append(q, e), s, last + 1, now)
<1> DEFINE r == Append(q, e)
<1>1. /\ Len(q) \in Nat /\ Len(r) = Len(q) + 1
      /\ r[Len(q) + 1] = e
      /\ \A i \in 1..Len(q) : r[i] = q[i]
  OBVIOUS
<1> HIDE DEF r
<1>2. Len(r) <= last + 1
  BY <1>1 DEF InOrder
<1>3. ASSUME NEW i \in 1..Len(q)
      PROVE  /\ r[i].by = s
             /\ r[i].n = (last + 1) - Len(r) + i
             /\ r[i].at <= now
             /\ \A j \in 1..i : r[j].at <= r[i].at
  <2>1. r[i].by = s /\ r[i].n = (last + 1) - Len(r) + i /\ r[i].at <= now
    <3>1. q[i].by = s /\ q[i].n = last - Len(q) + i /\ q[i].at <= now
      BY DEF InOrder
    <3>2. (last + 1) - Len(r) + i = last - Len(q) + i
      BY <1>1
    <3> QED BY <1>1, <3>1, <3>2
  <2>2. ASSUME NEW j \in 1..i PROVE r[j].at <= r[i].at
    <3>1. j \in 1..Len(q)
      BY <1>1
    <3> QED BY <1>1, <3>1 DEF InOrder
  <2> QED BY <2>1, <2>2
<1>4. /\ r[Len(q) + 1].by = s
      /\ r[Len(q) + 1].n = (last + 1) - Len(r) + (Len(q) + 1)
      /\ r[Len(q) + 1].at <= now
      /\ \A j \in 1..(Len(q) + 1) : r[j].at <= r[Len(q) + 1].at
  BY <1>1 DEF InOrder
<1>5. \A i \in 1..Len(r) : i \in 1..Len(q) \/ i = Len(q) + 1
  BY <1>1
<1>6. \A i \in 1..Len(r) :
        /\ r[i].by = s
        /\ r[i].n = (last + 1) - Len(r) + i
        /\ r[i].at <= now
        /\ \A j \in 1..i : r[j].at <= r[i].at
  BY <1>1, <1>3, <1>4, <1>5
<1>7. InOrder(r, s, last + 1, now)
  BY <1>2, <1>6, Zenon DEF InOrder
<1> QED
  BY <1>7 DEF r

LEMMA TailInOrder ==
  ASSUME NEW q \in Seq(Event), NEW s, NEW last \in Nat, NEW now \in Nat, InOrder(q, s, last, now),
         q # << >>
  PROVE  InOrder(Tail(q), s, last, now)
<1>1. /\ Len(q) \in Nat \ {0} /\ Len(Tail(q)) = Len(q) - 1
      /\ \A i \in 1..Len(Tail(q)) : Tail(q)[i] = q[i + 1]
  OBVIOUS
<1> QED
  BY <1>1 DEF InOrder

LEMMA LaterInOrder ==
  ASSUME NEW q \in Seq(Event), NEW s, NEW last \in Nat, NEW now \in Nat, InOrder(q, s, last, now)
  PROVE  InOrder(q, s, last, now + 1)
<1>1. ASSUME NEW i \in 1..Len(q) PROVE q[i].at <= now + 1
  <2>1. q[i] \in Event
    OBVIOUS
  <2>2. q[i].at \in Nat
    BY <2>1 DEF Event
  <2> QED BY <2>2 DEF InOrder
<1> QED
  BY <1>1, Zenon DEF InOrder

LEMMA EmptyInOrder ==
  ASSUME NEW s, NEW last \in Nat, NEW now
  PROVE  InOrder(<< >>, s, last, now)
  BY DEF InOrder

(* The clock moves alone.                                                  *)
LEMMA ClockStep ==
  ASSUME TypeOK, [Next]_vars
  PROVE  \/ clock' = clock
         \/ clock' = clock + 1 /\ UNCHANGED <<tableVars, lock, procVars>>
<1>1. ASSUME NEW s \in Services, Step(s) PROVE clock' = clock
  <2>1. CASE Start(s) \/ Log(s) \/ WriterStep(s)
    BY <2>1 DEF WriterStep, Start, Log, Take, Insert, Commit, WriteFails, TakeSentinel
  <2>2. CASE StopCalled(s) \/ StopReturns(s) \/ Crash(s) \/ RotateBegins(s) \/ RotateStep(s)
    BY <2>2 DEF RotateStep, StopCalled, StopReturns, Crash, RotateBegins, RotateLogs,
                RotateDrained, RotateDeletes, RotateFails
  <2> QED BY <1>1, <2>1, <2>2 DEF Step
<1>2. CASE Tick
  BY <1>2 DEF Tick
<1>3. CASE UNCHANGED vars
  BY <1>3 DEF vars
<1> QED BY <1>1, <1>2, <1>3 DEF Next

LEMMA QueueStep ==
  ASSUME TypeOK, QueueInv, [Next]_vars
  PROVE  QueueInv'
<1>1. /\ clock \in Nat
      /\ \A s \in Services : /\ queue[s] \in Seq(Event) /\ logged[s] \in Nat
                             /\ InOrder(queue[s], s, logged[s], clock)
  BY DEF TypeOK, QueueInv
<1>2. ASSUME NEW s \in Services, Log(s) \/ RotateLogs(s)
      PROVE  QueueInv'
  <2>1. PICK kind \in {"COMMAND", "ROTATED"} : Enqueue(s, kind) /\ clock' = clock
    BY <1>2 DEF Log, RotateLogs
  <2> DEFINE e == [by |-> s, n |-> logged[s] + 1, at |-> clock, event |-> kind]
  <2>2. e \in Event /\ e.by = s /\ e.n = logged[s] + 1 /\ e.at = clock
    BY <1>1 DEF Event
  <2>3. /\ queue' = [queue EXCEPT ![s] = Append(@, e)]
        /\ logged' = [logged EXCEPT ![s] = @ + 1]
    BY <2>1 DEF Enqueue
  <2> HIDE DEF e
  <2>4. InOrder(Append(queue[s], e), s, logged[s] + 1, clock)
    BY <1>1, <2>2, AppendInOrder
  <2> QED
    BY <1>1, <2>1, <2>3, <2>4 DEF QueueInv, TypeOK
<1>3. ASSUME NEW s \in Services, Take(s)
      PROVE  QueueInv'
  <2>1. /\ queue[s] # << >>
        /\ queue' = [queue EXCEPT ![s] = Tail(@)]
        /\ logged' = logged /\ clock' = clock
    BY <1>3 DEF Take
  <2>2. InOrder(Tail(queue[s]), s, logged[s], clock)
    BY <1>1, <2>1, TailInOrder
  <2> QED BY <1>1, <2>1, <2>2 DEF QueueInv, TypeOK
<1>4. ASSUME NEW s \in Services, Crash(s)
      PROVE  QueueInv'
  <2>1. InOrder(<< >>, s, logged[s], clock)
    BY <1>1, EmptyInOrder
  <2> QED BY <1>1, <1>4, <2>1 DEF Crash, QueueInv, TypeOK
<1>5. CASE \A s \in Services : ~Log(s) /\ ~RotateLogs(s) /\ ~Take(s) /\ ~Crash(s)
  <2>1. UNCHANGED <<queue, logged>>
    BY <1>5, QueueOnlyBy
  <2>2. clock' \in {clock, clock + 1}
    BY ClockStep
  <2> QED BY <1>1, <2>1, <2>2, LaterInOrder DEF QueueInv
<1> QED BY <1>2, <1>3, <1>4, <1>5

LEMMA OthersKeep ==
  ASSUME TypeOK, NEW s \in Services, NEW t \in Services, t # s, Step(s)
  PROVE  /\ queue'[t] = queue[t] /\ logged'[t] = logged[t]
         /\ writer'[t] = writer[t] /\ hand'[t] = hand[t] /\ phase'[t] = phase[t]
<1> USE DEF TypeOK
<1>1. CASE Start(s) \/ StopCalled(s) \/ StopReturns(s) \/ Crash(s)
  BY <1>1 DEF Start, StopCalled, StopReturns, Crash
<1>2. CASE Log(s) \/ RotateLogs(s)
  BY <1>2 DEF Log, RotateLogs, Enqueue
<1>3. CASE Take(s) \/ Insert(s) \/ Commit(s)
  BY <1>3 DEF Take, Insert, Commit
<1>4. CASE WriteFails(s) \/ TakeSentinel(s)
  BY <1>4 DEF WriteFails, TakeSentinel
<1>5. CASE RotateBegins(s) \/ RotateDrained(s) \/ RotateDeletes(s) \/ RotateFails(s)
  BY <1>5 DEF RotateBegins, RotateDrained, RotateDeletes, RotateFails
<1> QED BY <1>1, <1>2, <1>3, <1>4, <1>5 DEF Step, WriterStep, RotateStep

(* What a process does that matters to the events in its hands.            *)
Idle(s) == /\ UNCHANGED <<ever, next_id>>
           /\ queue'[s] = queue[s] /\ logged'[s] = logged[s]
           /\ hand'[s] = hand[s] /\ writer'[s] = writer[s] /\ phase'[s] = phase[s]

LEMMA OwnSteps ==
  ASSUME TypeOK, [Next]_vars, NEW s \in Services
  PROVE  \/ Start(s) \/ Log(s) \/ RotateLogs(s) \/ Take(s) \/ Insert(s) \/ Commit(s)
         \/ WriteFails(s) \/ TakeSentinel(s) \/ StopCalled(s) \/ StopReturns(s) \/ Crash(s)
         \/ Idle(s)
         \/ \E t \in Services \ {s} : Commit(t)
<1>1. ASSUME NEW t \in Services, t # s, Step(t), ~Commit(t)
      PROVE  Idle(s)
  <2>1. UNCHANGED <<ever, next_id>>
    BY <1>1 DEF Step, WriterStep, RotateStep, Start, Log, Take, Insert, WriteFails, TakeSentinel,
                StopCalled, StopReturns, Crash, RotateBegins, RotateLogs, RotateDrained,
                RotateDeletes, RotateFails, tableVars
  <2> QED BY <1>1, <2>1, OthersKeep DEF Idle
<1>2. CASE RotateBegins(s) \/ RotateDrained(s) \/ RotateDeletes(s) \/ RotateFails(s)
  BY <1>2 DEF RotateBegins, RotateDrained, RotateDeletes, RotateFails, Idle, tableVars
<1>3. CASE Tick \/ UNCHANGED vars
  BY <1>3 DEF Tick, vars, procVars, tableVars, Idle
<1>4. CASE \E t \in Services : Step(t)
  BY <1>1, <1>2, <1>4 DEF Step, WriterStep, RotateStep
<1> QED BY <1>3, <1>4 DEF Next

LEMMA HandStep ==
  ASSUME TypeOK, QueueInv, HandInv, [Next]_vars
  PROVE  HandInv'
<1> SUFFICES ASSUME NEW s \in Services PROVE HandOk(s)'
  BY DEF HandInv
<1> USE DEF HandOk, Holding, Taken
<1>1. /\ HandOk(s) /\ InOrder(queue[s], s, logged[s], clock)
      /\ queue[s] \in Seq(Event) /\ logged[s] \in Nat /\ clock \in Nat
  BY DEF HandInv, QueueInv, TypeOK
<1>12. clock' \in {clock, clock + 1}
  BY ClockStep
<1>2. Holding(s) => hand[s].at \in Nat
  BY <1>1 DEF Event
<1>3. CASE Log(s) \/ RotateLogs(s)
  <2>1. PICK kind : Enqueue(s, kind) /\ UNCHANGED <<clock, writer, hand>>
    BY <1>3 DEF Log, RotateLogs
  <2> DEFINE e == [by |-> s, n |-> logged[s] + 1, at |-> clock, event |-> kind]
  <2>2. /\ queue'[s] = Append(queue[s], e)
        /\ logged'[s] = logged[s] + 1
        /\ e.at = clock
    BY <2>1 DEF Enqueue, TypeOK
  <2> HIDE DEF e
  <2>3. /\ Len(queue'[s]) = Len(queue[s]) + 1
        /\ \A i \in 1..Len(queue[s]) : queue'[s][i] = queue[s][i]
        /\ queue'[s][Len(queue[s]) + 1].at = clock
    BY <1>1, <2>2
  <2>4. \A i \in 1..Len(queue'[s]) : i \in 1..Len(queue[s]) \/ i = Len(queue[s]) + 1
    BY <1>1, <2>3
  <2>5. Holding(s)' => Holding(s) /\ hand'[s] = hand[s]
    BY <2>1
  <2>6. Taken(s)' = Taken(s)
    BY <1>1, <2>2, <2>3
  <2>7. Holding(s) => \A i \in 1..Len(queue'[s]) : hand[s].at <= queue'[s][i].at
    BY <1>1, <1>2, <2>3, <2>4
  <2> QED BY <1>1, <2>1, <2>5, <2>6, <2>7
<1>4. CASE Take(s)
  <2>1. /\ queue[s] # << >> /\ hand'[s] = Head(queue[s]) /\ queue'[s] = Tail(queue[s])
        /\ logged'[s] = logged[s] /\ clock' = clock
    BY <1>4 DEF Take, TypeOK
  <2>2. /\ Len(queue[s]) \in Nat \ {0} /\ Len(queue'[s]) = Len(queue[s]) - 1
        /\ hand'[s] = queue[s][1] /\ queue[s][1] \in Event
        /\ \A i \in 1..Len(queue'[s]) : queue'[s][i] = queue[s][i + 1]
    BY <1>1, <2>1
  <2>3. /\ queue[s][1].by = s /\ queue[s][1].n = logged[s] - Len(queue[s]) + 1
        /\ queue[s][1].at <= clock
    BY <1>1, <2>2 DEF InOrder
  <2>4. \A i \in 1..Len(queue'[s]) : queue[s][1].at <= queue[s][i + 1].at
    BY <1>1, <2>2 DEF InOrder
  <2> QED BY <1>1, <2>1, <2>2, <2>3, <2>4
<1>5. CASE Insert(s)
  BY <1>1, <1>5 DEF Insert, TypeOK
<1>6. CASE Start(s) \/ Commit(s) \/ WriteFails(s) \/ TakeSentinel(s) \/ Crash(s)
  BY <1>6 DEF Start, Commit, WriteFails, TakeSentinel, Crash, TypeOK
<1>7. CASE StopCalled(s) \/ StopReturns(s)
  BY <1>1, <1>7 DEF StopCalled, StopReturns
<1>8. CASE Idle(s)
  BY <1>1, <1>2, <1>12, <1>8 DEF Idle
<1>9. ASSUME NEW t \in Services \ {s}, Commit(t) PROVE HandOk(s)'
  BY <1>1, <1>9 DEF Commit, TypeOK
<1> QED BY <1>3, <1>4, <1>5, <1>6, <1>7, <1>8, <1>9, OwnSteps

LEMMA LifeStep ==
  ASSUME TypeOK, LifeInv, [Next]_vars
  PROVE  LifeInv'
<1> SUFFICES ASSUME NEW s \in Services PROVE LifeOk(s)'
  BY DEF LifeInv
<1> USE DEF LifeOk
<1>1. LifeOk(s)
  BY DEF LifeInv
<1>2. CASE Start(s) \/ Commit(s) \/ WriteFails(s) \/ Take(s) \/ Insert(s)
  BY <1>1, <1>2 DEF Start, Commit, WriteFails, Take, Insert, TypeOK
<1>3. CASE Log(s) \/ RotateLogs(s)
  BY <1>1, <1>3 DEF Log, RotateLogs, Enqueue, TypeOK
<1>4. CASE TakeSentinel(s) \/ StopCalled(s) \/ StopReturns(s) \/ Crash(s)
  BY <1>1, <1>4 DEF TakeSentinel, StopCalled, StopReturns, Crash, TypeOK
<1>5. CASE Idle(s)
  BY <1>1, <1>5 DEF Idle
<1>6. ASSUME NEW t \in Services \ {s}, Commit(t) PROVE LifeOk(s)'
  BY <1>1, <1>6 DEF Commit, TypeOK
<1> QED BY <1>2, <1>3, <1>4, <1>5, <1>6, OwnSteps

(* What is committed.                                                      *)
NewRow(s) == [id |-> next_id, ev |-> hand[s]]

LEMMA CommitRow ==
  ASSUME TypeOK, HandInv, NEW s \in Services, Commit(s)
  PROVE  /\ NewRow(s) \in Row
         /\ NewRow(s).id = next_id /\ NewRow(s).ev = hand[s]
         /\ hand[s] \in Event
         /\ hand[s].by = s /\ hand[s].n = Taken(s) /\ hand[s].at <= clock
         /\ \A i \in 1..Len(queue[s]) : hand[s].at <= queue[s][i].at
         /\ ever' = ever \cup {NewRow(s)} /\ audit' = audit \cup {NewRow(s)}
         /\ next_id' = next_id + 1 /\ clock' = clock
         /\ Holding(s)
<1>1. HandOk(s) /\ Holding(s)
  BY DEF HandInv, Commit, Holding
<1>2. hand[s] \in Event /\ next_id \in Nat
  BY <1>1 DEF HandOk, TypeOK
<1> QED
  BY <1>1, <1>2 DEF HandOk, NewRow, Row, Commit

(* Nobody else writes.                                                     *)
LEMMA EverOnlyBy ==
  ASSUME [Next]_vars, \A s \in Services : ~Commit(s)
  PROVE  UNCHANGED <<ever, next_id>>
<1>1. ASSUME NEW s \in Services, Step(s) PROVE UNCHANGED <<ever, next_id>>
  BY <1>1 DEF Step, WriterStep, RotateStep, Start, Log, Take, Insert, WriteFails, TakeSentinel,
              StopCalled, StopReturns, Crash, RotateBegins, RotateLogs, RotateDrained,
              RotateDeletes, RotateFails, tableVars
<1>2. CASE Tick \/ UNCHANGED vars
  BY <1>2 DEF Tick, vars, tableVars
<1> QED BY <1>1, <1>2 DEF Next

LEMMA RowFacts ==
  ASSUME TypeOK, NEW e \in ever
  PROVE  e.id \in Nat /\ e.ev.n \in Nat \ {0} /\ e.ev.at \in Nat /\ e.ev.by \in Services
  BY DEF TypeOK, Row, Event

LEMMA IdStep ==
  ASSUME TypeOK, HandInv, [Next]_vars, \A e \in ever : e.id < next_id
  PROVE  \A e \in ever' : e.id < next_id'
<1>1. ASSUME NEW s \in Services, Commit(s) PROVE \A e \in ever' : e.id < next_id'
  <2>1. next_id \in Nat /\ \A e \in ever : e.id \in Nat
    BY RowFacts DEF TypeOK
  <2> QED BY <1>1, <2>1, CommitRow
<1> QED BY <1>1, EverOnlyBy

(* The queue grows at its end and is taken from its front.                 *)
LEMMA EnqueueEffect ==
  ASSUME TypeOK, NEW s \in Services, Log(s) \/ RotateLogs(s)
  PROVE  /\ Taken(s)' = Taken(s)
         /\ UNCHANGED <<clock, ever, next_id, phase, writer, hand>>
         /\ phase[s] = "running"
         /\ \A i \in 1..Len(queue'[s]) :
              \/ queue'[s][i].at = clock
              \/ i \in 1..Len(queue[s]) /\ queue'[s][i] = queue[s][i]
<1>1. PICK kind : Enqueue(s, kind) /\ UNCHANGED <<clock, tableVars, phase, writer, hand>>
  BY DEF Log, RotateLogs
<1> DEFINE e == [by |-> s, n |-> logged[s] + 1, at |-> clock, event |-> kind]
<1>2. /\ queue[s] \in Seq(Event) /\ logged[s] \in Nat
      /\ queue'[s] = Append(queue[s], e) /\ logged'[s] = logged[s] + 1
      /\ e.at = clock
  BY <1>1 DEF Enqueue, TypeOK
<1> HIDE DEF e
<1>3. /\ Len(queue[s]) \in Nat /\ Len(queue'[s]) = Len(queue[s]) + 1
      /\ \A i \in 1..Len(queue[s]) : queue'[s][i] = queue[s][i]
      /\ queue'[s][Len(queue[s]) + 1].at = clock
  BY <1>2
<1>4. \A i \in 1..Len(queue'[s]) : i \in 1..Len(queue[s]) \/ i = Len(queue[s]) + 1
  BY <1>3
<1>5. Taken(s)' = Taken(s)
  BY <1>2, <1>3 DEF Taken
<1>6. phase[s] = "running"
  BY DEF Log, RotateLogs
<1> QED BY <1>1, <1>3, <1>4, <1>5, <1>6 DEF tableVars

LEMMA TakeEffect ==
  ASSUME TypeOK, QueueInv, NEW s \in Services, Take(s)
  PROVE  /\ Taken(s) \in Nat /\ Taken(s)' = Taken(s) + 1
         /\ UNCHANGED <<clock, ever, next_id, phase>>
         /\ writer[s] = "waiting" /\ writer'[s] = "inserting"
         /\ 1 \in 1..Len(queue[s]) /\ hand'[s] = queue[s][1]
         /\ \A i \in 1..Len(queue'[s]) : i + 1 \in 1..Len(queue[s]) /\ queue'[s][i] = queue[s][i + 1]
<1>1. /\ queue[s] \in Seq(Event) /\ queue[s] # << >> /\ logged[s] \in Nat
      /\ queue'[s] = Tail(queue[s]) /\ logged' = logged /\ hand'[s] = Head(queue[s])
  BY DEF Take, TypeOK
<1>2. /\ Len(queue[s]) \in Nat \ {0} /\ Len(queue'[s]) = Len(queue[s]) - 1
      /\ Head(queue[s]) = queue[s][1]
      /\ \A i \in 1..Len(queue'[s]) : queue'[s][i] = queue[s][i + 1]
  BY <1>1
<1>3. Taken(s) \in Nat /\ Taken(s)' = Taken(s) + 1
  BY <1>1, <1>2 DEF QueueInv, InOrder, Taken
<1>4. UNCHANGED <<clock, ever, next_id, phase>> /\ writer[s] = "waiting" /\ writer'[s] = "inserting"
  BY DEF Take, TypeOK, tableVars
<1> QED BY <1>1, <1>2, <1>3, <1>4

LEMMA FileStep ==
  ASSUME TypeOK, QueueInv, HandInv, LifeInv, FileInv, [Next]_vars
  PROVE  \A s \in Services : FileOk(s)'
<1> SUFFICES ASSUME NEW s \in Services PROVE FileOk(s)'
  OBVIOUS
<1> USE DEF FileOk, Gone, Holding
<1>1. FileOk(s)
  BY DEF FileInv
<1>2. CASE Start(s)
  <2>1. Taken(s)' = 0
    BY <1>2 DEF LifeInv, LifeOk, Start, Taken, TypeOK
  <2> QED BY <2>1
<1>3. CASE Log(s) \/ RotateLogs(s)
  BY <1>1, <1>3, EnqueueEffect DEF Written
<1>4. CASE Take(s)
  <2>1. \A n \in 1..Taken(s)' : n \in 1..Taken(s) \/ n = Taken(s)'
    BY <1>4, TakeEffect
  <2>2. \A n \in 1..Taken(s) : Written(s, n)
    BY <1>1, <1>4, TakeEffect
  <2>3. \A n \in 1..Taken(s) : Written(s, n)'
    BY <1>4, <2>2, TakeEffect DEF Written
  <2> QED BY <1>4, <2>1, <2>3, TakeEffect
<1>5. CASE Insert(s)
  <2>1. /\ Taken(s)' = Taken(s) /\ ever' = ever
        /\ writer[s] = "inserting" /\ writer'[s] = "committing"
    BY <1>5 DEF Insert, Taken, tableVars, TypeOK
  <2> QED BY <1>1, <2>1 DEF Written
<1>6. CASE Commit(s)
  <2>1. Taken(s)' = Taken(s) /\ writer[s] = "committing" /\ writer'[s] = "waiting"
    BY <1>6 DEF Commit, Taken, TypeOK
  <2>2. /\ NewRow(s) \in ever' /\ NewRow(s).ev.by = s /\ NewRow(s).ev.n = Taken(s)
        /\ ever \subseteq ever'
    BY <1>6, CommitRow
  <2>3. Written(s, Taken(s))'
    BY <2>1, <2>2 DEF Written
  <2>4. \A n : Written(s, n) => Written(s, n)'
    BY <2>2 DEF Written
  <2> QED BY <1>1, <2>1, <2>3, <2>4
<1>7. CASE WriteFails(s) \/ Crash(s)
  BY <1>7 DEF WriteFails, Crash, TypeOK
<1>8. CASE TakeSentinel(s)
  <2>1. /\ Taken(s)' = Taken(s) /\ ever' = ever
        /\ writer[s] = "waiting" /\ writer'[s] = "done"
    BY <1>8 DEF TakeSentinel, Taken, tableVars, TypeOK
  <2> QED BY <1>1, <2>1 DEF Written
<1>9. CASE StopCalled(s) \/ StopReturns(s)
  BY <1>1, <1>9 DEF StopCalled, StopReturns, Taken, Written, tableVars
<1>10. CASE Idle(s)
  BY <1>1, <1>10 DEF Idle, Taken, Written
<1>11. ASSUME NEW t \in Services \ {s}, Commit(t) PROVE FileOk(s)'
  <2>1. Taken(s)' = Taken(s) /\ writer'[s] = writer[s]
    BY <1>11 DEF Commit, Taken, TypeOK
  <2>2. \A n : Written(s, n) => Written(s, n)'
    BY <1>11, CommitRow DEF Written
  <2> QED BY <1>1, <2>1, <2>2
<1> QED
  BY <1>2, <1>3, <1>4, <1>5, <1>6, <1>7, <1>8, <1>9, <1>10, <1>11, OwnSteps

LEMMA RowStep ==
  ASSUME TypeOK, QueueInv, HandInv, LifeInv, FileInv, [Next]_vars
  PROVE  \A s \in Services : \A e \in ever' : e.ev.by = s => RowOk(s, e)'
<1> SUFFICES ASSUME NEW s \in Services, NEW e \in ever', e.ev.by = s PROVE RowOk(s, e)'
  OBVIOUS
<1> USE DEF RowOk, Gone, Holding
<1>1. ASSUME e \in ever PROVE RowOk(s, e) /\ e.ev.n \in Nat /\ e.ev.at \in Nat
  BY <1>1, RowFacts DEF FileInv
<1>2. clock \in Nat /\ clock' \in {clock, clock + 1}
  BY ClockStep DEF TypeOK
<1>3. CASE Start(s)
  BY <1>1, <1>3 DEF Start, tableVars
<1>4. CASE Log(s) \/ RotateLogs(s)
  BY <1>1, <1>4, EnqueueEffect
<1>5. CASE Take(s)
  <2>1. \A i \in 1..Len(queue[s]) : e.ev.at <= queue[s][i].at
    BY <1>1, <1>5, TakeEffect
  <2>2. e.ev.n <= Taken(s) /\ phase[s] # "new" /\ e.ev.at <= clock
    BY <1>1, <1>5, TakeEffect
  <2>3. e.ev.n \in Nat
    BY <1>1, <1>5, TakeEffect
  <2>4. hand'[s].at = queue[s][1].at /\ e.ev.at <= hand'[s].at
    BY <1>5, <2>1, TakeEffect
  <2>5. \A i \in 1..Len(queue'[s]) : e.ev.at <= queue'[s][i].at
    BY <1>5, <2>1, TakeEffect
  <2>6. e.ev.n <= Taken(s)' /\ e.ev.n < Taken(s)'
    BY <1>5, <2>2, <2>3, TakeEffect
  <2>7. phase'[s] # "new" /\ e.ev.at <= clock'
    BY <1>5, <2>2, TakeEffect
  <2> QED BY <2>4, <2>5, <2>6, <2>7
<1>6. CASE Insert(s)
  <2>1. /\ Taken(s)' = Taken(s) /\ queue' = queue /\ hand' = hand /\ phase' = phase
        /\ ever' = ever /\ clock' = clock
        /\ writer[s] = "inserting" /\ writer'[s] = "committing"
    BY <1>6 DEF Insert, Taken, tableVars, TypeOK
  <2> QED BY <1>1, <2>1
<1>7. CASE Commit(s)
  <2>1. /\ Taken(s)' = Taken(s) /\ queue' = queue /\ phase' = phase /\ clock' = clock
        /\ writer[s] = "committing" /\ writer'[s] = "waiting"
    BY <1>7 DEF Commit, Taken, TypeOK
  <2>2. phase[s] # "new"
    BY <2>1 DEF LifeInv, LifeOk
  <2>3. CASE e \in ever
    <3>1. Taken(s) \in Int
      BY DEF Taken, TypeOK
    <3> QED BY <1>1, <2>1, <2>3, <3>1
  <2>4. CASE e.ev = hand[s]
    <3>1. /\ hand[s].n = Taken(s) /\ hand[s].at <= clock
          /\ \A i \in 1..Len(queue[s]) : hand[s].at <= queue[s][i].at
      BY <1>7, CommitRow
    <3>2. Taken(s) \in Int
      BY DEF Taken, TypeOK
    <3> QED BY <2>1, <2>2, <2>4, <3>1, <3>2
  <2>5. e \in ever \/ e.ev = hand[s]
    BY <1>7, CommitRow
  <2> QED BY <2>3, <2>4, <2>5
<1>8. CASE WriteFails(s) \/ Crash(s)
  BY <1>1, <1>8 DEF WriteFails, Crash, TypeOK, tableVars
<1>9. CASE TakeSentinel(s)
  <2>1. /\ Taken(s)' = Taken(s) /\ queue' = queue /\ phase' = phase
        /\ ever' = ever /\ clock' = clock
        /\ writer[s] = "waiting" /\ writer'[s] = "done"
    BY <1>9 DEF TakeSentinel, Taken, tableVars, TypeOK
  <2> QED BY <1>1, <2>1
<1>10. CASE StopCalled(s) \/ StopReturns(s)
  <2>1. /\ Taken(s)' = Taken(s) /\ UNCHANGED <<queue, hand, writer, ever, clock>>
        /\ phase'[s] # "new"
    BY <1>10 DEF StopCalled, StopReturns, Taken, tableVars, TypeOK
  <2> QED BY <1>1, <2>1
<1>11. CASE Idle(s)
  <2>1. /\ Taken(s)' = Taken(s) /\ queue'[s] = queue[s] /\ hand'[s] = hand[s]
        /\ writer'[s] = writer[s] /\ phase'[s] = phase[s] /\ ever' = ever
    BY <1>11 DEF Idle, Taken
  <2> QED BY <1>1, <1>2, <2>1
<1>12. ASSUME NEW t \in Services \ {s}, Commit(t) PROVE RowOk(s, e)'
  <2>1. /\ Taken(s)' = Taken(s) /\ UNCHANGED <<queue, phase, clock>>
        /\ writer'[s] = writer[s] /\ hand'[s] = hand[s]
    BY <1>12 DEF Commit, Taken, TypeOK
  <2>2. e \in ever
    BY <1>12, CommitRow
  <2> QED BY <1>1, <2>1, <2>2
<1> QED
  BY <1>3, <1>4, <1>5, <1>6, <1>7, <1>8, <1>9, <1>10, <1>11, <1>12, OwnSteps

LEMMA OrderStep ==
  ASSUME TypeOK, HandInv, FileInv, OrderInv, [Next]_vars
  PROVE  OrderInv'
<1>1. ASSUME NEW s \in Services, Commit(s) PROVE OrderInv'
  <2>1. NewRow(s).id = next_id /\ NewRow(s).ev = hand[s] /\ hand[s].n = Taken(s) /\ hand[s].by = s
    BY <1>1, CommitRow
  <2>2. ASSUME NEW f \in ever, f.ev.by = s
        PROVE  f.id < next_id /\ f.ev.n < Taken(s) /\ f.ev.at <= hand[s].at
    <3>1. RowOk(s, f) /\ f.id < next_id
      BY <2>2 DEF FileInv
    <3>2. Holding(s) /\ ~Gone(s)
      BY <1>1, CommitRow DEF Holding, Gone
    <3> QED BY <3>1, <3>2 DEF RowOk
  <2>3. next_id \in Nat /\ Taken(s) \in Int /\ hand[s].at \in Nat
    <3>1. hand[s] \in Event
      BY <1>1, CommitRow
    <3>2. hand[s].at \in Nat
      BY <3>1 DEF Event
    <3>3. next_id \in Nat
      BY DEF TypeOK
    <3>4. logged[s] \in Nat /\ Len(queue[s]) \in Nat
      BY DEF TypeOK
    <3>5. Taken(s) \in Int
      BY <3>4 DEF Taken
    <3> QED BY <3>2, <3>3, <3>5
  <2>4. ASSUME NEW e \in ever', NEW f \in ever', e.ev.by = f.ev.by, e.ev.n <= f.ev.n
        PROVE  e.id <= f.id /\ e.ev.at <= f.ev.at
    <3>1. (e \in ever \/ e = NewRow(s)) /\ (f \in ever \/ f = NewRow(s))
      BY <1>1, CommitRow
    <3>2. CASE e \in ever /\ f \in ever
      BY <2>4, <3>2 DEF OrderInv
    <3>3. CASE e \in ever /\ f = NewRow(s)
      BY <2>1, <2>2, <2>3, <2>4, <3>3, RowFacts
    <3>4. CASE e = NewRow(s) /\ f \in ever
      BY <2>1, <2>2, <2>3, <2>4, <3>4, RowFacts
    <3>5. CASE e = NewRow(s) /\ f = NewRow(s)
      BY <2>1, <2>3, <3>5
    <3> QED BY <3>1, <3>2, <3>3, <3>4, <3>5
  <2> QED BY <2>4 DEF OrderInv
<1>2. CASE \A s \in Services : ~Commit(s)
  BY <1>2, EverOnlyBy DEF OrderInv
<1> QED BY <1>1, <1>2

LEMMA AuditOnlyBy ==
  ASSUME [Next]_vars, \A s \in Services : ~Commit(s) /\ ~RotateDeletes(s)
  PROVE  UNCHANGED <<audit, ever>>
<1>1. ASSUME NEW s \in Services, Step(s) PROVE UNCHANGED <<audit, ever>>
  BY <1>1 DEF Step, WriterStep, RotateStep, Start, Log, Take, Insert, WriteFails, TakeSentinel,
              StopCalled, StopReturns, Crash, RotateBegins, RotateLogs, RotateDrained,
              RotateFails, tableVars
<1>2. CASE Tick \/ UNCHANGED vars
  BY <1>2 DEF Tick, vars, tableVars
<1> QED BY <1>1, <1>2 DEF Next

LEMMA RowsStep ==
  ASSUME TypeOK, HandInv, audit \subseteq ever, IsFiniteSet(ever), [Next]_vars
  PROVE  (audit \subseteq ever)' /\ IsFiniteSet(ever')
<1>1. ASSUME NEW s \in Services, Commit(s)
      PROVE  (audit \subseteq ever)' /\ IsFiniteSet(ever')
  BY <1>1, CommitRow, FS_AddElement
<1>2. ASSUME NEW s \in Services, RotateDeletes(s)
      PROVE  (audit \subseteq ever)' /\ IsFiniteSet(ever')
  BY <1>2 DEF RotateDeletes
<1> QED BY <1>1, <1>2, AuditOnlyBy

LEMMA HolesStep ==
  ASSUME TypeOK, HandInv, FileInv, OrderInv, audit \subseteq ever, TrailHasNoHoles, [Next]_vars
  PROVE  TrailHasNoHoles'
<1> USE DEF TrailHasNoHoles
<1>1. ASSUME NEW s \in Services, Commit(s) PROVE TrailHasNoHoles'
  <2> DEFINE new == NewRow(s)
  <2>1. /\ new.id = next_id /\ new.ev = hand[s] /\ hand[s].by = s /\ hand[s].n = Taken(s)
        /\ ever' = ever \cup {new} /\ audit' = audit \cup {new}
        /\ Holding(s) /\ ~Gone(s)
    BY <1>1, CommitRow DEF Holding, Gone
  <2> HIDE DEF new
  <2>2. next_id \in Nat /\ Taken(s) \in Int
    BY DEF TypeOK, Taken
  <2>3. WrittenInOrder'
    <3>1. ASSUME NEW e \in ever, NEW m \in 1..e.ev.n
          PROVE  \E f \in ever' : f.ev.by = e.ev.by /\ f.ev.n = m /\ f.id <= e.id
      BY <2>1, <3>1 DEF WrittenInOrder
    <3>2. ASSUME NEW m \in 1..Taken(s)
          PROVE  \E f \in ever' : f.ev.by = s /\ f.ev.n = m /\ f.id <= next_id
      <4>1. CASE m = Taken(s)
        BY <2>1, <2>2, <4>1
      <4>2. CASE m # Taken(s)
        <5>1. PICK f \in ever : f.ev.by = s /\ f.ev.n = m
          BY <2>1, <4>2 DEF FileInv, FileOk, Written
        <5>2. f.id < next_id /\ f.id \in Nat
          BY RowFacts DEF FileInv
        <5> QED BY <2>1, <2>2, <5>1, <5>2
      <4> QED BY <4>1, <4>2
    <3> QED BY <2>1, <3>1, <3>2 DEF WrittenInOrder
  <2>4. RotatedFromTheFront'
    <3>1. ASSUME NEW r \in audit', NEW e \in ever', r.ev.by = e.ev.by, r.ev.n <= e.ev.n, e # new
          PROVE  e \in audit'
      <4>1. e \in ever
        BY <2>1, <3>1
      <4>2. CASE r \in audit
        BY <2>1, <3>1, <4>1, <4>2 DEF RotatedFromTheFront
      <4>3. CASE r = new
        <5>1. e.ev.by = s /\ e.ev.n \in Nat /\ Taken(s) <= e.ev.n
          BY <2>1, <3>1, <4>1, <4>3, RowFacts
        <5>2. RowOk(s, e)
          BY <4>1, <5>1 DEF FileInv
        <5>3. e.ev.n < Taken(s)
          BY <2>1, <5>2 DEF RowOk
        <5> QED BY <2>2, <5>1, <5>3
      <4> QED BY <2>1, <4>2, <4>3
    <3>2. new \in audit'
      BY <2>1
    <3> QED BY <3>1, <3>2 DEF RotatedFromTheFront
  <2> QED BY <2>3, <2>4
<1>2. ASSUME NEW s \in Services, RotateDeletes(s) PROVE TrailHasNoHoles'
  <2>1. ever' = ever /\ audit' = {r \in audit : r.ev.at >= cutoff_ts[s]} /\ cutoff_ts[s] \in Int
    BY <1>2 DEF RotateDeletes, TypeOK
  <2>2. ASSUME NEW r \in audit', NEW e \in ever', r.ev.by = e.ev.by, r.ev.n <= e.ev.n
        PROVE  e \in audit'
    <3>1. e \in audit /\ r \in ever
      BY <2>1, <2>2 DEF RotatedFromTheFront
    <3>2. r.ev.at <= e.ev.at /\ r.ev.at \in Nat /\ e.ev.at \in Nat
      BY <2>1, <2>2, <3>1, RowFacts DEF OrderInv
    <3> QED BY <2>1, <2>2, <3>1, <3>2
  <2> QED BY <2>1, <2>2 DEF WrittenInOrder, RotatedFromTheFront
<1>3. CASE \A s \in Services : ~Commit(s) /\ ~RotateDeletes(s)
  BY <1>3, AuditOnlyBy DEF WrittenInOrder, RotatedFromTheFront
<1> QED BY <1>1, <1>2, <1>3
-----------------------------------------------------------------------------
LEMMA Initially == Init => IInv
<1> SUFFICES ASSUME Init PROVE IInv
  OBVIOUS
<1>1. TypeOK
  BY TypeInit
<1>2. QueueInv
  BY EmptyInOrder DEF Init, QueueInv, InOrder
<1>3. HandInv /\ LifeInv
  BY DEF Init, HandInv, HandOk, Holding, LifeInv, LifeOk
<1>4. ever = {} /\ audit = {} /\ \A s \in Services : writer[s] = "none"
  BY DEF Init
<1>5. FileInv /\ OrderInv /\ TrailHasNoHoles
  BY <1>4 DEF FileInv, FileOk, Gone, OrderInv, TrailHasNoHoles, WrittenInOrder, RotatedFromTheFront
<1> QED BY <1>1, <1>2, <1>3, <1>4, <1>5, FS_EmptySet DEF IInv

LEMMA Inductive == IInv /\ [Next]_vars => IInv'
<1> SUFFICES ASSUME IInv, [Next]_vars PROVE IInv'
  OBVIOUS
<1>1. TypeOK'
  BY TypeStep DEF IInv
<1>2. QueueInv' /\ HandInv' /\ LifeInv'
  BY QueueStep, HandStep, LifeStep DEF IInv
<1>3. FileInv'
  <2>1. \A e \in ever' : e.id < next_id'
    BY IdStep DEF IInv, FileInv
  <2>2. \A s \in Services : FileOk(s)'
    BY FileStep DEF IInv
  <2>3. \A s \in Services : \A e \in ever' : e.ev.by = s => RowOk(s, e)'
    BY RowStep DEF IInv
  <2> QED BY <2>1, <2>2, <2>3 DEF FileInv
<1>4. OrderInv'
  BY OrderStep DEF IInv
<1>5. (audit \subseteq ever)' /\ IsFiniteSet(ever')
  BY RowsStep DEF IInv
<1>6. TrailHasNoHoles'
  BY HolesStep DEF IInv
<1> QED BY <1>1, <1>2, <1>3, <1>4, <1>5, <1>6 DEF IInv

LEMMA Invariant == Spec => []IInv
  BY Initially, Inductive, PTL DEF Spec

(* The trail of a process in the file has no holes and is in order, and    *)
(* what rotation has left of it is its end, whatever dies, crashes or      *)
(* rotates in between (audit_service.py, _writer_loop and rotate).         *)
THEOREM TrailsHaveNoHoles == Spec => []TrailHasNoHoles
<1>1. IInv => TrailHasNoHoles
  BY DEF IInv
<1> QED BY <1>1, Invariant, PTL

(* A stop() that returns without raising has left nothing unwritten        *)
(* (audit_service.py, stop: "Drain the queue").                            *)
THEOREM StopDrains == Spec => []StoppedMeansWritten
<1>1. ASSUME IInv PROVE StoppedMeansWritten
  <2>1. SUFFICES ASSUME NEW s \in Services, phase[s] = "stopped", NEW n \in 1..logged[s]
        PROVE  \E e \in ever : e.ev.by = s /\ e.ev.n = n
    BY DEF StoppedMeansWritten
  <2>2. LifeOk(s) /\ FileOk(s)
    BY <1>1 DEF IInv, LifeInv, FileInv
  <2>3. writer[s] = "done" /\ queue[s] = << >> /\ logged[s] \in Nat
    BY <1>1, <2>1, <2>2 DEF LifeOk, IInv, TypeOK
  <2>4. Taken(s) = logged[s]
    BY <2>3 DEF Taken
  <2> QED BY <2>2, <2>3, <2>4 DEF FileOk, Gone, Holding, Written
<1> QED BY <1>1, Invariant, PTL

(* What lies behind a row that the query returns is returned as well.      *)
LEMMA LaterIsShown ==
  ASSUME IInv, NEW s \in Services, NEW k \in Nat,
         NEW r \in Query(s, k), NEW f \in audit, f.ev.by = s, r.id <= f.id
  PROVE  f \in Query(s, k)
<1> DEFINE behind(x) == {q \in audit : q.ev.by = s /\ q.id > x.id}
<1>1. r \in audit /\ Cardinality(behind(r)) < k
  BY DEF Query
<1>2. IsFiniteSet(audit)
  BY FS_Subset DEF IInv
<1>3. \A q \in audit : q.id \in Nat
  BY DEF IInv, TypeOK, Row
<1>4. behind(f) \subseteq behind(r) /\ behind(r) \subseteq audit
  BY <1>1, <1>3
<1>5. IsFiniteSet(behind(r)) /\ IsFiniteSet(behind(f))
  BY <1>2, <1>4, FS_Subset
<1>6. /\ Cardinality(behind(f)) <= Cardinality(behind(r))
      /\ Cardinality(behind(f)) \in Nat /\ Cardinality(behind(r)) \in Nat
  BY <1>4, <1>5, FS_Subset, FS_CardinalityType
<1>7. Cardinality(behind(f)) < k
  BY <1>1, <1>6
<1> QED BY <1>7 DEF Query

(* What `audit tail --session` shows is an unbroken run of the session's   *)
(* events, and once the writer has caught up the run includes the last     *)
(* (audit_service.py, query).                                              *)
THEOREM TailsAreLatest == Spec => []TailIsLatest
<1>1. ASSUME IInv PROVE TailIsLatest
  <2> SUFFICES ASSUME NEW s \in Services, NEW k \in 1..MaxEvents
      PROVE  LET shown == {r.ev.n : r \in Query(s, k)}
                 caught_up == writer[s] = "waiting" /\ queue[s] = << >>
             IN  /\ \A m, n \in shown : m..n \subseteq shown
                 /\ caught_up /\ shown # {} => logged[s] \in shown
    BY DEF TailIsLatest
  <2> DEFINE shown == {r.ev.n : r \in Query(s, k)}
  <2>1. k \in Nat /\ \A r \in Query(s, k) : r \in audit /\ r \in ever /\ r.ev.by = s
    BY <1>1, BoundsAreNumbers DEF Query, IInv
  <2>2. ASSUME NEW r \in Query(s, k), NEW f \in ever, f.ev.by = s, r.ev.n <= f.ev.n
        PROVE  f.ev.n \in shown
    <3>1. f \in audit
      BY <1>1, <2>1, <2>2 DEF IInv, TrailHasNoHoles, RotatedFromTheFront
    <3>2. r.id <= f.id
      BY <1>1, <2>1, <2>2 DEF IInv, OrderInv
    <3>3. f \in Query(s, k)
      BY <1>1, <2>1, <2>2, <3>1, <3>2, LaterIsShown
    <3> QED BY <3>3
  <2>3. ASSUME NEW m \in shown, NEW n \in shown, NEW i \in m..n PROVE i \in shown
    <3>1. PICK q \in Query(s, k), r \in Query(s, k) : q.ev.n = m /\ r.ev.n = n
      OBVIOUS
    <3>2. m \in Nat \ {0} /\ n \in Nat
      BY <1>1, <2>1, <3>1, RowFacts DEF IInv
    <3>3. PICK f \in ever : f.ev.by = s /\ f.ev.n = i
      BY <1>1, <2>1, <3>1, <3>2 DEF IInv, TrailHasNoHoles, WrittenInOrder
    <3> QED BY <2>2, <3>1, <3>2, <3>3
  <2>4. ASSUME writer[s] = "waiting", queue[s] = << >>, shown # {} PROVE logged[s] \in shown
    <3>1. PICK r \in Query(s, k) : TRUE
      BY <2>4
    <3>2. logged[s] \in Nat /\ Taken(s) = logged[s]
      BY <1>1, <2>4 DEF IInv, TypeOK, Taken
    <3>3. r.ev.n \in Nat \ {0} /\ RowOk(s, r) /\ FileOk(s)
      BY <1>1, <2>1, RowFacts DEF IInv, FileInv
    <3>4. r.ev.n <= logged[s]
      BY <2>4, <3>2, <3>3 DEF RowOk, Gone
    <3>5. PICK f \in ever : f.ev.by = s /\ f.ev.n = logged[s]
      BY <2>4, <3>2, <3>3, <3>4 DEF FileOk, Gone, Holding, Written
    <3> QED BY <2>2, <3>4, <3>5
  <2> QED BY <2>3, <2>4
<1> QED BY <1>1, Invariant, PTL
=============================================================================
