-------------------------- MODULE OpenRouterClient --------------------------
(***************************************************************************)
(* ai/llm_client.py: the client's local rate limit.  A request first takes *)
(* a slot in a rolling window; when the window is full the client sleeps   *)
(* until its oldest entry has aged out.  Times are relative to now, in     *)
(* ticks: an entry of timestamps is its age, and an age beyond the window  *)
(* is as good as any other.  The 0.01 s that the code adds to its sleep is *)
(* one tick, the least time that is more than none.                        *)
(***************************************************************************)
EXTENDS Integers, Sequences, FiniteSets

CONSTANTS RATE_LIMIT_WINDOW_S, RATE_LIMIT_MAX_REQUESTS

ASSUME LimitsArePositive == {RATE_LIMIT_WINDOW_S, RATE_LIMIT_MAX_REQUESTS} \subseteq Nat \ {0}

VARIABLES client,       \* where send() is
          timestamps,   \* ages of the slots taken, oldest first
          wait_s,       \* what is left of its sleep
          requests      \* auxiliary: ages of all the requests made, oldest first
clientVars == <<client, timestamps, wait_s, requests>>

Age == 0..RATE_LIMIT_WINDOW_S + 1

TypeClient ==
  /\ client \in {"idle", "slot", "sleeping", "sending"}
  /\ timestamps \in Seq(Age)
  /\ wait_s \in Age
  /\ requests \in Seq(Age)

InitClient == client = "idle" /\ timestamps = << >> /\ wait_s = 0 /\ requests = << >>

Send == client = "idle" /\ client' = "slot" /\ UNCHANGED <<timestamps, wait_s, requests>>

(* A mutant: an entry as old as the window is dropped, like an older one. *)
InWindow_Exclusive(age) == age < RATE_LIMIT_WINDOW_S

(* A mutant: entries are never dropped. *)
InWindow_Always(age) == TRUE

InWindow(age) == age <= RATE_LIMIT_WINDOW_S

(* What popleft() leaves: the entries from the first in the window on.     *)
Kept ==
  LET first == CHOOSE i \in 1..Len(timestamps) + 1 :
                 /\ \A j \in 1..i - 1 : ~InWindow(timestamps[j])
                 /\ i <= Len(timestamps) => InWindow(timestamps[i])
  IN  SubSeq(timestamps, first, Len(timestamps))

TakeSlot ==
  /\ client = "slot"
  /\ Len(Kept) < RATE_LIMIT_MAX_REQUESTS
  /\ timestamps' = Append(Kept, 0)
  /\ requests' = Append(requests, 0)
  /\ client' = "sending"
  /\ UNCHANGED wait_s

(* A mutant: the sleep ends when the oldest entry is still in the window. *)
SleepForSlot_Short ==
  /\ client = "slot"
  /\ Len(Kept) >= RATE_LIMIT_MAX_REQUESTS
  /\ timestamps' = Kept
  /\ wait_s' = RATE_LIMIT_WINDOW_S - Head(Kept)
  /\ client' = "sleeping"
  /\ UNCHANGED requests

SleepForSlot ==
  /\ client = "slot"
  /\ Len(Kept) >= RATE_LIMIT_MAX_REQUESTS
  /\ timestamps' = Kept
  /\ wait_s' = RATE_LIMIT_WINDOW_S - Head(Kept) + 1
  /\ client' = "sleeping"
  /\ UNCHANGED requests

WakeUp ==
  /\ client = "sleeping"
  /\ wait_s = 0
  /\ client' = "slot"
  /\ UNCHANGED <<timestamps, wait_s, requests>>

(* The response, or the exception, of chat.completions.create.             *)
Answered == client = "sending" /\ client' = "idle" /\ UNCHANGED <<timestamps, wait_s, requests>>

Older(age) == IF age > RATE_LIMIT_WINDOW_S THEN age ELSE age + 1
AllOlder(ages) == [i \in DOMAIN ages |-> Older(ages[i])]

Tick ==
  /\ timestamps' = AllOlder(timestamps)
  /\ requests' = AllOlder(requests)
  /\ wait_s' = IF wait_s = 0 THEN 0 ELSE wait_s - 1
  /\ UNCHANGED client
-----------------------------------------------------------------------------
(* The requests of the last RATE_LIMIT_WINDOW_S.                           *)
Recent == {i \in DOMAIN requests : requests[i] <= RATE_LIMIT_WINDOW_S}

(* "At most 30 requests per rolling 60-second window", at every instant    *)
(* and not only when a slot is taken; a request exactly as old as the      *)
(* window counts.                                                          *)
WithinRateLimit == Cardinality(Recent) <= RATE_LIMIT_MAX_REQUESTS

(* One sleep is enough: whoever wakes up finds a free slot, so that the    *)
(* loop around the sleep never turns into a spin or into a second wait.    *)
OneSleepIsEnough == [][ WakeUp => Len(Kept) < RATE_LIMIT_MAX_REQUESTS ]_clientVars

(* Why the two hold: timestamps are the latest requests, at most as many   *)
(* as there are slots, and the requests before them have aged out; a sleep *)
(* lasts until the oldest entry has.                                       *)
Covers(slots, all) ==
  LET dropped == Len(all) - Len(slots) IN
    /\ dropped >= 0
    /\ slots = SubSeq(all, dropped + 1, Len(all))
    /\ \A i \in 1..dropped : all[i] > RATE_LIMIT_WINDOW_S

RateInv ==
  /\ TypeClient
  /\ Len(timestamps) <= RATE_LIMIT_MAX_REQUESTS
  /\ Covers(timestamps, requests)
  /\ client = "sleeping" =>
       timestamps # << >> /\ timestamps[1] + wait_s > RATE_LIMIT_WINDOW_S
=============================================================================
