----------------------------- MODULE KillSwitch -----------------------------
(***************************************************************************)
(* cli/kill_switch.py: the owner of the stop event.  A first Ctrl-C sets   *)
(* the event and spawns a task that revokes every TX grant; a second one   *)
(* inside the window stops the event loop instead.  Clearing the event is  *)
(* the REPL's business, and the driver only reads it.                      *)
(***************************************************************************)
EXTENDS PermissionService

CONSTANT DOUBLE_CTRLC_WINDOW_S   \* in clock ticks

ASSUME WindowIsPositive == DOUBLE_CTRLC_WINDOW_S \in Nat \ {0}

VARIABLES stop_event,    \* the asyncio.Event shared with the driver
          last_press,    \* _last_press_s
          revoking       \* number of pending _revoke_and_log tasks
killVars == <<stop_event, last_press, revoking>>

TypeKillSwitch ==
  /\ stop_event \in BOOLEAN
  /\ last_press \in Int
  /\ revoking \in Nat

(* The machine has been up for longer than the window.                     *)
InitKillSwitch ==
  /\ stop_event = FALSE
  /\ last_press = -DOUBLE_CTRLC_WINDOW_S
  /\ revoking = 0

InsideWindow == clock - last_press < DOUBLE_CTRLC_WINDOW_S

FirstPress ==
  /\ ~InsideWindow
  /\ last_press' = clock
  /\ stop_event' = TRUE
  /\ revoking' = revoking + 1
  /\ UNCHANGED permVars

(* loop.stop(): nothing here changes, the event is not set again.          *)
SecondPress == InsideWindow /\ UNCHANGED <<killVars, permVars>>

(* A mutant: the task does not remember that it has run. *)
RevokeAndLog_Unguarded ==
  /\ revoking' = revoking - 1
  /\ RevokeAllTx
  /\ UNCHANGED <<stop_event, last_press>>

(* The task runs whenever the loop gets to it; an exception (a locked or   *)
(* full database, cancellation at exit) is logged and forgotten.           *)
RevokeAndLog ==
  /\ revoking > 0
  /\ revoking' = revoking - 1
  /\ RevokeAllTx
  /\ UNCHANGED <<stop_event, last_press>>

RevokeFailed ==
  /\ revoking > 0
  /\ revoking' = revoking - 1
  /\ UNCHANGED <<stop_event, last_press, permVars>>
=============================================================================
