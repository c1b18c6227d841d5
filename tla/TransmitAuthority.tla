------------------------- MODULE TransmitAuthority -------------------------
(***************************************************************************)
(* What docs/safety.md promises of a session's radio, with the funnel, the *)
(* grants and the threads left out: it emits only what it was keyed for,   *)
(* buffer by buffer; it is keyed and turns to a buffer only while the stop *)
(* flag is down, and at most the one it had turned to goes out after that; *)
(* the flag is lowered again only over a silent radio; and a keyed radio   *)
(* always falls silent.                                                    *)
(***************************************************************************)
EXTENDS Naturals

VARIABLES keyed,       \* the transmitter has been set up
          allowance,   \* buffers it may still turn to
          pending,     \* it has turned to one, and not emitted it yet
          emitted,     \* buffers it has ever emitted
          stopped      \* the kill switch's flag
vars == <<keyed, allowance, pending, emitted, stopped>>

Init ==
  /\ keyed = FALSE /\ allowance = 0 /\ pending = FALSE
  /\ emitted = 0
  /\ stopped = FALSE

KeyUp ==
  /\ ~keyed /\ ~stopped
  /\ keyed' = TRUE
  /\ allowance' \in Nat \ {0}
  /\ UNCHANGED <<pending, emitted, stopped>>

Turn ==
  /\ keyed /\ ~stopped /\ ~pending
  /\ allowance > 0
  /\ allowance' = allowance - 1
  /\ pending' = TRUE
  /\ UNCHANGED <<keyed, emitted, stopped>>

Emit ==
  /\ pending
  /\ pending' = FALSE
  /\ emitted' = emitted + 1
  /\ UNCHANGED <<keyed, allowance, stopped>>

(* The buffer it had turned to, or all that it had still to turn to.       *)
GiveUp ==
  /\ \/ pending /\ pending' = FALSE /\ UNCHANGED allowance
     \/ allowance' = 0 /\ UNCHANGED pending
  /\ UNCHANGED <<keyed, emitted, stopped>>

KeyDown ==
  /\ keyed
  /\ keyed' = FALSE
  /\ allowance' = 0
  /\ UNCHANGED <<pending, emitted, stopped>>

Stop ==
  /\ ~stopped
  /\ stopped' = TRUE
  /\ UNCHANGED <<keyed, allowance, pending, emitted>>

Resume ==
  /\ stopped /\ ~keyed
  /\ stopped' = FALSE
  /\ UNCHANGED <<keyed, allowance, pending, emitted>>

Next == KeyUp \/ Turn \/ Emit \/ GiveUp \/ KeyDown \/ Stop \/ Resume

Spec == Init /\ [][Next]_vars /\ WF_vars(KeyDown)
=============================================================================
