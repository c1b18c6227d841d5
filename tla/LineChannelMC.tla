--------------------------- MODULE LineChannelMC ----------------------------
(***************************************************************************)
(* Instances of LineChannel for TLC.                                       *)
(***************************************************************************)
EXTENDS LineChannel

(* hw/analysis.py:1254 "Callers who need 1.5 stop bits get them from the   *)
(* next start-bit search (any extra idle MARK is just re-searched over)":  *)
(* with any stop bit, an undisturbed text is read as it was typed.         *)
AnyStopBitReads ==
  NoiseSent = << >> /\ CodesSent # << >> /\ Len(air) >= 8 * FSK_SPS =>
    RttyDecoded.text = Meant(CodesSent)
=============================================================================
