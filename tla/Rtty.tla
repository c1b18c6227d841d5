-------------------------------- MODULE Rtty --------------------------------
(***************************************************************************)
(* hw/analysis.py: decode_rtty, ITA2 in start-stop frames over a bit       *)
(* stream.  A character is a code of 5 bits and the table it is looked up  *)
(* in; which glyph the tables hold there does not matter.                  *)
(***************************************************************************)
EXTENDS BitStreams

LTRS == 31
FIGS == 27
ShiftCodes == {LTRS, FIGS}
(* NUL, which both tables hold at 0, is dropped; the tables agree on LF,   *)
(* space and CR.                                                           *)
InBothTables == {2, 4, 8}

Glyph(code, shift) ==
  <<code, IF code \in InBothTables THEN "any" ELSE IF shift = LTRS THEN "ltrs" ELSE "figs">>

(* A start bit (0), five data bits with the least significant first, a     *)
(* stop bit (1): at place i of the stream.                                 *)
CodeAt(bits, i) == Lsb(SubSeq(bits, i + 1, i + 5))

NoFrame == -1

(* A mutant: two stop bits are taken for granted. *)
FramesFrom_SkipsEight(bits) ==
  LET n == Len(bits)
      from[i \in 1..n + 8] ==
        IF i > n THEN << >>
        ELSE IF bits[i] # 0 THEN from[i + 1]
        ELSE IF i + 6 > n THEN << >>
        ELSE IF bits[i + 6] # 1 THEN <<NoFrame>> \o from[i + 1]
        ELSE <<CodeAt(bits, i)>> \o from[i + 8]
  IN from[1]

(* The codes of the frames in order, NoFrame for each framing error: a     *)
(* frame without its stop bit moves the search on by one bit.              *)
FramesFrom(bits) ==
  LET n == Len(bits)
      from[i \in 1..n + 7] ==
        IF i > n THEN << >>
        ELSE IF bits[i] # 0 THEN from[i + 1]
        ELSE IF i + 6 > n THEN << >>
        ELSE IF bits[i + 6] # 1 THEN <<NoFrame>> \o from[i + 1]
        ELSE <<CodeAt(bits, i)>> \o from[i + 7]
  IN from[1]

(* The shift state is the last shift code, LTRS at the start.              *)
TextOf(frames) ==
  LET text[k \in 1..Len(frames) + 1] ==
        [shift \in ShiftCodes |->
           IF k > Len(frames) THEN << >>
           ELSE IF frames[k] \in ShiftCodes THEN text[k + 1][frames[k]]
           ELSE IF frames[k] \in {NoFrame, 0} THEN text[k + 1][shift]
           ELSE <<Glyph(frames[k], shift)>> \o text[k + 1][shift]]
  IN text[1][LTRS]

(* A stream of fewer than 8 bits is not looked at.                         *)
DecodeRtty(bits) ==
  IF Len(bits) < 8
  THEN [text |-> << >>, framing_errors |-> 0]
  ELSE LET frames == FramesFrom(bits)
       IN [text |-> TextOf(frames),
           framing_errors |-> Cardinality({k \in DOMAIN frames : frames[k] = NoFrame})]
=============================================================================
