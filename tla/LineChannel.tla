---------------------------- MODULE LineChannel -----------------------------
(***************************************************************************)
(* A transmitter keys bits in one of the line codes, or types RTTY, and    *)
(* the air adds what a channel adds: a bad sample, jitter of a pulse, a    *)
(* late start, bits of noise.  At any moment the recording is decoded as   *)
(* hw/analysis.py decodes it.  The transmitter is outside the repository:  *)
(* it follows the conventions that the decoders' docstrings state.         *)
(***************************************************************************)
EXTENDS LineCodes, Rtty

CONSTANTS MaxSymbols,     \* bound: symbols of NRZ and NRZI, halves of Manchester
          MaxGlitches,    \* bound: bad samples in a recording
          MaxPulses,      \* bound: pulses of PWM and PPM
          Codes,          \* the RTTY codes that are typed
          MaxTyped, MaxNoise,    \* bounds on an RTTY recording
          StopHalves      \* the lengths of a stop bit, in halves of a symbol

ASSUME CodesAreFiveBits == Codes \subseteq 0..31
ASSUME StopsArePositive == StopHalves \subseteq Nat \ {0}

SPS == 3                  \* samples per symbol of NRZ, NRZI and half of Manchester
SHORT == 4
LONG == 10                \* the pulses of PWM
HALF == 4                 \* half a symbol of PPM
FSK_SPS == 2              \* samples per symbol of RTTY

VARIABLES code,       \* what is keyed
          stop,       \* RTTY: the stop bit in use
          sent,       \* history: what was keyed
          glitches,   \* bad samples so far
          air         \* the recording
vars == <<code, stop, sent, glitches, air>>

Repeat(x, n) == [i \in 1..n |-> x]
Spread(symbols, n) == [i \in 1..n * Len(symbols) |-> symbols[(i - 1) \div n + 1]]
Parity(bits) == Cardinality(Ones(bits)) % 2

(* The carrier of the first symbol of NRZI, and a late start by a half     *)
(* symbol of Manchester, are not the receiver's to choose.                 *)
Init ==
  /\ code \in {"nrz", "nrzi", "manchester", "late_manchester", "pwm", "ppm", "rtty"}
  /\ stop \in IF code = "rtty" THEN StopHalves ELSE {2}
  /\ sent = << >>
  /\ glitches = 0
  /\ air \in IF code = "nrzi" THEN {Repeat(0, SPS), Repeat(1, SPS)} ELSE {<< >>}
-----------------------------------------------------------------------------
(* The levels of one more bit, and at most one bad sample in each.         *)
LevelsOf(bit) ==
  CASE code = "nrz" -> <<bit>>
    [] code = "nrzi" -> <<(air[1] + Parity(sent) + bit) % 2>>
    [] code = "manchester" -> <<1 - bit, bit>>
    [] code = "late_manchester" -> IF sent = << >> THEN <<bit>> ELSE <<1 - bit, bit>>

Glitched(samples, i) == IF i = 0 THEN samples ELSE [samples EXCEPT ![i] = 1 - @]

Key(bit, bad) ==
  /\ code \in {"nrz", "nrzi", "manchester", "late_manchester"}
  /\ LET samples == Spread(LevelsOf(bit), SPS)
     IN /\ Len(air) + Len(samples) <= SPS * MaxSymbols
        /\ bad \in 0..Len(samples)
        /\ air' = air \o Glitched(samples, bad)
  /\ bad # 0 => glitches < MaxGlitches
  /\ glitches' = IF bad = 0 THEN glitches ELSE glitches + 1
  /\ sent' = Append(sent, bit)
  /\ UNCHANGED <<code, stop>>

(* A pulse of PWM, off its width by jitter.                                *)
KeyPwm(bit, jitter) ==
  /\ code = "pwm"
  /\ Len(sent) < MaxPulses
  /\ air' = air \o Repeat(1, (IF bit = 1 THEN LONG ELSE SHORT) + jitter) \o Repeat(0, 2)
  /\ sent' = Append(sent, [bit |-> bit, jitter |-> jitter])
  /\ UNCHANGED <<code, stop, glitches>>

(* A pulse of PPM: in the first half for a 1, in the second for a 0, after *)
(* gap samples of that half.                                               *)
KeyPpm(bit, gap, width) ==
  /\ code = "ppm"
  /\ Len(sent) < MaxPulses
  /\ gap + width <= HALF
  /\ LET half == Repeat(0, gap) \o Repeat(1, width) \o Repeat(0, HALF - gap - width)
     IN air' = air \o (IF bit = 1 THEN half \o Repeat(0, HALF) ELSE Repeat(0, HALF) \o half)
  /\ sent' = Append(sent, [bit |-> bit, first |-> gap = 0, last |-> gap + width = HALF])
  /\ UNCHANGED <<code, stop, glitches>>
-----------------------------------------------------------------------------
(* RTTY: what was sent is a sequence of codes, bits of noise and rests.    *)
NOISE == -1
REST == -2
CodesSent == Kept(sent, LAMBDA x : x \notin {NOISE, REST})
NoiseSent == Kept(sent, LAMBDA x : x = NOISE)

Type(c) ==
  /\ code = "rtty"
  /\ Len(CodesSent) < MaxTyped
  /\ air' = air \o Spread(<<0>> \o Reverse(BitsOf(c, 5)), FSK_SPS)
                \o Repeat(1, (FSK_SPS * stop) \div 2)
  /\ sent' = Append(sent, c)
  /\ UNCHANGED <<code, stop, glitches>>

(* Idle between two characters: six marks.                                 *)
Rest ==
  /\ code = "rtty"
  /\ \A k \in DOMAIN sent : sent[k] # REST
  /\ air' = air \o Repeat(1, 6 * FSK_SPS)
  /\ sent' = Append(sent, REST)
  /\ UNCHANGED <<code, stop, glitches>>

Noise(b) ==
  /\ code = "rtty"
  /\ Len(NoiseSent) < MaxNoise
  /\ air' = air \o Repeat(b, FSK_SPS)
  /\ sent' = Append(sent, NOISE)
  /\ UNCHANGED <<code, stop, glitches>>

Next ==
  \/ \E bit \in Bit, bad \in 0..2 * SPS : Key(bit, bad)
  \/ \E bit \in Bit, jitter \in -3..3 : KeyPwm(bit, jitter)
  \/ \E bit \in Bit, gap \in 0..HALF - 1, width \in 1..HALF : KeyPpm(bit, gap, width)
  \/ \E c \in Codes : Type(c)
  \/ \E b \in Bit : Noise(b)
  \/ Rest

Spec == Init /\ [][Next]_vars
-----------------------------------------------------------------------------
(* One bad sample of the three that make a symbol is outvoted, wherever it *)
(* falls: slice_ook's majority is over samples, and its threshold is not   *)
(* moved by it.  A recording of one level only says nothing.               *)
Sliceable == CanSlice(air, SPS) /\ Cardinality(Range(sent)) = 2

NrzReads ==
  code = "nrz" /\ Sliceable =>
    /\ DecodeNrz(air, SPS, FALSE) = sent
    /\ DecodeNrz(air, SPS, TRUE) = Not(sent)

NrziReads ==
  code = "nrzi" /\ Sliceable => DecodeNrzi(air, SPS) = sent

ManchesterReads ==
  code = "manchester" /\ CanSlice(air, SPS) =>
    /\ DecodeManchester(air, SPS, "ieee") = [bits |-> sent, invalid_pairs |-> 0]
    /\ DecodeManchester(air, SPS, "thomas") = [bits |-> Not(sent), invalid_pairs |-> 0]

(* Out of step by a half symbol, each change of the data is an invalid     *)
(* pair and nothing else is: a decode without one is of constant data.     *)
LateManchesterTells ==
  code = "late_manchester" /\ CanSlice(air, SPS) =>
    DecodeManchester(air, SPS, "ieee").invalid_pairs
      = Cardinality({k \in 1..Len(sent) - 1 : sent[k] # sent[k + 1]})

(* Every pulse of PWM is one bit; one within the tolerance is read right,  *)
(* and no wrong one goes uncounted.                                        *)
PwmReads ==
  code = "pwm" /\ air # << >> =>
    LET got == DecodePwm(air, SHORT, LONG)
    IN /\ Len(got.bits) = Len(sent)
       /\ got.invalid_pulses = Cardinality({k \in DOMAIN sent : sent[k].jitter \in {-3, 3}})
       /\ \A k \in DOMAIN sent : sent[k].jitter \in -2..2 => got.bits[k] = sent[k].bit

(* Pulses of PPM that do not touch are read by where their centres lie; of *)
(* two that touch at a symbol boundary, a 0 and a 1, one bit is left.      *)
Touching == {k \in 1..Len(sent) - 1 :
               /\ sent[k].bit = 0 /\ sent[k].last
               /\ sent[k + 1].bit = 1 /\ sent[k + 1].first}

PpmReads ==
  code = "ppm" /\ air # << >> =>
    LET got == DecodePpm(air, HALF)
    IN /\ Len(got) = Len(sent) - Cardinality(Touching)
       /\ Touching = {} => \A k \in DOMAIN sent : got[k] = sent[k].bit

(* What was keyed in levels is what the decoder of the code says, over a   *)
(* channel with one bad sample in each symbol; a receiver that is half a   *)
(* symbol late can tell (slice_ook and what decodes from it,               *)
(* hw/analysis.py:577-690).                                                *)
LevelCodesRead ==
  /\ NrzReads
  /\ NrziReads
  /\ ManchesterReads
  /\ LateManchesterTells

(* What was keyed in pulses is what the decoder of the code says, with     *)
(* pulses off their width or their place (hw/analysis.py:690-798).         *)
PulseCodesRead ==
  /\ PwmReads
  /\ PpmReads

(* The last noise is followed by a rest, and some time after it by a shift *)
(* code at place k.                                                        *)
InStepAt(k) ==
  /\ sent[k] \in ShiftCodes
  /\ \A i \in k..Len(sent) : sent[i] # NOISE
  /\ \E r \in 1..k - 1 : sent[r] = REST /\ \A i \in r..k : sent[i] # NOISE

(* What a text means: each printing code in the table of the last shift    *)
(* code before it.                                                         *)
Meant(codes) ==
  LET printing == Indices(Len(codes), LAMBDA i : codes[i] \notin ShiftCodes \cup {0})
      shifts(i) == {j \in 1..i : codes[j] \in ShiftCodes}
      shift(i) == IF shifts(i) = {} THEN LTRS ELSE codes[Max(shifts(i))]
  IN [p \in DOMAIN printing |-> Glyph(codes[printing[p]], shift(printing[p]))]

RttyDecoded == DecodeRtty(FskBits(SymbolTones(air, FSK_SPS), FALSE))

(* A decoder of RTTY that was thrown out of step by noise, in the middle   *)
(* of a text and in any shift state, is back in step after six marks and a *)
(* shift code: the text from there on is read exactly; without noise all   *)
(* of it is, and no framing error is counted (hw/analysis.py:1225-1256).   *)
RttyCatchesUp ==
  code = "rtty" =>
    /\ \A k \in DOMAIN sent :
         InStepAt(k) => IsSuffix(Meant(Kept(SubSeq(sent, k, Len(sent)), LAMBDA x : x # REST)),
                                 RttyDecoded.text)
    /\ NoiseSent = << >> /\ CodesSent # << >> /\ Len(air) >= 8 * FSK_SPS =>
         RttyDecoded = [text |-> Meant(CodesSent), framing_errors |-> 0]
=============================================================================
