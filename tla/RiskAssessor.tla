---------------------------- MODULE RiskAssessor ----------------------------
(***************************************************************************)
(* domain/risk_assessor.py: the tier of a command, a pure function of its  *)
(* arguments, of the grants the executor read, and of the clock (which     *)
(* Grant.covers_transmission consults again).                              *)
(*                                                                         *)
(* An argument that is missing or of the wrong type is None: _get_int and  *)
(* _get_float return None for both, and take JSON's true and false for the *)
(* wrong type.  A bulk sweep's "ranges" is a sequence of records, or None  *)
(* when it is not a list; its ends do not go through _get_int.             *)
(***************************************************************************)
EXTENDS Models, FrequencyPolicy, Sequences

MAX_TX_VGA_GAIN_DB    == 47
MEDIUM_TX_VGA_GAIN_DB == 30
LOW_CAPTURE_DURATION  == 50      \* 5.0 s
LOW_SWEEP_DWELL       == 20      \* 2.0 s
BULK_AGGREGATE_LOW_MAX == 300    \* 30.0 s
DEFAULT_DWELL         == 10      \* 1.0 s

Low     == Verdict("LOW", FALSE)
Medium  == Verdict("MEDIUM", TRUE)
High    == Verdict("HIGH", TRUE)
Blocked == Verdict("BLOCKED", FALSE)

DwellOf(dwell) == IF dwell = None THEN DEFAULT_DWELL ELSE dwell

(* A range of a bulk sweep.  booleans are the ends that arrived as false   *)
(* or true: Python's 0 and 1, the smallest numbers in any unit.            *)
SweepRange == [start : Int \cup {None}, end : Int \cup {None},
          booleans : SUBSET {"start", "end"}]

AssessSweep(start, end, dwell) ==
  IF start = None \/ end = None THEN Blocked
  ELSE IF start >= end THEN Blocked
  ELSE IF DwellOf(dwell) <= LOW_SWEEP_DWELL THEN Low ELSE Medium

(* A mutant: the aggregate cap is forgotten. *)
AssessSweepBulk_NoAggregate(ranges, dwell) ==
  IF ranges = None THEN Blocked
  ELSE IF Len(ranges) < 2 \/ \E i \in DOMAIN ranges :
            \/ ranges[i].start = None \/ ranges[i].end = None
            \/ ranges[i].start >= ranges[i].end
  THEN Blocked
  ELSE IF DwellOf(dwell) <= LOW_SWEEP_DWELL THEN Low ELSE Medium

(* A range is malformed when isinstance(_, int), which a boolean passes,   *)
(* says so of an end, or when its ends are the wrong way round.            *)
AssessSweepBulk(ranges, dwell) ==
  LET malformed(r) == r.start = None \/ r.end = None \/ r.start >= r.end
  IN  IF ranges = None THEN Blocked
      ELSE IF Len(ranges) < 2 \/ \E i \in DOMAIN ranges : malformed(ranges[i])
      THEN Blocked
      ELSE IF /\ DwellOf(dwell) <= LOW_SWEEP_DWELL
              /\ Len(ranges) * DwellOf(dwell) <= BULK_AGGREGATE_LOW_MAX
      THEN Low ELSE Medium

AssessCaptureIq(center, duration) ==
  IF center = None \/ duration = None THEN Blocked
  ELSE IF duration <= 0 THEN Blocked
  ELSE IF duration <= LOW_CAPTURE_DURATION THEN Low ELSE Medium

(* No appeal: a malformed argument, a gain outside the TX VGA's range, or  *)
(* a blocked band, whatever grant is held.                                 *)
TxRefused(center, gain) ==
  \/ center = None
  \/ gain = None
  \/ gain > MAX_TX_VGA_GAIN_DB
  \/ gain < 0
  \/ is_blocked(center)

(* A mutant: all() for any(). *)
TxGranted_All(center, gain, grants, now) ==
  \A g \in grants : CoversTransmission(g, center, gain, now)

TxGranted(center, gain, grants, now) ==
  \E g \in grants : CoversTransmission(g, center, gain, now)

(* A mutant: the MEDIUM gain cap is compared the wrong way round. *)
AssessTransmitIq_GainSwapped(center, gain, grants, now) ==
  IF TxRefused(center, gain) THEN Blocked
  ELSE IF TxGranted(center, gain, grants, now) THEN Low
  ELSE IF is_in_ism(center) /\ gain > MEDIUM_TX_VGA_GAIN_DB THEN Medium
  ELSE High

(* Amateur and unclassified frequencies are both HIGH: they differ only in *)
(* the reason the verdict carries.                                         *)
AssessTransmitIq(center, gain, grants, now) ==
  IF TxRefused(center, gain) THEN Blocked
  ELSE IF TxGranted(center, gain, grants, now) THEN Low
  ELSE IF is_in_ism(center) /\ gain <= MEDIUM_TX_VGA_GAIN_DB THEN Medium
  ELSE High

(* What the funnel can be asked for.  Fields an action does not take are   *)
(* None; "valid" says that the handler's own argument model, path check    *)
(* and the driver's grid accept the command, "length" is the IQ one of its *)
(* transfers moves, in buffers, and "estimate" what                        *)
(* _estimate_tx_duration_s makes of a transmission's: None when the file   *)
(* is missing or sample_rate_hz is a number only after coercion ("2e6").   *)
Command ==
  [action : CommandAction, center : Nat \cup {None}, target : Nat \cup {None},
   gain : Int \cup {None},
   duration : Int \cup {None}, start : Nat \cup {None}, end : Nat \cup {None},
   dwell : Int \cup {None}, length : Nat,
   estimate : Nat \cup {None}, valid : BOOLEAN,
   ranges : Seq(SweepRange) \cup {None}]

Assess(cmd, grants, now) ==
  CASE cmd.action \in AdminActions \cup KnowledgeActions \cup AnalysisActions -> Low
    [] cmd.action = "sweep_spectrum" -> AssessSweep(cmd.start, cmd.end, cmd.dwell)
    [] cmd.action = "sweep_spectrum_bulk" -> AssessSweepBulk(cmd.ranges, cmd.dwell)
    [] cmd.action = "capture_iq" -> AssessCaptureIq(cmd.center, cmd.duration)
    [] cmd.action = "transmit_iq" -> AssessTransmitIq(cmd.center, cmd.gain, grants, now)
    [] OTHER -> Blocked
=============================================================================
