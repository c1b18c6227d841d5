------------------------- MODULE RiskAssessorProofs -------------------------
(***************************************************************************)
(* The assessor for every frequency, gain, table of grants, scan and time, *)
(* whatever bands the policy tables hold: nothing below looks into them.   *)
(* First the rules, as lemmas about the operators of RiskAssessor; then    *)
(* the properties of Reassessment, for every choice of its constants.      *)
(***************************************************************************)
EXTENDS Reassessment, TLAPS

(* Turning the TX gain up never earns a transmission a lower tier.         *)
LEMMA LouderNeverSafer ==
  ASSUME NEW freq, NEW rows \in SUBSET Grant, NEW time \in Nat,
         NEW quiet \in Nat, NEW loud \in Nat, quiet <= loud
  PROVE  Rank(AssessTransmitIq(freq, quiet, rows, time).level)
           <= Rank(AssessTransmitIq(freq, loud, rows, time).level)
<1>1. TxRefused(freq, quiet) => TxRefused(freq, loud)
  BY NoneIsNoNumber DEF TxRefused, MAX_TX_VGA_GAIN_DB
<1>2. TxGranted(freq, loud, rows, time) => TxGranted(freq, quiet, rows, time)
  BY DEF TxGranted, CoversTransmission, Grant
<1>3. loud <= MEDIUM_TX_VGA_GAIN_DB => quiet <= MEDIUM_TX_VGA_GAIN_DB
  BY DEF MEDIUM_TX_VGA_GAIN_DB
<1> QED
  BY <1>1, <1>2, <1>3
     DEF AssessTransmitIq, Blocked, Low, Medium, High, Verdict, Rank

(* Losing grants, or letting time pass over them, never lowers the tier.   *)
LEMMA LessAuthorityNeverSafer ==
  ASSUME NEW freq, NEW db, NEW before \in SUBSET Grant, NEW time \in Nat,
         NEW after \in SUBSET before, NEW later \in Nat, time <= later
  PROVE  Rank(AssessTransmitIq(freq, db, before, time).level)
           <= Rank(AssessTransmitIq(freq, db, after, later).level)
<1>1. TxGranted(freq, db, after, later) => TxGranted(freq, db, before, time)
  BY DEF TxGranted, CoversTransmission, IsActive, Grant
<1> QED
  BY <1>1 DEF AssessTransmitIq, Blocked, Low, Medium, High, Verdict, Rank

(* No grant appeals a BLOCKED verdict, and none brings one about.          *)
LEMMA NoAppeal ==
  ASSUME NEW freq, NEW db, NEW rows, NEW time
  PROVE  AssessTransmitIq(freq, db, rows, time).level = "BLOCKED"
           <=> AssessTransmitIq(freq, db, {}, time).level = "BLOCKED"
  BY DEF AssessTransmitIq, Blocked, Low, Medium, High, Verdict
-----------------------------------------------------------------------------
(* What is proposed, held and waited for stays of its type.                *)
LEMMA TypeInvariant == Spec => []TypeOK
<1>1. Init => TypeOK
  BY ArgumentsAreArguments DEF Init, TypeOK
<1>2. TypeOK /\ [Next]_vars => TypeOK'
  <2> SUFFICES ASSUME TypeOK, [Next]_vars PROVE TypeOK'
    OBVIOUS
  <2> USE DEF TypeOK
  <2>1. CASE Retune
    BY <2>1, ArgumentsAreArguments DEF Retune
  <2>2. CASE Hold
    BY <2>2, ArgumentsAreArguments DEF Hold
  <2>3. CASE Tick
    BY <2>3 DEF Tick
  <2>4. CASE Rescan
    BY <2>4, ArgumentsAreArguments DEF Rescan, txVars
  <2>5. CASE UNCHANGED vars
    BY <2>5 DEF vars
  <2> QED
    BY <2>1, <2>2, <2>3, <2>4, <2>5 DEF Next
<1> QED
  BY <1>1, <1>2, PTL DEF Spec

(* Whoever turns the gain up and asks again is never told a lower tier.    *)
THEOREM LouderIsNeverSaferHolds == Spec => LouderIsNeverSafer
<1> DEFINE Louder == /\ UNCHANGED <<center, held, now>>
                     /\ gain # None /\ gain' # None
                     /\ 0 <= gain /\ gain <= gain'
                     => Rank(tier) <= Rank(tier')
<1>1. TypeOK /\ TypeOK' => Louder
  <2> SUFFICES ASSUME TypeOK, TypeOK', UNCHANGED <<center, held, now>>,
                      gain # None, gain' # None, 0 <= gain, gain <= gain'
               PROVE  Rank(tier) <= Rank(tier')
    OBVIOUS
  <2>1. gain \in Nat /\ gain' \in Nat /\ held \in SUBSET Grant /\ now \in Nat
    BY DEF TypeOK
  <2>2. Rank(AssessTransmitIq(center, gain, held, now).level)
          <= Rank(AssessTransmitIq(center, gain', held, now).level)
    BY <2>1, LouderNeverSafer
  <2> QED
    BY <2>2 DEF tier
<1> HIDE DEF Louder
<1>2. Spec => [][Louder]_vars
  BY <1>1, TypeInvariant, PTL
<1> QED
  BY <1>2 DEF LouderIsNeverSafer, Louder

(* Whoever loses grants, or waits until they expire, and asks again is     *)
(* never told a lower tier.                                                *)
THEOREM LessAuthorityIsNeverSaferHolds == Spec => LessAuthorityIsNeverSafer
<1> DEFINE Fewer == UNCHANGED <<center, gain>> /\ held' \subseteq held /\ now <= now'
                    => Rank(tier) <= Rank(tier')
<1>1. TypeOK /\ TypeOK' => Fewer
  <2> SUFFICES ASSUME TypeOK, TypeOK', UNCHANGED <<center, gain>>,
                      held' \subseteq held, now <= now'
               PROVE  Rank(tier) <= Rank(tier')
    OBVIOUS
  <2>1. held \in SUBSET Grant /\ held' \in SUBSET held /\ now \in Nat /\ now' \in Nat
    BY DEF TypeOK
  <2>2. Rank(AssessTransmitIq(center, gain, held, now).level)
          <= Rank(AssessTransmitIq(center, gain, held', now').level)
    BY <2>1, LessAuthorityNeverSafer
  <2> QED
    BY <2>2 DEF tier
<1> HIDE DEF Fewer
<1>2. Spec => [][Fewer]_vars
  BY <1>1, TypeInvariant, PTL
<1> QED
  BY <1>2 DEF LessAuthorityIsNeverSafer, Fewer

(* No table of grants appeals a BLOCKED verdict, and none brings it about. *)
THEOREM NoAppealHolds == Spec => []NoAppealAgainstBlocked
<1>1. NoAppealAgainstBlocked
  BY NoAppeal DEF NoAppealAgainstBlocked, tier
<1> QED
  BY <1>1, PTL

(* A bulk sweep is judged at least as strictly as each of its ranges that  *)
(* holds no boolean, and what it does unattended holds the radio for at    *)
(* most 30 s, however many ranges it has and whatever the dwell.           *)
LEMMA BulkNeverLaxer ==
  ASSUME NEW rs \in Seq(SweepRange), NEW d
  PROVE  /\ \A i \in DOMAIN rs : Rank(AssessSweep(rs[i].start, rs[i].end, d).level)
                                   <= Rank(AssessSweepBulk(rs, d).level)
         /\ AssessSweepBulk(rs, d).level = "LOW"
              => Len(rs) * DwellOf(d) <= BULK_AGGREGATE_LOW_MAX
<1>1. \A i \in DOMAIN rs : AssessSweep(rs[i].start, rs[i].end, d) = Blocked
        => AssessSweepBulk(rs, d) = Blocked
  BY DEF AssessSweep, AssessSweepBulk, Blocked, Low, Medium, Verdict
<1>2. \A i \in DOMAIN rs : AssessSweep(rs[i].start, rs[i].end, d) = Medium
        => AssessSweepBulk(rs, d) \in {Medium, Blocked}
  BY DEF AssessSweep, AssessSweepBulk, Blocked, Low, Medium, Verdict
<1>3. \A r : AssessSweep(r.start, r.end, d) \in {Low, Medium, Blocked}
  BY DEF AssessSweep
<1>4. AssessSweepBulk(rs, d) \in {Low, Medium, Blocked}
  BY DEF AssessSweepBulk
<1>5. AssessSweepBulk(rs, d) = Low => Len(rs) * DwellOf(d) <= BULK_AGGREGATE_LOW_MAX
  BY DEF AssessSweepBulk, Low, Medium, Blocked, Verdict
<1> QED
  BY <1>1, <1>2, <1>3, <1>4, <1>5 DEF Rank, Low, Medium, Blocked, Verdict

(* Packing sweeps into one command earns no lower tier than the strictest  *)
(* of those that hold no boolean, and no unattended one outlasts 30 s of   *)
(* listening.                                                              *)
THEOREM BulkIsNeverLaxerHolds == Spec => []BulkIsNeverLaxer
<1>1. TypeOK => BulkIsNeverLaxer
  BY BulkNeverLaxer DEF TypeOK, BulkIsNeverLaxer, scan, single, get_int, BULK_AGGREGATE_LOW_MAX,
     AssessSweepBulk, Low, Medium, Blocked, Verdict
<1> QED
  BY <1>1, TypeInvariant, PTL
=============================================================================
