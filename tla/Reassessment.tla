---------------------------- MODULE Reassessment ----------------------------
(***************************************************************************)
(* The assessor as an agent and an operator see it: the same transmission  *)
(* is assessed again after its gain, the grants held or the clock changed; *)
(* the same scan, with another dwell or other ranges.                      *)
(***************************************************************************)
EXTENDS RiskAssessor

CONSTANTS Freqs, Gains, Dwells, RangeLists, Grants,   \* what may be proposed, or held
          MaxClock                                    \* bound: clock ticks

ASSUME ArgumentsAreArguments ==
  /\ Freqs \subseteq Nat \cup {None}
  /\ Gains \subseteq Int /\ Dwells \subseteq Int
  /\ RangeLists \subseteq Seq(SweepRange) \cup {None}
  /\ Grants \subseteq Grant
ASSUME MaxClockIsNumber == MaxClock \in Nat

VARIABLES center, gain, held, now, dwell, ranges
vars == <<center, gain, held, now, dwell, ranges>>
txVars == <<center, gain, held, now>>

tier == AssessTransmitIq(center, gain, held, now).level
scan == AssessSweepBulk(ranges, dwell)

(* The range as a sweep_spectrum of its own, whose ends do go through      *)
(* _get_int.                                                               *)
get_int(r, key) == IF key \in r.booleans THEN None ELSE r[key]
single(r) == AssessSweep(get_int(r, "start"), get_int(r, "end"), dwell)

Init ==
  /\ center \in Freqs /\ gain = 0 /\ held = {} /\ now = 0
  /\ dwell = None /\ ranges = None

Retune == gain' \in Gains \cup {None} /\ UNCHANGED <<center, held, now, dwell, ranges>>
Hold == held' \in SUBSET Grants /\ UNCHANGED <<center, gain, now, dwell, ranges>>
Tick == now < MaxClock /\ now' = now + 1 /\ UNCHANGED <<center, gain, held, dwell, ranges>>
Rescan ==
  /\ center = None       \* the two kinds of command are explored apart
  /\ dwell' \in Dwells \cup {None}
  /\ ranges' \in RangeLists
  /\ UNCHANGED txVars

Next == Retune \/ Hold \/ Tick \/ Rescan
Spec == Init /\ [][Next]_vars

TypeOK ==
  /\ center \in Nat \cup {None} /\ gain \in Int \cup {None}
  /\ held \subseteq Grant /\ now \in Nat
  /\ dwell \in Int \cup {None}
  /\ ranges \in Seq(SweepRange) \cup {None}

(* Turning the TX gain up never makes the same transmission look safer to  *)
(* _assess_transmit_iq (a negative gain is malformed, not quiet).          *)
LouderIsNeverSafer ==
  [][ /\ UNCHANGED <<center, held, now>>
      /\ gain # None /\ gain' # None
      /\ 0 <= gain /\ gain <= gain'
      => Rank(tier) <= Rank(tier') ]_vars

(* Losing grants or letting them expire never lowers the tier: authority   *)
(* only ever relaxes the verdict.                                          *)
LessAuthorityIsNeverSafer ==
  [][ UNCHANGED <<center, gain>> /\ held' \subseteq held /\ now <= now'
      => Rank(tier) <= Rank(tier') ]_vars

(* A grant, however wide and loud, changes no verdict that would have been *)
(* BLOCKED without it: "Does not override BLOCKED bands".                  *)
NoAppealAgainstBlocked ==
  AssessTransmitIq(center, gain, {}, now).level = "BLOCKED" <=> tier = "BLOCKED"

(* Packing sweeps into one sweep_spectrum_bulk never earns a lower tier    *)
(* than the strictest of the sweeps alone, as long as no end is a JSON     *)
(* boolean, and what runs unattended holds the radio for at most 30 s,     *)
(* whatever the ends are.                                                  *)
BulkIsNeverLaxer ==
  ranges # None =>
    /\ \A i \in DOMAIN ranges :
         ranges[i].booleans = {} => Rank(single(ranges[i]).level) <= Rank(scan.level)
    /\ ~scan.requires_confirmation /\ scan.level # "BLOCKED"
         => Len(ranges) * DwellOf(dwell) <= 300
=============================================================================
