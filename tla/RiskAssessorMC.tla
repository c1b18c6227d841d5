--------------------------- MODULE RiskAssessorMC ---------------------------
(***************************************************************************)
(* Samples for TLC: both sides of every frequency at which a table changes *)
(* and of every threshold of the assessor.                                 *)
(***************************************************************************)
EXTENDS Reassessment

MCGains == {-1, 0, 30, 31, 47, 48}
MCDwells == {-1, 1, 10, 19, 20, 21, 300}   \* tenths of a second
MCRangeCounts == {1, 2, 8, 15, 16, 30, 31}

Edges == UNION {{b.start, b.stop} : b \in BLOCKED_BANDS \cup ISM_BANDS \cup AMATEUR_BANDS}
(* 600 MHz stands for a frequency in no table.                             *)
MCFreqs == UNION {{e - 1, e, e + 1} : e \in Edges} \cup {6000000, None}

Row(i, start, stop, max, expires) ==
  [id |-> i, band_start_hz |-> start, band_stop_hz |-> stop, max_gain_db |-> max,
   granted_at |-> 0, expires_at |-> expires, revoked_at |-> None]
(* A keyfob grant; one as wide as the radio; one that has expired.         *)
MCGrants == { Row(1, 4330500, 4347900, 30, 1), Row(2, 10000, 60000000, 62, 2),
              Row(3, 10000, 60000000, 62, 0) }

Ends(start, end, booleans) == [start |-> start, end |-> end, booleans |-> booleans]
SomeRanges(n) == [i \in 1..n |-> Ends(100 * i, 100 * i + 50, {})]
(* The last ranges: empty, half missing, and {start: false, end: 20},      *)
(* {start: true, end: 20}, {start: false, end: true}, {start: true, end:   *)
(* true}.                                                                  *)
MCRangeLists == {SomeRanges(n) : n \in MCRangeCounts} \cup {None} \cup
  {Append(SomeRanges(2), r) : r \in
     {Ends(9, 9, {}), Ends(None, 9, {}), Ends(0, 20, {"start"}), Ends(1, 20, {"start"}),
      Ends(0, 1, {"start", "end"}), Ends(1, 1, {"start", "end"})}}
=============================================================================
