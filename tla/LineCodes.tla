------------------------------ MODULE LineCodes ------------------------------
(***************************************************************************)
(* hw/analysis.py: the line codes over an OOK envelope.  Widths and        *)
(* periods are in samples.                                                 *)
(***************************************************************************)
EXTENDS BitStreams

DecodeNrz(env, sps, inverted) ==
  IF inverted THEN Not(SliceOok(env, sps)) ELSE SliceOok(env, sps)

(* A transition is 1.  There is one bit less than there are levels.        *)
DecodeNrzi(env, sps) ==
  LET level == SliceOok(env, sps)
  IN [i \in 1..Len(level) - 1 |-> IF level[i + 1] # level[i] THEN 1 ELSE 0]

(* ieee: 01 is 1, so a valid pair says its second half; thomas: its first. *)
(* A pair of equal halves counts as invalid and reads 0.                   *)
DecodeManchester(env, sps, polarity) ==
  LET pair == Groups(SliceOok(env, sps), 2)
      valid(k) == pair[k][1] # pair[k][2]
  IN [bits |-> [k \in DOMAIN pair |->
                  IF valid(k) THEN pair[k][IF polarity = "ieee" THEN 2 ELSE 1] ELSE 0],
      invalid_pairs |-> Cardinality({k \in DOMAIN pair : ~valid(k)})]

(* The runs of ON samples, <<first, last>> in order.                       *)
Pulses(env) ==
  LET on == Above(env)
      n == Len(env)
      first == Indices(n, LAMBDA i : on[i] /\ (i = 1 \/ ~on[i - 1]))
      last == Indices(n, LAMBDA i : on[i] /\ (i = n \/ ~on[i + 1]))
  IN [k \in DOMAIN first |-> <<first[k], last[k]>>]

(* A mutant: the sample after the run is taken for its last. *)
Width_Exclusive(pulse) == pulse[2] - pulse[1]

Width(pulse) == pulse[2] - pulse[1] + 1

(* Within 35 % of the difference of the two nominal widths.                *)
WithinTolerance(w, nominal, short, long) ==
  /\ 100 * (w - nominal) <= 35 * (long - short)
  /\ 100 * (nominal - w) <= 35 * (long - short)

(* One pulse, one bit: short is 0, long is 1; what fits neither is counted *)
(* and decided by the midpoint.                                            *)
DecodePwm(env, short, long) ==
  LET pulse == Pulses(env)
      w(k) == Width(pulse[k])
      fits(k, nominal) == WithinTolerance(w(k), nominal, short, long)
  IN [bits |-> [k \in DOMAIN pulse |->
                  IF fits(k, short) \/ (~fits(k, long) /\ 2 * w(k) < short + long) THEN 0 ELSE 1],
      invalid_pulses |-> Cardinality({k \in DOMAIN pulse : ~fits(k, short) /\ ~fits(k, long)})]

(* The centre of a pulse, folded into the symbol period of two halves: in  *)
(* the first half it is 1.  Twice the centre is first - 1 + last.          *)
DecodePpm(env, half) ==
  LET pulse == Pulses(env)
      centre2(k) == pulse[k][1] - 1 + pulse[k][2]
  IN [k \in DOMAIN pulse |-> IF centre2(k) % (4 * half) < 2 * half THEN 1 ELSE 0]
=============================================================================
