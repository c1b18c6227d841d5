----------------------------- MODULE BitStreams -----------------------------
(***************************************************************************)
(* hw/analysis.py: from samples to bits, and what the decoders share.  A   *)
(* recording is the sequence of its envelope samples (OOK) or of the mean  *)
(* frequencies of its symbols (2FSK), as small integers: what decides is   *)
(* on which side of the middle of the observed range a value lies.         *)
(***************************************************************************)
EXTENDS Integers, FiniteSets, Sequences, SequencesExt, FiniteSetsExt

Bit == {0, 1}
BitString(n) == [1..n -> Bit]

(* The same sequence: TLC works its elements out once, and not each time   *)
(* one is asked for.                                                       *)
Tabulated(s) == s \o << >>

(* F of each element.                                                      *)
Each(s, F(_)) == Tabulated([i \in DOMAIN s |-> F(s[i])])

Not(b) == Tabulated([i \in DOMAIN b |-> 1 - b[i]])
Ones(b) == {i \in DOMAIN b : b[i] = 1}

(* A number, most significant or least significant bit first.              *)
Msb(b) == LET v[i \in 0..Len(b)] == IF i = 0 THEN 0 ELSE 2 * v[i - 1] + b[i]
          IN v[Len(b)]
Lsb(b) == Msb(Reverse(b))

(* The n-bit groups of b, a last incomplete one dropped.                   *)
Groups(b, n) == Tabulated([k \in 1..Len(b) \div n |-> SubSeq(b, (k - 1) * n + 1, k * n)])

(* v with g added, modulo 2, from place i on.                              *)
XorAt(v, i, g) ==
  SubSeq(v, 1, i - 1) \o [k \in DOMAIN g |-> (v[i + k - 1] + g[k]) % 2]
    \o SubSeq(v, i + Len(g), Len(v))

(* Is the pattern p at place i of b?                                       *)
At(p, b, i) == \A j \in DOMAIN p : b[i + j - 1] = p[j]

(* A finite set of numbers in order: k of them are at most the k-th.       *)
InOrder(S) ==
  Tabulated([k \in 1..Cardinality(S) |->
               CHOOSE i \in S : Cardinality({j \in S : j <= i}) = k])

(* The numbers of 1..n that P accepts, in order.                           *)
Indices(n, P(_)) == InOrder({i \in 1..n : P(i)})

(* What P accepts of s, in order.                                          *)
Kept(s, P(_)) ==
  LET at == Indices(Len(s), LAMBDA i : P(s[i]))
  IN Tabulated([k \in DOMAIN at |-> s[at[k]]])

(* Where p occurs in b, in order; occurrences may overlap.                 *)
Places(p, b) ==
  IF Len(b) < Len(p) THEN << >> ELSE Indices(Len(b) - Len(p) + 1, LAMBDA i : At(p, b, i))

(* The sequences of a sequence, one after the other.                       *)
Joined(s) ==
  LET n == Len(s)
      join[first \in 1..n, last \in 1..n] ==
        IF first = last THEN s[first]
        ELSE LET middle == (first + last) \div 2
             IN join[first, middle] \o join[middle + 1, last]
  IN IF n = 0 THEN << >> ELSE join[1, n]

(* The n bits of v, most significant first.                                *)
BitsOf(v, n) == [i \in 1..n |-> (v \div 2 ^ (n - i)) % 2]
-----------------------------------------------------------------------------
(* The threshold is the midpoint of the lowest and the highest value; a    *)
(* recording of one level only has nothing above it.                       *)
Above(values) ==
  LET lo == Min(Range(values))
      hi == Max(Range(values))
  IN Tabulated([i \in DOMAIN values |-> 2 * values[i] > lo + hi])

(* slice_ook: a symbol is 1 when more than half of its samples are high.   *)
(* Below 2 samples per symbol, or below 8 symbols, it raises ValueError.   *)
CanSlice(env, sps) == sps >= 2 /\ Len(env) >= 8 * sps

(* A mutant: half of the samples are enough. *)
SliceOok_HalfIsEnough(env, sps) ==
  LET on == Above(env)
      high(k) == Cardinality({j \in 1..sps : on[(k - 1) * sps + j]})
  IN [k \in 1..Len(env) \div sps |-> IF high(k) >= sps \div 2 THEN 1 ELSE 0]

SliceOok(env, sps) ==
  LET on == Above(env)
      high(k) == Cardinality({j \in 1..sps : on[(k - 1) * sps + j]})
  IN Tabulated([k \in 1..Len(env) \div sps |-> IF high(k) > sps \div 2 THEN 1 ELSE 0])

(* fsk_bit_stream: the frequency of a symbol is the mean of its samples,   *)
(* here their sum.  Symbols lie on one grid from the first sample on.      *)
SymbolTones(samples, sps) ==
  IF sps < 2 THEN << >>
  ELSE [k \in 1..Len(samples) \div sps |->
          LET sum[j \in 0..sps] == IF j = 0 THEN 0 ELSE sum[j - 1] + samples[sps * (k - 1) + j]
          IN sum[sps]]

(* The higher tone is 1.                                                   *)
FskBits(tones, invert) ==
  IF tones = << >> THEN << >>
  ELSE LET above == Above(tones)
       IN Tabulated([i \in DOMAIN tones |-> IF above[i] # invert THEN 1 ELSE 0])
=============================================================================
