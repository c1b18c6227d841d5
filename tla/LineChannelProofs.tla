------------------------- MODULE LineChannelProofs -------------------------
(***************************************************************************)
(* What is keyed in a line code is read, for recordings of any length: in  *)
(* the codes that a receiver reads from levels (NRZ, NRZI, Manchester) one *)
(* bad sample in each symbol never reaches the bits; in the codes of       *)
(* pulses (PWM, PPM) the runs of the recording are the pulses that were    *)
(* keyed; in RTTY with whole stop bits the search for frames is back in    *)
(* step after six marks, whatever the noise before them.  What a recursive *)
(* function computes is shown by induction down from its last argument,    *)
(* that is from a least counterexample (Least, Downwards).                 *)
(***************************************************************************)
EXTENDS LineChannel, SequenceTheorems, FiniteSetTheorems, TLAPS

LevelCodes == {"nrz", "nrzi", "manchester", "late_manchester"}

TwoOf(p, q, r) == (p /\ q) \/ (p /\ r) \/ (q /\ r)

(* What a majority of the three samples of symbol k says.                  *)
Level(s, k) ==
  IF TwoOf(s[3 * k - 2] = 1, s[3 * k - 1] = 1, s[3 * k] = 1) THEN 1 ELSE 0

(* The levels of the recording so far are the ones that the code keys.     *)
LevelsInv ==
  code \in LevelCodes =>
    /\ sent \in Seq(Bit) /\ air \in Seq(Bit)
    /\ code = "nrz" =>
         /\ Len(air) = 3 * Len(sent)
         /\ \A k \in 1..Len(sent) : Level(air, k) = sent[k]
    /\ code = "nrzi" =>
         /\ Len(air) = 3 * (Len(sent) + 1)
         /\ Level(air, 1) = air[1]
         /\ Level(air, Len(sent) + 1) = (air[1] + Parity(sent)) % 2
         /\ \A k \in 1..Len(sent) : Level(air, k + 1) = (Level(air, k) + sent[k]) % 2
    /\ code = "manchester" =>
         /\ Len(air) = 3 * (2 * Len(sent))
         /\ \A k \in 1..Len(sent) :
              Level(air, 2 * k - 1) = 1 - sent[k] /\ Level(air, 2 * k) = sent[k]
    /\ code = "late_manchester" =>
         /\ sent = << >> => Len(air) = 0
         /\ sent # << >> => Len(air) = 3 * (2 * Len(sent) - 1) /\ Level(air, 1) = sent[1]
         /\ \A k \in 1..Len(sent) - 1 :
              /\ Level(air, 2 * k) = 1 - sent[k + 1]
              /\ Level(air, 2 * k + 1) = sent[k + 1]
-----------------------------------------------------------------------------
LEMMA TwoOfThree ==
  ASSUME NEW f \in [1..3 -> BOOLEAN]
  PROVE  Cardinality({j \in 1..3 : f[j]}) > 1 <=> TwoOf(f[1], f[2], f[3])
<1> DEFINE S == {j \in 1..3 : f[j]}
<1>1. IsFiniteSet(S) /\ Cardinality(S) \in Nat
  <2>1. IsFiniteSet(1..3)
    <3>1. \A b \in Nat : IsFiniteSet(1..b)
      BY FS_Interval
    <3> QED BY <3>1
  <2>2. S \in SUBSET (1..3)
    OBVIOUS
  <2> HIDE DEF S
  <2>3. IsFiniteSet(S)
    BY <2>1, <2>2, FS_Subset
  <2> QED BY <2>3, FS_CardinalityType
<1>2. ASSUME NEW a \in S, NEW b \in S, a # b
      PROVE  Cardinality(S) > 1
  <2>1. IsFiniteSet({a}) /\ Cardinality({a}) = 1 /\ {a} \in SUBSET S
    BY FS_Singleton
  <2>2. Cardinality({a}) <= Cardinality(S) /\ Cardinality({a}) # Cardinality(S)
    <3>1. Cardinality({a}) <= Cardinality(S)
          /\ (Cardinality(S) = Cardinality({a}) => S = {a})
      BY <1>1, <2>1, FS_Subset
    <3> QED BY <1>2, <3>1
  <2> QED BY <1>1, <2>1, <2>2
<1>3. ASSUME NEW a \in 1..3, S \subseteq {a}
      PROVE  ~(Cardinality(S) > 1)
  <2>1. IsFiniteSet({a}) /\ Cardinality({a}) = 1 /\ S \in SUBSET {a}
    BY <1>3, FS_Singleton
  <2>2. Cardinality(S) <= 1
    BY <2>1, FS_Subset
  <2> QED BY <1>1, <2>2
<1>4. CASE TwoOf(f[1], f[2], f[3])
  <2>1. \E a, b \in S : a # b
    <3>1. (1 \in S <=> f[1]) /\ (2 \in S <=> f[2]) /\ (3 \in S <=> f[3])
      OBVIOUS
    <3> HIDE DEF S
    <3> QED BY <1>4, <3>1 DEF TwoOf
  <2> QED BY <1>2, <1>4, <2>1
<1>5. CASE ~TwoOf(f[1], f[2], f[3])
  <2>1. \E a \in 1..3 : S \subseteq {a}
    <3>1. 1..3 = {1, 2, 3}
      OBVIOUS
    <3>2. S \subseteq {1} \/ S \subseteq {2} \/ S \subseteq {3}
      BY <1>5, <3>1 DEF TwoOf
    <3> QED BY <3>1, <3>2
  <2> QED BY <1>3, <1>5, <2>1
<1> QED BY <1>4, <1>5

LEMMA TabulatedIs ==
  ASSUME NEW T, NEW s \in Seq(T)
  PROVE  Tabulated(s) = s
  BY ConcatEmptySeq DEF Tabulated

LEMMA LevelIsBit == ASSUME NEW s, NEW k PROVE Level(s, k) \in Bit
  BY DEF Level, Bit

(* The midpoint of a recording with both levels tells them apart.          *)
LEMMA AboveTells ==
  ASSUME NEW env \in Seq(Bit), NEW lo \in DOMAIN env, NEW hi \in DOMAIN env,
         env[lo] = 0, env[hi] = 1
  PROVE  /\ Above(env) \in Seq(BOOLEAN)
         /\ \A i \in DOMAIN env : Above(env)[i] <=> env[i] = 1
<1>1. \A i \in DOMAIN env : env[i] = 0 \/ env[i] = 1
  BY ElementOfSeq DEF Bit
<1>2. Range(env) = {0, 1}
  BY <1>1 DEF Range
<1>3. Min(Range(env)) = 0
  <2>1. \E x \in {0, 1} : \A y \in {0, 1} : x =< y
    OBVIOUS
  <2>2. \A x \in {0, 1} : (\A y \in {0, 1} : x =< y) => x = 0
    OBVIOUS
  <2> QED BY <1>2, <2>1, <2>2 DEF Min
<1>4. Max(Range(env)) = 1
  <2>1. \E x \in {0, 1} : \A y \in {0, 1} : x >= y
    OBVIOUS
  <2>2. \A x \in {0, 1} : (\A y \in {0, 1} : x >= y) => x = 1
    OBVIOUS
  <2> QED BY <1>2, <2>1, <2>2 DEF Max
<1> DEFINE on == [i \in DOMAIN env |-> 2 * env[i] > 0 + 1]
<1>5. on \in Seq(BOOLEAN) /\ \A i \in DOMAIN env : on[i] <=> env[i] = 1
  <2>1. DOMAIN env = 1..Len(env) /\ Len(env) \in Nat
    OBVIOUS
  <2>2. on \in Seq(BOOLEAN)
    BY <2>1
  <2>3. ASSUME NEW i \in DOMAIN env PROVE on[i] <=> env[i] = 1
    <3>1. on[i] <=> 2 * env[i] > 0 + 1
      OBVIOUS
    <3>2. CASE env[i] = 0
      BY <3>1, <3>2
    <3>3. CASE env[i] = 1
      BY <3>1, <3>3
    <3> QED BY <1>1, <3>2, <3>3
  <2> QED BY <2>2, <2>3
<1>6. Above(env) = Tabulated(on)
  BY <1>3, <1>4 DEF Above
<1> HIDE DEF on
<1> QED BY <1>5, <1>6, TabulatedIs

(* slice_ook with three samples per symbol reads their majority, in a      *)
(* recording that has a symbol of each level.                              *)
LEMMA SliceReads ==
  ASSUME NEW env \in Seq(Bit), NEW n \in Nat, Len(env) = 3 * n,
         NEW p \in 1..n, NEW q \in 1..n, Level(env, p) # Level(env, q)
  PROVE  SliceOok(env, 3) = [k \in 1..n |-> Level(env, k)]
<1>1. /\ DOMAIN env = 1..3 * n
      /\ \A i \in 1..3 * n : env[i] \in {0, 1}
      /\ \A k \in 1..n : 3 * k - 2 \in 1..3 * n /\ 3 * k - 1 \in 1..3 * n /\ 3 * k \in 1..3 * n
  BY ElementOfSeq DEF Bit
<1>2. ASSUME NEW k \in 1..n
      PROVE  /\ Level(env, k) = 0 => \E i \in DOMAIN env : env[i] = 0
             /\ Level(env, k) = 1 => \E i \in DOMAIN env : env[i] = 1
  BY <1>1 DEF Level, TwoOf
<1>3. PICK lo \in DOMAIN env, hi \in DOMAIN env : env[lo] = 0 /\ env[hi] = 1
  BY <1>2, LevelIsBit DEF Bit
<1> DEFINE on == Above(env)
           high(k) == Cardinality({j \in 1..3 : on[(k - 1) * 3 + j]})
           sliced == [k \in 1..Len(env) \div 3 |-> IF high(k) > 3 \div 2 THEN 1 ELSE 0]
<1>4. \A i \in 1..3 * n : on[i] <=> env[i] = 1
  BY <1>1, <1>3, AboveTells
<1>5. Len(env) \div 3 = n /\ 3 \div 2 = 1
  OBVIOUS
<1>6. ASSUME NEW k \in 1..n
      PROVE  high(k) > 1 <=> TwoOf(env[3 * k - 2] = 1, env[3 * k - 1] = 1, env[3 * k] = 1)
  <2> DEFINE f == [j \in 1..3 |-> env[(k - 1) * 3 + j] = 1]
  <2>1. f \in [1..3 -> BOOLEAN]
    OBVIOUS
  <2>2. /\ (k - 1) * 3 + 1 = 3 * k - 2 /\ (k - 1) * 3 + 2 = 3 * k - 1
        /\ (k - 1) * 3 + 3 = 3 * k
    OBVIOUS
  <2>3. \A j \in 1..3 : on[(k - 1) * 3 + j] <=> f[j]
    <3> SUFFICES ASSUME NEW j \in 1..3 PROVE on[(k - 1) * 3 + j] <=> f[j]
      OBVIOUS
    <3>1. (k - 1) * 3 + j \in 1..3 * n
      OBVIOUS
    <3> QED BY <1>4, <3>1
  <2>4. {j \in 1..3 : on[(k - 1) * 3 + j]} = {j \in 1..3 : f[j]}
    BY <2>3
  <2>5. /\ f[1] = (env[3 * k - 2] = 1) /\ f[2] = (env[3 * k - 1] = 1)
        /\ f[3] = (env[3 * k] = 1)
    BY <2>2
  <2> HIDE DEF f
  <2>6. Cardinality({j \in 1..3 : f[j]}) > 1 <=> TwoOf(f[1], f[2], f[3])
    BY <2>1, TwoOfThree
  <2> QED BY <2>4, <2>5, <2>6
<1> HIDE DEF high, on
<1>7. sliced = [k \in 1..n |-> Level(env, k)]
  BY <1>5, <1>6 DEF Level
<1>8. SliceOok(env, 3) = Tabulated(sliced)
  BY DEF SliceOok, high, on
<1>9. [k \in 1..n |-> Level(env, k)] \in Seq(Bit)
  BY LevelIsBit
<1> HIDE DEF sliced
<1> QED BY <1>7, <1>8, <1>9, TabulatedIs
-----------------------------------------------------------------------------
(* What keying m more symbols with one bad sample adds to a recording.     *)
LEMMA LevelsKeyed ==
  ASSUME NEW samples \in Seq(Bit), NEW n \in Nat, Len(samples) = 3 * n,
         NEW levels \in Seq(Bit), NEW m \in 1..2, Len(levels) = m,
         NEW bad \in 0..3 * m
  PROVE  LET more == samples \o Glitched(Spread(levels, 3), bad)
         IN /\ more \in Seq(Bit) /\ Len(more) = 3 * (n + m)
            /\ \A i \in 1..3 * n : more[i] = samples[i]
            /\ \A k \in 1..n : Level(more, k) = Level(samples, k)
            /\ \A j \in 1..m : Level(more, n + j) = levels[j]
<1> DEFINE clean == Spread(levels, 3)
           g == Glitched(clean, bad)
           more == samples \o Glitched(Spread(levels, 3), bad)
<1>1. \A j \in 1..m : levels[j] \in {0, 1}
  BY ElementOfSeq DEF Bit
<1>2. /\ clean \in Seq(Bit) /\ Len(clean) = 3 * m
      /\ \A i \in 1..3 * m : clean[i] = levels[(i - 1) \div 3 + 1]
  <2>1. clean = [i \in 1..3 * m |-> levels[(i - 1) \div 3 + 1]]
    BY DEF Spread
  <2>2. \A i \in 1..3 * m : (i - 1) \div 3 + 1 \in 1..m
    OBVIOUS
  <2> HIDE DEF clean
  <2> QED BY <1>1, <2>1, <2>2 DEF Bit
<1> HIDE DEF clean
<1>3. /\ g \in Seq(Bit) /\ Len(g) = 3 * m
      /\ \A i \in 1..3 * m : i # bad => g[i] = clean[i]
  <2>1. CASE bad = 0
    BY <1>2, <2>1 DEF Glitched
  <2>2. CASE bad # 0
    <3>1. bad \in 1..Len(clean) /\ g = [clean EXCEPT ![bad] = 1 - clean[bad]]
      BY <1>2, <2>2 DEF Glitched
    <3>2. 1 - clean[bad] \in Bit
      <4>1. clean[bad] \in Bit
        BY <1>2, <3>1, ElementOfSeq
      <4> QED BY <4>1 DEF Bit
    <3> HIDE DEF g
    <3> QED BY <1>2, <3>1, <3>2, ExceptSeq
  <2> QED BY <2>1, <2>2
<1>4. more = samples \o g
  BY DEF clean
<1> HIDE DEF g, more
<1>5. /\ more \in Seq(Bit) /\ Len(more) = 3 * (n + m)
      /\ \A i \in 1..3 * n : more[i] = samples[i]
      /\ \A i \in 1..3 * m : more[3 * n + i] = g[i]
  <2>1. /\ more \in Seq(Bit) /\ Len(more) = 3 * n + 3 * m
        /\ \A i \in 1..3 * n + 3 * m :
             more[i] = IF i <= 3 * n THEN samples[i] ELSE g[i - 3 * n]
    <3>1. more \in Seq(Bit) /\ Len(more) = Len(samples) + Len(g)
      BY <1>3, <1>4, ConcatProperties
    <3>2. \A i \in 1..3 * n + 3 * m :
            more[i] = IF i <= 3 * n THEN samples[i] ELSE g[i - 3 * n]
      BY <1>3, <1>4, ConcatProperties
    <3> QED BY <1>3, <3>1, <3>2
  <2>2. \A i \in 1..3 * n : more[i] = samples[i]
    BY <2>1
  <2>3. ASSUME NEW i \in 1..3 * m PROVE more[3 * n + i] = g[i]
    <3>1. 3 * n + i \in 1..3 * n + 3 * m /\ ~(3 * n + i <= 3 * n) /\ (3 * n + i) - 3 * n = i
      OBVIOUS
    <3> QED BY <2>1, <3>1
  <2> QED BY <2>1, <2>2, <2>3
<1>6. ASSUME NEW k \in 1..n PROVE Level(more, k) = Level(samples, k)
  <2>1. 3 * k - 2 \in 1..3 * n /\ 3 * k - 1 \in 1..3 * n /\ 3 * k \in 1..3 * n
    OBVIOUS
  <2> QED BY <1>5, <2>1 DEF Level
<1>7. ASSUME NEW j \in 1..m PROVE Level(more, n + j) = levels[j]
  <2>1. /\ 3 * j - 2 \in 1..3 * m /\ 3 * j - 1 \in 1..3 * m /\ 3 * j \in 1..3 * m
        /\ 3 * (n + j) - 2 = 3 * n + (3 * j - 2)
        /\ 3 * (n + j) - 1 = 3 * n + (3 * j - 1)
        /\ 3 * (n + j) = 3 * n + 3 * j
    OBVIOUS
  <2>2. /\ (3 * j - 2 - 1) \div 3 + 1 = j
        /\ (3 * j - 1 - 1) \div 3 + 1 = j
        /\ (3 * j - 1) \div 3 + 1 = j
    OBVIOUS
  <2>3. /\ clean[3 * j - 2] = levels[j] /\ clean[3 * j - 1] = levels[j]
        /\ clean[3 * j] = levels[j]
    BY <1>2, <2>1, <2>2
  <2>4. TwoOf(g[3 * j - 2] = levels[j], g[3 * j - 1] = levels[j], g[3 * j] = levels[j])
    <3>1. /\ 3 * j - 2 # 3 * j - 1 /\ 3 * j - 2 # 3 * j /\ 3 * j - 1 # 3 * j
      OBVIOUS
    <3> QED BY <1>3, <2>1, <2>3, <3>1 DEF TwoOf
  <2>5. /\ more[3 * (n + j) - 2] = g[3 * j - 2] /\ more[3 * (n + j) - 1] = g[3 * j - 1]
        /\ more[3 * (n + j)] = g[3 * j]
    BY <1>5, <2>1
  <2> QED BY <1>1, <2>4, <2>5 DEF Level, TwoOf
<1> QED BY <1>5, <1>6, <1>7 DEF more

LEMMA ParityOfMore ==
  ASSUME NEW s \in Seq(Bit), NEW bit \in Bit
  PROVE  Parity(s) \in {0, 1} /\ Parity(Append(s, bit)) = (Parity(s) + bit) % 2
<1> DEFINE n == Len(s)
           t == Append(s, bit)
<1>1. /\ n \in Nat /\ DOMAIN s = 1..n /\ DOMAIN t = 1..n + 1
      /\ t[n + 1] = bit /\ \A i \in 1..n : t[i] = s[i]
  OBVIOUS
<1>2. IsFiniteSet(Ones(s)) /\ Cardinality(Ones(s)) \in Nat
  <2>1. Ones(s) \in SUBSET (1..n) /\ IsFiniteSet(1..n)
    BY <1>1, FS_Interval DEF Ones
  <2>2. IsFiniteSet(Ones(s))
    BY <2>1, FS_Subset
  <2> QED BY <2>2, FS_CardinalityType
<1>3. Ones(t) = IF bit = 1 THEN Ones(s) \cup {n + 1} ELSE Ones(s)
  BY <1>1 DEF Ones, Bit
<1>4. n + 1 \notin Ones(s)
  BY <1>1 DEF Ones
<1>5. Cardinality(Ones(t)) = Cardinality(Ones(s)) + bit
  <2>1. CASE bit = 1
    BY <1>2, <1>3, <1>4, <2>1, FS_AddElement
  <2>2. CASE bit = 0
    BY <1>2, <1>3, <2>2
  <2> QED BY <2>1, <2>2 DEF Bit
<1> DEFINE c == Cardinality(Ones(s))
<1>6. c \in Nat /\ bit \in {0, 1} /\ Parity(s) = c % 2 /\ Parity(t) = (c + bit) % 2
  BY <1>2, <1>5 DEF Parity, Bit
<1> HIDE DEF c
<1> QED BY <1>6
-----------------------------------------------------------------------------
LEMMA LevelsBegin == Init => LevelsInv
<1> SUFFICES ASSUME Init, code \in LevelCodes PROVE LevelsInv
  BY DEF LevelsInv
<1>1. sent = << >>
  BY DEF Init
<1>2. code # "nrzi" => air = << >>
  BY DEF Init
<1>3. CASE code = "nrzi"
  <2>1. PICK b \in Bit : air = Repeat(b, SPS)
    BY <1>3 DEF Init, Bit
  <2>2. /\ air \in Seq(Bit) /\ Len(air) = 3
        /\ air[1] = b /\ air[2] = b /\ air[3] = b
    BY <2>1 DEF Repeat, SPS
  <2>3. Parity(sent) = 0
    <3>1. Ones(sent) = {}
      BY <1>1 DEF Ones
    <3>2. Cardinality({}) = 0
      BY FS_EmptySet
    <3> QED BY <3>1, <3>2 DEF Parity
  <2>4. Level(air, 1) = air[1]
    <3>1. 3 * 1 - 2 = 1 /\ 3 * 1 - 1 = 2 /\ 3 * 1 = 3
      OBVIOUS
    <3> QED BY <2>2, <3>1 DEF Level, TwoOf, Bit
  <2>5. Len(sent) = 0 /\ sent \in Seq(Bit)
    BY <1>1
  <2>6. (air[1] + 0) % 2 = air[1]
    BY <2>2 DEF Bit
  <2> QED BY <1>3, <2>2, <2>3, <2>4, <2>5, <2>6 DEF LevelsInv
<1>4. CASE code # "nrzi"
  BY <1>1, <1>2, <1>4 DEF LevelsInv
<1> QED BY <1>3, <1>4

(* What a step of Key adds, in terms of levels.                            *)
LEMMA KeyAddsLevels ==
  ASSUME LevelsInv, NEW bit \in Bit, NEW bad \in 0..2 * SPS, Key(bit, bad),
         NEW n \in Nat, Len(air) = 3 * n,
         NEW levels \in Seq(Bit), LevelsOf(bit) = levels,
         NEW m \in 1..2, Len(levels) = m
  PROVE  /\ air' \in Seq(Bit) /\ Len(air') = 3 * (n + m)
         /\ \A i \in 1..3 * n : air'[i] = air[i]
         /\ \A k \in 1..n : Level(air', k) = Level(air, k)
         /\ \A j \in 1..m : Level(air', n + j) = levels[j]
<1>1. air \in Seq(Bit)
  BY DEF LevelsInv, Key, LevelCodes
<1>2. Len(Spread(levels, SPS)) = 3 * m
  <2>1. Spread(levels, SPS) = [i \in 1..3 * m |-> levels[(i - 1) \div 3 + 1]]
    BY DEF Spread, SPS
  <2> QED BY <2>1
<1>3. bad \in 0..3 * m /\ air' = air \o Glitched(Spread(levels, 3), bad)
  BY <1>2 DEF Key, SPS
<1> DEFINE more == air \o Glitched(Spread(levels, 3), bad)
<1>4. /\ more \in Seq(Bit) /\ Len(more) = 3 * (n + m)
      /\ \A i \in 1..3 * n : more[i] = air[i]
      /\ \A k \in 1..n : Level(more, k) = Level(air, k)
      /\ \A j \in 1..m : Level(more, n + j) = levels[j]
  <2>1. \A b \in 0..3 * m :
          LET x == air \o Glitched(Spread(levels, 3), b)
          IN /\ x \in Seq(Bit) /\ Len(x) = 3 * (n + m)
             /\ \A i \in 1..3 * n : x[i] = air[i]
             /\ \A k \in 1..n : Level(x, k) = Level(air, k)
             /\ \A j \in 1..m : Level(x, n + j) = levels[j]
    <3>1. \A s \in Seq(Bit), d \in Nat : Len(s) = 3 * d =>
            \A l \in Seq(Bit), e \in 1..2 : Len(l) = e =>
              \A b \in 0..3 * e :
                LET x == s \o Glitched(Spread(l, 3), b)
                IN /\ x \in Seq(Bit) /\ Len(x) = 3 * (d + e)
                   /\ \A i \in 1..3 * d : x[i] = s[i]
                   /\ \A k \in 1..d : Level(x, k) = Level(s, k)
                   /\ \A j \in 1..e : Level(x, d + j) = l[j]
      BY LevelsKeyed, Zenon
    <3>2. /\ air \in Seq(Bit) /\ n \in Nat /\ Len(air) = 3 * n
          /\ levels \in Seq(Bit) /\ m \in 1..2 /\ Len(levels) = m
      BY <1>1
    <3>3. \A l \in Seq(Bit), e \in 1..2 : Len(l) = e =>
            \A b \in 0..3 * e :
              LET x == air \o Glitched(Spread(l, 3), b)
              IN /\ x \in Seq(Bit) /\ Len(x) = 3 * (n + e)
                 /\ \A i \in 1..3 * n : x[i] = air[i]
                 /\ \A k \in 1..n : Level(x, k) = Level(air, k)
                 /\ \A j \in 1..e : Level(x, n + j) = l[j]
      BY <3>1, <3>2, Zenon
    <3> QED BY <3>2, <3>3, Zenon
  <2> QED BY <1>3, <2>1
<1>5. air' = more
  BY <1>3
<1> HIDE DEF more
<1> QED BY <1>4, <1>5

LEMMA LevelsStep == LevelsInv /\ [Next]_vars => LevelsInv'
<1> SUFFICES ASSUME LevelsInv, [Next]_vars PROVE LevelsInv'
  OBVIOUS
<1>1. CASE UNCHANGED vars
  BY <1>1 DEF LevelsInv, vars
<1>2. ASSUME NEW bit \in Bit, NEW bad \in 0..2 * SPS, Key(bit, bad)
      PROVE  LevelsInv'
  <2> USE <1>2
  <2> DEFINE len == Len(sent)
  <2>1. /\ code \in LevelCodes /\ code' = code
        /\ sent \in Seq(Bit) /\ sent' = Append(sent, bit)
    BY DEF Key, LevelCodes, LevelsInv
  <2>2. /\ sent' \in Seq(Bit) /\ Len(sent') = len + 1 /\ len \in Nat
        /\ sent'[len + 1] = bit
        /\ \A k \in 1..len : sent'[k] = sent[k]
    BY <2>1
  <2>3. CASE code = "nrz"
    <3>1. /\ Len(air) = 3 * len
          /\ \A k \in 1..len : Level(air, k) = sent[k]
      BY <2>3 DEF LevelsInv, LevelCodes
    <3>2. LevelsOf(bit) = <<bit>>
      BY <2>3 DEF LevelsOf
    <3>3. /\ air' \in Seq(Bit) /\ Len(air') = 3 * (len + 1)
          /\ \A k \in 1..len : Level(air', k) = Level(air, k)
          /\ Level(air', len + 1) = bit
      <4>1. /\ <<bit>> \in Seq(Bit) /\ Len(<<bit>>) = 1 /\ <<bit>>[1] = bit /\ 1 \in 1..2
            /\ 1 \in 1..1
        OBVIOUS
      <4> QED BY <2>2, <3>1, <3>2, <4>1, KeyAddsLevels
    <3>4. \A k \in 1..len + 1 : Level(air', k) = sent'[k]
      BY <2>2, <3>1, <3>3
    <3> QED BY <2>1, <2>2, <2>3, <3>3, <3>4 DEF LevelsInv
  <2>4. CASE code = "nrzi"
    <3> DEFINE level == (air[1] + Parity(sent) + bit) % 2
    <3>1. /\ Len(air) = 3 * (len + 1) /\ air \in Seq(Bit)
          /\ Level(air, 1) = air[1]
          /\ Level(air, len + 1) = (air[1] + Parity(sent)) % 2
          /\ \A k \in 1..len : Level(air, k + 1) = (Level(air, k) + sent[k]) % 2
      BY <2>4 DEF LevelsInv, LevelCodes
    <3>2. LevelsOf(bit) = <<level>>
      BY <2>4 DEF LevelsOf
    <3>3. /\ air[1] \in {0, 1} /\ bit \in {0, 1} /\ Parity(sent) \in {0, 1}
          /\ Parity(sent') = (Parity(sent) + bit) % 2
      <4>1. 1 \in 1..Len(air)
        BY <2>2, <3>1
      <4>2. air[1] \in Bit
        BY <3>1, <4>1, ElementOfSeq
      <4> QED BY <2>1, <4>2, ParityOfMore DEF Bit
    <3>4. /\ level \in Bit
          /\ level = (((air[1] + Parity(sent)) % 2) + bit) % 2
          /\ level = (air[1] + Parity(sent')) % 2
      <4> DEFINE a == air[1]
                 p == Parity(sent)
      <4>1. a \in {0, 1} /\ p \in {0, 1} /\ bit \in {0, 1} /\ Parity(sent') = (p + bit) % 2
            /\ level = (a + p + bit) % 2
        BY <3>3
      <4> HIDE DEF a, p, level
      <4>2. /\ level \in {0, 1} /\ level = (((a + p) % 2) + bit) % 2
            /\ level = (a + ((p + bit) % 2)) % 2
        BY <4>1
      <4> QED BY <4>1, <4>2 DEF a, p, Bit
    <3> HIDE DEF level
    <3>5. /\ air' \in Seq(Bit) /\ Len(air') = 3 * (len + 1 + 1)
          /\ \A i \in 1..3 * (len + 1) : air'[i] = air[i]
          /\ \A k \in 1..len + 1 : Level(air', k) = Level(air, k)
          /\ Level(air', len + 1 + 1) = level
      <4>1. /\ <<level>> \in Seq(Bit) /\ Len(<<level>>) = 1 /\ <<level>>[1] = level
            /\ 1 \in 1..2 /\ 1 \in 1..1 /\ len + 1 \in Nat
        BY <2>2, <3>4
      <4> QED BY <3>1, <3>2, <4>1, KeyAddsLevels
    <3>6. air'[1] = air[1] /\ Level(air', 1) = air'[1]
      <4>1. 1 \in 1..3 * (len + 1) /\ 1 \in 1..len + 1
        BY <2>2
      <4> QED BY <3>1, <3>5, <4>1
    <3>7. \A k \in 1..len + 1 : Level(air', k + 1) = (Level(air', k) + sent'[k]) % 2
      <4> SUFFICES ASSUME NEW k \in 1..len + 1
                   PROVE  Level(air', k + 1) = (Level(air', k) + sent'[k]) % 2
        OBVIOUS
      <4>1. CASE k = len + 1
        BY <2>2, <3>1, <3>4, <3>5, <4>1
      <4>2. CASE k \in 1..len
        <5>1. k + 1 \in 1..len + 1
          BY <2>2, <4>2
        <5> QED BY <2>2, <3>1, <3>5, <4>2, <5>1
      <4> QED BY <2>2, <4>1, <4>2
    <3>8. Level(air', len + 1 + 1) = (air'[1] + Parity(sent')) % 2
      BY <3>4, <3>5, <3>6
    <3> QED BY <2>1, <2>2, <2>4, <3>5, <3>6, <3>7, <3>8 DEF LevelsInv
  <2>5. CASE code = "manchester"
    <3>1. /\ Len(air) = 3 * (2 * len)
          /\ \A k \in 1..len : Level(air, 2 * k - 1) = 1 - sent[k] /\ Level(air, 2 * k) = sent[k]
      BY <2>5 DEF LevelsInv, LevelCodes
    <3>2. LevelsOf(bit) = <<1 - bit, bit>>
      BY <2>5 DEF LevelsOf
    <3>3. /\ air' \in Seq(Bit) /\ Len(air') = 3 * (2 * len + 2)
          /\ \A k \in 1..2 * len : Level(air', k) = Level(air, k)
          /\ Level(air', 2 * len + 1) = 1 - bit
          /\ Level(air', 2 * len + 2) = bit
      <4>1. /\ <<1 - bit, bit>> \in Seq(Bit) /\ Len(<<1 - bit, bit>>) = 2
            /\ <<1 - bit, bit>>[1] = 1 - bit /\ <<1 - bit, bit>>[2] = bit
            /\ 1 \in 1..2 /\ 2 \in 1..2 /\ 2 * len \in Nat
        BY <2>2 DEF Bit
      <4> QED BY <3>1, <3>2, <4>1, KeyAddsLevels
    <3>4. /\ 2 * (len + 1) = 2 * len + 2 /\ 2 * (len + 1) - 1 = 2 * len + 1
          /\ \A k \in 1..len : 2 * k - 1 \in 1..2 * len /\ 2 * k \in 1..2 * len
      BY <2>2
    <3>5. ASSUME NEW k \in 1..len + 1
          PROVE  Level(air', 2 * k - 1) = 1 - sent'[k] /\ Level(air', 2 * k) = sent'[k]
      <4>1. CASE k = len + 1
        BY <2>2, <3>3, <3>4, <4>1
      <4>2. CASE k \in 1..len
        BY <2>2, <3>1, <3>3, <3>4, <4>2
      <4> QED BY <2>2, <4>1, <4>2
    <3> QED BY <2>1, <2>2, <2>5, <3>3, <3>4, <3>5 DEF LevelsInv
  <2>6. CASE code = "late_manchester" /\ sent = << >>
    <3>1. Len(air) = 3 * 0 /\ len = 0
      <4>1. code \in LevelCodes => (code = "late_manchester" /\ sent = << >> => Len(air) = 0)
        BY DEF LevelsInv
      <4>2. Len(<< >>) = 0 /\ 3 * 0 = 0
        OBVIOUS
      <4> QED BY <2>1, <2>6, <4>1, <4>2
    <3>2. LevelsOf(bit) = <<bit>>
      BY <2>6 DEF LevelsOf
    <3>3. air' \in Seq(Bit) /\ Len(air') = 3 * (0 + 1) /\ Level(air', 0 + 1) = bit
      <4>1. /\ <<bit>> \in Seq(Bit) /\ Len(<<bit>>) = 1 /\ <<bit>>[1] = bit /\ 1 \in 1..2
            /\ 1 \in 1..1 /\ 0 \in Nat
        OBVIOUS
      <4> QED BY <3>1, <3>2, <4>1, KeyAddsLevels
    <3>4. sent' # << >> /\ Len(sent') = 1 /\ sent'[1] = bit
      BY <2>2, <3>1
    <3>5. 3 * (2 * 1 - 1) = 3 * (0 + 1) /\ 0 + 1 = 1 /\ 1..1 - 1 = {}
      OBVIOUS
    <3> HIDE DEF len
    <3> QED BY <2>1, <2>2, <2>6, <3>3, <3>4, <3>5 DEF LevelsInv
  <2>7. CASE code = "late_manchester" /\ sent # << >>
    <3>1. /\ Len(air) = 3 * (2 * len - 1) /\ len > 0
          /\ Level(air, 1) = sent[1]
          /\ \A k \in 1..len - 1 :
               Level(air, 2 * k) = 1 - sent[k + 1] /\ Level(air, 2 * k + 1) = sent[k + 1]
      <4>1. len > 0
        <5>1. \A q \in Seq(Bit) : q # << >> => Len(q) \in Nat \ {0}
          BY EmptySeq
        <5>2. Len(sent) \in Nat \ {0}
          BY <2>1, <2>7, <5>1, Zenon
        <5> QED BY <5>2
      <4>2. code \in LevelCodes =>
              (code = "late_manchester" /\ sent # << >> =>
                 /\ Len(air) = 3 * (2 * len - 1)
                 /\ Level(air, 1) = sent[1]
                 /\ \A k \in 1..len - 1 :
                      /\ Level(air, 2 * k) = 1 - sent[k + 1]
                      /\ Level(air, 2 * k + 1) = sent[k + 1])
        BY DEF LevelsInv
      <4> QED BY <2>1, <2>7, <4>1, <4>2
    <3>2. LevelsOf(bit) = <<1 - bit, bit>>
      BY <2>7 DEF LevelsOf
    <3>3. /\ air' \in Seq(Bit) /\ Len(air') = 3 * (2 * len - 1 + 2)
          /\ \A k \in 1..2 * len - 1 : Level(air', k) = Level(air, k)
          /\ Level(air', 2 * len - 1 + 1) = 1 - bit
          /\ Level(air', 2 * len - 1 + 2) = bit
      <4>1. /\ <<1 - bit, bit>> \in Seq(Bit) /\ Len(<<1 - bit, bit>>) = 2
            /\ <<1 - bit, bit>>[1] = 1 - bit /\ <<1 - bit, bit>>[2] = bit
            /\ 1 \in 1..2 /\ 2 \in 1..2 /\ 2 * len - 1 \in Nat
        BY <2>2, <3>1 DEF Bit
      <4> QED BY <3>1, <3>2, <4>1, KeyAddsLevels
    <3>4. /\ 2 * len - 1 + 1 = 2 * len /\ 2 * len - 1 + 2 = 2 * len + 1
          /\ 2 * (len + 1) - 1 = 2 * len - 1 + 2 /\ (len + 1) - 1 = len /\ 1 \in 1..len
          /\ 1 \in 1..2 * len - 1
          /\ \A k \in 1..len - 1 : /\ 2 * k \in 1..2 * len - 1
                                   /\ 2 * k + 1 \in 1..2 * len - 1
                                   /\ k + 1 \in 1..len
      BY <2>2, <3>1
    <3>5. ASSUME NEW k \in 1..len
          PROVE  Level(air', 2 * k) = 1 - sent'[k + 1] /\ Level(air', 2 * k + 1) = sent'[k + 1]
      <4>1. CASE k = len
        BY <2>2, <3>3, <3>4, <4>1
      <4>2. CASE k \in 1..len - 1
        BY <2>2, <3>1, <3>3, <3>4, <4>2
      <4> QED BY <2>2, <4>1, <4>2
    <3>6. sent' # << >> /\ Level(air', 1) = sent'[1]
      BY <2>2, <3>1, <3>3, <3>4
    <3> QED BY <2>1, <2>2, <2>7, <3>3, <3>4, <3>5, <3>6 DEF LevelsInv
  <2> QED BY <2>1, <2>3, <2>4, <2>5, <2>6, <2>7 DEF LevelCodes
<1>3. ASSUME NEW bit, NEW jitter, KeyPwm(bit, jitter) PROVE LevelsInv'
  BY <1>3 DEF KeyPwm, LevelsInv, LevelCodes
<1>4. ASSUME NEW bit, NEW gap, NEW width, KeyPpm(bit, gap, width) PROVE LevelsInv'
  BY <1>4 DEF KeyPpm, LevelsInv, LevelCodes
<1>5. ASSUME NEW c, Type(c) PROVE LevelsInv'
  BY <1>5 DEF Type, LevelsInv, LevelCodes
<1>6. ASSUME NEW b, Noise(b) PROVE LevelsInv'
  BY <1>6 DEF Noise, LevelsInv, LevelCodes
<1>7. ASSUME Rest PROVE LevelsInv'
  BY <1>7 DEF Rest, LevelsInv, LevelCodes
<1> QED BY <1>1, <1>2, <1>3, <1>4, <1>5, <1>6, <1>7 DEF Next
-----------------------------------------------------------------------------
(* Data of both kinds has a bit of each.                                   *)
LEMMA BothBits ==
  ASSUME NEW s \in Seq(Bit), Cardinality(Range(s)) = 2
  PROVE  \E i, j \in 1..Len(s) : s[i] = 0 /\ s[j] = 1
<1>1. \A i \in 1..Len(s) : s[i] \in {0, 1}
  BY ElementOfSeq DEF Bit
<1>2. ASSUME NEW x, Range(s) \subseteq {x} PROVE FALSE
  <2>1. IsFiniteSet({x}) /\ Cardinality({x}) = 1
    BY FS_Singleton
  <2>2. Cardinality(Range(s)) <= 1
    BY <1>2, <2>1, FS_Subset
  <2> QED BY <2>2
<1>3. \E i \in 1..Len(s) : s[i] = 0
  <2> SUFFICES ASSUME \A i \in 1..Len(s) : s[i] # 0 PROVE FALSE
    OBVIOUS
  <2>1. Range(s) \subseteq {1}
    BY <1>1 DEF Range
  <2> QED BY <1>2, <2>1
<1>4. \E j \in 1..Len(s) : s[j] = 1
  <2> SUFFICES ASSUME \A i \in 1..Len(s) : s[i] # 1 PROVE FALSE
    OBVIOUS
  <2>1. Range(s) \subseteq {0}
    BY <1>1 DEF Range
  <2> QED BY <1>2, <2>1
<1> QED BY <1>3, <1>4


LEMMA NrzIsRead == LevelsInv => NrzReads
<1> SUFFICES ASSUME LevelsInv, code = "nrz", Sliceable
             PROVE  /\ DecodeNrz(air, SPS, FALSE) = sent
                    /\ DecodeNrz(air, SPS, TRUE) = Not(sent)
  BY DEF NrzReads
<1> DEFINE n == Len(sent)
<1>1. /\ air \in Seq(Bit) /\ sent \in Seq(Bit) /\ n \in Nat /\ Len(air) = 3 * n
      /\ \A k \in 1..n : Level(air, k) = sent[k]
  BY DEF LevelsInv, LevelCodes
<1>2. PICK p \in 1..n, q \in 1..n : Level(air, p) # Level(air, q)
  <2>1. PICK i \in 1..n, j \in 1..n : sent[i] = 0 /\ sent[j] = 1
    BY <1>1, BothBits DEF Sliceable
  <2> QED BY <1>1, <2>1
<1>3. SliceOok(air, 3) = [k \in 1..n |-> Level(air, k)]
  BY <1>1, <1>2, SliceReads
<1>4. [k \in 1..n |-> Level(air, k)] = sent
  BY <1>1
<1> QED BY <1>3, <1>4 DEF DecodeNrz, SPS

LEMMA NrziIsRead == LevelsInv => NrziReads
<1> SUFFICES ASSUME LevelsInv, code = "nrzi", Sliceable
             PROVE  DecodeNrzi(air, SPS) = sent
  BY DEF NrziReads
<1> DEFINE n == Len(sent)
<1>1. /\ air \in Seq(Bit) /\ sent \in Seq(Bit) /\ n \in Nat /\ Len(air) = 3 * (n + 1)
      /\ \A k \in 1..n : Level(air, k + 1) = (Level(air, k) + sent[k]) % 2
  BY DEF LevelsInv, LevelCodes
<1>2. ASSUME NEW k \in 1..n
      PROVE  /\ Level(air, k + 1) # Level(air, k) <=> sent[k] = 1
             /\ sent[k] \in {0, 1}
  <2>1. sent[k] \in {0, 1} /\ Level(air, k) \in {0, 1}
    BY <1>1, LevelIsBit, ElementOfSeq DEF Bit
  <2>2. Level(air, k + 1) = (Level(air, k) + sent[k]) % 2
    BY <1>1
  <2>3. CASE sent[k] = 0
    BY <2>1, <2>2, <2>3
  <2>4. CASE sent[k] = 1
    BY <2>1, <2>2, <2>4
  <2> QED BY <2>1, <2>3, <2>4
<1>3. PICK p \in 1..n + 1, q \in 1..n + 1 : Level(air, p) # Level(air, q)
  <2>1. PICK j \in 1..n : sent[j] = 1
    BY <1>1, BothBits DEF Sliceable
  <2>2. j \in 1..n + 1 /\ j + 1 \in 1..n + 1
    BY <1>1
  <2> QED BY <1>2, <2>1, <2>2
<1> DEFINE level == [k \in 1..n + 1 |-> Level(air, k)]
<1>4. SliceOok(air, 3) = level
  BY <1>1, <1>3, SliceReads
<1>5. /\ Len(level) - 1 = n
      /\ \A k \in 1..n : level[k] = Level(air, k) /\ level[k + 1] = Level(air, k + 1)
  BY <1>1
<1> HIDE DEF level
<1>6. [k \in 1..n |-> IF level[k + 1] # level[k] THEN 1 ELSE 0] = sent
  <2>1. \A k \in 1..n : (IF level[k + 1] # level[k] THEN 1 ELSE 0) = sent[k]
    BY <1>2, <1>5
  <2> QED BY <1>1, <2>1
<1> QED BY <1>4, <1>5, <1>6 DEF DecodeNrzi, SPS

LEMMA PairsOfLevels ==
  ASSUME NEW b \in Seq(Bit), NEW n \in Nat, 2 * n <= Len(b), Len(b) <= 2 * n + 1
  PROVE  /\ DOMAIN Groups(b, 2) = 1..n
         /\ \A k \in 1..n : /\ Groups(b, 2)[k][1] = b[2 * k - 1]
                            /\ Groups(b, 2)[k][2] = b[2 * k]
<1> DEFINE pair == [k \in 1..n |-> SubSeq(b, (k - 1) * 2 + 1, k * 2)]
<1>1. Len(b) \div 2 = n
  OBVIOUS
<1>2. ASSUME NEW k \in 1..n
      PROVE  /\ SubSeq(b, (k - 1) * 2 + 1, k * 2) \in Seq(Bit)
             /\ SubSeq(b, (k - 1) * 2 + 1, k * 2)[1] = b[2 * k - 1]
             /\ SubSeq(b, (k - 1) * 2 + 1, k * 2)[2] = b[2 * k]
  <2> DEFINE p == (k - 1) * 2 + 1
             q == k * 2
  <2>1. /\ p \in 1..Len(b) /\ q \in 1..Len(b) /\ q - p + 1 = 2
        /\ p = 2 * k - 1 /\ q = 2 * k /\ p + 2 - 1 = q /\ p + 1 - 1 = p
    OBVIOUS
  <2> HIDE DEF p, q
  <2>2. /\ SubSeq(b, p, q) \in Seq(Bit)
        /\ \A i \in 1..q - p + 1 : SubSeq(b, p, q)[i] = b[p + i - 1]
    <3>1. p \in Int /\ q \in Int /\ \A i \in p..q : b[i] \in Bit
      <4>1. \A i \in p..q : i \in 1..Len(b)
        BY <2>1
      <4>2. \A i \in 1..Len(b) : b[i] \in Bit
        BY ElementOfSeq
      <4> QED BY <2>1, <4>1, <4>2
    <3> QED BY <3>1, SubSeqProperties
  <2>3. 1 \in 1..q - p + 1 /\ 2 \in 1..q - p + 1
    BY <2>1
  <2>4. SubSeq(b, p, q)[1] = b[p] /\ SubSeq(b, p, q)[2] = b[q]
    BY <2>1, <2>2, <2>3
  <2> QED BY <2>1, <2>2, <2>4 DEF p, q
<1>3. pair \in Seq(Seq(Bit))
  BY <1>2
<1>4. Groups(b, 2) = pair
  <2>1. Groups(b, 2) = Tabulated(pair)
    BY <1>1 DEF Groups
  <2> HIDE DEF pair
  <2> QED BY <1>3, <2>1, TabulatedIs
<1> QED BY <1>2, <1>4

LEMMA ManchesterIsRead == LevelsInv => ManchesterReads
<1> SUFFICES ASSUME LevelsInv, code = "manchester", CanSlice(air, SPS)
             PROVE  /\ DecodeManchester(air, SPS, "ieee") = [bits |-> sent, invalid_pairs |-> 0]
                    /\ DecodeManchester(air, SPS, "thomas")
                         = [bits |-> Not(sent), invalid_pairs |-> 0]
  BY DEF ManchesterReads
<1> DEFINE n == Len(sent)
           level == [k \in 1..2 * n |-> Level(air, k)]
           pair == Groups(level, 2)
<1>1. /\ air \in Seq(Bit) /\ sent \in Seq(Bit) /\ n \in Nat /\ Len(air) = 3 * (2 * n)
      /\ \A k \in 1..n : Level(air, 2 * k - 1) = 1 - sent[k] /\ Level(air, 2 * k) = sent[k]
  BY DEF LevelsInv, LevelCodes
<1>2. \A k \in 1..n : sent[k] \in {0, 1}
  BY <1>1, ElementOfSeq DEF Bit
<1>3. SliceOok(air, 3) = level
  <2>1. n > 0
    BY <1>1 DEF CanSlice, SPS
  <2>2. /\ 2 * n \in Nat /\ 1 \in 1..2 * n /\ 2 \in 1..2 * n
        /\ 1 \in 1..n /\ 2 * 1 - 1 = 1 /\ 2 * 1 = 2
    BY <1>1, <2>1
  <2>3. Level(air, 1) # Level(air, 2)
    BY <1>1, <1>2, <2>2
  <2> QED BY <1>1, <2>2, <2>3, SliceReads
<1>4. level \in Seq(Bit) /\ Len(level) = 2 * n
  BY <1>1, LevelIsBit
<1>5. ASSUME NEW k \in 1..n
      PROVE  level[2 * k - 1] = 1 - sent[k] /\ level[2 * k] = sent[k]
  <2>1. 2 * k - 1 \in 1..2 * n /\ 2 * k \in 1..2 * n
    BY <1>1
  <2> QED BY <1>1, <2>1
<1> HIDE DEF level
<1>6. /\ DOMAIN pair = 1..n
      /\ \A k \in 1..n : pair[k][1] = 1 - sent[k] /\ pair[k][2] = sent[k]
  <2>1. 2 * n <= 2 * n /\ 2 * n <= 2 * n + 1
    BY <1>1
  <2>2. /\ DOMAIN pair = 1..n
        /\ \A k \in 1..n : pair[k][1] = level[2 * k - 1] /\ pair[k][2] = level[2 * k]
    BY <1>1, <1>4, <2>1, PairsOfLevels
  <2> QED BY <1>5, <2>2
<1> HIDE DEF pair
<1>7. \A k \in 1..n : pair[k][1] # pair[k][2]
  BY <1>2, <1>6
<1>8. [k \in DOMAIN pair |-> IF pair[k][1] # pair[k][2] THEN pair[k][2] ELSE 0] = sent
  BY <1>1, <1>6, <1>7
<1>9. [k \in DOMAIN pair |-> IF pair[k][1] # pair[k][2] THEN pair[k][1] ELSE 0] = Not(sent)
  <2> DEFINE other == [k \in 1..n |-> 1 - sent[k]]
  <2>1. [k \in DOMAIN pair |-> IF pair[k][1] # pair[k][2] THEN pair[k][1] ELSE 0] = other
    BY <1>6, <1>7
  <2>2. other \in Seq(Bit)
    BY <1>1, <1>2 DEF Bit
  <2>3. Not(sent) = Tabulated(other)
    BY <1>1 DEF Not
  <2> HIDE DEF other
  <2> QED BY <2>1, <2>2, <2>3, TabulatedIs
<1>10. Cardinality({k \in DOMAIN pair : ~(pair[k][1] # pair[k][2])}) = 0
  <2>1. {k \in DOMAIN pair : ~(pair[k][1] # pair[k][2])} = {}
    BY <1>6, <1>7
  <2> QED BY <2>1, FS_EmptySet
<1>11. pair = Groups(SliceOok(air, SPS), 2)
  BY <1>3 DEF pair, SPS
<1>12. DecodeManchester(air, SPS, "ieee") = [bits |-> sent, invalid_pairs |-> 0]
  BY <1>8, <1>10, <1>11 DEF DecodeManchester
<1>13. DecodeManchester(air, SPS, "thomas") = [bits |-> Not(sent), invalid_pairs |-> 0]
  <2>1. "thomas" # "ieee"
    OBVIOUS
  <2> QED BY <1>9, <1>10, <1>11, <2>1 DEF DecodeManchester
<1> QED BY <1>12, <1>13

LEMMA LateManchesterIsTold == LevelsInv => LateManchesterTells
<1> SUFFICES ASSUME LevelsInv, code = "late_manchester", CanSlice(air, SPS)
             PROVE  DecodeManchester(air, SPS, "ieee").invalid_pairs
                      = Cardinality({k \in 1..Len(sent) - 1 : sent[k] # sent[k + 1]})
  BY DEF LateManchesterTells
<1> DEFINE n == Len(sent)
           level == [k \in 1..2 * n - 1 |-> Level(air, k)]
           pair == Groups(level, 2)
<1>1. sent \in Seq(Bit) /\ n \in Nat /\ air \in Seq(Bit)
  BY DEF LevelsInv, LevelCodes
<1>2. sent # << >>
  <2> SUFFICES ASSUME sent = << >> PROVE FALSE
    OBVIOUS
  <2>1. Len(air) = 0
    BY DEF LevelsInv, LevelCodes
  <2> QED BY <2>1 DEF CanSlice, SPS
<1>3. /\ Len(air) = 3 * (2 * n - 1) /\ Level(air, 1) = sent[1]
      /\ \A k \in 1..n - 1 :
           Level(air, 2 * k) = 1 - sent[k + 1] /\ Level(air, 2 * k + 1) = sent[k + 1]
  BY <1>2 DEF LevelsInv, LevelCodes
<1>4. n > 1
  BY <1>1, <1>3 DEF CanSlice, SPS
<1>5. \A k \in 1..n : sent[k] \in {0, 1}
  BY <1>1, ElementOfSeq DEF Bit
<1>6. SliceOok(air, 3) = level
  <2>1. /\ 2 * n - 1 \in Nat /\ 2 \in 1..2 * n - 1 /\ 3 \in 1..2 * n - 1
        /\ 1 \in 1..n - 1 /\ 2 * 1 = 2 /\ 2 * 1 + 1 = 3 /\ 1 + 1 \in 1..n
    BY <1>1, <1>4
  <2>2. Level(air, 2) # Level(air, 3)
    <3>1. \A i \in 1..n - 1 : i = 1 => Level(air, 2) = 1 - sent[2] /\ Level(air, 3) = sent[2]
      BY <1>3
    <3>2. sent[2] \in {0, 1}
      BY <1>5, <2>1
    <3> QED BY <2>1, <3>1, <3>2
  <2> QED BY <1>1, <1>3, <2>1, <2>2, SliceReads
<1>7. level \in Seq(Bit) /\ Len(level) = 2 * n - 1
  BY <1>1, <1>4, LevelIsBit
<1>8. ASSUME NEW k \in 1..n - 1
      PROVE  level[2 * k - 1] = sent[k] /\ level[2 * k] = 1 - sent[k + 1]
  <2>1. 2 * k - 1 \in 1..2 * n - 1 /\ 2 * k \in 1..2 * n - 1
    BY <1>1
  <2>2. CASE k = 1
    BY <1>3, <2>1, <2>2
  <2>3. CASE k # 1
    <3>1. k - 1 \in 1..n - 1 /\ 2 * (k - 1) + 1 = 2 * k - 1 /\ (k - 1) + 1 = k
      BY <1>1, <2>3
    <3> QED BY <1>3, <2>1, <3>1
  <2> QED BY <2>2, <2>3
<1> HIDE DEF level
<1>9. /\ DOMAIN pair = 1..n - 1
      /\ \A k \in 1..n - 1 : pair[k][1] = sent[k] /\ pair[k][2] = 1 - sent[k + 1]
  <2>1. n - 1 \in Nat /\ 2 * (n - 1) <= 2 * n - 1 /\ 2 * n - 1 <= 2 * (n - 1) + 1
    BY <1>1, <1>4
  <2>2. /\ DOMAIN pair = 1..n - 1
        /\ \A k \in 1..n - 1 : pair[k][1] = level[2 * k - 1] /\ pair[k][2] = level[2 * k]
    BY <1>7, <2>1, PairsOfLevels
  <2> QED BY <1>8, <2>2
<1> HIDE DEF pair
<1>10. {k \in DOMAIN pair : ~(pair[k][1] # pair[k][2])}
         = {k \in 1..n - 1 : sent[k] # sent[k + 1]}
  <2>1. ASSUME NEW k \in 1..n - 1
        PROVE  pair[k][1] = pair[k][2] <=> sent[k] # sent[k + 1]
    <3>1. sent[k] \in {0, 1} /\ sent[k + 1] \in {0, 1}
      BY <1>1, <1>5
    <3> QED BY <1>9, <3>1
  <2> QED BY <1>9, <2>1
<1>11. pair = Groups(SliceOok(air, SPS), 2)
  BY <1>6 DEF pair, SPS
<1> QED BY <1>10, <1>11 DEF DecodeManchester

(* Whatever is keyed in NRZ, NRZI or Manchester, for recordings of any     *)
(* length with any number of bad samples, one in each symbol, the decoder  *)
(* reads what was keyed; half a symbol out of step, it counts the changes  *)
(* of the data as invalid pairs (hw/analysis.py:577-690).                  *)
THEOREM LevelsAreRead == Spec => []LevelCodesRead
<1>1. LevelsInv => LevelCodesRead
  BY NrzIsRead, NrziIsRead, ManchesterIsRead, LateManchesterIsTold DEF LevelCodesRead
<1> QED BY <1>1, LevelsBegin, LevelsStep, PTL DEF Spec
-----------------------------------------------------------------------------
Increasing(e, n) == \A i, j \in 1..n : i < j => e[i] < e[j]

(* As many numbers as there are places.                                    *)
LEMMA CountIncreasing ==
  ASSUME NEW n \in Nat, NEW e \in [1..n -> Nat], Increasing(e, n), NEW k \in 0..n
  PROVE  LET T == {e[i] : i \in 1..k} IN IsFiniteSet(T) /\ Cardinality(T) = k
<1> DEFINE T == {e[i] : i \in 1..k}
           f == [i \in 1..k |-> e[i]]
<1>1. f \in [1..k -> T]
  OBVIOUS
<1>2. \A a, b \in 1..k : f[a] = f[b] => a = b
  <2>1. \A a, b \in 1..k : e[a] = e[b] => a = b
    <3> SUFFICES ASSUME NEW a \in 1..k, NEW b \in 1..k, a # b PROVE e[a] # e[b]
      OBVIOUS
    <3>1. a \in 1..n /\ b \in 1..n /\ (a < b \/ b < a)
      OBVIOUS
    <3>2. e[a] \in Nat /\ e[b] \in Nat
      BY <3>1
    <3> QED BY <3>1, <3>2 DEF Increasing
  <2> QED BY <2>1
<1>3. \A t \in T : \E s \in 1..k : f[s] = t
  OBVIOUS
<1> HIDE DEF f, T
<1>4. f \in Bijection(1..k, T)
  <2>1. f \in Injection(1..k, T)
    BY <1>1, <1>2 DEF Injection, IsInjective
  <2>2. f \in Surjection(1..k, T)
    BY <1>1, <1>3 DEF Surjection
  <2> QED BY <2>1, <2>2 DEF Bijection
<1>5. ExistsBijection(1..k, T) /\ k \in Nat
  BY <1>4 DEF ExistsBijection
<1>6. IsFiniteSet(1..k)
  <2>1. \A b \in Nat : IsFiniteSet(1..b)
    BY FS_Interval
  <2> QED BY <2>1
<1>7. IsFiniteSet(T)
  BY <1>5, <1>6, FS_Bijection
<1>8. Cardinality(T) = k
  BY <1>5, FS_CountingElements
<1> QED BY <1>7, <1>8 DEF T

(* The numbers of an increasing sequence, put in order, are the sequence.  *)
LEMMA InOrderIs ==
  ASSUME NEW n \in Nat, NEW e \in [1..n -> Nat], Increasing(e, n)
  PROVE  InOrder({e[k] : k \in 1..n}) = e
<1> DEFINE S == {e[k] : k \in 1..n}
           ranked == [k \in 1..Cardinality(S) |->
                        CHOOSE i \in S : Cardinality({j \in S : j <= i}) = k]
<1>1. Cardinality(S) = n
  <2>1. n \in 0..n
    OBVIOUS
  <2> QED BY <2>1, CountIncreasing
<1>2. ASSUME NEW k \in 1..n PROVE Cardinality({j \in S : j <= e[k]}) = k
  <2>1. \A l \in 1..n : e[l] <= e[k] <=> l <= k
    <3> SUFFICES ASSUME NEW l \in 1..n PROVE e[l] <= e[k] <=> l <= k
      OBVIOUS
    <3>1. e[l] \in Nat /\ e[k] \in Nat
      OBVIOUS
    <3>2. CASE l < k
      BY <3>1, <3>2 DEF Increasing
    <3>3. CASE k < l
      BY <3>1, <3>3 DEF Increasing
    <3>4. CASE k = l
      BY <3>1, <3>4
    <3> QED BY <3>2, <3>3, <3>4
  <2>2. {j \in S : j <= e[k]} = {e[i] : i \in 1..k}
    <3>1. ASSUME NEW j \in S, j <= e[k] PROVE j \in {e[i] : i \in 1..k}
      <4>1. PICK l \in 1..n : j = e[l]
        OBVIOUS
      <4>2. l \in 1..k
        BY <2>1, <3>1, <4>1
      <4> QED BY <4>1, <4>2
    <3>2. ASSUME NEW l \in 1..k PROVE e[l] \in S /\ e[l] <= e[k]
      BY <2>1, l \in 1..n
    <3> QED BY <3>1, <3>2
  <2>3. Cardinality({e[i] : i \in 1..k}) = k
    <3>1. k \in 0..n
      OBVIOUS
    <3> QED BY <3>1, CountIncreasing
  <2> QED BY <2>2, <2>3
<1>3. ASSUME NEW k \in 1..n
      PROVE  (CHOOSE i \in S : Cardinality({j \in S : j <= i}) = k) = e[k]
  <2>1. e[k] \in S /\ Cardinality({j \in S : j <= e[k]}) = k
    BY <1>2
  <2>2. ASSUME NEW i \in S, Cardinality({j \in S : j <= i}) = k PROVE i = e[k]
    <3>1. PICK l \in 1..n : i = e[l]
      OBVIOUS
    <3> QED BY <1>2, <2>2, <3>1
  <2> HIDE DEF S
  <2> QED BY <2>1, <2>2
<1> HIDE DEF S
<1>4. ranked = e
  BY <1>1, <1>3
<1>5. e \in Seq(Nat)
  OBVIOUS
<1>6. InOrder(S) = Tabulated(ranked)
  BY DEF InOrder
<1> HIDE DEF ranked
<1> QED BY <1>4, <1>5, <1>6, TabulatedIs DEF S
-----------------------------------------------------------------------------
(* Where the runs of ones of a recording begin and end.                    *)
Firsts(s) == {i \in 1..Len(s) : s[i] = 1 /\ (i = 1 \/ s[i - 1] # 1)}
Lasts(s) == {i \in 1..Len(s) : s[i] = 1 /\ (i = Len(s) \/ s[i + 1] # 1)}
EndsHigh(s) == s # << >> /\ s[Len(s)] = 1

OnePulse(b, p, q) ==
  /\ b \in Seq(Bit) /\ p \in 1..Len(b) /\ q \in 1..Len(b) /\ p <= q
  /\ \A i \in 1..Len(b) : b[i] = 1 <=> i \in p..q

(* One more pulse is a run of its own, unless it begins where the          *)
(* recording ends high.                                                    *)
LEMMA PulseAdds ==
  ASSUME NEW s \in Seq(Bit), NEW b, NEW p, NEW q, OnePulse(b, p, q)
  PROVE  LET n == Len(s)
             touches == p = 1 /\ EndsHigh(s)
         IN /\ s \o b \in Seq(Bit) /\ Len(s \o b) = n + Len(b)
            /\ Firsts(s \o b) = IF touches THEN Firsts(s) ELSE Firsts(s) \cup {n + p}
            /\ ~touches => Lasts(s \o b) = Lasts(s) \cup {n + q}
            /\ EndsHigh(s \o b) <=> q = Len(b)
            /\ \A i \in 1..Len(b) : (s \o b)[n + i] = b[i]
            /\ \A i \in 1..n : (s \o b)[i] = s[i]
<1> DEFINE n == Len(s)
           m == Len(b)
           t == s \o b
           touches == p = 1 /\ EndsHigh(s)
<1>1. /\ b \in Seq(Bit) /\ p \in 1..m /\ q \in 1..m /\ p <= q
      /\ \A i \in 1..m : b[i] = 1 <=> i \in p..q
      /\ n \in Nat /\ m \in Nat
  BY DEF OnePulse
<1>2. /\ t \in Seq(Bit) /\ Len(t) = n + m
      /\ \A i \in 1..n : t[i] = s[i]
      /\ \A i \in 1..m : t[n + i] = b[i]
  <2>1. t \in Seq(Bit) /\ Len(t) = n + m
    BY <1>1, ConcatProperties
  <2>2. \A i \in 1..n + m : t[i] = IF i <= n THEN s[i] ELSE b[i - n]
    BY <1>1, ConcatProperties
  <2>3. \A i \in 1..n : t[i] = s[i]
    BY <1>1, <2>2
  <2>4. ASSUME NEW i \in 1..m PROVE t[n + i] = b[i]
    <3>1. n + i \in 1..n + m /\ ~(n + i <= n) /\ (n + i) - n = i
      BY <1>1
    <3> QED BY <2>2, <3>1
  <2> QED BY <2>1, <2>3, <2>4
<1> HIDE DEF t
<1>3. s # << >> <=> n > 0
  BY DEF n
<1>4. EndsHigh(s) <=> n > 0 /\ s[n] = 1
  BY <1>3 DEF EndsHigh
<1> HIDE DEF n, m
<1>5. \A i \in 1..n + m : i > n => i - n \in 1..m /\ t[i] = b[i - n]
  <2> SUFFICES ASSUME NEW i \in 1..n + m, i > n
               PROVE  i - n \in 1..m /\ t[i] = b[i - n]
    OBVIOUS
  <2>1. i - n \in 1..m /\ n + (i - n) = i
    BY <1>1
  <2> QED BY <1>2, <2>1
<1>6. Firsts(t) = {i \in 1..n + m : t[i] = 1 /\ (i = 1 \/ t[i - 1] # 1)}
  BY <1>2 DEF Firsts
<1>7. Firsts(s) = {i \in 1..n : s[i] = 1 /\ (i = 1 \/ s[i - 1] # 1)}
  BY DEF Firsts, n
<1>8. Lasts(t) = {i \in 1..n + m : t[i] = 1 /\ (i = n + m \/ t[i + 1] # 1)}
  BY <1>2 DEF Lasts
<1>9. Lasts(s) = {i \in 1..n : s[i] = 1 /\ (i = n \/ s[i + 1] # 1)}
  BY DEF Lasts, n
<1>10. ASSUME NEW i \in 1..n + m
       PROVE  i \in Firsts(t) <=> \/ i \in Firsts(s)
                                  \/ ~touches /\ i = n + p
  <2>1. CASE i <= n
    <3>1. i \in 1..n /\ (i # 1 => i - 1 \in 1..n) /\ i # n + p
      BY <1>1, <2>1
    <3> QED BY <1>2, <1>6, <1>7, <3>1
  <2>2. CASE i > n
    <3>1. /\ i - n \in 1..m /\ t[i] = b[i - n] /\ i \notin Firsts(s)
          /\ (i = n + p <=> i - n = p)
      BY <1>1, <1>5, <1>7, <2>2
    <3>2. CASE i = n + 1
      <4>1. i - n = 1 /\ i - 1 = n
        BY <1>1, <3>2
      <4>2. t[i] = 1 <=> p = 1
        BY <1>1, <3>1, <4>1
      <4>3. n > 0 => t[n] = s[n]
        BY <1>1, <1>2
      <4>4. i = 1 <=> ~(n > 0)
        BY <1>1, <3>2
      <4>5. i = n + p <=> p = 1
        BY <1>1, <3>2
      <4> QED BY <1>4, <1>6, <3>1, <4>1, <4>2, <4>3, <4>4, <4>5
    <3>3. CASE i # n + 1
      <4>1. i - 1 > n /\ i - 1 \in 1..n + m /\ (i - 1) - n = (i - n) - 1 /\ i # 1
        BY <1>1, <2>2, <3>3
      <4>2. t[i - 1] = b[(i - n) - 1] /\ (i - n) - 1 \in 1..m
        BY <1>5, <4>1
      <4>3. t[i] = 1 /\ t[i - 1] # 1 <=> i - n = p
        <5>1. t[i] = 1 <=> i - n \in p..q
          BY <1>1, <3>1
        <5>2. t[i - 1] = 1 <=> (i - n) - 1 \in p..q
          BY <1>1, <4>2
        <5> HIDE DEF t
        <5>3. i - n \in p..q /\ ~((i - n) - 1 \in p..q) <=> i - n = p
          BY <1>1
        <5> QED BY <5>1, <5>2, <5>3
      <4>4. i - n = p => ~(p = 1)
        BY <1>1, <3>3
      <4> QED BY <1>6, <3>1, <4>1, <4>3, <4>4
    <3> QED BY <3>2, <3>3
  <2> QED BY <1>1, <2>1, <2>2
<1>11. ASSUME ~touches, NEW i \in 1..n + m
       PROVE  i \in Lasts(t) <=> i \in Lasts(s) \/ i = n + q
  <2>1. CASE i < n
    <3>1. i \in 1..n /\ i + 1 \in 1..n /\ i # n + q /\ i # n /\ i # n + m
      BY <1>1, <2>1
    <3> QED BY <1>2, <1>8, <1>9, <3>1
  <2>2. CASE i = n
    <3>1. /\ n > 0 /\ i \in 1..n /\ i # n + q /\ i # n + m /\ 1 \in 1..m
      BY <1>1, <2>2
    <3>2. t[i] = s[n] /\ t[i + 1] = b[1]
      BY <1>2, <2>2, <3>1
    <3>3. b[1] = 1 <=> p = 1
      BY <1>1, <3>1
    <3>4. i \in Lasts(s) <=> s[n] = 1
      BY <1>9, <2>2, <3>1
    <3>5. i \in Lasts(t) <=> s[n] = 1 /\ b[1] # 1
      BY <1>8, <3>1, <3>2
    <3> QED BY <1>4, <1>11, <3>1, <3>3, <3>4, <3>5
  <2>3. CASE i > n
    <3>1. /\ i - n \in 1..m /\ t[i] = b[i - n] /\ i \notin Lasts(s)
          /\ (i = n + q <=> i - n = q)
      BY <1>1, <1>5, <1>9, <2>3
    <3>2. CASE i = n + m
      <4>1. i - n = m
        BY <1>1, <3>2
      <4>2. m \in p..q <=> m = q
        BY <1>1
      <4> QED BY <1>1, <1>8, <3>1, <3>2, <4>1, <4>2
    <3>3. CASE i # n + m
      <4>1. i + 1 > n /\ i + 1 \in 1..n + m /\ (i + 1) - n = (i - n) + 1
        BY <1>1, <2>3, <3>3
      <4>2. t[i + 1] = b[(i - n) + 1] /\ (i - n) + 1 \in 1..m
        BY <1>5, <4>1
      <4>3. t[i] = 1 <=> i - n \in p..q
        BY <1>1, <3>1
      <4>4. t[i + 1] = 1 <=> (i - n) + 1 \in p..q
        BY <1>1, <4>2
      <4>5. i - n \in p..q /\ ~((i - n) + 1 \in p..q) <=> i - n = q
        BY <1>1, <3>1
      <4> QED BY <1>8, <3>1, <3>3, <4>3, <4>4, <4>5
    <3> QED BY <3>2, <3>3
  <2> QED BY <1>1, <2>1, <2>2, <2>3
<1>12. Firsts(t) = IF touches THEN Firsts(s) ELSE Firsts(s) \cup {n + p}
  <2>1. Firsts(t) \subseteq 1..n + m /\ Firsts(s) \subseteq 1..n + m /\ n + p \in 1..n + m
    BY <1>1, <1>6, <1>7
  <2> HIDE DEF touches
  <2> QED BY <1>10, <2>1
<1>13. ~touches => Lasts(t) = Lasts(s) \cup {n + q}
  <2>1. Lasts(t) \subseteq 1..n + m /\ Lasts(s) \subseteq 1..n + m /\ n + q \in 1..n + m
    BY <1>1, <1>8, <1>9
  <2> HIDE DEF touches
  <2> QED BY <1>11, <2>1
<1>14. EndsHigh(t) <=> q = m
  <2>1. t # << >>
    BY <1>1, <1>2
  <2>2. t[n + m] = b[m] /\ m \in 1..m
    BY <1>1, <1>2
  <2>3. m \in p..q <=> m = q
    BY <1>1
  <2> QED BY <1>1, <1>2, <2>1, <2>2, <2>3 DEF EndsHigh
<1> QED BY <1>2, <1>12, <1>13, <1>14 DEF t, n, m
-----------------------------------------------------------------------------
(* The runs of a recording are n pulses, from first[k] to last[k].         *)
RunsAre(s, n, first, last) ==
  /\ first \in [1..n -> Nat] /\ Increasing(first, n) /\ Firsts(s) = {first[k] : k \in 1..n}
  /\ last \in [1..n -> Nat] /\ Increasing(last, n) /\ Lasts(s) = {last[k] : k \in 1..n}

BothLevels(s) == \E lo, hi \in DOMAIN s : s[lo] = 0 /\ s[hi] = 1

(* A recording with both levels shows its runs to the decoders.            *)
LEMMA PulsesShown ==
  ASSUME NEW s \in Seq(Bit), BothLevels(s)
  PROVE  /\ DOMAIN Pulses(s) = 1..Cardinality(Firsts(s))
         /\ \A n \in Nat : \A first, last : RunsAre(s, n, first, last) =>
              Pulses(s) = [k \in 1..n |-> <<first[k], last[k]>>]
<1>1. \A i \in 1..Len(s) : Above(s)[i] <=> s[i] = 1
  <2>1. PICK lo \in DOMAIN s, hi \in DOMAIN s : s[lo] = 0 /\ s[hi] = 1
    BY DEF BothLevels
  <2>2. \A i \in DOMAIN s : Above(s)[i] <=> s[i] = 1
    BY <2>1, AboveTells
  <2> QED BY <2>2
<1> DEFINE on == Above(s)
           n0 == Len(s)
           F == {i \in 1..n0 : on[i] /\ (i = 1 \/ ~on[i - 1])}
           L == {i \in 1..n0 : on[i] /\ (i = n0 \/ ~on[i + 1])}
<1>2. n0 \in Nat
  OBVIOUS
<1>3. Pulses(s) = [k \in DOMAIN InOrder(F) |-> <<InOrder(F)[k], InOrder(L)[k]>>]
  BY DEF Pulses, Indices
<1> HIDE DEF on
<1>4. \A i \in 1..n0 : on[i] <=> s[i] = 1
  BY <1>1 DEF on
<1>5. F = Firsts(s)
  <2>1. ASSUME NEW i \in 1..n0
        PROVE  (i = 1 \/ ~on[i - 1]) <=> (i = 1 \/ s[i - 1] # 1)
    <3>1. i # 1 => i - 1 \in 1..n0
      BY <1>2
    <3> QED BY <1>4, <3>1
  <2> QED BY <1>4, <2>1 DEF Firsts
<1>6. L = Lasts(s)
  <2>1. ASSUME NEW i \in 1..n0
        PROVE  (i = n0 \/ ~on[i + 1]) <=> (i = n0 \/ s[i + 1] # 1)
    <3>1. i # n0 => i + 1 \in 1..n0
      BY <1>2
    <3> QED BY <1>4, <3>1
  <2> QED BY <1>4, <2>1 DEF Lasts
<1> HIDE DEF n0, F, L
<1>7. Pulses(s) = [k \in DOMAIN InOrder(Firsts(s)) |->
                     <<InOrder(Firsts(s))[k], InOrder(Lasts(s))[k]>>]
  BY <1>3, <1>5, <1>6
<1>8. DOMAIN InOrder(Firsts(s)) = 1..Cardinality(Firsts(s))
  <2> DEFINE S == Firsts(s)
             N == Cardinality(S)
             pick(k) == CHOOSE i \in S : Cardinality({j \in S : j <= i}) = k
             ranked == [k \in 1..N |-> pick(k)]
             T == {ranked[k] : k \in 1..N}
  <2>1. N \in Nat
    <3>1. S \in SUBSET (1..Len(s))
      BY DEF Firsts
    <3>2. IsFiniteSet(1..Len(s))
      BY FS_Interval
    <3> HIDE DEF S, ranked, T
    <3>3. IsFiniteSet(S)
      BY <3>1, <3>2, FS_Subset
    <3>4. Cardinality(S) \in Nat
      BY <3>3, FS_CardinalityType
    <3> QED BY <3>4
  <2> HIDE DEF N
  <2>2. ranked \in [1..N -> T] /\ DOMAIN ranked = 1..N
    <3> HIDE DEF S, pick
    <3>1. \A k \in 1..N : ranked[k] \in T
      OBVIOUS
    <3>2. DOMAIN ranked = 1..N /\ ranked = [k \in 1..N |-> ranked[k]]
      OBVIOUS
    <3> HIDE DEF ranked, T
    <3> QED BY <3>1, <3>2
  <2>3. InOrder(S) = Tabulated(ranked)
    BY DEF InOrder, N
  <2> HIDE DEF ranked, T
  <2>4. InOrder(S) = ranked
    <3>1. \A n \in Nat : \A R : [1..n -> R] \subseteq Seq(R)
      OBVIOUS
    <3>2. ranked \in Seq(T)
      BY <2>1, <2>2, <3>1
    <3> QED BY <2>3, <3>2, TabulatedIs
  <2> QED BY <2>2, <2>4 DEF N
<1>9. ASSUME NEW n \in Nat, NEW first, NEW last, RunsAre(s, n, first, last)
      PROVE  Pulses(s) = [k \in 1..n |-> <<first[k], last[k]>>]
  <2>1. InOrder(Firsts(s)) = first /\ InOrder(Lasts(s)) = last
    BY <1>9, InOrderIs DEF RunsAre
  <2>2. DOMAIN first = 1..n
    BY <1>9 DEF RunsAre
  <2> QED BY <1>7, <2>1, <2>2
<1> QED BY <1>7, <1>8, <1>9

(* One more pulse that touches none is one more run.                       *)
LEMMA RunsGrow ==
  ASSUME NEW s \in Seq(Bit), NEW b, NEW p, NEW q, OnePulse(b, p, q), ~(p = 1 /\ EndsHigh(s)),
         NEW n \in Nat, NEW first, NEW last, RunsAre(s, n, first, last)
  PROVE  \E f, l : /\ RunsAre(s \o b, n + 1, f, l)
                   /\ \A k \in 1..n : f[k] = first[k] /\ l[k] = last[k]
                   /\ f[n + 1] = Len(s) + p /\ l[n + 1] = Len(s) + q
<1> DEFINE f == [k \in 1..n + 1 |-> IF k = n + 1 THEN Len(s) + p ELSE first[k]]
           l == [k \in 1..n + 1 |-> IF k = n + 1 THEN Len(s) + q ELSE last[k]]
<1>1. /\ p \in Nat /\ p > 0 /\ q \in Nat /\ q > 0 /\ Len(s) \in Nat
  BY DEF OnePulse
<1>2. /\ first \in [1..n -> Nat] /\ Increasing(first, n) /\ Firsts(s) = {first[k] : k \in 1..n}
      /\ last \in [1..n -> Nat] /\ Increasing(last, n) /\ Lasts(s) = {last[k] : k \in 1..n}
  BY DEF RunsAre
<1>3. \A k \in 1..n : first[k] <= Len(s) /\ last[k] <= Len(s)
  <2>1. Firsts(s) \subseteq 1..Len(s) /\ Lasts(s) \subseteq 1..Len(s)
    BY DEF Firsts, Lasts
  <2> QED BY <1>2, <2>1
<1>4. /\ Firsts(s \o b) = Firsts(s) \cup {Len(s) + p}
      /\ Lasts(s \o b) = Lasts(s) \cup {Len(s) + q}
  BY PulseAdds
<1>5. f \in [1..n + 1 -> Nat] /\ l \in [1..n + 1 -> Nat]
  BY <1>1, <1>2
<1>6. Increasing(f, n + 1) /\ Increasing(l, n + 1)
  <2> SUFFICES ASSUME NEW i \in 1..n + 1, NEW j \in 1..n + 1, i < j
               PROVE  f[i] < f[j] /\ l[i] < l[j]
    BY DEF Increasing
  <2>1. i \in 1..n /\ i # n + 1
    OBVIOUS
  <2>2. CASE j = n + 1
    BY <1>1, <1>2, <1>3, <2>1, <2>2
  <2>3. CASE j # n + 1
    <3>1. j \in 1..n
      BY <2>3
    <3>2. first[i] < first[j] /\ last[i] < last[j]
      BY <1>2, <2>1, <3>1 DEF Increasing
    <3> QED BY <2>1, <2>3, <3>1, <3>2
  <2> QED BY <2>2, <2>3
<1>7. {f[k] : k \in 1..n + 1} = {first[k] : k \in 1..n} \cup {Len(s) + p}
  <2>1. \A k \in 1..n : k \in 1..n + 1 /\ f[k] = first[k]
    OBVIOUS
  <2>2. n + 1 \in 1..n + 1 /\ f[n + 1] = Len(s) + p
    OBVIOUS
  <2>3. \A k \in 1..n + 1 : k = n + 1 \/ k \in 1..n
    OBVIOUS
  <2> HIDE DEF f
  <2> QED BY <2>1, <2>2, <2>3
<1>8. {l[k] : k \in 1..n + 1} = {last[k] : k \in 1..n} \cup {Len(s) + q}
  <2>1. \A k \in 1..n : k \in 1..n + 1 /\ l[k] = last[k]
    OBVIOUS
  <2>2. n + 1 \in 1..n + 1 /\ l[n + 1] = Len(s) + q
    OBVIOUS
  <2>3. \A k \in 1..n + 1 : k = n + 1 \/ k \in 1..n
    OBVIOUS
  <2> HIDE DEF l
  <2> QED BY <2>1, <2>2, <2>3
<1>9. RunsAre(s \o b, n + 1, f, l)
  <2> HIDE DEF f, l
  <2> QED BY <1>2, <1>4, <1>5, <1>6, <1>7, <1>8 DEF RunsAre
<1>10. /\ \A k \in 1..n : f[k] = first[k] /\ l[k] = last[k]
       /\ f[n + 1] = Len(s) + p /\ l[n + 1] = Len(s) + q
  OBVIOUS
<1> HIDE DEF f, l
<1> QED BY <1>9, <1>10
-----------------------------------------------------------------------------
PulseCodes == {"pwm", "ppm"}

PwmSent == Seq([bit : Bit, jitter : -3..3])
PpmSent == Seq([bit : Bit, first : BOOLEAN, last : BOOLEAN])

KeyedWidth(x) == (IF x.bit = 1 THEN LONG ELSE SHORT) + x.jitter

(* The k-th pulse of PPM lies in its own symbol, on the side of its bit.   *)
InItsHalf(bit, k, f, l) ==
  /\ 8 * (k - 1) < f /\ f <= l /\ l <= 8 * k
  /\ bit = 1 => l <= 8 * (k - 1) + 4
  /\ bit = 0 => f > 8 * (k - 1) + 4

PwmRuns(s, keyed) ==
  \E first, last :
    /\ RunsAre(s, Len(keyed), first, last)
    /\ \A k \in 1..Len(keyed) : last[k] - first[k] + 1 = KeyedWidth(keyed[k])

PpmRuns(s, keyed) ==
  \E first, last :
    /\ RunsAre(s, Len(keyed), first, last)
    /\ \A k \in 1..Len(keyed) : InItsHalf(keyed[k].bit, k, first[k], last[k])

(* Whether the last symbol of PPM fills its second half to the end.        *)
LastAtEnd(keyed) == keyed # << >> /\ keyed[Len(keyed)].bit = 0 /\ keyed[Len(keyed)].last

(* The runs of the recording are the pulses that were keyed, one for each, *)
(* except that two of PPM which touch are one run.                         *)
PulsesInv ==
  code \in PulseCodes =>
    /\ air \in Seq(Bit)
    /\ (air # << >>) => BothLevels(air)
    /\ (code = "pwm") =>
         /\ sent \in PwmSent
         /\ ~EndsHigh(air)
         /\ PwmRuns(air, sent)
    /\ (code = "ppm") =>
         /\ sent \in PpmSent
         /\ Len(air) = 8 * Len(sent)
         /\ (EndsHigh(air) <=> LastAtEnd(sent))
         /\ Cardinality(Firsts(air)) = Len(sent) - Cardinality(Touching)
         /\ (Touching = {} => PpmRuns(air, sent))
-----------------------------------------------------------------------------
LEMMA NoRuns ==
  /\ Firsts(<< >>) = {} /\ Lasts(<< >>) = {}
  /\ \E first, last : RunsAre(<< >>, 0, first, last)
<1>1. Firsts(<< >>) = {} /\ Lasts(<< >>) = {}
  BY DEF Firsts, Lasts
<1>2. RunsAre(<< >>, 0, << >>, << >>)
  BY <1>1 DEF RunsAre, Increasing
<1> QED BY <1>1, <1>2

LEMMA PulsesBegin == Init => PulsesInv
<1> SUFFICES ASSUME Init, code \in PulseCodes PROVE PulsesInv
  BY DEF PulsesInv
<1>1. sent = << >> /\ air = << >>
  BY DEF Init, PulseCodes
<1>2. Touching = {} /\ Cardinality({}) = 0
  <2>1. Touching = {}
    BY <1>1 DEF Touching
  <2> QED BY <2>1, FS_EmptySet
<1>3. /\ sent \in PwmSent /\ sent \in PpmSent /\ air \in Seq(Bit)
      /\ Len(sent) = 0 /\ Len(air) = 0 /\ ~EndsHigh(air)
  BY <1>1 DEF PwmSent, PpmSent, EndsHigh
<1>4. Firsts(air) = {} /\ \E first, last : RunsAre(air, Len(sent), first, last)
  BY <1>1, <1>3, NoRuns
<1>5. PwmRuns(air, sent) /\ PpmRuns(air, sent) /\ ~LastAtEnd(sent)
  BY <1>1, <1>3, <1>4 DEF PwmRuns, PpmRuns, LastAtEnd
<1>6. Cardinality(Firsts(air)) = Len(sent) - Cardinality(Touching)
  BY <1>2, <1>3, <1>4
<1>7. Len(air) = 8 * Len(sent)
  BY <1>3
<1> QED BY <1>1, <1>3, <1>5, <1>6, <1>7 DEF PulsesInv

(* A sequence of g zeros, n ones and z zeros.                              *)
IsBump(b, g, n, z) ==
  /\ b \in Seq(Bit) /\ Len(b) = g + n + z
  /\ \A i \in 1..g + n + z : b[i] = IF i \in g + 1..g + n THEN 1 ELSE 0

LEMMA PulseIs ==
  ASSUME NEW g \in Nat, NEW n \in Nat \ {0}, NEW z \in Nat, g + z > 0,
         NEW b, IsBump(b, g, n, z)
  PROVE  /\ OnePulse(b, g + 1, g + n)
         /\ \E i \in 1..Len(b) : b[i] = 0
<1> USE DEF IsBump
<1>1. OnePulse(b, g + 1, g + n)
  BY DEF OnePulse
<1>2. CASE g > 0
  <2>1. 1 \in 1..g + n + z /\ 1 \notin g + 1..g + n
    BY <1>2
  <2> QED BY <1>1, <2>1
<1>3. CASE z > 0
  <2>1. g + n + z \in 1..g + n + z /\ g + n + z \notin g + 1..g + n
    BY <1>3
  <2> QED BY <1>1, <2>1
<1> QED BY <1>2, <1>3

LEMMA RepeatIs ==
  ASSUME NEW x \in Bit, NEW n \in Nat
  PROVE  Repeat(x, n) \in Seq(Bit) /\ Len(Repeat(x, n)) = n
         /\ \A i \in 1..n : Repeat(x, n)[i] = x
  BY DEF Repeat

LEMMA ZerosOnesZeros ==
  ASSUME NEW g \in Nat, NEW n \in Nat, NEW z \in Nat
  PROVE  IsBump(Repeat(0, g) \o Repeat(1, n) \o Repeat(0, z), g, n, z)
<1> DEFINE x == Repeat(0, g)
           y == Repeat(1, n)
           w == Repeat(0, z)
<1>1. /\ x \in Seq(Bit) /\ Len(x) = g /\ \A i \in 1..g : x[i] = 0
      /\ y \in Seq(Bit) /\ Len(y) = n /\ \A i \in 1..n : y[i] = 1
      /\ w \in Seq(Bit) /\ Len(w) = z /\ \A i \in 1..z : w[i] = 0
  BY RepeatIs DEF Bit
<1> HIDE DEF x, y, w
<1>2. /\ x \o y \in Seq(Bit) /\ Len(x \o y) = g + n
      /\ \A i \in 1..g + n : (x \o y)[i] = IF i <= g THEN x[i] ELSE y[i - g]
  <2>1. /\ x \o y \in Seq(Bit) /\ Len(x \o y) = Len(x) + Len(y)
        /\ \A i \in 1..Len(x) + Len(y) : (x \o y)[i] = IF i <= Len(x) THEN x[i] ELSE y[i - Len(x)]
    BY <1>1, ConcatProperties
  <2> QED BY <1>1, <2>1
<1> DEFINE xy == x \o y
<1>3. /\ xy \in Seq(Bit) /\ Len(xy) = g + n
      /\ \A i \in 1..g + n : xy[i] = IF i <= g THEN 0 ELSE 1
  <2> SUFFICES ASSUME NEW i \in 1..g + n PROVE xy[i] = IF i <= g THEN 0 ELSE 1
    BY <1>2
  <2>1. (i <= g => i \in 1..g) /\ (i > g => i - g \in 1..n)
    OBVIOUS
  <2> QED BY <1>1, <1>2, <2>1
<1> HIDE DEF xy
<1>4. /\ xy \o w \in Seq(Bit) /\ Len(xy \o w) = g + n + z
      /\ \A i \in 1..g + n + z : (xy \o w)[i] = IF i <= g + n THEN xy[i] ELSE w[i - (g + n)]
  <2>1. /\ xy \o w \in Seq(Bit) /\ Len(xy \o w) = Len(xy) + Len(w)
        /\ \A i \in 1..Len(xy) + Len(w) :
             (xy \o w)[i] = IF i <= Len(xy) THEN xy[i] ELSE w[i - Len(xy)]
    BY <1>1, <1>3, ConcatProperties
  <2> QED BY <1>1, <1>3, <2>1
<1>5. \A i \in 1..g + n + z : (xy \o w)[i] = IF i \in g + 1..g + n THEN 1 ELSE 0
  <2> SUFFICES ASSUME NEW i \in 1..g + n + z
               PROVE  (xy \o w)[i] = IF i \in g + 1..g + n THEN 1 ELSE 0
    OBVIOUS
  <2>1. (i <= g + n => i \in 1..g + n) /\ (i > g + n => i - (g + n) \in 1..z)
    OBVIOUS
  <2> QED BY <1>1, <1>3, <1>4, <2>1
<1>6. IsBump(xy \o w, g, n, z)
  BY <1>4, <1>5 DEF IsBump
<1> QED BY <1>6 DEF x, y, w, xy

(* The recording has both levels from the first pulse on.                  *)
LEMMA LevelsSeen ==
  ASSUME NEW s \in Seq(Bit), NEW b, NEW p, NEW q, OnePulse(b, p, q),
         \E i \in 1..Len(b) : b[i] = 0
  PROVE  BothLevels(s \o b)
<1>1. PICK i \in 1..Len(b) : b[i] = 0
  OBVIOUS
<1> DEFINE t == s \o b
           n == Len(s)
           m == Len(b)
<1>2. t \in Seq(Bit) /\ Len(t) = n + m /\ t[n + p] = 1 /\ t[n + i] = 0
  <2>1. s \o b \in Seq(Bit) /\ Len(s \o b) = Len(s) + Len(b)
    BY PulseAdds
  <2>2. \A j \in 1..Len(b) : (s \o b)[Len(s) + j] = b[j]
    BY PulseAdds
  <2>3. p \in 1..Len(b) /\ b[p] = 1
    BY DEF OnePulse
  <2> QED BY <1>1, <2>1, <2>2, <2>3
<1>3. p \in 1..m /\ n \in Nat /\ m \in Nat
  BY DEF OnePulse
<1>4. n + p \in 1..n + m /\ n + i \in 1..n + m
  BY <1>3
<1> HIDE DEF t, n, m
<1>5. n + p \in DOMAIN t /\ n + i \in DOMAIN t
  BY <1>2, <1>4
<1> QED BY <1>2, <1>5 DEF BothLevels, t
-----------------------------------------------------------------------------
(* What a pulse of PWM adds.                                               *)
LEMMA PwmBlock ==
  ASSUME NEW s \in Seq(Bit), NEW w \in Nat \ {0}
  PROVE  \E b : /\ s \o Repeat(1, w) \o Repeat(0, 2) = s \o b
                /\ OnePulse(b, 1, w) /\ Len(b) = w + 2
                /\ \E i \in 1..Len(b) : b[i] = 0
<1> DEFINE x == Repeat(1, w)
           y == Repeat(0, 2)
           b == Repeat(0, 0) \o x \o y
<1>1. IsBump(b, 0, w, 2)
  BY ZerosOnesZeros
<1>2. x \in Seq(Bit) /\ y \in Seq(Bit)
  BY RepeatIs DEF Bit
<1>3. b = x \o y
  <2>1. Repeat(0, 0) = << >>
    BY DEF Repeat
  <2>2. << >> \o x = x
    BY <1>2, ConcatEmptySeq
  <2> QED BY <2>1, <2>2
<1>4. s \o x \o y = s \o b
  <2> HIDE DEF x, y, b
  <2> QED BY <1>2, <1>3, ConcatAssociative
<1> HIDE DEF b
<1>5. OnePulse(b, 0 + 1, 0 + w) /\ Len(b) = 0 + w + 2 /\ \E i \in 1..Len(b) : b[i] = 0
  <2>1. 0 \in Nat /\ 2 \in Nat /\ 0 + 2 > 0
    OBVIOUS
  <2> QED BY <1>1, <2>1, PulseIs DEF IsBump
<1>6. 0 + 1 = 1 /\ 0 + w = w /\ 0 + w + 2 = w + 2
  OBVIOUS
<1>7. OnePulse(b, 1, w) /\ Len(b) = w + 2
  BY <1>5, <1>6
<1> QED BY <1>4, <1>5, <1>7 DEF x, y

LEMMA ConcatAt ==
  ASSUME NEW S, NEW s \in Seq(S), NEW t \in Seq(S)
  PROVE  /\ s \o t \in Seq(S) /\ Len(s \o t) = Len(s) + Len(t)
         /\ \A i \in 1..Len(s) : (s \o t)[i] = s[i]
         /\ \A i \in 1..Len(t) : (s \o t)[Len(s) + i] = t[i]
<1> DEFINE n == Len(s)
           m == Len(t)
<1>1. s \o t \in Seq(S) /\ Len(s \o t) = n + m
  BY ConcatProperties
<1>2. \A i \in 1..n + m : (s \o t)[i] = IF i <= n THEN s[i] ELSE t[i - n]
  BY ConcatProperties
<1>3. ASSUME NEW i \in 1..n PROVE (s \o t)[i] = s[i]
  BY <1>2
<1>4. ASSUME NEW i \in 1..m PROVE (s \o t)[n + i] = t[i]
  <2>1. n + i \in 1..n + m /\ ~(n + i <= n) /\ (n + i) - n = i
    OBVIOUS
  <2> QED BY <1>2, <2>1
<1> QED BY <1>1, <1>3, <1>4

(* What a symbol of PPM is.                                                *)
LEMMA PpmBlock ==
  ASSUME NEW bit \in Bit, NEW gap \in 0..HALF - 1, NEW width \in 1..HALF, gap + width <= HALF
  PROVE  LET half == Repeat(0, gap) \o Repeat(1, width) \o Repeat(0, HALF - gap - width)
             b == IF bit = 1 THEN half \o Repeat(0, HALF) ELSE Repeat(0, HALF) \o half
             g == IF bit = 1 THEN gap ELSE 4 + gap
         IN OnePulse(b, g + 1, g + width) /\ Len(b) = 8 /\ \E i \in 1..Len(b) : b[i] = 0
<1> DEFINE z == 4 - gap - width
           half == Repeat(0, gap) \o Repeat(1, width) \o Repeat(0, z)
           rest == Repeat(0, 4)
           b == IF bit = 1 THEN half \o rest ELSE rest \o half
           g == IF bit = 1 THEN gap ELSE 4 + gap
<1>1. /\ gap \in Nat /\ width \in Nat \ {0} /\ z \in Nat /\ gap + width + z = 4
      /\ g \in Nat /\ g + width <= 8 /\ bit \in {0, 1}
  BY DEF HALF, Bit
<1>2. /\ half \in Seq(Bit) /\ Len(half) = 4
      /\ \A i \in 1..4 : half[i] = IF i \in gap + 1..gap + width THEN 1 ELSE 0
  <2> HIDE DEF z
  <2>1. IsBump(half, gap, width, z)
    BY <1>1, ZerosOnesZeros
  <2> HIDE DEF half
  <2> QED BY <1>1, <2>1 DEF IsBump
<1>3. rest \in Seq(Bit) /\ Len(rest) = 4 /\ \A i \in 1..4 : rest[i] = 0
  BY RepeatIs DEF Bit
<1> HIDE DEF half, rest
<1>4. /\ b \in Seq(Bit) /\ Len(b) = 8
      /\ \A i \in 1..8 : b[i] = IF i \in g + 1..g + width THEN 1 ELSE 0
  <2>1. CASE bit = 1
    <3>1. /\ half \o rest \in Seq(Bit) /\ Len(half \o rest) = 8
          /\ \A i \in 1..4 : (half \o rest)[i] = half[i]
          /\ \A i \in 1..4 : (half \o rest)[4 + i] = rest[i]
      <4>1. 4 \in Nat /\ 4 + 4 = 8
        OBVIOUS
      <4>2. half \in Seq(Bit) /\ rest \in Seq(Bit)
        BY <1>2, <1>3
      <4>3. half \o rest \in Seq(Bit) /\ Len(half \o rest) = Len(half) + Len(rest)
        BY <4>2, ConcatAt
      <4>4. \A i \in 1..Len(half) : (half \o rest)[i] = half[i]
        BY <4>2, ConcatAt
      <4>5. \A i \in 1..Len(rest) : (half \o rest)[Len(half) + i] = rest[i]
        BY <4>2, ConcatAt
      <4> QED BY <1>2, <1>3, <4>1, <4>3, <4>4, <4>5
    <3>2. ASSUME NEW i \in 1..8
          PROVE  (half \o rest)[i] = IF i \in gap + 1..gap + width THEN 1 ELSE 0
      <4>1. CASE i \in 1..4
        BY <1>2, <3>1, <4>1
      <4>2. ASSUME NEW j \in 1..4, i = 4 + j
            PROVE  (half \o rest)[i] = IF i \in gap + 1..gap + width THEN 1 ELSE 0
        <5>1. i \notin gap + 1..gap + width
          BY <1>1, <4>2
        <5> QED BY <1>3, <3>1, <4>2, <5>1
      <4>3. i \in 1..4 \/ (i - 4 \in 1..4 /\ i = 4 + (i - 4))
        OBVIOUS
      <4> QED BY <4>1, <4>2, <4>3
    <3>3. g = gap /\ b = half \o rest
      BY <2>1
    <3> HIDE DEF g, b
    <3> QED BY <3>1, <3>2, <3>3
  <2>2. CASE bit = 0
    <3>1. /\ rest \o half \in Seq(Bit) /\ Len(rest \o half) = 8
          /\ \A i \in 1..4 : (rest \o half)[i] = rest[i]
          /\ \A i \in 1..4 : (rest \o half)[4 + i] = half[i]
      <4>1. 4 \in Nat /\ 4 + 4 = 8
        OBVIOUS
      <4>2. rest \in Seq(Bit) /\ half \in Seq(Bit)
        BY <1>2, <1>3
      <4>3. rest \o half \in Seq(Bit) /\ Len(rest \o half) = Len(rest) + Len(half)
        BY <4>2, ConcatAt
      <4>4. \A i \in 1..Len(rest) : (rest \o half)[i] = rest[i]
        BY <4>2, ConcatAt
      <4>5. \A i \in 1..Len(half) : (rest \o half)[Len(rest) + i] = half[i]
        BY <4>2, ConcatAt
      <4> QED BY <1>2, <1>3, <4>1, <4>3, <4>4, <4>5
    <3>2. ASSUME NEW i \in 1..8
          PROVE  (rest \o half)[i] = IF i \in (4 + gap) + 1..(4 + gap) + width THEN 1 ELSE 0
      <4>1. CASE i \in 1..4
        <5>1. i \notin (4 + gap) + 1..(4 + gap) + width
          BY <1>1, <4>1
        <5> QED BY <1>3, <3>1, <4>1, <5>1
      <4>2. ASSUME NEW j \in 1..4, i = 4 + j
            PROVE  (rest \o half)[i] = IF i \in (4 + gap) + 1..(4 + gap) + width THEN 1 ELSE 0
        <5>1. i \in (4 + gap) + 1..(4 + gap) + width <=> j \in gap + 1..gap + width
          BY <1>1, <4>2
        <5> QED BY <1>2, <3>1, <4>2, <5>1
      <4>3. i \in 1..4 \/ (i - 4 \in 1..4 /\ i = 4 + (i - 4))
        OBVIOUS
      <4> QED BY <4>1, <4>2, <4>3
    <3>3. g = 4 + gap /\ b = rest \o half
      BY <2>2
    <3> HIDE DEF g, b
    <3> QED BY <3>1, <3>2, <3>3
  <2> QED BY <1>1, <2>1, <2>2
<1> DEFINE after == 8 - (g + width)
<1>5. after \in Nat /\ g + width + after = 8 /\ g + after > 0
  <2>1. g + after = 8 - width /\ width <= 4
    BY <1>1 DEF HALF
  <2> QED BY <1>1, <2>1
<1> HIDE DEF after, g, b
<1>6. OnePulse(b, g + 1, g + width) /\ \E i \in 1..Len(b) : b[i] = 0
  <2>1. g \in Nat /\ width \in Nat \ {0} /\ after \in Nat /\ g + after > 0
    BY <1>1, <1>5
  <2>2. IsBump(b, g, width, after)
    BY <1>4, <1>5 DEF IsBump
  <2> QED BY <2>1, <2>2, PulseIs
<1>7. HALF - gap - width = z /\ HALF = 4
  BY DEF HALF
<1> QED BY <1>4, <1>6, <1>7 DEF b, g, half, rest

(* One more symbol touches the one before it, or does not.                 *)
LEMMA TouchingMore ==
  ASSUME sent \in PpmSent, NEW x \in [bit : Bit, first : BOOLEAN, last : BOOLEAN],
         sent' = Append(sent, x)
  PROVE  LET n == Len(sent)
             touches == /\ n > 0 /\ sent[n].bit = 0 /\ sent[n].last
                        /\ x.bit = 1 /\ x.first
         IN /\ Touching' = IF touches THEN Touching \cup {n} ELSE Touching
            /\ Cardinality(Touching) \in Nat
            /\ Cardinality(Touching') = Cardinality(Touching) + (IF touches THEN 1 ELSE 0)
<1> DEFINE n == Len(sent)
           touches == /\ n > 0 /\ sent[n].bit = 0 /\ sent[n].last
                      /\ x.bit = 1 /\ x.first
           touchesAt(k) == /\ sent[k].bit = 0 /\ sent[k].last
                           /\ sent[k + 1].bit = 1 /\ sent[k + 1].first
<1>1. /\ n \in Nat /\ Len(sent') = n + 1 /\ sent'[n + 1] = x
      /\ \A k \in 1..n : sent'[k] = sent[k]
  BY DEF PpmSent
<1>2. Touching = {k \in 1..n - 1 : touchesAt(k)}
  BY DEF Touching
<1>3. Touching' = {k \in 1..n : /\ sent'[k].bit = 0 /\ sent'[k].last
                                /\ sent'[k + 1].bit = 1 /\ sent'[k + 1].first}
  <2>1. Len(sent') - 1 = n
    BY <1>1
  <2> QED BY <2>1 DEF Touching
<1> HIDE DEF n
<1>4. ASSUME NEW k \in 1..n
      PROVE  k \in Touching' <=> k \in Touching \/ (k = n /\ touches)
  <2>1. sent'[k] = sent[k]
    BY <1>1
  <2>2. CASE k = n
    <3>1. sent'[k + 1] = x /\ k \notin Touching /\ n > 0
      BY <1>1, <1>2, <2>2
    <3> QED BY <1>3, <2>1, <2>2, <3>1
  <2>3. CASE k # n
    <3>1. k + 1 \in 1..n /\ k \in 1..n - 1
      BY <1>1, <2>3
    <3>2. sent'[k + 1] = sent[k + 1]
      BY <1>1, <3>1
    <3> QED BY <1>2, <1>3, <2>1, <2>3, <3>1, <3>2
  <2> QED BY <2>2, <2>3
<1>5. Touching' = IF touches THEN Touching \cup {n} ELSE Touching
  <2>1. Touching' \subseteq 1..n /\ Touching \subseteq 1..n - 1 /\ 1..n - 1 \subseteq 1..n
    BY <1>1, <1>2, <1>3
  <2>2. touches => n \in 1..n
    BY <1>1
  <2> HIDE DEF touches
  <2> QED BY <1>4, <2>1, <2>2
<1>6. IsFiniteSet(Touching) /\ n \notin Touching
  <2>1. Touching \in SUBSET (1..n - 1) /\ IsFiniteSet(1..n - 1)
    <3>1. n - 1 \in Int /\ 1 \in Int
      BY <1>1
    <3> QED BY <1>2, <3>1, FS_Interval
  <2>2. IsFiniteSet(Touching)
    BY <2>1, FS_Subset
  <2> QED BY <1>1, <2>1, <2>2
<1>7. Cardinality(Touching) \in Nat
  BY <1>6, FS_CardinalityType
<1>8. Cardinality(Touching \cup {n}) = Cardinality(Touching) + 1
  BY <1>6, FS_AddElement
<1> HIDE DEF touches
<1>9. Cardinality(Touching') = Cardinality(Touching) + (IF touches THEN 1 ELSE 0)
  BY <1>5, <1>7, <1>8
<1> QED BY <1>5, <1>7, <1>9 DEF touches, n
-----------------------------------------------------------------------------
LEMMA PulsesStep == PulsesInv /\ [Next]_vars => PulsesInv'
<1> SUFFICES ASSUME PulsesInv, [Next]_vars PROVE PulsesInv'
  OBVIOUS
<1>1. CASE UNCHANGED vars
  BY <1>1 DEF PulsesInv, vars, Touching
<1>2. ASSUME NEW bit \in Bit, NEW jitter \in -3..3, KeyPwm(bit, jitter)
      PROVE  PulsesInv'
  <2> DEFINE x == [bit |-> bit, jitter |-> jitter]
             n == Len(sent)
             w == KeyedWidth(x)
  <2>1. /\ code = "pwm" /\ code' = code
        /\ air \in Seq(Bit) /\ sent \in PwmSent /\ ~EndsHigh(air) /\ PwmRuns(air, sent)
        /\ sent' = Append(sent, x)
        /\ air' = air \o Repeat(1, w) \o Repeat(0, 2)
    BY <1>2 DEF PulsesInv, PulseCodes, KeyPwm, KeyedWidth
  <2>2. w \in Nat \ {0}
    BY DEF KeyedWidth, LONG, SHORT, Bit
  <2>3. PICK b : /\ air' = air \o b /\ OnePulse(b, 1, w) /\ Len(b) = w + 2
                 /\ \E i \in 1..Len(b) : b[i] = 0
    BY <2>1, <2>2, PwmBlock
  <2>4. /\ sent' \in PwmSent /\ n \in Nat /\ Len(sent') = n + 1 /\ sent'[n + 1] = x
        /\ \A k \in 1..n : sent'[k] = sent[k]
    BY <2>1 DEF PwmSent
  <2> HIDE DEF x, w
  <2>5. air' \in Seq(Bit) /\ ~EndsHigh(air')
    <3>1. air \o b \in Seq(Bit) /\ (EndsHigh(air \o b) <=> w = Len(b))
      BY <2>1, <2>3, PulseAdds
    <3>2. w # Len(b)
      BY <2>2, <2>3
    <3> QED BY <2>3, <3>1, <3>2
  <2>6. BothLevels(air')
    BY <2>1, <2>3, LevelsSeen
  <2>7. PwmRuns(air', sent')
    <3>1. PICK first, last :
            /\ RunsAre(air, n, first, last)
            /\ \A k \in 1..n : last[k] - first[k] + 1 = KeyedWidth(sent[k])
      BY <2>1 DEF PwmRuns
    <3>2. PICK f, l : /\ RunsAre(air \o b, n + 1, f, l)
                      /\ \A k \in 1..n : f[k] = first[k] /\ l[k] = last[k]
                      /\ f[n + 1] = Len(air) + 1 /\ l[n + 1] = Len(air) + w
      BY <2>1, <2>3, <2>4, <3>1, RunsGrow
    <3>3. ASSUME NEW k \in 1..n + 1 PROVE l[k] - f[k] + 1 = KeyedWidth(sent'[k])
      <4>1. CASE k = n + 1
        <5>1. Len(air) \in Nat /\ w \in Nat /\ KeyedWidth(sent'[k]) = w
          BY <2>1, <2>2, <2>4, <4>1 DEF w
        <5>2. (Len(air) + w) - (Len(air) + 1) + 1 = w
          BY <5>1
        <5> QED BY <3>2, <4>1, <5>1, <5>2
      <4>2. CASE k # n + 1
        <5>1. k \in 1..n
          BY <2>4, <4>2
        <5> QED BY <2>4, <3>1, <3>2, <5>1
      <4> QED BY <4>1, <4>2
    <3> HIDE DEF n
    <3> QED BY <2>3, <2>4, <3>2, <3>3 DEF PwmRuns
  <2> QED BY <2>1, <2>4, <2>5, <2>6, <2>7 DEF PulsesInv
<1>3. ASSUME NEW bit \in Bit, NEW gap \in 0..HALF - 1, NEW width \in 1..HALF,
             KeyPpm(bit, gap, width)
      PROVE  PulsesInv'
  <2> DEFINE x == [bit |-> bit, first |-> gap = 0, last |-> gap + width = HALF]
             n == Len(sent)
             half == Repeat(0, gap) \o Repeat(1, width) \o Repeat(0, HALF - gap - width)
             b == IF bit = 1 THEN half \o Repeat(0, HALF) ELSE Repeat(0, HALF) \o half
             g == IF bit = 1 THEN gap ELSE 4 + gap
             p == g + 1
             q == g + width
             touches == /\ n > 0 /\ sent[n].bit = 0 /\ sent[n].last
                        /\ x.bit = 1 /\ x.first
  <2>1. /\ code = "ppm" /\ code' = code
        /\ air \in Seq(Bit) /\ sent \in PpmSent /\ Len(air) = 8 * n
        /\ (EndsHigh(air) <=> LastAtEnd(sent))
        /\ Cardinality(Firsts(air)) = n - Cardinality(Touching)
        /\ (Touching = {} => PpmRuns(air, sent))
        /\ gap + width <= HALF
        /\ sent' = Append(sent, x)
        /\ air' = air \o b
    BY <1>3 DEF PulsesInv, PulseCodes, KeyPpm
  <2>2. OnePulse(b, p, q) /\ Len(b) = 8 /\ \E i \in 1..Len(b) : b[i] = 0
    BY <2>1, PpmBlock
  <2>3. /\ gap \in 0..3 /\ width \in 1..4 /\ gap + width <= 4 /\ bit \in {0, 1}
        /\ x \in [bit : Bit, first : BOOLEAN, last : BOOLEAN]
    BY <2>1 DEF HALF, Bit
  <2> HIDE DEF half, b
  <2>4. /\ sent' \in PpmSent /\ n \in Nat /\ Len(sent') = n + 1 /\ sent'[n + 1] = x
        /\ \A k \in 1..n : sent'[k] = sent[k]
        /\ (sent # << >> <=> n > 0)
    BY <2>1, <2>3 DEF PpmSent
  <2>5. /\ (p = 1 <=> x.bit = 1 /\ x.first)
        /\ (q = 8 <=> x.bit = 0 /\ x.last)
        /\ p \in Nat /\ q \in Nat
    <3>1. x.bit = bit /\ x.first = (gap = 0) /\ x.last = (gap + width = HALF)
      OBVIOUS
    <3> HIDE DEF x
    <3>2. p = 1 <=> bit = 1 /\ gap = 0
      BY <2>3
    <3>3. q = 8 <=> bit = 0 /\ gap + width = 4
      BY <2>3
    <3>4. p \in Nat /\ q \in Nat
      BY <2>3
    <3>5. HALF = 4
      BY DEF HALF
    <3> HIDE DEF p, q
    <3> QED BY <3>1, <3>2, <3>3, <3>4, <3>5
  <2>6. touches <=> p = 1 /\ EndsHigh(air)
    <3>1. LastAtEnd(sent) <=> n > 0 /\ sent[n].bit = 0 /\ sent[n].last
      BY <2>4 DEF LastAtEnd
    <3> HIDE DEF n, p, q, x
    <3> QED BY <2>1, <2>5, <3>1
  <2>7. /\ Touching' = IF touches THEN Touching \cup {n} ELSE Touching
        /\ Cardinality(Touching) \in Nat
        /\ Cardinality(Touching') = Cardinality(Touching) + (IF touches THEN 1 ELSE 0)
    <3> HIDE DEF x
    <3> QED BY <2>1, <2>3, TouchingMore
  <2> HIDE DEF touches, p, q, x
  <2>8. /\ air' \in Seq(Bit) /\ Len(air') = Len(air) + 8
        /\ Firsts(air') = IF touches THEN Firsts(air) ELSE Firsts(air) \cup {Len(air) + p}
        /\ (EndsHigh(air') <=> q = 8)
    <3>1. /\ air \o b \in Seq(Bit) /\ Len(air \o b) = Len(air) + Len(b)
          /\ Firsts(air \o b) = IF p = 1 /\ EndsHigh(air) THEN Firsts(air)
                                ELSE Firsts(air) \cup {Len(air) + p}
          /\ (EndsHigh(air \o b) <=> q = Len(b))
      <4> HIDE DEF n, g
      <4>1. air \in Seq(Bit) /\ OnePulse(b, p, q)
        BY <2>1, <2>2
      <4>2. air \o b \in Seq(Bit) /\ Len(air \o b) = Len(air) + Len(b)
        BY <4>1, PulseAdds
      <4>3. Firsts(air \o b) = IF p = 1 /\ EndsHigh(air) THEN Firsts(air)
                               ELSE Firsts(air) \cup {Len(air) + p}
        BY <4>1, PulseAdds
      <4>4. EndsHigh(air \o b) <=> q = Len(b)
        BY <4>1, PulseAdds
      <4> QED BY <4>2, <4>3, <4>4
    <3> QED BY <2>1, <2>2, <2>6, <3>1
  <2>9. BothLevels(air')
    BY <2>1, <2>2, LevelsSeen
  <2>10. Len(air') = 8 * (n + 1)
    BY <2>1, <2>4, <2>8
  <2>11. EndsHigh(air') <=> LastAtEnd(sent')
    BY <2>4, <2>5, <2>8 DEF LastAtEnd, PpmSent
  <2>12. Cardinality(Firsts(air')) = (n + 1) - Cardinality(Touching')
    <3>1. IsFiniteSet(Firsts(air)) /\ Len(air) + p \notin Firsts(air)
      <4>1. Firsts(air) \in SUBSET (1..Len(air)) /\ Len(air) \in Int /\ Len(air) \in Nat
        BY <2>1 DEF Firsts
      <4>2. IsFiniteSet(1..Len(air))
        BY <4>1, FS_Interval
      <4>3. IsFiniteSet(Firsts(air))
        BY <4>1, <4>2, FS_Subset
      <4>4. p > 0
        BY <2>3 DEF p
      <4> QED BY <2>5, <4>1, <4>3, <4>4
    <3>2. Cardinality(Firsts(air) \cup {Len(air) + p}) = Cardinality(Firsts(air)) + 1
      BY <3>1, FS_AddElement
    <3>3. CASE touches
      <4>1. Cardinality(Firsts(air')) = n - Cardinality(Touching)
        BY <2>1, <2>8, <3>3
      <4> QED BY <2>4, <2>7, <3>3, <4>1
    <3>4. CASE ~touches
      <4>1. Cardinality(Firsts(air')) = (n - Cardinality(Touching)) + 1
        BY <2>1, <2>8, <3>2, <3>4
      <4> QED BY <2>4, <2>7, <3>4, <4>1
    <3> QED BY <3>3, <3>4
  <2>13. ASSUME Touching' = {} PROVE PpmRuns(air', sent')
    <3>1. ~touches /\ Touching = {}
      BY <2>7, <2>13
    <3>2. PICK first, last :
            /\ RunsAre(air, n, first, last)
            /\ \A k \in 1..n : InItsHalf(sent[k].bit, k, first[k], last[k])
      BY <2>1, <3>1 DEF PpmRuns
    <3>3. PICK f, l : /\ RunsAre(air \o b, n + 1, f, l)
                      /\ \A k \in 1..n : f[k] = first[k] /\ l[k] = last[k]
                      /\ f[n + 1] = Len(air) + p /\ l[n + 1] = Len(air) + q
      <4> HIDE DEF n
      <4>1. ~(p = 1 /\ EndsHigh(air)) /\ air \in Seq(Bit)
        BY <2>1, <2>6, <3>1
      <4> QED BY <2>2, <2>4, <3>2, <4>1, RunsGrow
    <3>4. ASSUME NEW k \in 1..n + 1 PROVE InItsHalf(sent'[k].bit, k, f[k], l[k])
      <4>1. CASE k = n + 1
        <5>1. f[k] = 8 * n + p /\ l[k] = 8 * n + q /\ sent'[k].bit = bit
          BY <2>1, <2>4, <3>3, <4>1 DEF x
        <5>2. 0 < p /\ p <= q /\ q <= 8 /\ (bit = 1 => q <= 4) /\ (bit = 0 => p > 4)
          BY <2>3 DEF p, q
        <5>3. 8 * (k - 1) = 8 * n /\ 8 * k = 8 * n + 8
          BY <2>4, <4>1
        <5> QED BY <2>4, <2>5, <5>1, <5>2, <5>3 DEF InItsHalf
      <4>2. CASE k # n + 1
        <5>1. k \in 1..n
          BY <2>4, <4>2
        <5> QED BY <2>4, <3>2, <3>3, <5>1
      <4> QED BY <4>1, <4>2
    <3> HIDE DEF n
    <3> QED BY <2>1, <2>4, <3>3, <3>4 DEF PpmRuns
  <2> QED BY <2>1, <2>4, <2>8, <2>9, <2>10, <2>11, <2>12, <2>13 DEF PulsesInv
<1>4. ASSUME NEW bit \in Bit, NEW bad \in 0..2 * SPS, Key(bit, bad) PROVE PulsesInv'
  BY <1>4 DEF PulsesInv, PulseCodes, Key
<1>5. ASSUME NEW c \in Codes, Type(c) PROVE PulsesInv'
  BY <1>5 DEF PulsesInv, PulseCodes, Type
<1>6. ASSUME NEW b \in Bit, Noise(b) PROVE PulsesInv'
  BY <1>6 DEF PulsesInv, PulseCodes, Noise
<1>7. ASSUME Rest PROVE PulsesInv'
  BY <1>7 DEF PulsesInv, PulseCodes, Rest
<1> QED BY <1>1, <1>2, <1>3, <1>4, <1>5, <1>6, <1>7 DEF Next
-----------------------------------------------------------------------------
(* What a width says: within 35 % of 6 samples is within 2.                *)
LEMMA WidthTells ==
  ASSUME NEW x, x.bit \in Bit, x.jitter \in -3..3, NEW w, w = KeyedWidth(x)
  PROVE  /\ (WithinTolerance(w, SHORT, SHORT, LONG) <=> x.bit = 0 /\ x.jitter \in -2..2)
         /\ (WithinTolerance(w, LONG, SHORT, LONG) <=> x.bit = 1 /\ x.jitter \in -2..2)
<1> DEFINE bit == x.bit
           jitter == x.jitter
<1>1. w = (IF bit = 1 THEN 10 ELSE 4) + jitter /\ bit \in {0, 1} /\ jitter \in -3..3
  BY DEF KeyedWidth, LONG, SHORT, Bit
<1> HIDE DEF bit, jitter
<1>2. WithinTolerance(w, SHORT, SHORT, LONG) <=> 100 * (w - 4) <= 210 /\ 100 * (4 - w) <= 210
  <2>1. 35 * (10 - 4) = 210
    OBVIOUS
  <2> QED BY <2>1 DEF WithinTolerance, SHORT, LONG
<1>3. WithinTolerance(w, LONG, SHORT, LONG) <=> 100 * (w - 10) <= 210 /\ 100 * (10 - w) <= 210
  <2>1. 35 * (10 - 4) = 210
    OBVIOUS
  <2> QED BY <2>1 DEF WithinTolerance, SHORT, LONG
<1>4. WithinTolerance(w, SHORT, SHORT, LONG) <=> bit = 0 /\ jitter \in -2..2
  BY <1>1, <1>2
<1>5. WithinTolerance(w, LONG, SHORT, LONG) <=> bit = 1 /\ jitter \in -2..2
  BY <1>1, <1>3
<1> QED BY <1>4, <1>5 DEF bit, jitter

LEMMA PwmIsRead == PulsesInv => PwmReads
<1> SUFFICES ASSUME PulsesInv, code = "pwm", air # << >>
             PROVE  LET got == DecodePwm(air, SHORT, LONG)
                    IN /\ Len(got.bits) = Len(sent)
                       /\ got.invalid_pulses
                            = Cardinality({k \in DOMAIN sent : sent[k].jitter \in {-3, 3}})
                       /\ \A k \in DOMAIN sent :
                            sent[k].jitter \in -2..2 => got.bits[k] = sent[k].bit
  BY DEF PwmReads
<1>1. air \in Seq(Bit) /\ BothLevels(air) /\ sent \in PwmSent /\ PwmRuns(air, sent)
  BY DEF PulsesInv, PulseCodes
<1> DEFINE n == Len(sent)
           pulse == Pulses(air)
           w(k) == Width(pulse[k])
           fits(k, nominal) == WithinTolerance(w(k), nominal, SHORT, LONG)
           bits == [k \in DOMAIN pulse |->
                      IF fits(k, SHORT) \/ (~fits(k, LONG) /\ 2 * w(k) < SHORT + LONG)
                      THEN 0 ELSE 1]
           invalid == {k \in DOMAIN pulse : ~fits(k, SHORT) /\ ~fits(k, LONG)}
<1>2. /\ n \in Nat /\ DOMAIN sent = 1..n
      /\ \A k \in 1..n : sent[k].bit \in Bit /\ sent[k].jitter \in -3..3
  <2>1. \A k \in 1..Len(sent) : sent[k] \in [bit : Bit, jitter : -3..3]
    BY <1>1, ElementOfSeq DEF PwmSent
  <2>2. Len(sent) \in Nat /\ DOMAIN sent = 1..Len(sent)
    BY <1>1 DEF PwmSent
  <2> QED BY <2>1, <2>2
<1>3. DOMAIN pulse = 1..n /\ \A k \in 1..n : w(k) = KeyedWidth(sent[k])
  <2>1. PICK first, last :
          /\ RunsAre(air, n, first, last)
          /\ \A k \in 1..n : last[k] - first[k] + 1 = KeyedWidth(sent[k])
    BY <1>1 DEF PwmRuns
  <2>2. pulse = [k \in 1..n |-> <<first[k], last[k]>>]
    BY <1>1, <1>2, <2>1, PulsesShown
  <2> HIDE DEF pulse, n
  <2> QED BY <2>1, <2>2 DEF Width
<1> HIDE DEF pulse, w
<1>4. ASSUME NEW k \in 1..n
      PROVE  /\ (fits(k, SHORT) <=> sent[k].bit = 0 /\ sent[k].jitter \in -2..2)
             /\ (fits(k, LONG) <=> sent[k].bit = 1 /\ sent[k].jitter \in -2..2)
  <2> HIDE DEF n
  <2>1. sent[k].bit \in Bit /\ sent[k].jitter \in -3..3 /\ w(k) = KeyedWidth(sent[k])
    BY <1>2, <1>3
  <2>2. fits(k, SHORT) <=> sent[k].bit = 0 /\ sent[k].jitter \in -2..2
    BY <2>1, WidthTells
  <2>3. fits(k, LONG) <=> sent[k].bit = 1 /\ sent[k].jitter \in -2..2
    BY <2>1, WidthTells
  <2> QED BY <2>2, <2>3
<1> HIDE DEF n, fits
<1>5. invalid = {k \in DOMAIN sent : sent[k].jitter \in {-3, 3}}
  <2>1. ASSUME NEW k \in 1..n
        PROVE  ~fits(k, SHORT) /\ ~fits(k, LONG) <=> sent[k].jitter \in {-3, 3}
    <3>1. sent[k].jitter \in -2..2 <=> ~(sent[k].jitter \in {-3, 3})
      BY <1>2
    <3>2. sent[k].bit = 0 \/ sent[k].bit = 1
      BY <1>2 DEF Bit
    <3> QED BY <1>4, <3>1, <3>2
  <2> QED BY <1>2, <1>3, <2>1
<1>6. ASSUME NEW k \in 1..n, sent[k].jitter \in -2..2 PROVE bits[k] = sent[k].bit
  <2>1. sent[k].bit = 0 \/ sent[k].bit = 1
    BY <1>2 DEF Bit
  <2>2. CASE sent[k].bit = 0
    BY <1>3, <1>4, <1>6, <2>2
  <2>3. CASE sent[k].bit = 1
    BY <1>3, <1>4, <1>6, <2>3
  <2> QED BY <2>1, <2>2, <2>3
<1>7. Len(bits) = n
  BY <1>2, <1>3
<1>8. DecodePwm(air, SHORT, LONG) = [bits |-> bits, invalid_pulses |-> Cardinality(invalid)]
  BY DEF DecodePwm, fits, w, pulse
<1> HIDE DEF bits, invalid
<1> QED BY <1>2, <1>5, <1>6, <1>7, <1>8 DEF n

(* Twice the centre of a pulse, folded into the period of 16.              *)
LEMMA CentreTells ==
  ASSUME NEW bit \in Bit, NEW k \in Nat \ {0}, NEW f \in Nat, NEW l \in Nat,
         InItsHalf(bit, k, f, l)
  PROVE  (IF (f - 1 + l) % 16 < 8 THEN 1 ELSE 0) = bit
<1> DEFINE r == (f - 1 + l) - 16 * (k - 1)
<1>1. /\ bit \in {0, 1} /\ r \in 0..15 /\ (bit = 1 => r < 8) /\ (bit = 0 => ~(r < 8))
  BY DEF Bit, InItsHalf
<1>2. (f - 1 + l) = r + 16 * (k - 1) /\ k - 1 \in Int
  BY <1>1
<1> HIDE DEF r
<1>3. (r + 16 * (k - 1)) % 16 = r
  BY <1>1, <1>2
<1> QED BY <1>1, <1>2, <1>3

LEMMA PpmIsRead == PulsesInv => PpmReads
<1> SUFFICES ASSUME PulsesInv, code = "ppm", air # << >>
             PROVE  LET got == DecodePpm(air, HALF)
                    IN /\ Len(got) = Len(sent) - Cardinality(Touching)
                       /\ Touching = {} => \A k \in DOMAIN sent : got[k] = sent[k].bit
  BY DEF PpmReads
<1>1. /\ air \in Seq(Bit) /\ BothLevels(air) /\ sent \in PpmSent
      /\ Cardinality(Firsts(air)) = Len(sent) - Cardinality(Touching)
      /\ (Touching = {} => PpmRuns(air, sent))
  BY DEF PulsesInv, PulseCodes
<1> DEFINE n == Len(sent)
           N == Cardinality(Firsts(air))
           pulse == Pulses(air)
           centre2(k) == pulse[k][1] - 1 + pulse[k][2]
           got == [k \in DOMAIN pulse |-> IF centre2(k) % (4 * HALF) < 2 * HALF THEN 1 ELSE 0]
<1>2. /\ n \in Nat /\ DOMAIN sent = 1..n /\ \A k \in 1..n : sent[k].bit \in Bit
  <2>1. \A k \in 1..Len(sent) : sent[k] \in [bit : Bit, first : BOOLEAN, last : BOOLEAN]
    BY <1>1, ElementOfSeq DEF PpmSent
  <2>2. Len(sent) \in Nat /\ DOMAIN sent = 1..Len(sent)
    BY <1>1 DEF PpmSent
  <2> QED BY <2>1, <2>2
<1>3. N \in Nat
  <2>1. Firsts(air) \in SUBSET (1..Len(air)) /\ Len(air) \in Int
    BY <1>1 DEF Firsts
  <2>2. IsFiniteSet(1..Len(air))
    BY <2>1, FS_Interval
  <2>3. IsFiniteSet(Firsts(air))
    BY <2>1, <2>2, FS_Subset
  <2> QED BY <2>3, FS_CardinalityType
<1>4. DOMAIN pulse = 1..N
  BY <1>1, PulsesShown
<1>5. Len(got) = Len(sent) - Cardinality(Touching)
  <2> HIDE DEF pulse, centre2
  <2>1. Len(got) = N
    <3> HIDE DEF N
    <3> QED BY <1>3, <1>4
  <2> QED BY <1>1, <2>1
<1>6. ASSUME Touching = {}, NEW k \in 1..n PROVE got[k] = sent[k].bit
  <2>1. PICK first, last :
          /\ RunsAre(air, n, first, last)
          /\ \A i \in 1..n : InItsHalf(sent[i].bit, i, first[i], last[i])
    BY <1>1, <1>6 DEF PpmRuns
  <2>2. pulse = [i \in 1..n |-> <<first[i], last[i]>>]
    BY <1>1, <1>2, <2>1, PulsesShown
  <2>3. first[k] \in Nat /\ last[k] \in Nat /\ k \in Nat \ {0}
    BY <2>1 DEF RunsAre
  <2> HIDE DEF pulse, n
  <2>4. k \in DOMAIN pulse /\ centre2(k) = first[k] - 1 + last[k]
    BY <2>2
  <2> HIDE DEF centre2
  <2>5. 4 * HALF = 16 /\ 2 * HALF = 8
    BY DEF HALF
  <2>6. (IF (first[k] - 1 + last[k]) % 16 < 8 THEN 1 ELSE 0) = sent[k].bit
    BY <1>2, <2>1, <2>3, CentreTells
  <2> QED BY <2>4, <2>5, <2>6
<1>7. got = DecodePpm(air, HALF)
  BY DEF DecodePpm
<1> HIDE DEF got
<1> QED BY <1>2, <1>5, <1>6, <1>7

(* Whatever is keyed in PWM or PPM, for recordings of any length with any  *)
(* number of pulses off their width or their place, the decoder finds the  *)
(* runs that were keyed, reads each pulse within the tolerance right and   *)
(* counts the others; two pulses of PPM that touch cost one bit            *)
(* (hw/analysis.py:690-798).                                               *)
THEOREM PulsesAreRead == Spec => []PulseCodesRead
<1>1. PulsesInv => PulseCodesRead
  BY PwmIsRead, PpmIsRead DEF PulseCodesRead
<1> QED BY <1>1, PulsesBegin, PulsesStep, PTL DEF Spec
-----------------------------------------------------------------------------
(* Every set of natural numbers has a least one; what holds of N, and of m *)
(* if of m + 1, holds down to 1.                                           *)
LEMMA LessIs == OpToRel(<, Nat) = {p \in Nat \X Nat : p[1] < p[2]}
  BY DEF OpToRel

LEMMA Least ==
  ASSUME NEW T \in SUBSET Nat, T # {}
  PROVE  \E m \in T : \A k \in T : m <= k
<1> DEFINE R == {p \in Nat \X Nat : p[1] < p[2]}
<1>1. IsWellFoundedOn(R, Nat)
  BY NatLessThanWellFounded, LessIs
<1>2. \E x \in T : \A y \in T : ~(<<y, x>> \in R)
  <2> HIDE DEF R
  <2> QED BY <1>1, WFMin
<1>3. \A x, y \in Nat : y < x => <<y, x>> \in R
  OBVIOUS
<1> HIDE DEF R
<1>4. \A x, y \in Nat : ~(y < x) => x <= y
  OBVIOUS
<1> QED BY <1>2, <1>3, <1>4

LEMMA Downwards ==
  ASSUME NEW N \in Nat \ {0}, NEW S, N \in S, \A m \in 1..N - 1 : m + 1 \in S => m \in S
  PROVE  \A m \in 1..N : m \in S
<1> DEFINE T == {k \in 0..N - 1 : N - k \notin S}
<1> SUFFICES ASSUME T # {} PROVE FALSE
  <2> SUFFICES ASSUME NEW m \in 1..N, m \notin S PROVE T # {}
    OBVIOUS
  <2>1. N - m \in 0..N - 1 /\ N - (N - m) = m
    OBVIOUS
  <2>2. N - m \in T
    BY <2>1
  <2> QED BY <2>2
<1>1. T \in SUBSET Nat
  OBVIOUS
<1>2. PICK k \in T : \A j \in T : k <= j
  <2> HIDE DEF T
  <2> QED BY <1>1, Least
<1>3. k # 0
  OBVIOUS
<1>4. k - 1 \in 0..N - 1 /\ ~(k <= k - 1) /\ N - k \in 1..N - 1 /\ N - (k - 1) = (N - k) + 1
  BY <1>3
<1>5. N - (k - 1) \in S
  BY <1>2, <1>4
<1> QED BY <1>4, <1>5
-----------------------------------------------------------------------------
LEMMA Horner ==
  ASSUME NEW a \in Int, NEW b \in Int, NEW c \in Int, NEW d \in Int, NEW e \in Int
  PROVE  /\ 2 * (2 * (2 * (2 * a + b) + c) + d) + e = 16 * a + 8 * b + 4 * c + 2 * d + e
         /\ 16 * a + 8 * b + 4 * c + 2 * d + e \in Int
  OBVIOUS

(* The value of five bits.                                                 *)
LEMMA MsbOfFive ==
  ASSUME NEW v \in Seq(Int), Len(v) = 5
  PROVE  Msb(v) = 16 * v[1] + 8 * v[2] + 4 * v[3] + 2 * v[4] + v[5]
<1> DEFINE Body(s) == [i \in 0..5 |-> IF i = 0 THEN 0 ELSE 2 * s[i - 1] + v[i]]
           value == CHOOSE s : s = Body(s)
           x1 == v[1]
           x2 == 2 * x1 + v[2]
           x3 == 2 * x2 + v[3]
           x4 == 2 * x3 + v[4]
           x5 == 2 * x4 + v[5]
           w == [i \in 0..5 |-> CASE i = 0 -> 0 [] i = 1 -> x1 [] i = 2 -> x2 [] i = 3 -> x3
                                  [] i = 4 -> x4 [] i = 5 -> x5]
<1>1. v[1] \in Int /\ v[2] \in Int /\ v[3] \in Int /\ v[4] \in Int /\ v[5] \in Int
  OBVIOUS
<1>2. w = Body(w)
  <2>1. /\ w[0] = 0 /\ w[1] = x1 /\ w[2] = x2 /\ w[3] = x3 /\ w[4] = x4 /\ w[5] = x5
        /\ DOMAIN w = 0..5
    OBVIOUS
  <2>2. /\ x1 = 2 * 0 + v[1] /\ x2 = 2 * x1 + v[2] /\ x3 = 2 * x2 + v[3]
        /\ x4 = 2 * x3 + v[4] /\ x5 = 2 * x4 + v[5]
    BY <1>1
  <2> HIDE DEF x1, x2, x3, x4, x5
  <2>3. ASSUME NEW i \in 0..5 PROVE w[i] = IF i = 0 THEN 0 ELSE 2 * w[i - 1] + v[i]
    <3> HIDE DEF w
    <3>1. i = 0 \/ i = 1 \/ i = 2 \/ i = 3 \/ i = 4 \/ i = 5
      OBVIOUS
    <3> QED BY <2>1, <2>2, <3>1
  <2> QED BY <2>3
<1> HIDE DEF w
<1>3. value = Body(value)
  BY <1>2
<1> HIDE DEF value
<1>4. \A i \in 0..5 : value[i] = IF i = 0 THEN 0 ELSE 2 * value[i - 1] + v[i]
  <2> DEFINE b(i) == IF i = 0 THEN 0 ELSE 2 * value[i - 1] + v[i]
  <2>1. value = [i \in 0..5 |-> b(i)]
    BY <1>3
  <2> HIDE DEF b
  <2>2. \A i \in 0..5 : value[i] = b(i)
    BY <2>1
  <2> QED BY <2>2 DEF b
<1>5. /\ value[0] = 0 /\ value[1] = 2 * value[0] + v[1] /\ value[2] = 2 * value[1] + v[2]
      /\ value[3] = 2 * value[2] + v[3] /\ value[4] = 2 * value[3] + v[4]
      /\ value[5] = 2 * value[4] + v[5]
  BY <1>4
<1>6. value[5] = x5
  <2>1. value[1] = x1
    BY <1>1, <1>5
  <2> QED BY <1>5, <2>1
<1>8. x5 = 16 * v[1] + 8 * v[2] + 4 * v[3] + 2 * v[4] + v[5]
  <2> DEFINE a == v[1]
             b == v[2]
             c == v[3]
             d == v[4]
             e == v[5]
  <2>1. a \in Int /\ b \in Int /\ c \in Int /\ d \in Int /\ e \in Int
    BY <1>1
  <2>2. x5 = 2 * (2 * (2 * (2 * a + b) + c) + d) + e
    OBVIOUS
  <2> HIDE DEF a, b, c, d, e, x5
  <2>3. x5 = 16 * a + 8 * b + 4 * c + 2 * d + e
    BY <2>1, <2>2, Horner
  <2> QED BY <2>3 DEF a, b, c, d, e
<1>7. Msb(v) = value[5]
  BY DEF Msb, value
<1> QED BY <1>6, <1>7, <1>8

LEMMA CodeIs ==
  ASSUME NEW bits \in Seq(Bit), NEW i \in Nat \ {0}, i + 6 <= Len(bits)
  PROVE  /\ CodeAt(bits, i) = 16 * bits[i + 5] + 8 * bits[i + 4] + 4 * bits[i + 3]
                                + 2 * bits[i + 2] + bits[i + 1]
         /\ CodeAt(bits, i) \in Int
<1> DEFINE s == SubSeq(bits, i + 1, i + 5)
           v == Reverse(s)
<1>1. /\ s \in Seq(Bit) /\ Len(s) = 5
      /\ s[1] = bits[i + 1] /\ s[2] = bits[i + 2] /\ s[3] = bits[i + 3]
      /\ s[4] = bits[i + 4] /\ s[5] = bits[i + 5]
  <2>1. \A j \in i + 1..i + 5 : bits[j] \in Bit
    BY ElementOfSeq
  <2>2. Len(s) = 5 /\ \A j \in 1..5 : s[j] = bits[(i + 1) + j - 1]
    BY SubSeqProperties
  <2>3. s \in Seq(Bit)
    BY <2>1, SubSeqProperties
  <2>4. /\ (i + 1) + 1 - 1 = i + 1 /\ (i + 1) + 2 - 1 = i + 2 /\ (i + 1) + 3 - 1 = i + 3
        /\ (i + 1) + 4 - 1 = i + 4 /\ (i + 1) + 5 - 1 = i + 5
    OBVIOUS
  <2> HIDE DEF s
  <2> QED BY <2>2, <2>3, <2>4
<1> HIDE DEF s
<1>2. /\ v \in Seq(Int) /\ Len(v) = 5
      /\ v[1] = s[5] /\ v[2] = s[4] /\ v[3] = s[3] /\ v[4] = s[2] /\ v[5] = s[1]
  <2>1. \A j \in 1..5 : s[j] \in Int
    BY <1>1, ElementOfSeq DEF Bit
  <2>2. v = [j \in 1..5 |-> s[(5 - j) + 1]]
    BY <1>1 DEF Reverse
  <2>3. \A j \in 1..5 : (5 - j) + 1 \in 1..5
    OBVIOUS
  <2> HIDE DEF v
  <2>4. Len(v) = 5 /\ v \in Seq(Int)
    BY <2>1, <2>2, <2>3
  <2> QED BY <2>2, <2>4
<1>3. CodeAt(bits, i) = Msb(v)
  BY DEF CodeAt, Lsb, v, s
<1> HIDE DEF v
<1>4. v[1] \in Int /\ v[2] \in Int /\ v[3] \in Int /\ v[4] \in Int /\ v[5] \in Int
  <2>1. \A j \in 1..Len(v) : v[j] \in Int
    BY <1>2, ElementOfSeq
  <2>2. 1 \in 1..5 /\ 2 \in 1..5 /\ 3 \in 1..5 /\ 4 \in 1..5 /\ 5 \in 1..5
    OBVIOUS
  <2> QED BY <1>2, <2>1, <2>2
<1>5. Msb(v) = 16 * v[1] + 8 * v[2] + 4 * v[3] + 2 * v[4] + v[5]
  BY <1>2, MsbOfFive
<1>6. CodeAt(bits, i) = 16 * v[1] + 8 * v[2] + 4 * v[3] + 2 * v[4] + v[5]
  BY <1>3, <1>5
<1>7. CodeAt(bits, i) \in Int
  <2> DEFINE a == v[1]
             b == v[2]
             c == v[3]
             d == v[4]
             e == v[5]
  <2>1. a \in Int /\ b \in Int /\ c \in Int /\ d \in Int /\ e \in Int
    BY <1>4
  <2>2. CodeAt(bits, i) = 16 * a + 8 * b + 4 * c + 2 * d + e
    BY <1>6
  <2> HIDE DEF a, b, c, d, e
  <2> QED BY <2>1, <2>2, Horner
<1> QED BY <1>1, <1>2, <1>6, <1>7

(* The equation that the search for frames satisfies at place i.           *)
FrameBody(bits, f, i) ==
  IF i > Len(bits) THEN << >>
  ELSE IF bits[i] # 0 THEN f[i + 1]
  ELSE IF i + 6 > Len(bits) THEN << >>
  ELSE IF bits[i + 6] # 1 THEN <<NoFrame>> \o f[i + 1]
  ELSE <<CodeAt(bits, i)>> \o f[i + 7]

IsFrames(bits, f) ==
  /\ f \in [1..Len(bits) + 7 -> Seq(Int)]
  /\ \A i \in 1..Len(bits) + 7 : f[i] = FrameBody(bits, f, i)

LEMMA FrameBodyType ==
  ASSUME NEW bits \in Seq(Bit), NEW f \in [1..Len(bits) + 7 -> Seq(Int)],
         NEW i \in 1..Len(bits) + 7
  PROVE  FrameBody(bits, f, i) \in Seq(Int)
<1>1. CASE i > Len(bits)
  BY <1>1 DEF FrameBody
<1>2. CASE i <= Len(bits)
  <2>1. f[i + 1] \in Seq(Int) /\ f[i + 7] \in Seq(Int) /\ i \in Nat \ {0}
    <3>1. /\ Len(bits) \in Nat /\ i \in Nat \ {0}
          /\ i + 1 \in 1..Len(bits) + 7 /\ i + 7 \in 1..Len(bits) + 7
      BY <1>2
    <3> QED BY <3>1
  <2>2. <<NoFrame>> \in Seq(Int)
    BY DEF NoFrame
  <2>3. i + 6 <= Len(bits) => <<CodeAt(bits, i)>> \in Seq(Int)
    BY <2>1, CodeIs
  <2>4. \A s, t \in Seq(Int) : s \o t \in Seq(Int)
    BY ConcatProperties
  <2>5. <<NoFrame>> \o f[i + 1] \in Seq(Int)
    BY <2>1, <2>2, <2>4
  <2>6. i + 6 <= Len(bits) => <<CodeAt(bits, i)>> \o f[i + 7] \in Seq(Int)
    BY <2>1, <2>3, <2>4
  <2>7. << >> \in Seq(Int)
    OBVIOUS
  <2>8. i + 6 > Len(bits) \/ i + 6 <= Len(bits)
    OBVIOUS
  <2> QED BY <2>1, <2>5, <2>6, <2>7, <2>8 DEF FrameBody
<1> QED BY <1>1, <1>2

LEMMA FramesExist ==
  ASSUME NEW bits \in Seq(Bit)
  PROVE  \E f : IsFrames(bits, f) /\ FramesFrom(bits) = f[1]
<1> DEFINE n == Len(bits)
           N == n + 7
           Upto(m, f) == \A i \in m..N : f[i] = FrameBody(bits, f, i)
           S == {m \in 1..N : \E f \in [1..N -> Seq(Int)] : Upto(m, f)}
<1>1. n \in Nat /\ N \in Nat \ {0}
  OBVIOUS
<1>2. N \in S
  <2> DEFINE f == [i \in 1..N |-> << >>]
  <2>1. f \in [1..N -> Seq(Int)]
    OBVIOUS
  <2>2. ASSUME NEW i \in N..N PROVE f[i] = FrameBody(bits, f, i)
    BY <2>2, <1>1 DEF FrameBody
  <2> HIDE DEF f
  <2>3. Upto(N, f)
    BY <2>2
  <2> HIDE DEF N, Upto
  <2>4. N \in 1..N
    BY <1>1
  <2> QED BY <2>1, <2>3, <2>4
<1>3. ASSUME NEW m \in 1..N - 1, m + 1 \in S PROVE m \in S
  <2>1. PICK f \in [1..N -> Seq(Int)] : Upto(m + 1, f)
    BY <1>3
  <2> DEFINE g == [i \in 1..N |-> IF i = m THEN FrameBody(bits, f, m) ELSE f[i]]
  <2>2. g \in [1..N -> Seq(Int)]
    <3>1. FrameBody(bits, f, m) \in Seq(Int)
      BY FrameBodyType
    <3> HIDE DEF N
    <3> QED BY <3>1
  <2>3. \A i \in 1..N : g[i] = IF i = m THEN FrameBody(bits, f, m) ELSE f[i]
    OBVIOUS
  <2> HIDE DEF g
  <2>4. ASSUME NEW i \in m..N PROVE FrameBody(bits, g, i) = FrameBody(bits, f, i)
    <3>1. CASE i > n
      BY <3>1 DEF FrameBody
    <3>2. CASE i <= n
      <4>1. i + 1 \in 1..N /\ i + 1 # m /\ i + 7 \in 1..N /\ i + 7 # m
        BY <1>1, <3>2
      <4>2. g[i + 1] = f[i + 1] /\ g[i + 7] = f[i + 7]
        BY <2>3, <4>1
      <4> QED BY <4>2 DEF FrameBody
    <3> QED BY <1>1, <3>1, <3>2
  <2>5. ASSUME NEW i \in m..N PROVE g[i] = FrameBody(bits, g, i)
    <3>1. CASE i = m
      BY <2>3, <2>4, <3>1
    <3>2. CASE i # m
      <4>1. i \in m + 1..N /\ i \in 1..N
        BY <1>1, <3>2
      <4> QED BY <2>1, <2>3, <2>4, <3>2, <4>1
    <3> QED BY <3>1, <3>2
  <2> QED BY <2>2, <2>5
<1>4. 1 \in S
  <2> HIDE DEF S, N
  <2>1. \A m \in 1..N : m \in S
    BY <1>1, <1>2, <1>3, Downwards
  <2> QED BY <1>1, <2>1
<1>5. PICK f \in [1..N -> Seq(Int)] : Upto(1, f)
  BY <1>4
<1> DEFINE Body(g) == [i \in 1..N |-> FrameBody(bits, g, i)]
           from == CHOOSE g : g = Body(g)
<1>6. f = Body(f)
  BY <1>5
<1>7. from = Body(from)
  <2> HIDE DEF Body
  <2> QED BY <1>6
<1>8. FramesFrom(bits) = from[1]
  BY DEF FramesFrom, FrameBody
<1> HIDE DEF from
<1>9. \A i \in 1..N : from[i] = FrameBody(bits, from, i)
  <2> DEFINE b(i) == FrameBody(bits, from, i)
  <2>1. from = [i \in 1..N |-> b(i)]
    BY <1>7
  <2> HIDE DEF b, N
  <2>2. \A i \in 1..N : from[i] = b(i)
    BY <2>1
  <2> QED BY <2>2 DEF b
<1>10. \A i \in 1..N : from[i] \in Seq(Int)
  <2> DEFINE W == {m \in 1..N : \A i \in m..N : from[i] = f[i]}
  <2>1. N \in W
    <3>1. ASSUME NEW i \in N..N PROVE from[i] = f[i]
      <4>1. i > n /\ i \in 1..N
        BY <1>1
      <4>2. FrameBody(bits, f, i) = FrameBody(bits, from, i)
        BY <4>1 DEF FrameBody
      <4> QED BY <1>5, <1>9, <4>1, <4>2
    <3> QED BY <1>1, <3>1
  <2>2. ASSUME NEW m \in 1..N - 1, m + 1 \in W PROVE m \in W
    <3>1. FrameBody(bits, from, m) = FrameBody(bits, f, m)
      <4>1. CASE m > n
        BY <4>1 DEF FrameBody
      <4>2. CASE m <= n
        <5>1. m + 1 \in m + 1..N /\ m + 7 \in m + 1..N
          BY <1>1, <4>2
        <5>2. from[m + 1] = f[m + 1] /\ from[m + 7] = f[m + 7]
          BY <2>2, <5>1
        <5> QED BY <5>2 DEF FrameBody
      <4> QED BY <1>1, <4>1, <4>2
    <3>2. from[m] = f[m]
      BY <1>5, <1>9, <3>1
    <3>3. ASSUME NEW i \in m..N PROVE from[i] = f[i]
      <4>1. i = m \/ i \in m + 1..N
        BY <1>1
      <4> QED BY <2>2, <3>2, <4>1
    <3> QED BY <3>3
  <2>3. \A m \in 1..N : m \in W
    <3> HIDE DEF W, N
    <3> QED BY <1>1, <2>1, <2>2, Downwards
  <2>4. \A i \in 1..N : from[i] = f[i]
    BY <1>1, <2>3
  <2> QED BY <1>5, <2>4
<1>11. from \in [1..N -> Seq(Int)]
  <2> HIDE DEF N
  <2>1. DOMAIN from = 1..N /\ from = [i \in 1..N |-> from[i]]
    BY <1>7
  <2> QED BY <1>10, <2>1
<1>12. IsFrames(bits, from)
  BY <1>9, <1>11 DEF IsFrames
<1> QED BY <1>8, <1>12
-----------------------------------------------------------------------------
Glyphs == {Glyph(c, shift) : c \in Int, shift \in ShiftCodes}
Texts == [ShiftCodes -> Seq(Glyphs)]

(* The equation that the text satisfies from frame k on.                   *)
TextBody(frames, t, k, shift) ==
  IF k > Len(frames) THEN << >>
  ELSE IF frames[k] \in ShiftCodes THEN t[k + 1][frames[k]]
  ELSE IF frames[k] \in {NoFrame, 0} THEN t[k + 1][shift]
  ELSE <<Glyph(frames[k], shift)>> \o t[k + 1][shift]

IsText(frames, t) ==
  /\ t \in [1..Len(frames) + 1 -> Texts]
  /\ \A k \in 1..Len(frames) + 1 : \A shift \in ShiftCodes :
       t[k][shift] = TextBody(frames, t, k, shift)

LEMMA TextBodyType ==
  ASSUME NEW frames \in Seq(Int), NEW t \in [1..Len(frames) + 1 -> Texts],
         NEW k \in 1..Len(frames) + 1, NEW shift \in ShiftCodes
  PROVE  TextBody(frames, t, k, shift) \in Seq(Glyphs)
<1>1. CASE k > Len(frames)
  BY <1>1 DEF TextBody
<1>2. CASE k <= Len(frames)
  <2>1. k + 1 \in 1..Len(frames) + 1 /\ k \in 1..Len(frames)
    BY <1>2
  <2>2. frames[k] \in Int
    BY <2>1, ElementOfSeq
  <2>3. t[k + 1] \in Texts
    BY <2>1
  <2>4. \A s \in ShiftCodes : t[k + 1][s] \in Seq(Glyphs)
    BY <2>3 DEF Texts
  <2>5. Glyph(frames[k], shift) \in Glyphs
    BY <2>2 DEF Glyphs
  <2>6. <<Glyph(frames[k], shift)>> \o t[k + 1][shift] \in Seq(Glyphs)
    <3> DEFINE x == Glyph(frames[k], shift)
               y == t[k + 1][shift]
    <3>1. x \in Glyphs /\ y \in Seq(Glyphs)
      BY <2>4, <2>5
    <3> HIDE DEF x, y
    <3>2. <<x>> \in Seq(Glyphs)
      BY <3>1
    <3>3. <<x>> \o y \in Seq(Glyphs)
      BY <3>1, <3>2, ConcatProperties
    <3> QED BY <3>3 DEF x, y
  <2> QED BY <1>2, <2>4, <2>6 DEF TextBody
<1> QED BY <1>1, <1>2

LEMMA TextExists ==
  ASSUME NEW frames \in Seq(Int)
  PROVE  \E t : IsText(frames, t) /\ TextOf(frames) = t[1][LTRS]
<1> DEFINE n == Len(frames)
           N == n + 1
           Upto(m, t) == \A i \in m..N : \A shift \in ShiftCodes :
                           t[i][shift] = TextBody(frames, t, i, shift)
           S == {m \in 1..N : \E t \in [1..N -> Texts] : Upto(m, t)}
<1>1. n \in Nat /\ N \in Nat \ {0}
  OBVIOUS
<1>2. N \in S
  <2> DEFINE t == [i \in 1..N |-> [shift \in ShiftCodes |-> << >>]]
  <2>1. t \in [1..N -> Texts]
    BY DEF Texts
  <2>2. ASSUME NEW i \in N..N, NEW shift \in ShiftCodes
        PROVE  t[i][shift] = TextBody(frames, t, i, shift)
    BY <2>2, <1>1 DEF TextBody
  <2> HIDE DEF t
  <2>3. Upto(N, t)
    BY <2>2
  <2> HIDE DEF N, Upto
  <2>4. N \in 1..N
    BY <1>1
  <2> QED BY <2>1, <2>3, <2>4
<1>3. ASSUME NEW m \in 1..N - 1, m + 1 \in S PROVE m \in S
  <2>1. PICK t \in [1..N -> Texts] : Upto(m + 1, t)
    BY <1>3
  <2> DEFINE last == [shift \in ShiftCodes |-> TextBody(frames, t, m, shift)]
             g == [i \in 1..N |-> IF i = m THEN last ELSE t[i]]
  <2>2. last \in Texts
    <3>1. \A shift \in ShiftCodes : TextBody(frames, t, m, shift) \in Seq(Glyphs)
      <4>1. m \in 1..Len(frames) + 1
        BY <1>1
      <4> QED BY <4>1, TextBodyType
    <3> QED BY <3>1 DEF Texts
  <2>3. \A shift \in ShiftCodes : last[shift] = TextBody(frames, t, m, shift)
    OBVIOUS
  <2> HIDE DEF last
  <2>4. g \in [1..N -> Texts] /\ \A i \in 1..N : g[i] = IF i = m THEN last ELSE t[i]
    <3> HIDE DEF N
    <3> QED BY <2>2
  <2> HIDE DEF g
  <2>5. ASSUME NEW i \in m..N, NEW shift \in ShiftCodes
        PROVE  TextBody(frames, g, i, shift) = TextBody(frames, t, i, shift)
    <3>1. CASE i > n
      BY <3>1 DEF TextBody
    <3>2. CASE i <= n
      <4>1. i + 1 \in 1..N /\ i + 1 # m
        BY <1>1, <3>2
      <4>2. g[i + 1] = t[i + 1]
        BY <2>4, <4>1
      <4> QED BY <4>2 DEF TextBody
    <3> QED BY <1>1, <3>1, <3>2
  <2>6. ASSUME NEW i \in m..N, NEW shift \in ShiftCodes
        PROVE  g[i][shift] = TextBody(frames, g, i, shift)
    <3>1. CASE i = m
      BY <2>3, <2>4, <2>5, <3>1
    <3>2. CASE i # m
      <4>1. i \in m + 1..N /\ i \in 1..N
        BY <1>1, <3>2
      <4> QED BY <2>1, <2>4, <2>5, <3>2, <4>1
    <3> QED BY <3>1, <3>2
  <2>7. Upto(m, g)
    BY <2>6
  <2> HIDE DEF Upto
  <2> QED BY <2>4, <2>7
<1>4. 1 \in S
  <2> HIDE DEF S, N
  <2>1. \A m \in 1..N : m \in S
    BY <1>1, <1>2, <1>3, Downwards
  <2> QED BY <1>1, <2>1
<1>5. PICK t \in [1..N -> Texts] : Upto(1, t)
  BY <1>4
<1> DEFINE Row(g, k) == [shift \in ShiftCodes |-> TextBody(frames, g, k, shift)]
           Body(g) == [k \in 1..N |-> Row(g, k)]
           text == CHOOSE g : g = Body(g)
<1>6. t = Body(t)
  <2>1. ASSUME NEW k \in 1..N PROVE t[k] = Row(t, k)
    <3>1. t[k] \in Texts
      OBVIOUS
    <3> QED BY <1>5, <3>1 DEF Texts
  <2> HIDE DEF Row
  <2> QED BY <2>1
<1>7. text = Body(text)
  <2> HIDE DEF Body
  <2> QED BY <1>6
<1>8. TextOf(frames) = text[1][LTRS]
  BY DEF TextOf, TextBody
<1> HIDE DEF text
<1>9. \A k \in 1..N : text[k] = Row(text, k)
  <2> DEFINE b(k) == Row(text, k)
  <2>1. text = [k \in 1..N |-> b(k)]
    BY <1>7
  <2> HIDE DEF b, N
  <2>2. \A k \in 1..N : text[k] = b(k)
    BY <2>1
  <2> QED BY <2>2 DEF b
<1>10. \A k \in 1..N : text[k] \in Texts
  <2> DEFINE W == {m \in 1..N : \A i \in m..N : text[i] = t[i]}
  <2>1. \A k \in 1..N : t[k] = Row(t, k)
    <3> DEFINE b(k) == Row(t, k)
    <3>1. t = [k \in 1..N |-> b(k)]
      BY <1>6
    <3> HIDE DEF b, N
    <3>2. \A k \in 1..N : t[k] = b(k)
      BY <3>1
    <3> QED BY <3>2 DEF b
  <2>2. N \in W
    <3>1. ASSUME NEW i \in N..N PROVE text[i] = t[i]
      <4>1. i > n /\ i \in 1..N
        BY <1>1
      <4>2. \A shift \in ShiftCodes :
              TextBody(frames, t, i, shift) = TextBody(frames, text, i, shift)
        BY <4>1 DEF TextBody
      <4>3. Row(text, i) = Row(t, i)
        BY <4>2
      <4> QED BY <1>9, <2>1, <4>1, <4>3
    <3> QED BY <1>1, <3>1
  <2>3. ASSUME NEW m \in 1..N - 1, m + 1 \in W PROVE m \in W
    <3>1. Row(text, m) = Row(t, m)
      <4>1. m + 1 \in m + 1..N
        BY <1>1
      <4>2. text[m + 1] = t[m + 1]
        BY <2>3, <4>1
      <4>3. \A shift \in ShiftCodes :
              TextBody(frames, t, m, shift) = TextBody(frames, text, m, shift)
        BY <4>2 DEF TextBody
      <4> QED BY <4>3
    <3>2. text[m] = t[m]
      BY <1>9, <2>1, <3>1
    <3>3. ASSUME NEW i \in m..N PROVE text[i] = t[i]
      <4>1. i = m \/ i \in m + 1..N
        BY <1>1
      <4> QED BY <2>3, <3>2, <4>1
    <3> QED BY <3>3
  <2>4. \A m \in 1..N : m \in W
    <3> HIDE DEF W, N
    <3> QED BY <1>1, <2>2, <2>3, Downwards
  <2>5. \A i \in 1..N : text[i] = t[i]
    BY <1>1, <2>4
  <2> QED BY <1>5, <2>5
<1>11. text \in [1..N -> Texts]
  <2> HIDE DEF N, Row
  <2>1. DOMAIN text = 1..N /\ text = [i \in 1..N |-> text[i]]
    BY <1>7
  <2> QED BY <1>10, <2>1
<1>12. \A k \in 1..N : \A shift \in ShiftCodes : text[k][shift] = TextBody(frames, text, k, shift)
  BY <1>9
<1>13. IsText(frames, text)
  BY <1>11, <1>12 DEF IsText
<1> QED BY <1>8, <1>13
-----------------------------------------------------------------------------
(* The frames found from p on end with the frames found from q on.         *)
LeadsTo(f, p, q) == \E pre \in Seq(Int) : f[p] = pre \o f[q]

LEMMA LeadsBack ==
  ASSUME NEW f, NEW p, NEW q, NEW r, NEW x \in Seq(Int), f[p] = x \o f[q], LeadsTo(f, q, r),
         f[r] \in Seq(Int)
  PROVE  LeadsTo(f, p, r)
<1>1. PICK pre \in Seq(Int) : f[q] = pre \o f[r]
  BY DEF LeadsTo
<1> DEFINE z == f[r]
<1>2. f[p] = (x \o pre) \o z
  <2>1. z \in Seq(Int) /\ pre \in Seq(Int) /\ x \in Seq(Int)
    BY <1>1
  <2>2. f[p] = x \o (pre \o z)
    BY <1>1
  <2> HIDE DEF z
  <2>3. (x \o pre) \o z = x \o (pre \o z)
    BY <2>1, ConcatAssociative
  <2> QED BY <2>2, <2>3
<1>3. x \o pre \in Seq(Int)
  BY ConcatProperties
<1> QED BY <1>2, <1>3 DEF LeadsTo

LEMMA LeadsItself ==
  ASSUME NEW f, NEW p, f[p] \in Seq(Int)
  PROVE  LeadsTo(f, p, p)
<1>1. << >> \in Seq(Int) /\ << >> \o f[p] = f[p]
  BY ConcatEmptySeq
<1> QED BY <1>1 DEF LeadsTo

(* Marks are passed over.                                                  *)
LEMMA MarksArePassed ==
  ASSUME NEW bits \in Seq(Bit), NEW f, IsFrames(bits, f),
         NEW p \in Nat \ {0}, NEW q \in p..Len(bits) + 1,
         \A i \in p..q - 1 : bits[i] = 1
  PROVE  f[p] = f[q]
<1> DEFINE S == {m \in 1..q : m >= p => f[m] = f[q]}
<1>1. q \in Nat \ {0} /\ Len(bits) \in Nat
  OBVIOUS
<1>2. q \in S
  BY <1>1
<1>3. ASSUME NEW m \in 1..q - 1, m + 1 \in S PROVE m \in S
  <2>1. m \in 1..q
    BY <1>1
  <2>2. ASSUME m >= p PROVE f[m] = f[q]
    <3>1. m \in p..q - 1 /\ m <= Len(bits) /\ m \in 1..Len(bits) + 7
      BY <1>1, <2>2
    <3>2. f[m] = f[m + 1]
      <4>1. f[m] = FrameBody(bits, f, m)
        BY <3>1 DEF IsFrames
      <4>2. bits[m] # 0 /\ ~(m > Len(bits))
        BY <3>1
      <4> QED BY <4>1, <4>2 DEF FrameBody
    <3>3. f[m + 1] = f[q]
      BY <1>3, <2>2
    <3> QED BY <3>2, <3>3
  <2> QED BY <2>1, <2>2
<1>4. \A m \in 1..q : m \in S
  <2> HIDE DEF S
  <2> QED BY <1>1, <1>2, <1>3, Downwards
<1>5. p \in 1..q
  OBVIOUS
<1> QED BY <1>4, <1>5

(* Six marks stop any search that is out of step: no frame that begins     *)
(* before them reaches beyond the first symbol after them.                 *)
LEMMA SixMarksCatch ==
  ASSUME NEW bits \in Seq(Bit), NEW f, IsFrames(bits, f),
         NEW q \in 7..Len(bits) + 1, \A i \in q - 6..q - 1 : bits[i] = 1
  PROVE  LeadsTo(f, 1, q)
<1> DEFINE n == Len(bits)
           S == {m \in 1..q : \A i \in m..q : LeadsTo(f, i, q)}
<1>1. q \in Nat \ {0} /\ n \in Nat /\ q <= n + 1
  OBVIOUS
<1>2. \A i \in 1..n + 7 : f[i] \in Seq(Int) /\ f[i] = FrameBody(bits, f, i)
  BY DEF IsFrames
<1>3. f[q] \in Seq(Int)
  BY <1>1, <1>2
<1>4. q \in S
  <2>1. LeadsTo(f, q, q)
    BY <1>3, LeadsItself
  <2> QED BY <1>1, <2>1
<1>5. ASSUME NEW m \in 1..q - 1, m + 1 \in S PROVE m \in S
  <2>1. /\ m \in 1..n + 7 /\ m <= n /\ m + 1 \in m + 1..q /\ m \in 1..q /\ m \in Nat
        /\ m + 1 \in 1..n + 7
    BY <1>1
  <2>2. LeadsTo(f, m + 1, q) /\ f[m] = FrameBody(bits, f, m) /\ f[m + 1] \in Seq(Int)
    BY <1>2, <1>5, <2>1
  <2>3. LeadsTo(f, m, q)
    <3>1. CASE bits[m] # 0
      <4>1. f[m] = f[m + 1]
        BY <2>1, <2>2, <3>1 DEF FrameBody
      <4> QED BY <2>2, <4>1 DEF LeadsTo
    <3>2. CASE bits[m] = 0
      <4>1. m + 7 \in m + 1..q /\ m + 6 <= n /\ m + 7 \in 1..n + 7
        <5>1. m \notin q - 6..q - 1
          BY <3>2
        <5> QED BY <1>1, <2>1, <5>1
      <4>2. CASE bits[m + 6] # 1
        <5>1. f[m] = <<NoFrame>> \o f[m + 1] /\ <<NoFrame>> \in Seq(Int)
          BY <2>1, <2>2, <3>2, <4>1, <4>2 DEF FrameBody, NoFrame
        <5> QED BY <1>3, <2>2, <5>1, LeadsBack
      <4>3. CASE bits[m + 6] = 1
        <5>1. f[m] = <<CodeAt(bits, m)>> \o f[m + 7]
          BY <2>1, <2>2, <3>2, <4>1, <4>3 DEF FrameBody
        <5>2. <<CodeAt(bits, m)>> \in Seq(Int)
          <6>1. m \in Nat \ {0}
            BY <2>1
          <6>2. CodeAt(bits, m) \in Int
            BY <4>1, <6>1, CodeIs
          <6> QED BY <6>2
        <5>3. LeadsTo(f, m + 7, q)
          BY <1>5, <4>1
        <5> QED BY <1>3, <5>1, <5>2, <5>3, LeadsBack
      <4> QED BY <4>2, <4>3
    <3> QED BY <3>1, <3>2
  <2>4. ASSUME NEW i \in m..q PROVE LeadsTo(f, i, q)
    <3>1. i = m \/ i \in m + 1..q
      BY <2>1
    <3> QED BY <1>5, <2>3, <3>1
  <2> QED BY <2>1, <2>4
<1>6. \A m \in 1..q : m \in S
  <2> HIDE DEF S
  <2> QED BY <1>1, <1>4, <1>5, Downwards
<1>7. 1 \in S
  BY <1>1, <1>6
<1>8. 1 \in 1..q
  BY <1>1
<1> QED BY <1>7, <1>8
-----------------------------------------------------------------------------
(* t is what s has at the places in S, in order.                           *)
PicksBy(s, S, t, n, e) ==
  /\ n \in Nat /\ e \in [1..n -> Nat] /\ Increasing(e, n)
  /\ S = {e[k] : k \in 1..n}
  /\ t = [k \in 1..n |-> s[e[k]]]

Picks(s, S, t) == \E n, e : PicksBy(s, S, t, n, e)

LEMMA PicksNone == ASSUME NEW s PROVE Picks(s, {}, << >>)
<1>1. PicksBy(s, {}, << >>, 0, << >>)
  BY DEF PicksBy, Increasing
<1> QED BY <1>1 DEF Picks

LEMMA PicksOneMore ==
  ASSUME NEW s, NEW S, NEW T, NEW t \in Seq(T), Picks(s, S, t),
         NEW j \in Nat, s[j] \in T, \A i \in S : j < i
  PROVE  Picks(s, {j} \cup S, <<s[j]>> \o t)
<1>1. PICK n, e : PicksBy(s, S, t, n, e)
  BY DEF Picks
<1> DEFINE d == [k \in 1..n + 1 |-> IF k = 1 THEN j ELSE e[k - 1]]
           u == <<s[j]>> \o t
<1>2. n \in Nat /\ e \in [1..n -> Nat] /\ \A k \in 1..n : e[k] \in S
  BY <1>1 DEF PicksBy
<1>3. /\ d \in [1..n + 1 -> Nat] /\ d[1] = j
      /\ \A k \in 1..n : d[k + 1] = e[k]
      /\ \A k \in 1..n + 1 : k = 1 \/ (k - 1 \in 1..n /\ d[k] = e[k - 1])
  BY <1>2
<1>4. Increasing(d, n + 1)
  <2> SUFFICES ASSUME NEW a \in 1..n + 1, NEW b \in 1..n + 1, a < b PROVE d[a] < d[b]
    BY DEF Increasing
  <2>1. b - 1 \in 1..n /\ d[b] = e[b - 1]
    BY <1>2
  <2>2. CASE a = 1
    BY <1>2, <1>3, <2>1, <2>2
  <2>3. CASE a # 1
    <3>1. a - 1 \in 1..n /\ d[a] = e[a - 1] /\ a - 1 < b - 1
      BY <1>2, <2>3
    <3> QED BY <1>1, <2>1, <3>1 DEF Increasing, PicksBy
  <2> QED BY <2>2, <2>3
<1>5. {d[k] : k \in 1..n + 1} = {j} \cup S
  <2>1. S = {e[k] : k \in 1..n}
    BY <1>1 DEF PicksBy
  <2>2. \A k \in 1..n : k + 1 \in 1..n + 1
    BY <1>2
  <2>3. 1 \in 1..n + 1
    BY <1>2
  <2> HIDE DEF d
  <2>4. ASSUME NEW x \in {j} \cup S PROVE x \in {d[k] : k \in 1..n + 1}
    <3>1. CASE x = j
      BY <1>3, <2>3, <3>1
    <3>2. ASSUME NEW k \in 1..n, x = e[k] PROVE x \in {d[l] : l \in 1..n + 1}
      BY <1>3, <2>2, <3>2
    <3> QED BY <2>1, <3>1, <3>2
  <2>5. ASSUME NEW k \in 1..n + 1 PROVE d[k] \in {j} \cup S
    BY <1>2, <1>3
  <2> QED BY <2>4, <2>5
<1>6. /\ u \in Seq(T) /\ Len(u) = 1 + n /\ u[1] = s[j]
      /\ \A k \in 1..n : u[1 + k] = t[k]
  <2> DEFINE o == <<s[j]>>
  <2>1. o \in Seq(T) /\ Len(o) = 1 /\ o[1] = s[j] /\ Len(t) = n /\ t \in Seq(T)
    BY <1>1, <1>2 DEF PicksBy
  <2>2. u = o \o t
    OBVIOUS
  <2> HIDE DEF o, u, d
  <2>3. /\ o \o t \in Seq(T) /\ Len(o \o t) = Len(o) + Len(t)
        /\ \A i \in 1..Len(o) : (o \o t)[i] = o[i]
        /\ \A i \in 1..Len(t) : (o \o t)[Len(o) + i] = t[i]
    <3>1. o \in Seq(T) /\ t \in Seq(T)
      BY <2>1
    <3> QED BY <3>1, ConcatAt
  <2> QED BY <2>1, <2>2, <2>3
<1>7. u = [k \in 1..n + 1 |-> s[d[k]]]
  <2>1. \A k \in 1..n : t[k] = s[e[k]]
    BY <1>1 DEF PicksBy
  <2> HIDE DEF u, d
  <2>2. ASSUME NEW k \in 1..n + 1 PROVE u[k] = s[d[k]]
    <3>1. CASE k = 1
      BY <1>3, <1>6, <3>1
    <3>2. CASE k # 1
      <4>1. k - 1 \in 1..n /\ 1 + (k - 1) = k /\ d[k] = e[k - 1]
        BY <1>2, <1>3, <3>2
      <4>2. u[1 + (k - 1)] = t[k - 1] /\ t[k - 1] = s[e[k - 1]]
        BY <1>6, <2>1, <4>1
      <4> QED BY <4>1, <4>2
    <3> QED BY <3>1, <3>2
  <2>3. DOMAIN u = 1..n + 1 /\ u = [k \in DOMAIN u |-> u[k]]
    <3>1. 1 + n = n + 1 /\ u = [k \in 1..Len(u) |-> u[k]]
      BY <1>2, <1>6
    <3> QED BY <1>6, <3>1
  <2> QED BY <2>2, <2>3
<1>8. PicksBy(s, {j} \cup S, u, n + 1, d)
  <2> HIDE DEF u, d
  <2> QED BY <1>2, <1>3, <1>4, <1>5, <1>7 DEF PicksBy
<1> HIDE DEF u, d
<1>9. Picks(s, {j} \cup S, u)
  BY <1>8 DEF Picks
<1> QED BY <1>9 DEF u

(* What is picked is what Kept and Meant say of it.                        *)
LEMMA PicksIs ==
  ASSUME NEW s, NEW S, NEW t, Picks(s, S, t)
  PROVE  t = [k \in DOMAIN InOrder(S) |-> s[InOrder(S)[k]]]
<1>1. PICK n, e : PicksBy(s, S, t, n, e)
  BY DEF Picks
<1>2. InOrder(S) = e /\ DOMAIN e = 1..n
  BY <1>1, InOrderIs DEF PicksBy
<1> QED BY <1>1, <1>2 DEF PicksBy

(* The same of a sequence that begins d places later.                      *)
LEMMA PicksLater ==
  ASSUME NEW s, NEW S, NEW t, Picks(s, S, t), NEW d \in Nat, NEW r,
         \A i \in S : i > d /\ r[i - d] = s[i]
  PROVE  Picks(r, {i - d : i \in S}, t)
<1>1. PICK n, e : PicksBy(s, S, t, n, e)
  BY DEF Picks
<1> DEFINE c == [k \in 1..n |-> e[k] - d]
<1>2. /\ n \in Nat /\ e \in [1..n -> Nat] /\ \A k \in 1..n : e[k] \in S
      /\ S = {e[k] : k \in 1..n} /\ t = [k \in 1..n |-> s[e[k]]]
  BY <1>1 DEF PicksBy
<1>3. \A k \in 1..n : c[k] = e[k] - d /\ c[k] \in Nat /\ r[c[k]] = s[e[k]]
  BY <1>2
<1>4. c \in [1..n -> Nat]
  <2>1. \A k \in 1..n : e[k] - d \in Nat
    BY <1>3
  <2> QED BY <2>1
<1> HIDE DEF c
<1>5. Increasing(c, n)
  <2> SUFFICES ASSUME NEW a \in 1..n, NEW b \in 1..n, a < b PROVE c[a] < c[b]
    BY DEF Increasing
  <2>1. e[a] < e[b] /\ e[a] \in Nat /\ e[b] \in Nat
    BY <1>1, <1>2 DEF Increasing, PicksBy
  <2> QED BY <1>3, <2>1
<1>6. {i - d : i \in S} = {c[k] : k \in 1..n}
  BY <1>2, <1>3
<1>7. t = [k \in 1..n |-> r[c[k]]]
  BY <1>2, <1>3
<1>8. PicksBy(r, {i - d : i \in S}, t, n, c)
  BY <1>2, <1>4, <1>5, <1>6, <1>7 DEF PicksBy
<1> QED BY <1>8 DEF Picks
-----------------------------------------------------------------------------
Items == 0..31 \cup {NOISE, REST}

(* What the places from p to before q of the bits are for an item x.       *)
RestAt(b, p, q) == q = p + 6 /\ \A i \in p..q - 1 : b[i] = 1

CodeKeyedAt(b, x, p, q) ==
  /\ p + 7 <= q /\ b[p] = 0
  /\ b[p + 1] = x % 2 /\ b[p + 2] = (x \div 2) % 2 /\ b[p + 3] = (x \div 4) % 2
  /\ b[p + 4] = (x \div 8) % 2 /\ b[p + 5] = (x \div 16) % 2
  /\ \A i \in p + 6..q - 1 : b[i] = 1

ItemAt(b, x, p, q) ==
  /\ x = REST => RestAt(b, p, q)
  /\ x \in 0..31 => CodeKeyedAt(b, x, p, q)

(* Item k is at the places from at[k] to before at[k + 1].                 *)
LaidOut(b, items, at) ==
  /\ at \in [1..Len(items) + 1 -> Nat \ {0}] /\ Increasing(at, Len(items) + 1)
  /\ at[1] = 1 /\ at[Len(items) + 1] = Len(b) + 1
  /\ \A k \in 1..Len(items) : ItemAt(b, items[k], at[k], at[k + 1])

(* Two samples of the recording to a bit.                                  *)
Keyed(a, b) ==
  /\ a \in Seq(Bit) /\ b \in Seq(Bit) /\ Len(a) = 2 * Len(b)
  /\ \A i \in 1..Len(b) : a[2 * i - 1] = b[i] /\ a[2 * i] = b[i]

(* Of a recording of RTTY with whole stop bits, the bits are the items     *)
(* that were sent.                                                         *)
RttyInv ==
  code = "rtty" =>
    /\ stop \in StopHalves
    /\ sent \in Seq(Items)
    /\ \E b, at : Keyed(air, b) /\ LaidOut(b, sent, at)

LEMMA ItemMoves ==
  ASSUME NEW c, NEW b, NEW x, NEW p \in Nat, NEW q \in Nat, NEW d \in Nat,
         ItemAt(c, x, p, q), \A i \in p..q - 1 : b[d + i] = c[i]
  PROVE  ItemAt(b, x, d + p, d + q)
<1>1. ASSUME x = REST PROVE RestAt(b, d + p, d + q)
  <2>1. RestAt(c, p, q)
    BY <1>1 DEF ItemAt
  <2>2. ASSUME NEW i \in d + p..(d + q) - 1 PROVE b[i] = 1
    <3>1. i - d \in p..q - 1 /\ d + (i - d) = i
      OBVIOUS
    <3> QED BY <2>1, <3>1 DEF RestAt
  <2> QED BY <2>1, <2>2 DEF RestAt
<1>2. ASSUME x \in 0..31 PROVE CodeKeyedAt(b, x, d + p, d + q)
  <2>1. CodeKeyedAt(c, x, p, q)
    BY <1>2 DEF ItemAt
  <2>2. p + 7 <= q
    BY <2>1 DEF CodeKeyedAt
  <2>3. /\ p \in p..q - 1 /\ p + 1 \in p..q - 1 /\ p + 2 \in p..q - 1 /\ p + 3 \in p..q - 1
        /\ p + 4 \in p..q - 1 /\ p + 5 \in p..q - 1
    BY <2>2
  <2>4. /\ b[d + p] = c[p] /\ b[d + (p + 1)] = c[p + 1] /\ b[d + (p + 2)] = c[p + 2]
        /\ b[d + (p + 3)] = c[p + 3] /\ b[d + (p + 4)] = c[p + 4] /\ b[d + (p + 5)] = c[p + 5]
    BY <2>3
  <2>5. /\ d + (p + 1) = (d + p) + 1 /\ d + (p + 2) = (d + p) + 2 /\ d + (p + 3) = (d + p) + 3
        /\ d + (p + 4) = (d + p) + 4 /\ d + (p + 5) = (d + p) + 5 /\ (d + p) + 7 <= d + q
    BY <2>2
  <2>6. ASSUME NEW i \in (d + p) + 6..(d + q) - 1 PROVE b[i] = 1
    <3>1. i - d \in p..q - 1 /\ i - d \in p + 6..q - 1 /\ d + (i - d) = i
      OBVIOUS
    <3>2. c[i - d] = 1
      BY <2>1, <3>1 DEF CodeKeyedAt
    <3> QED BY <3>1, <3>2
  <2> QED BY <2>1, <2>4, <2>5, <2>6 DEF CodeKeyedAt
<1> QED BY <1>1, <1>2 DEF ItemAt

LEMMA LaidOutGrows ==
  ASSUME NEW b \in Seq(Bit), NEW c \in Seq(Bit), NEW items \in Seq(Items), NEW x \in Items,
         NEW at, LaidOut(b, items, at), Len(c) > 0, ItemAt(c, x, 1, Len(c) + 1)
  PROVE  \E more : LaidOut(b \o c, Append(items, x), more)
<1> DEFINE n == Len(items)
           w == Len(b)
           m == Len(c)
           d == b \o c
           z == Append(items, x)
           more == [k \in 1..n + 2 |-> IF k = n + 2 THEN w + m + 1 ELSE at[k]]
<1>1. /\ n \in Nat /\ w \in Nat /\ m \in Nat /\ Len(d) = w + m
      /\ \A i \in 1..w : d[i] = b[i]
      /\ \A i \in 1..m : d[w + i] = c[i]
  BY ConcatAt
<1>2. Len(z) = n + 1 /\ z[n + 1] = x /\ \A k \in 1..n : z[k] = items[k]
  OBVIOUS
<1>3. /\ at \in [1..n + 1 -> Nat \ {0}] /\ Increasing(at, n + 1)
      /\ at[1] = 1 /\ at[n + 1] = w + 1
      /\ \A k \in 1..n : ItemAt(b, items[k], at[k], at[k + 1])
  BY DEF LaidOut
<1>4. m > 0 /\ ItemAt(c, x, 1, m + 1)
  OBVIOUS
<1> HIDE DEF n, w, m, d, z
<1>5. \A k \in 1..n + 1 : at[k] <= w + 1 /\ at[k] \in Nat \ {0}
  <2> SUFFICES ASSUME NEW k \in 1..n + 1 PROVE at[k] <= w + 1 /\ at[k] \in Nat \ {0}
    OBVIOUS
  <2>1. k = n + 1 \/ k < n + 1
    BY <1>1
  <2>2. n + 1 \in 1..n + 1
    BY <1>1
  <2>3. at[k] \in Nat \ {0}
    BY <1>3
  <2>4. k < n + 1 => at[k] < at[n + 1]
    BY <1>3, <2>2 DEF Increasing
  <2> QED BY <1>1, <1>3, <2>1, <2>3, <2>4
<1>6. /\ more \in [1..n + 2 -> Nat \ {0}]
      /\ more[n + 2] = w + m + 1
      /\ \A k \in 1..n + 1 : more[k] = at[k]
  <2>1. w + m + 1 \in Nat \ {0}
    BY <1>1
  <2>2. \A k \in 1..n + 1 : k \in 1..n + 2 /\ k # n + 2
    BY <1>1
  <2>3. n + 2 \in 1..n + 2
    BY <1>1
  <2>4. \A k \in 1..n + 2 : k = n + 2 \/ k \in 1..n + 1
    BY <1>1
  <2> QED BY <1>5, <2>1, <2>2, <2>3, <2>4
<1> HIDE DEF more
<1>7. Increasing(more, n + 2)
  <2> SUFFICES ASSUME NEW i \in 1..n + 2, NEW j \in 1..n + 2, i < j PROVE more[i] < more[j]
    BY DEF Increasing
  <2>1. i \in 1..n + 1 /\ (j = n + 2 \/ j \in 1..n + 1)
    BY <1>1
  <2>2. CASE j = n + 2
    <3>1. more[i] <= w + 1 /\ more[i] \in Nat
      BY <1>5, <1>6, <2>1
    <3> QED BY <1>1, <1>4, <1>6, <2>2, <3>1
  <2>3. CASE j \in 1..n + 1
    BY <1>3, <1>6, <2>1, <2>3 DEF Increasing
  <2> QED BY <2>1, <2>2, <2>3
<1>8. ASSUME NEW k \in 1..n + 1 PROVE ItemAt(d, z[k], more[k], more[k + 1])
  <2>1. CASE k \in 1..n
    <3>1. k + 1 \in 1..n + 1 /\ k \in 1..n + 1
      BY <1>1, <2>1
    <3>2. more[k] = at[k] /\ more[k + 1] = at[k + 1] /\ z[k] = items[k]
      BY <1>2, <1>6, <2>1, <3>1
    <3>3. ItemAt(b, items[k], at[k], at[k + 1])
      BY <1>3, <2>1
    <3>4. at[k] \in Nat \ {0} /\ at[k + 1] \in Nat /\ at[k + 1] <= w + 1
      BY <1>5, <3>1
    <3>5. \A i \in at[k]..at[k + 1] - 1 : d[0 + i] = b[i]
      <4> SUFFICES ASSUME NEW i \in at[k]..at[k + 1] - 1 PROVE d[0 + i] = b[i]
        OBVIOUS
      <4>1. i \in 1..w /\ 0 + i = i
        BY <1>1, <3>4
      <4> QED BY <1>1, <4>1
    <3>6. ItemAt(d, items[k], 0 + at[k], 0 + at[k + 1])
      BY <3>3, <3>4, <3>5, ItemMoves
    <3>7. 0 + at[k] = at[k] /\ 0 + at[k + 1] = at[k + 1]
      BY <3>4
    <3> QED BY <3>2, <3>6, <3>7
  <2>2. CASE k = n + 1
    <3>1. more[k] = w + 1 /\ more[k + 1] = w + (m + 1) /\ z[k] = x
      BY <1>1, <1>2, <1>3, <1>6, <2>2
    <3>2. \A i \in 1..(m + 1) - 1 : d[w + i] = c[i]
      BY <1>1
    <3>3. 1 \in Nat /\ m + 1 \in Nat
      BY <1>1
    <3>4. ItemAt(d, x, w + 1, w + (m + 1))
      BY <1>1, <1>4, <3>2, <3>3, ItemMoves
    <3> QED BY <3>1, <3>4
  <2> QED BY <1>1, <2>1, <2>2
<1>9. Len(z) + 1 = n + 2 /\ more[1] = 1 /\ more[n + 2] = Len(d) + 1
  <2>1. 1 \in 1..n + 1
    BY <1>1
  <2> QED BY <1>1, <1>2, <1>3, <1>6, <2>1
<1>10. LaidOut(d, z, more)
  BY <1>2, <1>6, <1>7, <1>8, <1>9 DEF LaidOut
<1> QED BY <1>10 DEF d, z

LEMMA KeyedGrows ==
  ASSUME NEW a, NEW b, NEW e, NEW c, Keyed(a, b), Keyed(e, c)
  PROVE  Keyed(a \o e, b \o c)
<1>1. /\ a \in Seq(Bit) /\ b \in Seq(Bit) /\ Len(a) = 2 * Len(b)
      /\ \A i \in 1..Len(b) : a[2 * i - 1] = b[i] /\ a[2 * i] = b[i]
  BY DEF Keyed
<1>2. /\ e \in Seq(Bit) /\ c \in Seq(Bit) /\ Len(e) = 2 * Len(c)
      /\ \A i \in 1..Len(c) : e[2 * i - 1] = c[i] /\ e[2 * i] = c[i]
  BY DEF Keyed
<1> DEFINE x == a \o e
           y == b \o c
           n == Len(b)
           m == Len(c)
<1>3. /\ x \in Seq(Bit) /\ Len(x) = 2 * n + 2 * m
      /\ \A i \in 1..2 * n : x[i] = a[i]
      /\ \A i \in 1..2 * m : x[2 * n + i] = e[i]
  <2>1. /\ x \in Seq(Bit) /\ Len(x) = Len(a) + Len(e)
        /\ \A i \in 1..Len(a) : x[i] = a[i]
        /\ \A i \in 1..Len(e) : x[Len(a) + i] = e[i]
    <3>1. a \in Seq(Bit) /\ e \in Seq(Bit)
      BY <1>1, <1>2
    <3> QED BY <3>1, ConcatAt
  <2> HIDE DEF x
  <2> QED BY <1>1, <1>2, <2>1
<1>4. /\ y \in Seq(Bit) /\ Len(y) = n + m
      /\ \A i \in 1..n : y[i] = b[i]
      /\ \A i \in 1..m : y[n + i] = c[i]
  BY <1>1, <1>2, ConcatAt
<1>5. n \in Nat /\ m \in Nat
  BY <1>1, <1>2
<1>6. \A i \in 1..n : a[2 * i - 1] = b[i] /\ a[2 * i] = b[i]
  BY <1>1
<1>7. \A i \in 1..m : e[2 * i - 1] = c[i] /\ e[2 * i] = c[i]
  BY <1>2
<1> HIDE DEF x, y, n, m
<1>8. ASSUME NEW i \in 1..n + m PROVE x[2 * i - 1] = y[i] /\ x[2 * i] = y[i]
  <2>1. CASE i \in 1..n
    <3>1. 2 * i - 1 \in 1..2 * n /\ 2 * i \in 1..2 * n
      BY <1>5, <2>1
    <3> QED BY <1>3, <1>4, <1>6, <2>1, <3>1
  <2>2. CASE i \notin 1..n
    <3>1. PICK j \in 1..m : i = n + j
      <4>1. i - n \in 1..m /\ i = n + (i - n)
        BY <1>5, <2>2
      <4> QED BY <4>1
    <3>2. /\ 2 * j - 1 \in 1..2 * m /\ 2 * j \in 1..2 * m
          /\ 2 * i - 1 = 2 * n + (2 * j - 1) /\ 2 * i = 2 * n + 2 * j
      BY <1>5, <3>1
    <3> QED BY <1>3, <1>4, <1>7, <3>1, <3>2
  <2> QED BY <2>1, <2>2
<1>9. Len(x) = 2 * Len(y)
  BY <1>3, <1>4, <1>5
<1>10. Keyed(x, y)
  BY <1>3, <1>4, <1>8, <1>9 DEF Keyed
<1> QED BY <1>10 DEF x, y
-----------------------------------------------------------------------------
WholeStops == \A s \in StopHalves : s % 2 = 0

LEMMA SpreadIsKeyed ==
  ASSUME NEW s \in Seq(Bit)
  PROVE  Keyed(Spread(s, FSK_SPS), s)
<1> DEFINE n == Len(s)
           a == Spread(s, FSK_SPS)
<1>1. n \in Nat /\ a = [i \in 1..2 * n |-> s[(i - 1) \div 2 + 1]]
  BY DEF Spread, FSK_SPS
<1>2. \A i \in 1..n : s[i] \in Bit
  BY ElementOfSeq
<1> HIDE DEF n, a
<1>3. \A i \in 1..2 * n : (i - 1) \div 2 + 1 \in 1..n
  BY <1>1
<1>4. a \in Seq(Bit) /\ Len(a) = 2 * n
  <2>1. 2 * n \in Nat
    BY <1>1
  <2> QED BY <1>1, <1>2, <1>3, <2>1
<1>5. ASSUME NEW i \in 1..n PROVE a[2 * i - 1] = s[i] /\ a[2 * i] = s[i]
  <2>1. /\ 2 * i - 1 \in 1..2 * n /\ 2 * i \in 1..2 * n
        /\ ((2 * i - 1) - 1) \div 2 + 1 = i /\ (2 * i - 1) \div 2 + 1 = i
    BY <1>1
  <2> QED BY <1>1, <2>1
<1> QED BY <1>4, <1>5 DEF Keyed, a, n

LEMMA RepeatIsKeyed ==
  ASSUME NEW x \in Bit, NEW n \in Nat
  PROVE  Keyed(Repeat(x, 2 * n), Repeat(x, n)) /\ Len(Repeat(x, n)) = n
<1>1. 2 * n \in Nat
  OBVIOUS
<1>2. /\ Repeat(x, n) \in Seq(Bit) /\ Len(Repeat(x, n)) = n
      /\ \A i \in 1..n : Repeat(x, n)[i] = x
  BY DEF Repeat
<1>3. /\ Repeat(x, 2 * n) \in Seq(Bit) /\ Len(Repeat(x, 2 * n)) = 2 * n
      /\ \A i \in 1..2 * n : Repeat(x, 2 * n)[i] = x
  BY <1>1 DEF Repeat
<1>4. \A i \in 1..n : 2 * i - 1 \in 1..2 * n /\ 2 * i \in 1..2 * n
  OBVIOUS
<1> QED BY <1>2, <1>3, <1>4 DEF Keyed

(* The bits of a character: a start bit, the code with its least           *)
(* significant bit first.                                                  *)
LEMMA CharacterIs ==
  ASSUME NEW x \in 0..31
  PROVE  LET s == <<0>> \o Reverse(BitsOf(x, 5))
         IN /\ s \in Seq(Bit) /\ Len(s) = 6
            /\ s[1] = 0 /\ s[2] = x % 2 /\ s[3] = (x \div 2) % 2 /\ s[4] = (x \div 4) % 2
            /\ s[5] = (x \div 8) % 2 /\ s[6] = (x \div 16) % 2
<1> DEFINE v == BitsOf(x, 5)
           r == Reverse(v)
           s == <<0>> \o r
<1>1. /\ v = [i \in 1..5 |-> (x \div 2 ^ (5 - i)) % 2]
      /\ 2 ^ (5 - 5) = 1 /\ 2 ^ (5 - 4) = 2 /\ 2 ^ (5 - 3) = 4 /\ 2 ^ (5 - 2) = 8
      /\ 2 ^ (5 - 1) = 16
  BY DEF BitsOf
<1> HIDE DEF v
<1>2. /\ v[5] = (x \div 1) % 2 /\ v[4] = (x \div 2) % 2 /\ v[3] = (x \div 4) % 2
      /\ v[2] = (x \div 8) % 2 /\ v[1] = (x \div 16) % 2 /\ DOMAIN v = 1..5 /\ Len(v) = 5
  BY <1>1
<1>3. r = [i \in 1..5 |-> v[(5 - i) + 1]]
  BY <1>2 DEF Reverse
<1>4. x \div 1 = x
  OBVIOUS
<1>5. /\ r[1] = x % 2 /\ r[2] = (x \div 2) % 2 /\ r[3] = (x \div 4) % 2
      /\ r[4] = (x \div 8) % 2 /\ r[5] = (x \div 16) % 2 /\ Len(r) = 5
  BY <1>2, <1>3, <1>4
<1>6. r \in Seq(Bit)
  <2>1. \A i \in 1..5 : r[i] \in Bit
    <3> SUFFICES ASSUME NEW i \in 1..5 PROVE r[i] \in Bit
      OBVIOUS
    <3>1. i = 1 \/ i = 2 \/ i = 3 \/ i = 4 \/ i = 5
      OBVIOUS
    <3>2. /\ x % 2 \in {0, 1} /\ (x \div 2) % 2 \in {0, 1} /\ (x \div 4) % 2 \in {0, 1}
          /\ (x \div 8) % 2 \in {0, 1} /\ (x \div 16) % 2 \in {0, 1}
      OBVIOUS
    <3> HIDE DEF r
    <3> QED BY <1>5, <3>1, <3>2 DEF Bit
  <2> QED BY <1>3, <2>1
<1> HIDE DEF r
<1>7. <<0>> \in Seq(Bit) /\ Len(<<0>>) = 1 /\ <<0>>[1] = 0
  BY DEF Bit
<1>8. /\ s \in Seq(Bit) /\ Len(s) = 6 /\ s[1] = 0
      /\ \A i \in 1..5 : s[1 + i] = r[i]
  <2> DEFINE o == <<0>>
  <2>1. o \in Seq(Bit) /\ r \in Seq(Bit)
    BY <1>6, <1>7
  <2>2. Len(o) = 1 /\ o[1] = 0
    OBVIOUS
  <2> HIDE DEF o
  <2>3. /\ o \o r \in Seq(Bit) /\ Len(o \o r) = Len(o) + Len(r)
        /\ \A i \in 1..Len(o) : (o \o r)[i] = o[i]
        /\ \A i \in 1..Len(r) : (o \o r)[Len(o) + i] = r[i]
    BY <2>1, ConcatAt
  <2>4. s = o \o r
    BY DEF o
  <2> HIDE DEF s
  <2>5. Len(r) = 5
    BY <1>5
  <2>6. 1 \in 1..Len(o) /\ Len(o) + Len(r) = 6
    BY <2>2, <2>5
  <2>7. \A i \in 1..5 : s[1 + i] = r[i]
    BY <2>2, <2>3, <2>4, <2>5
  <2> QED BY <2>2, <2>3, <2>4, <2>6, <2>7
<1> HIDE DEF s
<1>9. /\ s[2] = r[1] /\ s[3] = r[2] /\ s[4] = r[3] /\ s[5] = r[4] /\ s[6] = r[5]
  <2>1. /\ s[1 + 1] = r[1] /\ s[1 + 2] = r[2] /\ s[1 + 3] = r[3] /\ s[1 + 4] = r[4]
        /\ s[1 + 5] = r[5]
    BY <1>8
  <2> QED BY <2>1
<1> QED BY <1>5, <1>8, <1>9 DEF s, r, v

(* One more item of the recording.                                         *)
LEMMA ItemIsSent ==
  ASSUME NEW a, NEW e, NEW c, NEW items \in Seq(Items), NEW x \in Items,
         \E b, at : Keyed(a, b) /\ LaidOut(b, items, at),
         Keyed(e, c), Len(c) > 0, ItemAt(c, x, 1, Len(c) + 1)
  PROVE  /\ Append(items, x) \in Seq(Items)
         /\ \E b, at : Keyed(a \o e, b) /\ LaidOut(b, Append(items, x), at)
<1>1. PICK b, at : Keyed(a, b) /\ LaidOut(b, items, at)
  OBVIOUS
<1>2. b \in Seq(Bit) /\ c \in Seq(Bit)
  BY <1>1 DEF Keyed
<1>3. PICK more : LaidOut(b \o c, Append(items, x), more)
  BY <1>1, <1>2, LaidOutGrows
<1>4. Keyed(a \o e, b \o c)
  BY <1>1, KeyedGrows
<1>5. Append(items, x) \in Seq(Items)
  OBVIOUS
<1> QED BY <1>3, <1>4, <1>5

LEMMA RttyBegins == Init => RttyInv
<1> SUFFICES ASSUME Init, code = "rtty" PROVE RttyInv
  BY DEF RttyInv
<1>1. stop \in StopHalves /\ sent = << >> /\ air = << >>
  BY DEF Init
<1>2. Keyed(<< >>, << >>)
  BY DEF Keyed
<1>3. LaidOut(<< >>, << >>, <<1>>)
  BY DEF LaidOut, Increasing
<1>4. sent \in Seq(Items)
  BY <1>1
<1> QED BY <1>1, <1>2, <1>3, <1>4 DEF RttyInv

LEMMA RttySteps ==
  ASSUME WholeStops
  PROVE  RttyInv /\ [Next]_vars => RttyInv'
<1> SUFFICES ASSUME RttyInv, [Next]_vars, code' = "rtty"
             PROVE  RttyInv'
  BY DEF RttyInv
<1>1. CASE UNCHANGED vars
  BY <1>1 DEF RttyInv, vars
<1>2. code = "rtty" /\ (Next => stop' = stop)
  BY <1>1 DEF Next, Key, KeyPwm, KeyPpm, Type, Noise, Rest, vars
<1>3. /\ stop \in StopHalves
      /\ sent \in Seq(Items)
      /\ \E b, at : Keyed(air, b) /\ LaidOut(b, sent, at)
  BY <1>2 DEF RttyInv
<1>4. \A bit, bad, jitter, gap, width :
        ~Key(bit, bad) /\ ~KeyPwm(bit, jitter) /\ ~KeyPpm(bit, gap, width)
  BY <1>2 DEF Key, KeyPwm, KeyPpm
<1>5. ASSUME NEW c \in Codes, Type(c) PROVE RttyInv'
  <2> DEFINE s == <<0>> \o Reverse(BitsOf(c, 5))
             h == stop \div 2
             m == Repeat(1, h)
             w == s \o m
             e1 == Spread(s, FSK_SPS)
             e2 == Repeat(1, 2 * h)
  <2>1. c \in 0..31 /\ c \in Items /\ c # REST
    BY CodesAreFiveBits DEF Items, REST
  <2>2. h \in Nat /\ h > 0 /\ (FSK_SPS * stop) \div 2 = 2 * h
    <3>1. stop \in Nat \ {0} /\ stop % 2 = 0
      BY <1>3, StopsArePositive DEF WholeStops
    <3> QED BY <3>1 DEF FSK_SPS
  <2>3. /\ s \in Seq(Bit) /\ Len(s) = 6
        /\ s[1] = 0 /\ s[2] = c % 2 /\ s[3] = (c \div 2) % 2 /\ s[4] = (c \div 4) % 2
        /\ s[5] = (c \div 8) % 2 /\ s[6] = (c \div 16) % 2
    BY <2>1, CharacterIs
  <2> HIDE DEF s, h
  <2>4. Keyed(e1, s)
    BY <2>3, SpreadIsKeyed
  <2>5. Keyed(e2, m) /\ Len(m) = h /\ m \in Seq(Bit) /\ \A i \in 1..h : m[i] = 1
    <3>1. 1 \in Bit
      BY DEF Bit
    <3>2. Keyed(e2, m) /\ Len(m) = h
      BY <2>2, <3>1, RepeatIsKeyed
    <3>3. m \in Seq(Bit)
      BY <3>2 DEF Keyed
    <3> QED BY <3>2, <3>3 DEF Repeat
  <2> HIDE DEF e1, e2, m
  <2>6. Keyed(e1 \o e2, w)
    BY <2>4, <2>5, KeyedGrows
  <2>7. /\ Len(w) = 6 + h
        /\ \A i \in 1..6 : w[i] = s[i]
        /\ \A i \in 1..h : w[6 + i] = m[i]
    <3>1. s \in Seq(Bit) /\ m \in Seq(Bit)
      BY <2>3, <2>5
    <3>2. /\ Len(w) = Len(s) + Len(m)
          /\ \A i \in 1..Len(s) : w[i] = s[i]
          /\ \A i \in 1..Len(m) : w[Len(s) + i] = m[i]
      BY <3>1, ConcatAt
    <3> HIDE DEF w
    <3> QED BY <2>3, <2>5, <3>2
  <2> HIDE DEF w
  <2>8. CodeKeyedAt(w, c, 1, Len(w) + 1)
    <3>1. ASSUME NEW i \in 7..6 + h PROVE w[i] = 1
      <4>1. i - 6 \in 1..h /\ 6 + (i - 6) = i
        BY <2>2
      <4> QED BY <2>5, <2>7, <4>1
    <3>2. 1 + 7 <= Len(w) + 1 /\ (Len(w) + 1) - 1 = 6 + h /\ 1 + 6 = 7
      BY <2>2, <2>7
    <3>3. /\ w[1] = s[1] /\ w[1 + 1] = s[2] /\ w[1 + 2] = s[3] /\ w[1 + 3] = s[4]
          /\ w[1 + 4] = s[5] /\ w[1 + 5] = s[6]
      BY <2>7
    <3> QED BY <2>3, <3>1, <3>2, <3>3 DEF CodeKeyedAt
  <2>9. ItemAt(w, c, 1, Len(w) + 1) /\ Len(w) > 0
    BY <2>1, <2>2, <2>7, <2>8 DEF ItemAt
  <2>10. /\ Append(sent, c) \in Seq(Items)
         /\ \E b, at : Keyed(air \o (e1 \o e2), b) /\ LaidOut(b, Append(sent, c), at)
    BY <1>3, <2>1, <2>6, <2>9, ItemIsSent
  <2>11. air' = air \o (e1 \o e2) /\ sent' = Append(sent, c)
    <3>1. air' = (air \o e1) \o e2 /\ sent' = Append(sent, c)
      BY <1>5, <2>2 DEF Type, e1, e2, s
    <3>2. air \in Seq(Bit) /\ e1 \in Seq(Bit) /\ e2 \in Seq(Bit)
      BY <1>3, <2>4, <2>5 DEF Keyed
    <3>3. (air \o e1) \o e2 = air \o (e1 \o e2)
      BY <3>2, ConcatAssociative
    <3> QED BY <3>1, <3>3
  <2> QED BY <1>2, <1>3, <1>5, <2>10, <2>11 DEF RttyInv, Next, Type
<1>6. ASSUME NEW x \in Bit, Noise(x) PROVE RttyInv'
  <2> DEFINE e == Repeat(x, 2 * 1)
             c == Repeat(x, 1)
  <2>1. Keyed(e, c) /\ Len(c) = 1
    BY RepeatIsKeyed
  <2>2. NOISE \in Items /\ NOISE # REST /\ NOISE \notin 0..31
    BY DEF NOISE, REST, Items
  <2>3. ItemAt(c, NOISE, 1, Len(c) + 1)
    BY <2>2 DEF ItemAt
  <2>4. air' = air \o e /\ sent' = Append(sent, NOISE) /\ stop' = stop
    BY <1>6 DEF Noise, FSK_SPS
  <2> HIDE DEF e, c
  <2>5. Len(c) > 0
    BY <2>1
  <2>6. /\ Append(sent, NOISE) \in Seq(Items)
        /\ \E b, at : Keyed(air \o e, b) /\ LaidOut(b, Append(sent, NOISE), at)
    BY <1>3, <2>1, <2>2, <2>3, <2>5, ItemIsSent
  <2> QED BY <1>3, <2>4, <2>6 DEF RttyInv
<1>7. ASSUME Rest PROVE RttyInv'
  <2> DEFINE e == Repeat(1, 2 * 6)
             c == Repeat(1, 6)
  <2>1. Keyed(e, c) /\ Len(c) = 6 /\ 1 \in Bit
    <3>1. 1 \in Bit
      BY DEF Bit
    <3> QED BY <3>1, RepeatIsKeyed
  <2>2. REST \in Items /\ REST \notin 0..31
    BY DEF REST, Items
  <2>3. ItemAt(c, REST, 1, Len(c) + 1)
    BY <2>1, <2>2 DEF ItemAt, RestAt, Repeat
  <2>4. air' = air \o e /\ sent' = Append(sent, REST) /\ stop' = stop
    BY <1>7 DEF Rest, FSK_SPS
  <2> HIDE DEF e, c
  <2>5. Len(c) > 0
    BY <2>1
  <2>6. /\ Append(sent, REST) \in Seq(Items)
        /\ \E b, at : Keyed(air \o e, b) /\ LaidOut(b, Append(sent, REST), at)
    BY <1>3, <2>1, <2>2, <2>3, <2>5, ItemIsSent
  <2> QED BY <1>3, <2>4, <2>6 DEF RttyInv
<1> QED BY <1>1, <1>4, <1>5, <1>6, <1>7 DEF Next
-----------------------------------------------------------------------------
(* The sum of the two samples of a symbol.                                 *)
Tone(a, k) ==
  LET sum[j \in 0..2] == IF j = 0 THEN 0 ELSE sum[j - 1] + a[2 * (k - 1) + j]
  IN sum[2]

LEMMA SumOfTwo ==
  ASSUME NEW a, NEW x \in Int, NEW y \in Int, NEW k, a[2 * (k - 1) + 1] = x, a[2 * (k - 1) + 2] = y
  PROVE  Tone(a, k) = x + y
<1> DEFINE Body(s) == [j \in 0..2 |-> IF j = 0 THEN 0 ELSE s[j - 1] + a[2 * (k - 1) + j]]
           sum == CHOOSE s : s = Body(s)
           w == [j \in 0..2 |-> IF j = 0 THEN 0 ELSE IF j = 1 THEN x ELSE x + y]
<1>1. w = Body(w)
  <2>1. w[0] = 0 /\ w[1] = 0 + x /\ w[2] = w[1] + y /\ w = [j \in 0..2 |-> w[j]]
    OBVIOUS
  <2> HIDE DEF w
  <2>2. ASSUME NEW j \in 0..2 PROVE w[j] = IF j = 0 THEN 0 ELSE w[j - 1] + a[2 * (k - 1) + j]
    <3>1. j = 0 \/ j = 1 \/ j = 2
      OBVIOUS
    <3> QED BY <2>1, <3>1
  <2> QED BY <2>1, <2>2
<1> HIDE DEF w
<1>2. sum = Body(sum)
  BY <1>1
<1> HIDE DEF sum
<1>3. \A j \in 0..2 : sum[j] = IF j = 0 THEN 0 ELSE sum[j - 1] + a[2 * (k - 1) + j]
  <2> DEFINE b(j) == IF j = 0 THEN 0 ELSE sum[j - 1] + a[2 * (k - 1) + j]
  <2>1. sum = [j \in 0..2 |-> b(j)]
    BY <1>2
  <2> HIDE DEF b
  <2>2. \A j \in 0..2 : sum[j] = b(j)
    BY <2>1
  <2> QED BY <2>2 DEF b
<1>4. sum[0] = 0 /\ sum[1] = sum[0] + x /\ sum[2] = sum[1] + y
  BY <1>3
<1>5. sum[2] = x + y
  BY <1>4
<1> QED BY <1>5 DEF sum, Tone

(* The tones of two levels are told apart by the middle of their range.    *)
LEMMA TonesTell ==
  ASSUME NEW n \in Nat, NEW b \in [1..n -> Bit], NEW tones \in [1..n -> Int],
         \A i \in 1..n : tones[i] = 2 * b[i],
         NEW lo \in 1..n, NEW hi \in 1..n, b[lo] = 0, b[hi] = 1
  PROVE  FskBits(tones, FALSE) = b
<1>1. \A i \in 1..n : (b[i] = 0 /\ tones[i] = 0) \/ (b[i] = 1 /\ tones[i] = 2)
  BY DEF Bit
<1>2. Range(tones) = {0, 2}
  BY <1>1 DEF Range
<1>3. Min(Range(tones)) = 0
  <2>1. \E x \in {0, 2} : \A y \in {0, 2} : x =< y
    OBVIOUS
  <2>2. \A x \in {0, 2} : (\A y \in {0, 2} : x =< y) => x = 0
    OBVIOUS
  <2> QED BY <1>2, <2>1, <2>2 DEF Min
<1>4. Max(Range(tones)) = 2
  <2>1. \E x \in {0, 2} : \A y \in {0, 2} : x >= y
    OBVIOUS
  <2>2. \A x \in {0, 2} : (\A y \in {0, 2} : x >= y) => x = 2
    OBVIOUS
  <2> QED BY <1>2, <2>1, <2>2 DEF Max
<1> DEFINE on == [i \in 1..n |-> 2 * tones[i] > 0 + 2]
           got == [i \in 1..n |-> IF on[i] # FALSE THEN 1 ELSE 0]
<1>5. \A i \in 1..n : on[i] = (b[i] = 1)
  <2> SUFFICES ASSUME NEW i \in 1..n PROVE on[i] = (b[i] = 1)
    OBVIOUS
  <2>1. on[i] = (2 * tones[i] > 0 + 2)
    OBVIOUS
  <2>2. (2 * 0 > 0 + 2) = FALSE /\ (2 * 2 > 0 + 2) = TRUE
    OBVIOUS
  <2> HIDE DEF on
  <2>3. (0 = 1) = FALSE /\ (1 = 1) = TRUE
    OBVIOUS
  <2> QED BY <1>1, <2>1, <2>2, <2>3
<1>6. on \in Seq(BOOLEAN)
  OBVIOUS
<1>7. Above(tones) = on
  <2>1. Above(tones) = Tabulated(on)
    BY <1>3, <1>4 DEF Above
  <2> HIDE DEF on
  <2> QED BY <1>6, <2>1, TabulatedIs
<1> HIDE DEF on
<1>8. got = b
  <2>1. \A i \in 1..n : got[i] = b[i]
    BY <1>1, <1>5
  <2> HIDE DEF got
  <2>2. DOMAIN got = 1..n /\ got = [i \in 1..n |-> got[i]]
    BY DEF got
  <2> QED BY <2>1, <2>2
<1>9. b \in Seq(Bit)
  OBVIOUS
<1>10. FskBits(tones, FALSE) = Tabulated(got)
  <2>1. tones # << >>
    OBVIOUS
  <2>2. FskBits(tones, FALSE)
          = Tabulated([i \in DOMAIN tones |-> IF Above(tones)[i] # FALSE THEN 1 ELSE 0])
    BY <2>1 DEF FskBits
  <2> QED BY <1>7, <2>2
<1> HIDE DEF got
<1> QED BY <1>8, <1>9, <1>10, TabulatedIs

(* The bits that were keyed are read.                                      *)
LEMMA BitsAreRead ==
  ASSUME NEW a, NEW b, Keyed(a, b), BothLevels(b)
  PROVE  FskBits(SymbolTones(a, FSK_SPS), FALSE) = b
<1> DEFINE n == Len(b)
           tones == SymbolTones(a, FSK_SPS)
<1>1. /\ a \in Seq(Bit) /\ b \in Seq(Bit) /\ Len(a) = 2 * n /\ n \in Nat /\ DOMAIN b = 1..n
      /\ \A i \in 1..n : a[2 * i - 1] = b[i] /\ a[2 * i] = b[i]
  BY DEF Keyed
<1>2. tones = [k \in 1..n |-> Tone(a, k)]
  <2> HIDE DEF n
  <2>1. Len(a) \div 2 = n
    <3>1. (2 * n) \div 2 = n
      BY <1>1
    <3> QED BY <1>1, <3>1
  <2> QED BY <2>1 DEF SymbolTones, FSK_SPS, Tone
<1>3. b \in [1..n -> Bit]
  BY <1>1
<1> HIDE DEF n
<1>4. ASSUME NEW k \in 1..n PROVE Tone(a, k) = 2 * b[k]
  <2>1. b[k] \in Int
    BY <1>3 DEF Bit
  <2>2. 2 * (k - 1) + 1 = 2 * k - 1 /\ 2 * (k - 1) + 2 = 2 * k
    BY <1>1
  <2>3. a[2 * (k - 1) + 1] = b[k] /\ a[2 * (k - 1) + 2] = b[k]
    BY <1>1, <2>2
  <2> DEFINE x == b[k]
  <2>4. x \in Int /\ a[2 * (k - 1) + 1] = x /\ a[2 * (k - 1) + 2] = x
    BY <2>1, <2>3
  <2> HIDE DEF x
  <2>5. Tone(a, k) = x + x
    BY <2>4, SumOfTwo
  <2>6. x + x = 2 * x
    BY <2>4
  <2> QED BY <2>5, <2>6 DEF x
<1> HIDE DEF tones
<1>5. tones \in [1..n -> Int] /\ \A k \in 1..n : tones[k] = 2 * b[k]
  <2>1. \A k \in 1..n : Tone(a, k) = 2 * b[k] /\ Tone(a, k) \in Int
    BY <1>3, <1>4 DEF Bit
  <2> QED BY <1>2, <2>1
<1>6. PICK lo \in 1..n, hi \in 1..n : b[lo] = 0 /\ b[hi] = 1
  BY <1>1 DEF BothLevels
<1>7. FskBits(tones, FALSE) = b
  BY <1>1, <1>3, <1>5, <1>6, TonesTell
<1> QED BY <1>7 DEF tones

LEMMA FiveBitsOf ==
  ASSUME NEW x \in 0..31
  PROVE  16 * ((x \div 16) % 2) + 8 * ((x \div 8) % 2) + 4 * ((x \div 4) % 2)
           + 2 * ((x \div 2) % 2) + (x % 2) = x
  OBVIOUS

LEMMA ItemIsRead ==
  ASSUME NEW bits \in Seq(Bit), NEW f, IsFrames(bits, f), NEW x,
         NEW p \in Nat \ {0}, NEW q \in Nat, q <= Len(bits) + 1, ItemAt(bits, x, p, q)
  PROVE  /\ x \in 0..31 => f[p] = <<x>> \o f[q]
         /\ x = REST => f[p] = f[q]
<1> DEFINE n == Len(bits)
<1>1. n \in Nat /\ \A i \in 1..n + 7 : f[i] = FrameBody(bits, f, i)
  BY DEF IsFrames
<1>2. ASSUME x \in 0..31 PROVE f[p] = <<x>> \o f[q]
  <2>1. CodeKeyedAt(bits, x, p, q)
    BY <1>2 DEF ItemAt
  <2>2. p + 7 <= q /\ p \in 1..n + 7 /\ p <= n /\ p + 6 <= n
        /\ p + 7 \in Nat \ {0} /\ q \in p + 7..n + 1 /\ p + 6 \in p + 6..q - 1
    BY <1>1, <2>1 DEF CodeKeyedAt
  <2>3. bits[p] = 0 /\ bits[p + 6] = 1
    BY <2>1, <2>2 DEF CodeKeyedAt
  <2>4. f[p] = <<CodeAt(bits, p)>> \o f[p + 7]
    <3>1. f[p] = FrameBody(bits, f, p)
      BY <1>1, <2>2
    <3>2. ~(p > n) /\ ~(p + 6 > n)
      BY <1>1, <2>2
    <3> QED BY <2>3, <3>1, <3>2 DEF FrameBody
  <2>5. CodeAt(bits, p) = x
    <3>1. CodeAt(bits, p) = 16 * bits[p + 5] + 8 * bits[p + 4] + 4 * bits[p + 3]
                              + 2 * bits[p + 2] + bits[p + 1]
      BY <2>2, CodeIs
    <3>2. /\ bits[p + 1] = x % 2 /\ bits[p + 2] = (x \div 2) % 2
          /\ bits[p + 3] = (x \div 4) % 2 /\ bits[p + 4] = (x \div 8) % 2
          /\ bits[p + 5] = (x \div 16) % 2
      BY <2>1 DEF CodeKeyedAt
    <3>3. 16 * ((x \div 16) % 2) + 8 * ((x \div 8) % 2) + 4 * ((x \div 4) % 2)
           + 2 * ((x \div 2) % 2) + (x % 2) = x
      BY <1>2, FiveBitsOf
    <3> QED BY <3>1, <3>2, <3>3
  <2>6. \A i \in p + 7..q - 1 : bits[i] = 1
    <3> SUFFICES ASSUME NEW i \in p + 7..q - 1 PROVE bits[i] = 1
      OBVIOUS
    <3>1. i \in p + 6..q - 1
      OBVIOUS
    <3> QED BY <2>1, <3>1 DEF CodeKeyedAt
  <2>7. f[p + 7] = f[q]
    BY <2>2, <2>6, MarksArePassed
  <2> QED BY <2>4, <2>5, <2>7
<1>3. ASSUME x = REST PROVE f[p] = f[q]
  <2>1. q = p + 6 /\ \A i \in p..q - 1 : bits[i] = 1
    BY <1>3 DEF ItemAt, RestAt
  <2>2. q \in p..Len(bits) + 1
    BY <2>1
  <2> QED BY <2>1, <2>2, MarksArePassed
<1> QED BY <1>2, <1>3
-----------------------------------------------------------------------------
LEMMA PlacesBelow ==
  ASSUME NEW b \in Seq(Bit), NEW items \in Seq(Items), NEW at, LaidOut(b, items, at)
  PROVE  \A k \in 1..Len(items) + 1 : at[k] \in Nat \ {0} /\ at[k] <= Len(b) + 1
<1> DEFINE n == Len(items)
           w == Len(b)
<1>1. n \in Nat /\ w \in Nat
  OBVIOUS
<1>2. /\ at \in [1..n + 1 -> Nat \ {0}] /\ Increasing(at, n + 1) /\ at[n + 1] = w + 1
  BY DEF LaidOut
<1> HIDE DEF n, w
<1> SUFFICES ASSUME NEW k \in 1..n + 1 PROVE at[k] \in Nat \ {0} /\ at[k] <= w + 1
  BY DEF n, w
<1>3. at[k] \in Nat \ {0} /\ n + 1 \in 1..n + 1
  BY <1>1, <1>2
<1>4. CASE k = n + 1
  BY <1>1, <1>2, <1>3, <1>4
<1>5. CASE k < n + 1
  <2>1. at[k] < at[n + 1]
    BY <1>2, <1>3, <1>5 DEF Increasing
  <2> QED BY <1>1, <1>2, <1>3, <2>1
<1> QED BY <1>1, <1>4, <1>5

LEMMA ItemStep ==
  ASSUME NEW b \in Seq(Bit), NEW f, IsFrames(b, f), NEW x \in Items, x # NOISE,
         NEW p \in Nat \ {0}, NEW q \in Nat, q <= Len(b) + 1, ItemAt(b, x, p, q)
  PROVE  \/ x = REST /\ f[p] = f[q]
         \/ x # REST /\ x \in Int /\ <<x>> \in Seq(Int) /\ f[p] = <<x>> \o f[q]
<1>1. x = REST \/ x \in 0..31
  BY DEF Items
<1>4. (x \in 0..31 => f[p] = <<x>> \o f[q]) /\ (x = REST => f[p] = f[q])
  BY ItemIsRead
<1>2. CASE x = REST
  BY <1>2, <1>4
<1>3. CASE x \in 0..31
  <2>1. x # REST /\ x \in Int
    BY <1>3 DEF REST
  <2>2. f[p] = <<x>> \o f[q]
    BY <1>3, <1>4
  <2> QED BY <2>1, <2>2
<1> QED BY <1>1, <1>2, <1>3

(* From an item on after which there is no noise, the frames are the codes *)
(* that were sent.                                                         *)
LEMMA InStep ==
  ASSUME NEW b \in Seq(Bit), NEW f, IsFrames(b, f),
         NEW items \in Seq(Items), NEW at, LaidOut(b, items, at),
         NEW j \in 1..Len(items) + 1, \A i \in j..Len(items) : items[i] # NOISE
  PROVE  Picks(items, {i \in j..Len(items) : items[i] # REST}, f[at[j]])
<1> DEFINE n == Len(items)
           N == n + 1
           Sent(m) == {i \in m..n : items[i] # REST}
           S == {m \in 1..N : m >= j => Picks(items, Sent(m), f[at[m]])}
<1>1. n \in Nat /\ N \in Nat \ {0} /\ Len(b) \in Nat
  OBVIOUS
<1>2. /\ \A k \in 1..N : at[k] \in Nat \ {0} /\ at[k] <= Len(b) + 1
      /\ at[N] = Len(b) + 1
      /\ \A k \in 1..n : ItemAt(b, items[k], at[k], at[k + 1])
  BY PlacesBelow DEF LaidOut
<1>3. \A i \in 1..Len(b) + 7 : f[i] \in Seq(Int) /\ f[i] = FrameBody(b, f, i)
  BY DEF IsFrames
<1>4. N \in S
  <2>1. Sent(N) = {}
    BY <1>1
  <2>2. f[at[N]] = << >>
    <3>1. Len(b) + 1 \in 1..Len(b) + 7 /\ Len(b) + 1 > Len(b)
      BY <1>1
    <3> QED BY <1>2, <1>3, <3>1 DEF FrameBody
  <2>3. Picks(items, Sent(N), f[at[N]])
    BY <2>1, <2>2, PicksNone
  <2> HIDE DEF N, Sent
  <2>4. N \in 1..N
    BY <1>1
  <2> QED BY <2>3, <2>4
<1>5. ASSUME NEW m \in 1..N - 1, m + 1 \in S PROVE m \in S
  <2>1. m \in 1..n /\ m \in 1..N /\ m + 1 \in 1..N /\ m \in Nat
    BY <1>1
  <2>2. ASSUME m >= j PROVE Picks(items, Sent(m), f[at[m]])
    <3> DEFINE x == items[m]
               p == at[m]
               q == at[m + 1]
    <3>1. /\ p \in Nat \ {0} /\ q \in Nat /\ q <= Len(b) + 1 /\ ItemAt(b, x, p, q)
          /\ q \in 1..Len(b) + 7
      BY <1>1, <1>2, <2>1
    <3>2. x \in Items /\ x # NOISE
      <4>1. m \in j..n
        BY <2>1, <2>2
      <4> QED BY <2>1, <4>1, ElementOfSeq
    <3>3. Picks(items, Sent(m + 1), f[q])
      BY <1>5, <2>2
    <3>4. \A i : i \in m..n <=> (i = m \/ i \in m + 1..n)
      BY <2>1
    <3>5. x = REST => Sent(m) = Sent(m + 1)
      BY <3>4
    <3>6. x # REST => Sent(m) = {m} \cup Sent(m + 1)
      BY <3>4
    <3>7. \A i \in Sent(m + 1) : m < i
      BY <2>1
    <3>8. x = items[m]
      OBVIOUS
    <3> HIDE DEF x, p, q, Sent
    <3>9. \/ x = REST /\ f[p] = f[q]
          \/ x # REST /\ x \in Int /\ <<x>> \in Seq(Int) /\ f[p] = <<x>> \o f[q]
      BY <3>1, <3>2, ItemStep
    <3>10. f[q] \in Seq(Int)
      BY <1>3, <3>1
    <3>11. Picks(items, Sent(m), f[p])
      <4>1. CASE x = REST
        BY <3>3, <3>5, <3>9, <4>1
      <4>2. CASE x # REST
        <5>1. items[m] \in Int
          BY <3>8, <3>9, <4>2
        <5>2. Picks(items, {m} \cup Sent(m + 1), <<items[m]>> \o f[q])
          BY <2>1, <3>3, <3>7, <3>10, <5>1, PicksOneMore
        <5> QED BY <3>6, <3>8, <3>9, <4>2, <5>2
      <4> QED BY <4>1, <4>2
    <3> QED BY <3>11 DEF p
  <2> QED BY <2>1, <2>2
<1>6. \A m \in 1..N : m \in S
  <2> HIDE DEF S, N
  <2> QED BY <1>1, <1>4, <1>5, Downwards
<1>7. j >= j
  OBVIOUS
<1> QED BY <1>6, <1>7

(* A search that is in step before items without noise is in step after    *)
(* them.                                                                   *)
LEMMA StaysInStep ==
  ASSUME NEW b \in Seq(Bit), NEW f, IsFrames(b, f),
         NEW items \in Seq(Items), NEW at, LaidOut(b, items, at),
         NEW k \in 1..Len(items) + 1, NEW r \in 1..k, \A i \in r..k - 1 : items[i] # NOISE
  PROVE  LeadsTo(f, at[r], at[k])
<1> DEFINE n == Len(items)
           S == {m \in 1..k : m >= r => LeadsTo(f, at[m], at[k])}
<1>1. n \in Nat /\ k \in Nat \ {0} /\ Len(b) \in Nat /\ k <= n + 1 /\ k \in 1..k /\ k \in 1..n + 1
  OBVIOUS
<1>2. /\ \A i \in 1..n + 1 : at[i] \in Nat \ {0} /\ at[i] <= Len(b) + 1
      /\ \A i \in 1..n : ItemAt(b, items[i], at[i], at[i + 1])
  BY PlacesBelow DEF LaidOut
<1>3. \A i \in 1..n + 1 : f[at[i]] \in Seq(Int)
  <2> SUFFICES ASSUME NEW i \in 1..n + 1 PROVE f[at[i]] \in Seq(Int)
    OBVIOUS
  <2>1. at[i] \in 1..Len(b) + 7
    BY <1>1, <1>2
  <2> QED BY <2>1 DEF IsFrames
<1> HIDE DEF n
<1>4. k \in S
  <2>1. LeadsTo(f, at[k], at[k])
    BY <1>1, <1>3, LeadsItself
  <2> QED BY <1>1, <2>1
<1>5. ASSUME NEW m \in 1..k - 1, m + 1 \in S PROVE m \in S
  <2>1. m \in 1..n /\ m \in 1..n + 1 /\ m + 1 \in 1..n + 1 /\ m \in 1..k
    BY <1>1
  <2>2. ASSUME m >= r PROVE LeadsTo(f, at[m], at[k])
    <3> DEFINE x == items[m]
               p == at[m]
               q == at[m + 1]
               last == at[k]
    <3>1. p \in Nat \ {0} /\ q \in Nat /\ q <= Len(b) + 1 /\ ItemAt(b, x, p, q)
      BY <1>2, <2>1
    <3>2. x \in Items /\ x # NOISE
      <4>1. m \in r..k - 1
        BY <2>1, <2>2
      <4>2. items[m] \in Items
        BY <2>1, ElementOfSeq DEF n
      <4> QED BY <4>1, <4>2
    <3>3. LeadsTo(f, q, last) /\ f[last] \in Seq(Int)
      BY <1>1, <1>3, <1>5, <2>2
    <3> HIDE DEF x, p, q, last
    <3>4. \/ x = REST /\ f[p] = f[q]
          \/ x # REST /\ x \in Int /\ <<x>> \in Seq(Int) /\ f[p] = <<x>> \o f[q]
      BY <3>1, <3>2, ItemStep
    <3>5. LeadsTo(f, p, last)
      <4>1. CASE x = REST
        BY <3>3, <3>4, <4>1 DEF LeadsTo
      <4>2. CASE x # REST
        BY <3>3, <3>4, <4>2, LeadsBack
      <4> QED BY <4>1, <4>2
    <3> QED BY <3>5 DEF p, last
  <2> QED BY <2>1, <2>2
<1>6. \A m \in 1..k : m \in S
  <2> HIDE DEF S
  <2> QED BY <1>1, <1>4, <1>5, Downwards
<1>7. r >= r
  OBVIOUS
<1> QED BY <1>6, <1>7

LEMMA LeadsOn ==
  ASSUME NEW f, NEW p, NEW q, NEW r, LeadsTo(f, p, q), LeadsTo(f, q, r), f[r] \in Seq(Int)
  PROVE  LeadsTo(f, p, r)
<1>1. PICK x \in Seq(Int) : f[p] = x \o f[q]
  BY DEF LeadsTo
<1> QED BY <1>1, LeadsBack

(* After a rest, and until there is noise again, the search is in step.    *)
LEMMA RestCatches ==
  ASSUME NEW b \in Seq(Bit), NEW f, IsFrames(b, f),
         NEW items \in Seq(Items), NEW at, LaidOut(b, items, at),
         NEW k \in 1..Len(items), NEW r \in 1..k - 1, items[r] = REST,
         \A i \in r..k : items[i] # NOISE
  PROVE  LeadsTo(f, 1, at[k])
<1> DEFINE n == Len(items)
<1>1. n \in Nat /\ Len(b) \in Nat /\ r \in 1..n /\ r + 1 \in 1..n + 1 /\ r \in 1..n + 1
      /\ k \in 1..n + 1 /\ r + 1 \in 1..k
  OBVIOUS
<1>2. /\ \A i \in 1..n + 1 : at[i] \in Nat \ {0} /\ at[i] <= Len(b) + 1
      /\ \A i \in 1..n : ItemAt(b, items[i], at[i], at[i + 1])
  BY PlacesBelow DEF LaidOut
<1>3. /\ at[r] \in Nat \ {0} /\ at[r + 1] \in Nat /\ at[r + 1] <= Len(b) + 1
      /\ ItemAt(b, items[r], at[r], at[r + 1])
  BY <1>1, <1>2
<1>4. at[r + 1] = at[r] + 6 /\ \A i \in at[r]..at[r + 1] - 1 : b[i] = 1
  BY <1>3 DEF ItemAt, RestAt
<1> DEFINE q == at[r + 1]
<1>5. q \in 7..Len(b) + 1 /\ at[r] = q - 6
  BY <1>1, <1>3, <1>4
<1>6. \A i \in q - 6..q - 1 : b[i] = 1
  BY <1>4, <1>5
<1>7. LeadsTo(f, 1, q)
  <2> HIDE DEF q
  <2> QED BY <1>5, <1>6, SixMarksCatch
<1>8. LeadsTo(f, at[r + 1], at[k])
  <2>1. \A i \in r + 1..k - 1 : items[i] # NOISE
    BY <1>1
  <2> QED BY <1>1, <2>1, StaysInStep
<1>9. f[at[k]] \in Seq(Int)
  <2>1. at[k] \in 1..Len(b) + 7
    BY <1>1, <1>2
  <2> QED BY <2>1 DEF IsFrames
<1> QED BY <1>7, <1>8, <1>9, LeadsOn
-----------------------------------------------------------------------------
LEMMA OneMoreBelow ==
  ASSUME NEW m \in Int, NEW n \in Int, m <= n
  PROVE  \A i : i \in m..n <=> (i = m \/ i \in m + 1..n)
  OBVIOUS

(* The table in use after i codes, of a text that begins in table s.       *)
Shifts(codes, i) == {j \in 1..i : codes[j] \in ShiftCodes}
ShiftAt(codes, s, i) == IF Shifts(codes, i) = {} THEN s ELSE codes[Max(Shifts(codes, i))]

Printing(codes, m) == {i \in m..Len(codes) : codes[i] \notin ShiftCodes \cup {0}}

(* The glyphs of the codes; those of codes that do not print matter not.   *)
GlyphsOf(codes, s) == [i \in 1..Len(codes) |-> Glyph(codes[i], ShiftAt(codes, s, i))]

LEMMA ShiftMoves ==
  ASSUME NEW codes, NEW s, NEW i \in Nat \ {0}
  PROVE  ShiftAt(codes, s, i)
           = IF codes[i] \in ShiftCodes THEN codes[i] ELSE ShiftAt(codes, s, i - 1)
<1>1. CASE codes[i] \in ShiftCodes
  <2> DEFINE A == Shifts(codes, i)
  <2>1. i \in A /\ \A j \in A : i >= j /\ j \in Nat
    BY <1>1 DEF Shifts
  <2>2. A # {}
    BY <2>1
  <2>3. \A x \in A : (\A y \in A : x >= y) => x = i
    <3> HIDE DEF A
    <3> SUFFICES ASSUME NEW x \in A, \A y \in A : x >= y PROVE x = i
      OBVIOUS
    <3>1. x >= i /\ i >= x /\ x \in Nat
      BY <2>1
    <3> QED BY <3>1
  <2> HIDE DEF A
  <2>4. Max(A) = i
    BY <2>1, <2>3 DEF Max
  <2> QED BY <1>1, <2>2, <2>4 DEF ShiftAt, A
<1>2. CASE codes[i] \notin ShiftCodes
  <2>1. Shifts(codes, i) = Shifts(codes, i - 1)
    <3>1. \A j : j \in 1..i <=> (j = i \/ j \in 1..i - 1)
      OBVIOUS
    <3> QED BY <1>2, <3>1 DEF Shifts
  <2> QED BY <1>2, <2>1 DEF ShiftAt
<1> QED BY <1>1, <1>2

LEMMA ShiftBegins == ASSUME NEW codes, NEW s PROVE ShiftAt(codes, s, 0) = s
<1>1. Shifts(codes, 0) = {}
  BY DEF Shifts
<1> QED BY <1>1 DEF ShiftAt

LEMMA ShiftIsShift ==
  ASSUME NEW codes, NEW s \in ShiftCodes
  PROVE  \A i \in Nat : ShiftAt(codes, s, i) \in ShiftCodes
<1> DEFINE T == {i \in Nat : ShiftAt(codes, s, i) \notin ShiftCodes}
<1> SUFFICES ASSUME T # {} PROVE FALSE
  OBVIOUS
<1>1. T \in SUBSET Nat
  OBVIOUS
<1>2. PICK m \in T : \A k \in T : m <= k
  <2> HIDE DEF T
  <2> QED BY <1>1, Least
<1>3. m # 0
  BY ShiftBegins
<1>4. m - 1 \in Nat /\ m - 1 \notin T /\ m \in Nat \ {0}
  BY <1>1, <1>2, <1>3
<1>5. ShiftAt(codes, s, m)
        = IF codes[m] \in ShiftCodes THEN codes[m] ELSE ShiftAt(codes, s, m - 1)
  BY <1>4, ShiftMoves
<1> QED BY <1>4, <1>5

(* From where the frames are the codes that were sent, the text is what    *)
(* they print in the table that is in use there.                           *)
LEMMA TextInStep ==
  ASSUME NEW frames \in Seq(Int), NEW t, IsText(frames, t),
         NEW codes \in Seq(0..31), NEW K \in Nat, Len(frames) = K + Len(codes),
         \A i \in 1..Len(codes) : frames[K + i] = codes[i],
         NEW s0 \in ShiftCodes
  PROVE  Picks(GlyphsOf(codes, s0), Printing(codes, 1), t[K + 1][s0])
<1> DEFINE n == Len(codes)
           N == n + 1
           g == GlyphsOf(codes, s0)
           at(m) == t[K + m][ShiftAt(codes, s0, m - 1)]
           S == {m \in 1..N : Picks(g, Printing(codes, m), at(m))}
<1>1. n \in Nat /\ N \in Nat \ {0} /\ N \in 1..N /\ K + n + 1 = Len(frames) + 1
  OBVIOUS
<1>2. /\ \A k \in 1..K + n + 1 : t[k] \in Texts
      /\ \A k \in 1..K + n + 1 : \A shift \in ShiftCodes :
           t[k][shift] = TextBody(frames, t, k, shift)
  BY <1>1 DEF IsText
<1>3. \A k \in 1..K + n + 1 : \A shift \in ShiftCodes : t[k][shift] \in Seq(Glyphs)
  BY <1>2 DEF Texts
<1>4. \A i \in Nat : ShiftAt(codes, s0, i) \in ShiftCodes
  BY ShiftIsShift
<1>5. N \in S
  <2>1. Printing(codes, N) = {}
    BY <1>1 DEF Printing
  <2>2. at(N) = << >>
    <3> DEFINE sh == ShiftAt(codes, s0, N - 1)
    <3>1. sh \in ShiftCodes
      BY <1>1, <1>4
    <3> HIDE DEF sh
    <3>2. K + N > Len(frames) /\ K + N \in 1..K + n + 1
      BY <1>1
    <3>3. t[K + N][sh] = TextBody(frames, t, K + N, sh)
      BY <1>2, <3>1, <3>2
    <3>4. t[K + N][sh] = << >>
      BY <3>2, <3>3 DEF TextBody
    <3> QED BY <3>4 DEF sh
  <2>3. Picks(g, Printing(codes, N), at(N))
    BY <2>1, <2>2, PicksNone
  <2> QED BY <1>1, <2>3
<1>6. ASSUME NEW m \in 1..N - 1, m + 1 \in S PROVE m \in S
  <2> DEFINE x == codes[m]
             s == ShiftAt(codes, s0, m - 1)
             q == ShiftAt(codes, s0, m)
             rest == t[(K + m) + 1]
  <2>1. m \in 1..n /\ m \in Nat \ {0} /\ m \in 1..N /\ m - 1 \in Nat /\ K + (m + 1) = (K + m) + 1
        /\ (m + 1) - 1 = m /\ K + m \in 1..K + n + 1 /\ (K + m) + 1 \in 1..K + n + 1
        /\ ~(K + m > Len(frames))
    BY <1>1
  <2>2. x \in 0..31 /\ frames[K + m] = x
    BY <2>1, ElementOfSeq
  <2>3. s \in ShiftCodes /\ q \in ShiftCodes /\ q = IF x \in ShiftCodes THEN x ELSE s
    <3>1. q = IF codes[m] \in ShiftCodes THEN codes[m] ELSE ShiftAt(codes, s0, m - 1)
      BY <2>1, ShiftMoves
    <3> QED BY <1>4, <2>1, <3>1
  <2>4. Picks(g, Printing(codes, m + 1), rest[q])
    BY <1>6, <2>1
  <2>5. at(m) = t[K + m][s]
    OBVIOUS
  <2>6. g[m] = Glyph(x, q)
    BY <2>1 DEF GlyphsOf
  <2>7. \A i : i \in m..n <=> (i = m \/ i \in m + 1..n)
    <3>1. m \in Int /\ n \in Int /\ m <= n
      BY <2>1
    <3> HIDE DEF n
    <3> QED BY <3>1, OneMoreBelow
  <2>8. x \in ShiftCodes \cup {0} => Printing(codes, m) = Printing(codes, m + 1)
    BY <2>7 DEF Printing
  <2>9. x \notin ShiftCodes \cup {0} => Printing(codes, m) = {m} \cup Printing(codes, m + 1)
    BY <2>7 DEF Printing
  <2>10. \A i \in Printing(codes, m + 1) : m < i
    BY <2>1 DEF Printing
  <2>11. rest[q] \in Seq(Glyphs)
    BY <1>3, <2>1, <2>3
  <2> HIDE DEF s, q, rest, x, g
  <2>12. t[K + m][s] = TextBody(frames, t, K + m, s)
    BY <1>2, <2>1, <2>3
  <2>13. t[K + m][s] = IF x \in ShiftCodes THEN rest[x]
                       ELSE IF x \in {NoFrame, 0} THEN rest[s]
                       ELSE <<Glyph(x, s)>> \o rest[s]
    BY <2>1, <2>2, <2>12 DEF TextBody, rest
  <2>14. x # NoFrame
    BY <2>2 DEF NoFrame
  <2>15. Picks(g, Printing(codes, m), t[K + m][s])
    <3>1. CASE x \in ShiftCodes \cup {0}
      <4>1. t[K + m][s] = rest[q]
        BY <2>3, <2>13, <3>1
      <4> QED BY <2>4, <2>8, <3>1, <4>1
    <3>2. CASE x \notin ShiftCodes \cup {0}
      <4>1. q = s /\ t[K + m][s] = <<Glyph(x, s)>> \o rest[q]
        BY <2>3, <2>13, <2>14, <3>2
      <4>2. g[m] \in Glyphs
        BY <2>2, <2>3, <2>6 DEF Glyphs
      <4>3. Picks(g, {m} \cup Printing(codes, m + 1), <<g[m]>> \o rest[q])
        BY <2>1, <2>4, <2>10, <2>11, <4>2, PicksOneMore
      <4> QED BY <2>6, <2>9, <3>2, <4>1, <4>3
    <3> QED BY <3>1, <3>2
  <2> QED BY <2>1, <2>5, <2>15
<1>7. \A m \in 1..N : m \in S
  <2> HIDE DEF S, N
  <2> QED BY <1>1, <1>5, <1>6, Downwards
<1>8. 1 \in S /\ 1 - 1 = 0
  BY <1>1, <1>7
<1> QED BY <1>8, ShiftBegins

(* Which is what the codes mean, if they begin with a shift code or in the *)
(* table that is in use before there is one.                               *)
LEMMA MeantIs ==
  ASSUME NEW codes \in Seq(0..31), NEW s0 \in ShiftCodes,
         s0 = LTRS \/ (Len(codes) > 0 /\ codes[1] \in ShiftCodes),
         NEW text, Picks(GlyphsOf(codes, s0), Printing(codes, 1), text)
  PROVE  text = Meant(codes)
<1> DEFINE n == Len(codes)
           S == Printing(codes, 1)
           o == InOrder(S)
<1>1. PICK k, e : PicksBy(GlyphsOf(codes, s0), S, text, k, e)
  BY DEF Picks
<1>2. /\ k \in Nat /\ e \in [1..k -> Nat] /\ Increasing(e, k) /\ S = {e[i] : i \in 1..k}
      /\ text = [i \in 1..k |-> GlyphsOf(codes, s0)[e[i]]]
  BY <1>1 DEF PicksBy
<1>3. o = e /\ DOMAIN o = 1..k
  <2>1. InOrder({e[i] : i \in 1..k}) = e
    BY <1>2, InOrderIs
  <2> QED BY <1>2, <2>1
<1>4. S = {i \in 1..n : codes[i] \notin ShiftCodes \cup {0}}
  BY DEF Printing
<1>5. ASSUME NEW i \in 1..n PROVE ShiftAt(codes, s0, i) = ShiftAt(codes, LTRS, i)
  <2>1. CASE s0 = LTRS
    BY <2>1
  <2>2. CASE codes[1] \in ShiftCodes
    <3>1. 1 \in 1..i
      OBVIOUS
    <3>2. 1 \in Shifts(codes, i)
      BY <2>2, <3>1 DEF Shifts
    <3> QED BY <3>2 DEF ShiftAt
  <2> QED BY <2>1, <2>2
<1>6. Meant(codes) = [p \in DOMAIN o |-> Glyph(codes[o[p]], ShiftAt(codes, LTRS, o[p]))]
  BY <1>4 DEF Meant, Indices, ShiftAt, Shifts
<1>7. ASSUME NEW p \in 1..k
      PROVE  GlyphsOf(codes, s0)[e[p]] = Glyph(codes[o[p]], ShiftAt(codes, LTRS, o[p]))
  <2>1. e[p] \in 1..n /\ o[p] = e[p]
    BY <1>2, <1>3, <1>4
  <2> QED BY <1>5, <2>1 DEF GlyphsOf
<1> HIDE DEF o, S, n
<1> QED BY <1>2, <1>3, <1>6, <1>7

(* The text ends with what is printed from any place of the frames on, in  *)
(* one of the tables.                                                      *)
LEMMA TextLeads ==
  ASSUME NEW frames \in Seq(Int), NEW t, IsText(frames, t), NEW K \in 0..Len(frames)
  PROVE  \E s0 \in ShiftCodes : \E pre \in Seq(Glyphs) : t[1][LTRS] = pre \o t[K + 1][s0]
<1> DEFINE n == Len(frames)
           N == K + 1
           Ends(m, s) == \E s0 \in ShiftCodes : \E pre \in Seq(Glyphs) :
                           t[m][s] = pre \o t[N][s0]
           S == {m \in 1..N : \A s \in ShiftCodes : Ends(m, s)}
<1>1. n \in Nat /\ N \in Nat \ {0} /\ N \in 1..N /\ N <= n + 1
  OBVIOUS
<1>2. /\ \A k \in 1..n + 1 : t[k] \in Texts
      /\ \A k \in 1..n + 1 : \A shift \in ShiftCodes :
           t[k][shift] = TextBody(frames, t, k, shift)
  BY DEF IsText
<1>3. \A k \in 1..n + 1 : \A shift \in ShiftCodes : t[k][shift] \in Seq(Glyphs)
  BY <1>2 DEF Texts
<1>4. N \in S
  <2>1. ASSUME NEW s \in ShiftCodes PROVE Ends(N, s)
    <3>1. t[N][s] \in Seq(Glyphs)
      BY <1>1, <1>3
    <3>2. << >> \in Seq(Glyphs) /\ << >> \o t[N][s] = t[N][s]
      BY <3>1, ConcatEmptySeq
    <3> QED BY <3>2
  <2> HIDE DEF Ends, N
  <2> QED BY <1>1, <2>1
<1>5. ASSUME NEW m \in 1..N - 1, m + 1 \in S PROVE m \in S
  <2>1. m \in 1..n /\ m \in 1..n + 1 /\ m + 1 \in 1..n + 1 /\ m \in 1..N
    BY <1>1
  <2>2. frames[m] \in Int
    BY <2>1, ElementOfSeq
  <2>3. ASSUME NEW s \in ShiftCodes PROVE Ends(m, s)
    <3> DEFINE x == frames[m]
    <3>1. t[m][s] = IF x \in ShiftCodes THEN t[m + 1][x]
                    ELSE IF x \in {NoFrame, 0} THEN t[m + 1][s]
                    ELSE <<Glyph(x, s)>> \o t[m + 1][s]
      <4>1. ~(m > Len(frames))
        BY <1>1, <2>1
      <4> QED BY <1>2, <2>1, <4>1 DEF TextBody
    <3>2. x \in Int
      BY <2>2
    <3> HIDE DEF x
    <3>3. CASE x \in ShiftCodes
      <4>1. Ends(m + 1, x)
        BY <1>5, <3>3
      <4> QED BY <3>1, <3>3, <4>1
    <3>4. CASE x \notin ShiftCodes /\ x \in {NoFrame, 0}
      <4>1. Ends(m + 1, s)
        BY <1>5
      <4> QED BY <3>1, <3>4, <4>1
    <3>5. CASE x \notin ShiftCodes /\ x \notin {NoFrame, 0}
      <4>1. PICK s0 \in ShiftCodes, pre \in Seq(Glyphs) : t[m + 1][s] = pre \o t[N][s0]
        BY <1>5
      <4> DEFINE o == <<Glyph(x, s)>>
                 z == t[N][s0]
      <4>2. o \in Seq(Glyphs) /\ z \in Seq(Glyphs)
        <5>1. Glyph(x, s) \in Glyphs
          BY <3>2 DEF Glyphs
        <5>2. z \in Seq(Glyphs)
          BY <1>1, <1>3
        <5> QED BY <5>1, <5>2
      <4>3. t[m][s] = o \o (pre \o z)
        BY <3>1, <3>5, <4>1
      <4> HIDE DEF o, z
      <4>4. (o \o pre) \o z = o \o (pre \o z)
        BY <4>2, ConcatAssociative
      <4>5. o \o pre \in Seq(Glyphs)
        BY <4>2, ConcatProperties
      <4>6. t[m][s] = (o \o pre) \o t[N][s0]
        BY <4>3, <4>4 DEF z
      <4> QED BY <4>5, <4>6
    <3> QED BY <3>3, <3>4, <3>5
  <2> HIDE DEF Ends
  <2> QED BY <2>1, <2>3
<1>6. \A m \in 1..N : m \in S
  <2> HIDE DEF S, N
  <2> QED BY <1>1, <1>4, <1>5, Downwards
<1>7. 1 \in S
  <2>1. 1 \in 1..N
    BY <1>1
  <2> HIDE DEF S
  <2> QED BY <1>6, <2>1
<1>8. LTRS \in ShiftCodes
  BY DEF ShiftCodes
<1> QED BY <1>7, <1>8

LEMMA SuffixIs ==
  ASSUME NEW T, NEW pre \in Seq(T), NEW s \in Seq(T)
  PROVE  IsSuffix(s, pre \o s)
<1> DEFINE n == Len(s)
           m == Len(pre)
           w == pre \o s
           rs == Reverse(s)
           rw == Reverse(w)
<1>1. /\ n \in Nat /\ m \in Nat /\ Len(w) = m + n
      /\ \A i \in 1..n : w[m + i] = s[i]
  BY ConcatAt
<1> HIDE DEF w
<1>2. rs = [i \in 1..n |-> s[(n - i) + 1]]
  BY DEF Reverse
<1>3. rw = [i \in 1..m + n |-> w[((m + n) - i) + 1]]
  BY <1>1 DEF Reverse
<1> HIDE DEF rs, rw, n, m
<1>4. Len(rs) = n /\ Len(rw) = m + n /\ n <= m + n
  BY <1>1, <1>2, <1>3
<1>5. \A i \in 1..n : rs[i] = rw[i]
  <2> SUFFICES ASSUME NEW i \in 1..n PROVE rs[i] = rw[i]
    OBVIOUS
  <2>1. /\ i \in 1..m + n /\ (n - i) + 1 \in 1..n /\ ((m + n) - i) + 1 = m + ((n - i) + 1)
    BY <1>1
  <2> QED BY <1>1, <1>2, <1>3, <2>1
<1>6. rs \in Seq(T) /\ rw \in Seq(T)
  <2>1. \A i \in 1..n : (n - i) + 1 \in 1..n
    BY <1>1
  <2>2. \A i \in 1..m + n : ((m + n) - i) + 1 \in 1..m + n
    BY <1>1
  <2>3. \A i \in 1..n : s[i] \in T
    BY ElementOfSeq DEF n
  <2>4. w \in Seq(T)
    BY ConcatAt DEF w
  <2>5. \A i \in 1..m + n : w[i] \in T
    BY <1>1, <2>4, ElementOfSeq
  <2>6. m + n \in Nat
    BY <1>1
  <2>7. rs \in Seq(T)
    BY <1>1, <1>2, <2>1, <2>3
  <2>8. rw \in Seq(T)
    BY <1>3, <2>2, <2>5, <2>6
  <2> QED BY <2>7, <2>8
<1>7. SubSeq(rs, 1, n) = SubSeq(rw, 1, n)
  <2>1. ASSUME NEW r \in Seq(T), n <= Len(r)
        PROVE  SubSeq(r, 1, n) = [i \in 1..n |-> r[i]]
    <3>1. 1..n \subseteq 1..Len(r)
      BY <1>1, <2>1
    <3>2. SubSeq(r, 1, n) = [i \in 1..n |-> r[i]]
      BY <1>1, <3>1
    <3> QED BY <3>2
  <2>2. SubSeq(rs, 1, n) = [i \in 1..n |-> rs[i]]
    BY <1>1, <1>4, <1>6, <2>1
  <2>3. SubSeq(rw, 1, n) = [i \in 1..n |-> rw[i]]
    BY <1>1, <1>4, <1>6, <2>1
  <2> QED BY <1>5, <2>2, <2>3
<1>8. IsPrefix(rs, rw)
  BY <1>4, <1>7 DEF IsPrefix
<1> QED BY <1>8 DEF IsSuffix, rs, rw, w
-----------------------------------------------------------------------------
(* The codes of the items from j on.                                       *)
CodesOf(items, j) == Kept(SubSeq(items, j, Len(items)), LAMBDA x : x # REST)

LEMMA PicksType ==
  ASSUME NEW s, NEW S, NEW t, NEW T, Picks(s, S, t), \A i \in S : s[i] \in T
  PROVE  t \in Seq(T)
<1>1. PICK n, e : PicksBy(s, S, t, n, e)
  BY DEF Picks
<1>2. n \in Nat /\ S = {e[k] : k \in 1..n} /\ t = [k \in 1..n |-> s[e[k]]]
  BY <1>1 DEF PicksBy
<1>3. \A k \in 1..n : s[e[k]] \in T
  BY <1>2
<1> QED BY <1>2, <1>3

(* The frames from item j on, if there is no noise from there on.          *)
LEMMA CodesFrom ==
  ASSUME NEW b \in Seq(Bit), NEW f, IsFrames(b, f),
         NEW items \in Seq(Items), NEW at, LaidOut(b, items, at),
         NEW j \in 1..Len(items) + 1, \A i \in j..Len(items) : items[i] # NOISE
  PROVE  /\ f[at[j]] \in Seq(0..31)
         /\ f[at[j]] = CodesOf(items, j)
<1> DEFINE n == Len(items)
           codes == f[at[j]]
           S == {i \in j..n : items[i] # REST}
           d == j - 1
           r == SubSeq(items, j, n)
           R == {i \in 1..Len(r) : r[i] # REST}
           o == InOrder(R)
<1>1. n \in Nat /\ d \in Nat /\ j = d + 1 /\ j \in Int /\ n \in Int
  OBVIOUS
<1>2. Picks(items, S, codes)
  BY InStep
<1>3. \A i \in S : items[i] \in 0..31
  <2> SUFFICES ASSUME NEW i \in S PROVE items[i] \in 0..31
    OBVIOUS
  <2> DEFINE x == items[i]
  <2>1. x \in Items /\ x # NOISE /\ x # REST
    BY ElementOfSeq
  <2> HIDE DEF x
  <2>2. x \in 0..31
    BY <2>1 DEF Items
  <2> QED BY <2>2 DEF x
<1> HIDE DEF codes
<1>4. codes \in Seq(0..31)
  <2> HIDE DEF S
  <2> QED BY <1>2, <1>3, PicksType
<1>5. Len(r) = n - d /\ \A i \in 1..n - d : r[i] = items[d + i]
  <2>1. \A i \in j..n : items[i] \in Items
    BY ElementOfSeq
  <2>2. /\ Len(r) = IF j <= n THEN n - j + 1 ELSE 0
        /\ \A i \in 1..n - j + 1 : r[i] = items[j + i - 1]
    BY <1>1, <2>1, SubSeqProperties
  <2>3. n - j + 1 = n - d /\ \A i \in 1..n - d : j + i - 1 = d + i
    BY <1>1
  <2>4. j <= n + 1
    OBVIOUS
  <2> HIDE DEF r, n
  <2> QED BY <1>1, <2>2, <2>3, <2>4
<1> HIDE DEF r, n
<1>6. \A i \in S : i > d /\ i - d \in 1..n - d /\ d + (i - d) = i
  BY <1>1
<1>7. \A i \in S : i > d /\ r[i - d] = items[i]
  <2> HIDE DEF S
  <2> QED BY <1>5, <1>6
<1>8. {i - d : i \in S} = R
  <2>1. ASSUME NEW i \in S PROVE i - d \in R
    BY <1>5, <1>6, <1>7
  <2>2. ASSUME NEW i \in R PROVE d + i \in S /\ (d + i) - d = i
    <3>1. i \in 1..n - d /\ r[i] # REST /\ r[i] = items[d + i]
      BY <1>5
    <3>2. d + i \in j..n /\ (d + i) - d = i
      BY <1>1, <3>1
    <3> QED BY <3>1, <3>2
  <2> HIDE DEF S, R
  <2> QED BY <2>1, <2>2
<1>9. Picks(r, R, codes)
  <2> HIDE DEF S, R
  <2>1. Picks(r, {i - d : i \in S}, codes)
    <3> HIDE DEF d
    <3> QED BY <1>1, <1>2, <1>7, PicksLater
  <2> QED BY <1>8, <2>1
<1>10. codes = [k \in DOMAIN o |-> r[o[k]]]
  <2> HIDE DEF R
  <2> QED BY <1>9, PicksIs DEF o
<1>11. Kept(r, LAMBDA x : x # REST) = Tabulated([k \in DOMAIN o |-> r[o[k]]])
  BY DEF Kept, Indices
<1> HIDE DEF o
<1>12. Kept(r, LAMBDA x : x # REST) = codes
  BY <1>4, <1>10, <1>11, TabulatedIs
<1> QED BY <1>4, <1>12 DEF codes, r, n, CodesOf

LEMMA FirstCode ==
  ASSUME NEW b \in Seq(Bit), NEW f, IsFrames(b, f),
         NEW items \in Seq(Items), NEW at, LaidOut(b, items, at),
         NEW k \in 1..Len(items), items[k] \in 0..31
  PROVE  Len(f[at[k]]) > 0 /\ f[at[k]][1] = items[k]
<1> DEFINE x == items[k]
           p == at[k]
           q == at[k + 1]
           o == <<x>>
           z == f[q]
<1>1. k \in 1..Len(items) + 1 /\ k + 1 \in 1..Len(items) + 1 /\ Len(b) \in Nat
  OBVIOUS
<1>2. p \in Nat \ {0} /\ q \in Nat \ {0} /\ q <= Len(b) + 1
  BY <1>1, PlacesBelow
<1>3. ItemAt(b, x, p, q) /\ x \in 0..31
  BY DEF LaidOut
<1>4. z \in Seq(Int)
  <2>1. q \in 1..Len(b) + 7
    BY <1>1, <1>2
  <2> QED BY <2>1 DEF IsFrames
<1>5. o = <<x>>
  OBVIOUS
<1> HIDE DEF x, p, q, z, o
<1>6. x \in Items /\ x # NOISE /\ x # REST
  BY <1>3 DEF Items, NOISE, REST
<1>7. <<x>> \in Seq(Int) /\ f[p] = <<x>> \o f[q]
  BY <1>2, <1>3, <1>6, ItemStep
<1>8. o \in Seq(Int) /\ Len(o) = 1 /\ o[1] = x
  BY <1>5, <1>7
<1>9. Len(o \o z) = Len(o) + Len(z) /\ \A i \in 1..Len(o) : (o \o z)[i] = o[i]
  BY <1>4, <1>8, ConcatAt
<1>10. f[p] = o \o z
  BY <1>5, <1>7 DEF z
<1>11. Len(z) \in Nat /\ 1 \in 1..1
  BY <1>4
<1>12. Len(f[p]) > 0 /\ f[p][1] = x
  BY <1>8, <1>9, <1>10, <1>11
<1> QED BY <1>12 DEF p, x

LEMMA CodesAreInts == ASSUME NEW s \in Seq(0..31) PROVE s \in Seq(Int)
<1>1. \A i \in 1..Len(s) : s[i] \in 0..31
  BY ElementOfSeq
<1>4. \A x \in 0..31 : x \in Int
  OBVIOUS
<1>2. \A i \in 1..Len(s) : s[i] \in Int
  BY <1>1, <1>4
<1>3. Len(s) \in Nat /\ s = [i \in 1..Len(s) |-> s[i]]
  OBVIOUS
<1> QED BY <1>2, <1>3

(* A code that was sent shows both levels.                                 *)
LEMMA CodeShows ==
  ASSUME NEW b \in Seq(Bit), NEW items \in Seq(Items), NEW at, LaidOut(b, items, at),
         NEW k \in 1..Len(items), items[k] \in 0..31
  PROVE  BothLevels(b) /\ at[k] \in Nat \ {0} /\ at[k] + 6 <= Len(b)
<1> DEFINE x == items[k]
           p == at[k]
           q == at[k + 1]
           w == Len(b)
<1>1. k \in 1..Len(items) + 1 /\ k + 1 \in 1..Len(items) + 1 /\ w \in Nat
  OBVIOUS
<1>2. p \in Nat \ {0} /\ q \in Nat \ {0} /\ q <= w + 1
  BY <1>1, PlacesBelow
<1>3. ItemAt(b, x, p, q) /\ x \in 0..31
  BY DEF LaidOut
<1> HIDE DEF x, p, q, w
<1>4. CodeKeyedAt(b, x, p, q)
  BY <1>3 DEF ItemAt
<1>5. p + 7 <= q /\ b[p] = 0 /\ b[p + 6] = 1
  <2>1. p + 7 <= q /\ b[p] = 0 /\ \A i \in p + 6..q - 1 : b[i] = 1
    BY <1>4 DEF CodeKeyedAt
  <2>2. p + 6 \in p + 6..q - 1
    BY <1>2, <2>1
  <2> QED BY <2>1, <2>2
<1>6. p \in 1..w /\ p + 6 \in 1..w /\ p + 6 <= w
  BY <1>1, <1>2, <1>5
<1>7. BothLevels(b)
  BY <1>5, <1>6 DEF BothLevels, w
<1> QED BY <1>2, <1>6, <1>7 DEF p, w

LEMMA DecodedIs ==
  ASSUME NEW b, Keyed(air, b), BothLevels(b), Len(b) >= 8
  PROVE  RttyDecoded =
           [text |-> TextOf(FramesFrom(b)),
            framing_errors |->
              Cardinality({k \in DOMAIN FramesFrom(b) : FramesFrom(b)[k] = NoFrame})]
<1>1. FskBits(SymbolTones(air, FSK_SPS), FALSE) = b
  BY BitsAreRead
<1>2. RttyDecoded = DecodeRtty(b)
  BY <1>1 DEF RttyDecoded
<1>3. ~(Len(b) < 8)
  <2>1. Len(b) \in Nat
    BY DEF Keyed
  <2> QED BY <2>1
<1> QED BY <1>2, <1>3 DEF DecodeRtty

LEMMA CatchesUp ==
  ASSUME RttyInv, code = "rtty", NEW k \in DOMAIN sent, InStepAt(k)
  PROVE  IsSuffix(Meant(CodesOf(sent, k)), RttyDecoded.text)
<1> DEFINE n == Len(sent)
           codes == CodesOf(sent, k)
<1>1. sent \in Seq(Items) /\ \E b, at : Keyed(air, b) /\ LaidOut(b, sent, at)
  BY DEF RttyInv
<1>2. PICK b, at : Keyed(air, b) /\ LaidOut(b, sent, at)
  BY <1>1
<1>3. b \in Seq(Bit)
  BY <1>2 DEF Keyed
<1>4. PICK f : IsFrames(b, f) /\ FramesFrom(b) = f[1]
  BY <1>3, FramesExist
<1>5. /\ n \in Nat /\ k \in 1..n /\ k \in 1..n + 1 /\ k + 1 \in 1..n + 1
      /\ k \in Nat /\ Len(b) \in Nat
  BY <1>1, <1>3
<1>6. /\ sent[k] \in ShiftCodes
      /\ \A i \in k..n : sent[i] # NOISE
      /\ \E r \in 1..k - 1 : sent[r] = REST /\ \A i \in r..k : sent[i] # NOISE
  BY DEF InStepAt
<1>7. PICK r \in 1..k - 1 : sent[r] = REST /\ \A i \in r..k : sent[i] # NOISE
  BY <1>6
<1>8. f[at[k]] \in Seq(0..31) /\ f[at[k]] = codes
  <2>1. f[at[k]] \in Seq(0..31)
    BY <1>1, <1>2, <1>3, <1>4, <1>5, <1>6, CodesFrom
  <2>2. f[at[k]] = codes
    BY <1>1, <1>2, <1>3, <1>4, <1>5, <1>6, CodesFrom
  <2> QED BY <2>1, <2>2
<1> HIDE DEF codes
<1>9. LeadsTo(f, 1, at[k])
  BY <1>1, <1>2, <1>3, <1>4, <1>5, <1>7, RestCatches
<1>10. PICK pre \in Seq(Int) : f[1] = pre \o codes
  BY <1>8, <1>9 DEF LeadsTo
<1>11. sent[k] \in 0..31
  BY <1>6 DEF ShiftCodes, LTRS, FIGS
<1>12. /\ at[k] \in Nat \ {0} /\ at[k + 1] \in Nat /\ at[k + 1] <= Len(b) + 1
       /\ at[r] \in Nat \ {0} /\ at[r + 1] \in Nat /\ at[r + 1] <= at[k]
       /\ ItemAt(b, sent[k], at[k], at[k + 1]) /\ ItemAt(b, sent[r], at[r], at[r + 1])
  <2>1. /\ r \in 1..n /\ r \in 1..n + 1 /\ r + 1 \in 1..n + 1 /\ (r + 1 = k \/ r + 1 < k)
    BY <1>5
  <2>2. \A i \in 1..n + 1 : at[i] \in Nat \ {0} /\ at[i] <= Len(b) + 1
    BY <1>1, <1>2, <1>3, PlacesBelow
  <2>3. Increasing(at, n + 1) /\ \A i \in 1..n : ItemAt(b, sent[i], at[i], at[i + 1])
    BY <1>2 DEF LaidOut
  <2>4. at[r + 1] <= at[k]
    <3>1. at[r + 1] \in Nat /\ at[k] \in Nat
      BY <1>5, <2>1, <2>2
    <3>2. r + 1 < k => at[r + 1] < at[k]
      BY <1>5, <2>1, <2>3 DEF Increasing
    <3> QED BY <2>1, <3>1, <3>2
  <2> QED BY <1>5, <2>1, <2>2, <2>3, <2>4
<1>13. Len(codes) > 0 /\ codes[1] = sent[k]
  <2>1. Len(f[at[k]]) > 0 /\ f[at[k]][1] = sent[k]
    BY <1>1, <1>2, <1>3, <1>4, <1>5, <1>11, FirstCode
  <2> QED BY <1>8, <2>1
<1>14. BothLevels(b) /\ Len(b) >= 8
  <2>1. BothLevels(b)
    BY <1>1, <1>2, <1>3, <1>5, <1>11, CodeShows
  <2>2. at[k] + 6 <= Len(b)
    BY <1>1, <1>2, <1>3, <1>5, <1>11, CodeShows
  <2> DEFINE p == at[k]
             u == at[r]
             v == at[r + 1]
             w == Len(b)
  <2>3. v = u + 6
    BY <1>7, <1>12 DEF ItemAt, RestAt
  <2>4. p \in Nat /\ u \in Nat \ {0} /\ v <= p /\ p + 6 <= w /\ w \in Nat
    BY <1>5, <1>12, <2>2
  <2> HIDE DEF p, u, v, w
  <2>5. w >= 8
    BY <2>3, <2>4
  <2> QED BY <2>1, <2>5 DEF w
<1> DEFINE frames == FramesFrom(b)
           K == Len(pre)
<1>15. /\ frames \in Seq(Int) /\ K \in Nat /\ codes \in Seq(0..31) /\ codes \in Seq(Int)
       /\ Len(frames) = K + Len(codes) /\ K \in 0..Len(frames)
       /\ \A i \in 1..Len(codes) : frames[K + i] = codes[i]
  <2>5. codes \in Seq(0..31)
    BY <1>8
  <2>1. codes \in Seq(0..31) /\ codes \in Seq(Int) /\ pre \in Seq(Int)
    BY <2>5, CodesAreInts
  <2>2. /\ pre \o codes \in Seq(Int) /\ Len(pre \o codes) = Len(pre) + Len(codes)
        /\ \A i \in 1..Len(codes) : (pre \o codes)[Len(pre) + i] = codes[i]
    BY <2>1, ConcatAt
  <2>3. frames = pre \o codes
    BY <1>4, <1>10
  <2>4. Len(pre) \in Nat /\ Len(codes) \in Nat
    BY <2>1
  <2> HIDE DEF frames
  <2> QED BY <2>1, <2>2, <2>3, <2>4
<1> HIDE DEF frames, K
<1>16. PICK t : IsText(frames, t) /\ TextOf(frames) = t[1][LTRS]
  BY <1>15, TextExists
<1>17. PICK s0 \in ShiftCodes, head \in Seq(Glyphs) : t[1][LTRS] = head \o t[K + 1][s0]
  BY <1>15, <1>16, TextLeads
<1>18. Picks(GlyphsOf(codes, s0), Printing(codes, 1), t[K + 1][s0])
  BY <1>15, <1>16, TextInStep
<1>19. t[K + 1][s0] = Meant(codes)
  <2> DEFINE z == t[K + 1][s0]
  <2>1. Picks(GlyphsOf(codes, s0), Printing(codes, 1), z)
    BY <1>18
  <2>2. Len(codes) > 0 /\ codes[1] \in ShiftCodes
    BY <1>6, <1>13
  <2> HIDE DEF z
  <2>3. z = Meant(codes)
    BY <1>15, <2>1, <2>2, MeantIs
  <2> QED BY <2>3 DEF z
<1>20. t[K + 1][s0] \in Seq(Glyphs)
  <2>1. K + 1 \in 1..Len(frames) + 1
    BY <1>15
  <2>2. t[K + 1] \in Texts
    BY <1>16, <2>1 DEF IsText
  <2> QED BY <2>2 DEF Texts
<1>21. IsSuffix(Meant(codes), head \o Meant(codes))
  BY <1>19, <1>20, SuffixIs
<1>22. RttyDecoded.text = head \o Meant(codes)
  <2>2. RttyDecoded =
          [text |-> TextOf(FramesFrom(b)),
           framing_errors |->
             Cardinality({i \in DOMAIN FramesFrom(b) : FramesFrom(b)[i] = NoFrame})]
    BY <1>2, <1>14, DecodedIs
  <2>1. RttyDecoded.text = TextOf(frames)
    BY <2>2 DEF frames
  <2> QED BY <1>16, <1>17, <1>19, <2>1
<1> QED BY <1>21, <1>22 DEF codes
-----------------------------------------------------------------------------
(* Without noise sent, none of the items is noise.                         *)
LEMMA NoNoise ==
  ASSUME sent \in Seq(Items), NoiseSent = << >>
  PROVE  \A i \in 1..Len(sent) : sent[i] # NOISE
<1> DEFINE n == Len(sent)
           S == {i \in 1..n : sent[i] = NOISE}
           o == InOrder(S)
           c == Cardinality(S)
           ranked == [k \in 1..c |-> CHOOSE i \in S : Cardinality({j \in S : j <= i}) = k]
<1>1. n \in Nat
  OBVIOUS
<1>2. IsFiniteSet(S) /\ c \in Nat
  <2>1. IsFiniteSet(1..n)
    BY <1>1, FS_Interval
  <2>2. IsFiniteSet(S)
    BY <2>1, FS_Subset
  <2> HIDE DEF S
  <2> QED BY <2>2, FS_CardinalityType
<1>3. NoiseSent = Tabulated([k \in DOMAIN o |-> sent[o[k]]])
  BY DEF NoiseSent, Kept, Indices
<1>4. o = Tabulated(ranked)
  BY DEF InOrder
<1>5. S # {} => c # 0
  <2> HIDE DEF S
  <2> QED BY <1>2, FS_EmptySet
<1> SUFFICES ASSUME S # {} PROVE FALSE
  OBVIOUS
<1>6. \A i \in S : sent[i] = NOISE /\ i \in Nat
  OBVIOUS
<1> HIDE DEF S
<1>7. ranked \in Seq({ranked[k] : k \in 1..c}) /\ DOMAIN ranked = 1..c
  <2> DEFINE r(k) == CHOOSE i \in S : Cardinality({j \in S : j <= i}) = k
  <2>1. ranked = [k \in 1..c |-> r(k)]
    OBVIOUS
  <2> HIDE DEF r, ranked, c
  <2> QED BY <1>2, <2>1
<1> HIDE DEF c, ranked
<1>8. o = ranked
  BY <1>4, <1>7, TabulatedIs
<1> DEFINE kept == [k \in DOMAIN o |-> sent[o[k]]]
<1>9. kept \in Seq({kept[k] : k \in 1..c}) /\ DOMAIN kept = 1..c
  <2> DEFINE r(k) == sent[o[k]]
  <2>1. kept = [k \in 1..c |-> r(k)]
    BY <1>7, <1>8
  <2> HIDE DEF r, kept
  <2> QED BY <1>2, <2>1
<1>10. kept = << >>
  <2>1. Tabulated(kept) = << >>
    BY <1>3
  <2> HIDE DEF kept
  <2> QED BY <1>9, <2>1, TabulatedIs
<1>11. DOMAIN kept = {} /\ 1 \in 1..c
  <2>1. DOMAIN kept = {}
    <3> HIDE DEF kept
    <3> QED BY <1>10
  <2> QED BY <1>2, <1>5, <2>1
<1> HIDE DEF kept
<1> QED BY <1>9, <1>11

LEMMA AllIsRead ==
  ASSUME RttyInv, code = "rtty", NoiseSent = << >>, CodesSent # << >>,
         Len(air) >= 8 * FSK_SPS
  PROVE  RttyDecoded = [text |-> Meant(CodesSent), framing_errors |-> 0]
<1> DEFINE n == Len(sent)
<1>1. sent \in Seq(Items) /\ \E b, at : Keyed(air, b) /\ LaidOut(b, sent, at)
  BY DEF RttyInv
<1>2. PICK b, at : Keyed(air, b) /\ LaidOut(b, sent, at)
  BY <1>1
<1>3. b \in Seq(Bit) /\ Len(b) >= 8
  <2>1. b \in Seq(Bit) /\ Len(air) = 2 * Len(b) /\ Len(b) \in Nat
    BY <1>2 DEF Keyed
  <2> QED BY <2>1 DEF FSK_SPS
<1>4. PICK f : IsFrames(b, f) /\ FramesFrom(b) = f[1]
  BY <1>3, FramesExist
<1>5. n \in Nat /\ 1 \in 1..n + 1
  BY <1>1
<1>6. \A i \in 1..n : sent[i] # NOISE
  BY <1>1, NoNoise
<1>7. at[1] = 1
  BY <1>2 DEF LaidOut
<1> DEFINE S == {i \in 1..n : sent[i] # REST}
           codes == f[1]
           o == InOrder(S)
<1>8. codes \in Seq(0..31)
  BY <1>1, <1>2, <1>3, <1>4, <1>5, <1>6, <1>7, CodesFrom
<1>9. Picks(sent, S, codes)
  <2>1. Picks(sent, {i \in 1..Len(sent) : sent[i] # REST}, f[at[1]])
    BY <1>1, <1>2, <1>3, <1>4, <1>5, <1>6, InStep
  <2> QED BY <1>7, <2>1
<1>10. codes = [k \in DOMAIN o |-> sent[o[k]]]
  <2> HIDE DEF S, codes
  <2> QED BY <1>9, PicksIs DEF o
<1>11. CodesSent = codes
  <2>1. {i \in 1..Len(sent) : sent[i] \notin {NOISE, REST}} = S
    BY <1>6
  <2>2. CodesSent = Tabulated([k \in DOMAIN o |-> sent[o[k]]])
    BY <2>1 DEF CodesSent, Kept, Indices
  <2> HIDE DEF o, codes
  <2> QED BY <1>8, <1>10, <2>2, TabulatedIs
<1>12. BothLevels(b)
  <2>1. S # {}
    <3> SUFFICES ASSUME S = {} PROVE codes = << >>
      BY <1>11
    <3>1. PICK m, e : PicksBy(sent, S, codes, m, e)
      BY <1>9 DEF Picks
    <3> HIDE DEF S, codes
    <3>2. m \in Nat /\ S = {e[k] : k \in 1..m} /\ codes = [k \in 1..m |-> sent[e[k]]]
      BY <3>1 DEF PicksBy
    <3>3. m = 0
      <4> SUFFICES ASSUME m # 0 PROVE FALSE
        OBVIOUS
      <4>1. 1 \in 1..m
        BY <3>2
      <4>2. e[1] \in S
        BY <3>2, <4>1
      <4> QED BY <4>2
    <3> QED BY <3>2, <3>3
  <2>2. PICK k \in S : TRUE
    BY <2>1
  <2>3. k \in 1..n /\ sent[k] \in 0..31
    <3> DEFINE x == sent[k]
    <3>1. x \in Items /\ x # NOISE /\ x # REST
      BY <1>1, <1>6, ElementOfSeq
    <3> HIDE DEF x
    <3>2. x \in 0..31
      BY <3>1 DEF Items
    <3> QED BY <3>2 DEF x
  <2> QED BY <1>1, <1>2, <1>3, <2>3, CodeShows
<1> HIDE DEF codes
<1>13. FramesFrom(b) = codes
  BY <1>4 DEF codes
<1>14. codes \in Seq(Int) /\ Len(codes) \in Nat
  BY <1>8, CodesAreInts
<1>15. PICK t : IsText(codes, t) /\ TextOf(codes) = t[1][LTRS]
  BY <1>14, TextExists
<1>16. TextOf(codes) = Meant(codes)
  <2>1. LTRS \in ShiftCodes /\ 0 \in Nat /\ 0 + 1 = 1 /\ Len(codes) = 0 + Len(codes)
        /\ \A i \in 1..Len(codes) : codes[0 + i] = codes[i]
    BY <1>14 DEF ShiftCodes
  <2>2. Picks(GlyphsOf(codes, LTRS), Printing(codes, 1), t[0 + 1][LTRS])
    BY <1>8, <1>14, <1>15, <2>1, TextInStep
  <2> DEFINE z == t[1][LTRS]
  <2>3. Picks(GlyphsOf(codes, LTRS), Printing(codes, 1), z)
    BY <2>1, <2>2
  <2> HIDE DEF z
  <2>4. z = Meant(codes)
    BY <1>8, <2>1, <2>3, MeantIs
  <2> QED BY <1>15, <2>4 DEF z
<1>17. Cardinality({k \in DOMAIN codes : codes[k] = NoFrame}) = 0
  <2>1. \A k \in DOMAIN codes : codes[k] \in 0..31
    <3>1. \A k \in 1..Len(codes) : codes[k] \in 0..31
      BY <1>8, ElementOfSeq
    <3>2. DOMAIN codes = 1..Len(codes)
      BY <1>8
    <3> QED BY <3>1, <3>2
  <2>2. \A x \in 0..31 : x # NoFrame
    BY DEF NoFrame
  <2>3. {k \in DOMAIN codes : codes[k] = NoFrame} = {}
    BY <2>1, <2>2
  <2> QED BY <2>3, FS_EmptySet
<1>18. RttyDecoded =
         [text |-> TextOf(FramesFrom(b)),
          framing_errors |->
            Cardinality({i \in DOMAIN FramesFrom(b) : FramesFrom(b)[i] = NoFrame})]
  BY <1>2, <1>3, <1>12, DecodedIs
<1> QED BY <1>11, <1>13, <1>16, <1>17, <1>18

(* In a recording of RTTY of any length, with any noise and any codes and  *)
(* with stop bits of whole symbols, the search for frames is back in step  *)
(* after six marks and the text after the next shift code; without noise   *)
(* all of the text is read and no framing error is counted                 *)
(* (hw/analysis.py:1225-1256).  With stop bits of one and a half symbols,  *)
(* which the hypothesis excludes, it is not: run LineChannelMC_AnyStopBitReads. *)
THEOREM RttyIsRead ==
  ASSUME WholeStops
  PROVE  Spec => []RttyCatchesUp
<1>1. RttyInv => RttyCatchesUp
  <2> SUFFICES ASSUME RttyInv, code = "rtty"
      PROVE /\ \A k \in DOMAIN sent :
                 InStepAt(k) => IsSuffix(Meant(CodesOf(sent, k)), RttyDecoded.text)
            /\ NoiseSent = << >> /\ CodesSent # << >> /\ Len(air) >= 8 * FSK_SPS =>
                 RttyDecoded = [text |-> Meant(CodesSent), framing_errors |-> 0]
    BY DEF RttyCatchesUp, CodesOf
  <2>1. ASSUME NEW k \in DOMAIN sent, InStepAt(k)
        PROVE  IsSuffix(Meant(CodesOf(sent, k)), RttyDecoded.text)
    BY <2>1, CatchesUp
  <2>2. ASSUME NoiseSent = << >>, CodesSent # << >>, Len(air) >= 8 * FSK_SPS
        PROVE  RttyDecoded = [text |-> Meant(CodesSent), framing_errors |-> 0]
    BY <2>2, AllIsRead
  <2> QED BY <2>1, <2>2
<1>2. RttyInv /\ [Next]_vars => RttyInv'
  BY RttySteps
<1> QED BY <1>1, <1>2, RttyBegins, PTL DEF Spec
=============================================================================
