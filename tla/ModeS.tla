------------------------------- MODULE ModeS --------------------------------
(***************************************************************************)
(* hw/analysis.py: decode_ads_b over an envelope of small integers, at a   *)
(* sample rate in units of 100 kHz.  Sums are exact.                       *)
(***************************************************************************)
EXTENDS BitStreams

LONG_MSG_BITS == 112
PreambleChips == <<1, 0, 1, 0, 0, 0, 0, 1, 0, 1, 0, 0, 0, 0, 0, 0>>
CrcPoly == BitsOf(\HFFF, 12) \o BitsOf(\H409, 12)

(* The 24-bit register, most significant bit first: shift a bit in, and    *)
(* add the polynomial when a one falls out.                                *)
Crc24Step[reg \in BitString(24), bit \in Bit] ==
  LET shifted == Append(Tail(reg), bit)
  IN IF reg[1] = 1 THEN XorAt(shifted, 1, CrcPoly) ELSE shifted

Crc24Byte[reg \in BitString(24), byte \in BitString(8)] ==
  LET fed[j \in 0..8] == IF j = 0 THEN reg ELSE Crc24Step[fed[j - 1], byte[j]] IN fed[8]

Crc24(bits) ==
  LET byte == Groups(bits, 8)
      reg[k \in 0..Len(byte)] == IF k = 0 THEN BitsOf(0, 24) ELSE Crc24Byte[reg[k - 1], byte[k]]
  IN reg[Len(byte)]

(* round() of n / d: to the nearest, and to the even one of two.           *)
Rounded(n, d) ==
  LET q == n \div d
  IN IF 2 * (n % d) > d \/ (2 * (n % d) = d /\ q % 2 = 1) THEN q + 1 ELSE q

SamplesPerUs(rate) == Rounded(rate, 10)
SamplesPerChip(rate) == Rounded(rate, 20)

(* _modes_ppm_slice: the half that holds more energy; nothing when the     *)
(* message runs over the end of the recording.                             *)
Energy(env, first, n) ==
  LET sum[j \in 0..n] == IF j = 0 THEN 0 ELSE sum[j - 1] + env[first + j - 1]
  IN sum[n]

PpmSlice(env, rate, start, n) ==
  LET spus == SamplesPerUs(rate)
      half == spus \div 2
      at(i) == start + (i - 1) * spus
  IN IF rate < 20 \/ start - 1 + n * spus > Len(env) THEN << >>
     ELSE Tabulated([i \in 1..n |->
             IF Energy(env, at(i), half) > Energy(env, at(i) + half, spus - half) THEN 1 ELSE 0])

(* The correlation with the preamble less its mean, times 16: its sixteen  *)
(* chips hold four pulses, so a pulse weighs 12 and a gap -4, and the mean *)
(* of the envelope cancels out.                                            *)
Template(chip) ==
  Tabulated([j \in 1..16 * chip |-> IF PreambleChips[(j - 1) \div chip + 1] = 1 THEN 12 ELSE -4])

Correlation(env, rate) ==
  LET template == Template(SamplesPerChip(rate))
      m == Len(template)
      corr(i) == LET sum[j \in 0..m] == IF j = 0 THEN 0 ELSE sum[j - 1] + template[j] * env[i + j - 1]
                 IN sum[m]
  IN IF Len(env) < m THEN << >> ELSE Tabulated([i \in 1..Len(env) - m + 1 |-> corr(i)])

(* The 99.5th percentile, times 1000: it is interpolated between the two   *)
(* neighbours in the sorted values.                                        *)
Threshold(corr) ==
  LET n == Len(corr)
      sorted == SortSeq(corr, <)
      rank == 995 * (n - 1)
      low == sorted[rank \div 1000 + 1]
      high == sorted[Min({rank \div 1000 + 2, n})]
  IN 1000 * low + (rank % 1000) * (high - low)

(* A threshold of 0 or less finds nothing.                                 *)
Crossings(corr) ==
  LET threshold == Threshold(corr)
  IN IF Len(corr) = 0 THEN << >>
     ELSE IF threshold <= 0 THEN << >>
     ELSE Indices(Len(corr), LAMBDA i : 1000 * corr[i] > threshold)

(* A mutant: every crossing restarts the gap, taken or not. *)
Hits_ChainedGap(crossing, min_gap, max_hits) ==
  LET taken(k) == k = 1 \/ crossing[k] - crossing[k - 1] >= min_gap
      all == Indices(Len(crossing), taken)
  IN [h \in 1..Min({Len(all), max_hits}) |-> crossing[all[h]]]

(* The first crossing is a hit, and then each first one at least min_gap   *)
(* after the last hit.                                                     *)
Hits(crossing, min_gap, max_hits) ==
  LET from[k \in 1..Len(crossing) + 1, last \in {0} \cup Range(crossing)] ==
        IF k > Len(crossing) THEN << >>
        ELSE IF last = 0 \/ crossing[k] - last >= min_gap
             THEN <<crossing[k]>> \o from[k + 1, crossing[k]]
             ELSE from[k + 1, last]
      all == from[1, 0]
  IN SubSeq(all, 1, Min({Len(all), max_hits}))

FindPreambles(env, rate, max_hits) ==
  IF rate < 20 THEN << >>
  ELSE Hits(Crossings(Correlation(env, rate)), (rate * (8 + LONG_MSG_BITS)) \div 10, max_hits)

(* Every message that lies whole in the recording is reported, whether its *)
(* checksum fits or not.                                                   *)
DecodeAdsB(env, rate, max_frames) ==
  LET preamble == FindPreambles(env, rate, 4 * max_frames)
      payload(k) == preamble[k] + 8 * SamplesPerUs(rate)
      sliced == Tabulated([k \in DOMAIN preamble |->
                   PpmSlice(env, rate, payload(k), LONG_MSG_BITS)])
      whole == Indices(Len(sliced), LAMBDA k : sliced[k] # << >>)
  IN [num_preambles |-> Len(preamble),
      frames |-> [f \in 1..Min({Len(whole), max_frames}) |->
                    LET bits == sliced[whole[f]]
                    IN [start_sample |-> payload(whole[f]),
                        df |-> Msb(SubSeq(bits, 1, 5)),
                        icao24 |-> Msb(SubSeq(bits, 9, 32)),
                        raw |-> bits,
                        crc_ok |-> Ones(Crc24(bits)) = {}]]]
=============================================================================
