--------------------------- MODULE FrequencyPolicy ---------------------------
(***************************************************************************)
(* The band tables of domain/frequency_policy.py and their lookups, in     *)
(* units of 100 Hz, both edges inclusive.                                  *)
(***************************************************************************)
LOCAL INSTANCE Integers

Band(start, stop) == [start |-> start, stop |-> stop]

MHz == 10000

BLOCKED_BANDS ==
  { Band(1087 * MHz, 1093 * MHz),      \* ADS-B / SSR / TCAS
    Band(118 * MHz, 137 * MHz),        \* aviation voice
    Band(1214000, 1216000),            \* VHF guard, inside aviation voice
    Band(1559 * MHz, 1591 * MHz),      \* GPS L1
    Band(1215 * MHz, 1240 * MHz),      \* GPS L2
    Band(1164 * MHz, 1189 * MHz),      \* GPS L5
    Band(15929525, 16104850),          \* GLONASS G1
    Band(12378275, 12544275),          \* GLONASS G2
    Band(1260 * MHz, 1300 * MHz),      \* Galileo E6
    Band(1567625, 1568375),            \* maritime distress
    Band(729 * MHz, 746 * MHz),        \* cellular downlink, bands 12 ...
    Band(746 * MHz, 756 * MHz),        \* 13
    Band(734 * MHz, 746 * MHz),        \* 17
    Band(869 * MHz, 894 * MHz),        \* 5
    Band(1930 * MHz, 1990 * MHz),      \* 2
    Band(2110 * MHz, 2155 * MHz),      \* 4
    Band(758 * MHz, 775 * MHz),        \* FirstNet
    Band(851 * MHz, 854 * MHz),        \* NPSPAC
    Band(1400 * MHz, 1427 * MHz),      \* radio astronomy
    Band(4061000, 410 * MHz),
    Band(608 * MHz, 614 * MHz),
    Band(2690 * MHz, 2700 * MHz) }

ISM_BANDS ==
  { Band(310 * MHz, 320 * MHz), Band(4330500, 4347900),
    Band(902 * MHz, 928 * MHz), Band(2400 * MHz, 24835000),
    Band(5725 * MHz, 5875 * MHz) }

AMATEUR_BANDS ==
  { Band(222 * MHz, 225 * MHz), Band(420 * MHz, 450 * MHz),
    Band(902 * MHz, 928 * MHz), Band(1240 * MHz, 1300 * MHz),
    Band(2390 * MHz, 2450 * MHz) }

Inside(freq, bands) == \E b \in bands : b.start <= freq /\ freq <= b.stop

is_blocked(freq) == Inside(freq, BLOCKED_BANDS)
is_in_ism(freq) == Inside(freq, ISM_BANDS)
is_in_amateur(freq) == Inside(freq, AMATEUR_BANDS)

(* Does a sweep range touch a blocked band?  No caller in the source.      *)
range_is_blocked(start, stop) ==
  \E b \in BLOCKED_BANDS : start <= b.stop /\ b.start <= stop
=============================================================================
