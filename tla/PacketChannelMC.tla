-------------------------- MODULE PacketChannelMC ---------------------------
(***************************************************************************)
(* Instances of PacketChannel for TLC.                                     *)
(***************************************************************************)
EXTENDS PacketChannel

(* A numeric and an alphanumeric page of two codewords, the latter with    *)
(* characters that span codewords and are not printable, and a tone page.  *)
MCPages ==
  {[ric |-> 8 * 77 + 1, function |-> 0, digits |-> <<1, 2, 3, 14, 15, 0, 9, 8, 7, 6>>, chars |-> << >>],
   [ric |-> 8 * 200000, function |-> 3, digits |-> << >>, chars |-> <<72, 105, 33, 10, 127>>],
   [ric |-> 8 * 5, function |-> 2, digits |-> << >>, chars |-> << >>]}

(* A message word that becomes an address, two neighbours, four places     *)
(* apart, the parity bit alone, and a check bit with the parity bit.       *)
MCFlips == {{1}, {12, 13}, {2, 9, 20, 31}, {32}, {30, 32}}

Address(callsign, ssid, last) == [callsign |-> callsign, ssid |-> ssid, last |-> last]
APRS == <<65, 80, 82, 83>>
N0CALL == <<78, 48, 67, 65, 76, 76>>
CQ == <<67, 81>>
WIDE1 == <<87, 73, 68, 69, 49>>

(* The shortest frame, supervisory; a UI frame over a digipeater whose     *)
(* payload is an APRS status of a flag and two bytes of ones.  The         *)
(* checksums are those of the standard, CRC-16/X.25.                       *)
MCFrames ==
  {[frame |-> [destination |-> Address(APRS, 0, FALSE), source |-> Address(N0CALL, 7, TRUE),
               digipeaters |-> << >>, control |-> 1, is_ui |-> FALSE, pid |-> NoPid, info |-> << >>],
    fcs |-> <<162, 231>>, aprs |-> NoAprs],
   [frame |-> [destination |-> Address(CQ, 0, FALSE), source |-> Address(N0CALL, 7, FALSE),
               digipeaters |-> <<Address(WIDE1, 1, TRUE)>>, control |-> 3, is_ui |-> TRUE,
               pid |-> 240, info |-> <<62, 126, 255, 255>>],
    fcs |-> <<218, 1>>,
    aprs |-> [kind |-> "status", dti |-> 62, status |-> <<126, 46, 46>>]]}

(* Two well-known extended squitters, checksums included.                  *)
MCSquitters ==
  {Joined(<<BitsOf(\H8D48, 16), BitsOf(\H40D6, 16), BitsOf(\H202C, 16), BitsOf(\HC371, 16),
            BitsOf(\HC32C, 16), BitsOf(\HE057, 16), BitsOf(\H6098, 16)>>),
   Joined(<<BitsOf(\H8D40, 16), BitsOf(\H621D, 16), BitsOf(\H58C3, 16), BitsOf(\H82D6, 16),
            BitsOf(\H90C8, 16), BitsOf(\HAC28, 16), BitsOf(\H63A7, 16)>>)}

(* Both hemispheres of both, the equator, a fraction that ends on a blank. *)
MCLatitudes == {0, 294350, -7, -539999}
MCLongitudes == {-432175, 6, 1079999}
MCComments == {<< >>, <<72, 105, 255>>}

(* The first and the last bit, the format, the address, and the checksum.  *)
MCHitBits == {1, 5, 20, 88, 89, 112}
=============================================================================
