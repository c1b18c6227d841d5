-------------------------------- MODULE Ax25 --------------------------------
(***************************************************************************)
(* hw/analysis.py: decode_ax25, HDLC frames between flags.  A byte is its  *)
(* value; the channel carries its bits least significant first.            *)
(***************************************************************************)
EXTENDS BitStreams

Flag == <<0, 1, 1, 1, 1, 1, 1, 0>>

(* No transition is a 1; the first bit has nothing before it and reads 1.  *)
NrziDecode(raw) ==
  Tabulated([i \in DOMAIN raw |-> IF i = 1 \/ raw[i] = raw[i - 1] THEN 1 ELSE 0])

SixOnes(bits, i) == i >= 6 /\ \A j \in i - 5..i : bits[j] = 1
Stuffed(bits, i) == bits[i] = 0 /\ i >= 6 /\ \A j \in i - 5..i - 1 : bits[j] = 1

(* A mutant: every 0 after five places is dropped, stuffed or not. *)
BitUnstuff_AnyZero(bits) ==
  LET stop == Min({i \in DOMAIN bits : SixOnes(bits, i)} \cup {Len(bits)})
      dropped(i) == bits[i] = 0 /\ i >= 5 /\ \A j \in i - 4..i - 1 : bits[j] = 1
  IN Joined([i \in 1..stop |-> IF dropped(i) THEN << >> ELSE <<bits[i]>>])

(* The 0 after five ones is dropped; the sixth one in a row ends it.       *)
BitUnstuff(bits) ==
  LET stop == Min({i \in DOMAIN bits : SixOnes(bits, i)} \cup {Len(bits)})
  IN Joined([i \in 1..stop |-> IF Stuffed(bits, i) THEN << >> ELSE <<bits[i]>>])

BytesOf(bits) == LET g == Groups(bits, 8) IN Tabulated([k \in DOMAIN g |-> Lsb(g[k])])

(* CRC-16-CCITT over bits in the order of transmission: the register, most *)
(* significant bit first, is shifted right and the reflected polynomial    *)
(* added when the bit that leaves differs from the bit of data.            *)
Reflected1021 == BitsOf(\H8408, 16)

Crc16Step[reg \in BitString(16), bit \in Bit] ==
  LET shifted == <<0>> \o SubSeq(reg, 1, 15)
  IN IF reg[16] # bit THEN XorAt(shifted, 1, Reflected1021) ELSE shifted

Crc16Byte[reg \in BitString(16), byte \in BitString(8)] ==
  LET fed[j \in 0..8] == IF j = 0 THEN reg ELSE Crc16Step[fed[j - 1], byte[j]] IN fed[8]

Crc16(bits) ==
  LET byte == Groups(bits, 8)
      reg[k \in 0..Len(byte)] == IF k = 0 THEN BitsOf(\HFFFF, 16) ELSE Crc16Byte[reg[k - 1], byte[k]]
  IN Not(reg[Len(byte)])
-----------------------------------------------------------------------------
(* Seven bytes: a callsign, each character shifted left by one and padded  *)
(* with spaces; then the SSID, with the last-address flag in its bit 0.    *)
ParseAddress(bytes) ==
  LET char == [i \in 1..6 |-> bytes[i] \div 2]
      n == Cardinality({i \in 1..6 : \E j \in i..6 : char[j] # 32})
  IN [callsign |-> SubSeq(char, 1, n), ssid |-> (bytes[7] \div 2) % 16, last |-> bytes[7] % 2 = 1]

NoPid == -1

(* Unnumbered information, with or without the poll bit.                   *)
IsUi(control) == control \in {\H03, \H13}

(* The addresses up to the first with its last flag, or all there are room *)
(* for.                                                                    *)
Addresses(bytes) ==
  LET all == [k \in 1..Len(bytes) \div 7 |-> ParseAddress(SubSeq(bytes, 7 * k - 6, 7 * k))]
  IN SubSeq(all, 1, Min({k \in DOMAIN all : all[k].last} \cup {Len(all)}))

(* No frame: more than ten addresses that go on, fewer than two addresses, *)
(* or nothing behind them.                                                 *)
WellFormed(bytes) ==
  LET address == Addresses(bytes)
      count == Len(address)
  IN /\ Len(bytes) >= 15
     /\ count \in 2..11
     /\ count = 11 => address[11].last
     /\ 7 * count < Len(bytes)

ParseFrame(bytes) ==
  LET address == Addresses(bytes)
      at == 7 * Len(address) + 1
      control == bytes[at]
      pid == IsUi(control) /\ at < Len(bytes)
  IN [destination |-> address[1], source |-> address[2],
      digipeaters |-> SubSeq(address, 3, Len(address)),
      control |-> control, is_ui |-> IsUi(control),
      pid |-> IF pid THEN bytes[at + 1] ELSE NoPid,
      info |-> SubSeq(bytes, IF pid THEN at + 2 ELSE at + 1, Len(bytes))]
-----------------------------------------------------------------------------
(* What lies between two neighbouring flags, unstuffed and cut to whole    *)
(* bytes; the last two of them are the checksum, low byte first.           *)
WholeBytes(span) ==
  LET bits == BitUnstuff(span) IN SubSeq(bits, 1, 8 * (Len(bits) \div 8))

(* A mutant: the high byte of the checksum is lost in the comparison.      *)
CrcOk_LowByte(bits) ==
  LET n == Len(bits)
  IN SubSeq(Crc16(SubSeq(bits, 1, n - 16)), 9, 16) = Reverse(SubSeq(bits, n - 15, n - 8))

CrcOk(bits) ==
  LET n == Len(bits) IN Crc16(SubSeq(bits, 1, n - 16)) = Reverse(SubSeq(bits, n - 15, n))

PayloadBytes(bits) == BytesOf(SubSeq(bits, 1, Len(bits) - 16))

(* A frame that parses is reported, whether its checksum fits or not.      *)
IsFrame(bits) == Len(bits) >= 8 * 17 /\ WellFormed(PayloadBytes(bits))
Reported(bits) == [frame |-> ParseFrame(PayloadBytes(bits)), crc_ok |-> CrcOk(bits)]

Flags(bits) == IF Len(bits) < 16 THEN << >> ELSE Places(Flag, bits)
Spans(bits, flag) == Tabulated([k \in 1..Len(flag) - 1 |-> SubSeq(bits, flag[k] + 8, flag[k + 1] - 1)])
FramesIn(span) == SelectSeq(Each(SelectSeq(span, LAMBDA s : Len(s) >= 32), WholeBytes), IsFrame)

DecodeAx25(tones, invert) ==
  LET bits == NrziDecode(FskBits(tones, invert))
      flag == Flags(bits)
  IN [num_flags |-> Len(flag), frames |-> Each(FramesIn(Spans(bits, flag)), Reported)]
=============================================================================
