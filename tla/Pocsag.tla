------------------------------- MODULE Pocsag -------------------------------
(***************************************************************************)
(* hw/analysis.py: decode_pocsag.  A codeword is its 32 bits in the order  *)
(* of transmission: 21 of data, 10 of the BCH(31,21) code, one of parity.  *)
(***************************************************************************)
EXTENDS BitStreams

CONSTANT BatchWords      \* codewords after a sync word, two per frame; 16 in the code

ASSUME BatchIsWholeFrames == BatchWords \in Nat \ {0} /\ BatchWords % 2 = 0

Sync == BitsOf(\H7CD2, 16) \o BitsOf(\H15D8, 16)
Idle == BitsOf(\H7A89, 16) \o BitsOf(\HC197, 16)
Generator == <<1, 1, 1, 0, 1, 1, 0, 1, 0, 0, 1>>

(* The remainder of the first 31 bits by the generator polynomial.         *)
BchSyndrome(cw) ==
  LET step[i \in 0..21] ==
        IF i = 0 THEN SubSeq(cw, 1, 31)
        ELSE LET before == step[i - 1]
             IN IF before[i] = 1 THEN XorAt(before, i, Generator) ELSE before
  IN SubSeq(step[21], 22, 31)

BchOk(cw) == Ones(BchSyndrome(cw)) = {}

(* The sync word in both polarities; the one found more often is decoded,  *)
(* the positive one when they are as many.                                 *)
InPolarity(bits) ==
  IF Len(Places(Not(Sync), bits)) > Len(Places(Sync, bits)) THEN Not(bits) ELSE bits

KindOf(cw) == CASE cw = Idle -> "idle"
                [] cw # Idle /\ cw[1] = 0 -> "address"
                [] cw # Idle /\ cw[1] = 1 -> "message"

(* The receiver identity: 18 bits of the codeword, and the frame it is in. *)
Ric(cw, frame_slot) == 8 * Msb(SubSeq(cw, 2, 19)) + frame_slot
FunctionBits(cw) == Msb(SubSeq(cw, 20, 21))
MessageBits(cw) == SubSeq(cw, 2, 21)

(* Both readings of a payload; digits and characters come with their least *)
(* significant bit first.  What is not printable is shown in hex.          *)
NumericOf(payload) == [k \in 1..Len(payload) \div 4 |-> Lsb(Groups(payload, 4)[k])]
AlphaOf(payload) == [k \in 1..Len(payload) \div 7 |-> Lsb(Groups(payload, 7)[k])]

(* _pocsag_finalize_message.                                               *)
Page(ric, function, payload) ==
  [ric |-> ric, function |-> function, numeric |-> NumericOf(payload),
   alpha |-> AlphaOf(payload), message_bit_count |-> Len(payload)]

(* A mutant: only another address closes a page. *)
PagesOf_IdleGoesOn(words) ==
  LET kind == Tabulated([k \in DOMAIN words |-> KindOf(words[k])])
      address == Indices(Len(words), LAMBDA k : kind[k] = "address")
      end(a) == Min({j \in a + 1..Len(words) : kind[j] = "address"} \cup {Len(words) + 1})
      payload(a) == Joined([i \in 1..end(a) - a - 1 |-> MessageBits(words[a + i])])
  IN [p \in DOMAIN address |->
        LET a == address[p]
        IN Page(Ric(words[a], (a - 1) \div 2), FunctionBits(words[a]), payload(a))]

(* The pages of a batch: each address codeword with the message codewords  *)
(* up to the next address or idle codeword or the end of the batch; a      *)
(* message codeword without an address is dropped.  bch_ok and parity_ok   *)
(* do not matter here.                                                     *)
PagesOf(words) ==
  LET kind == Tabulated([k \in DOMAIN words |-> KindOf(words[k])])
      address == Indices(Len(words), LAMBDA k : kind[k] = "address")
      end(a) == Min({j \in a + 1..Len(words) : kind[j] # "message"} \cup {Len(words) + 1})
      payload(a) == Joined([i \in 1..end(a) - a - 1 |-> MessageBits(words[a + i])])
  IN [p \in DOMAIN address |->
        LET a == address[p]
        IN Page(Ric(words[a], (a - 1) \div 2), FunctionBits(words[a]), payload(a))]

(* The codewords after the sync word at place s, as far as the recording   *)
(* holds whole ones.                                                       *)
BatchAt(bits, s) ==
  LET whole == Min({BatchWords, (Len(bits) - s - 31) \div 32})
  IN Groups(SubSeq(bits, s + 32, s + 31 + 32 * whole), 32)

(* Each sync word opens a batch of its own, wherever it is found.          *)
DecodePocsag(tones) ==
  LET bits == InPolarity(FskBits(tones, TRUE))
      found == Places(Sync, bits)
      batch == Tabulated([b \in DOMAIN found |-> BatchAt(bits, found[b])])
      words == Joined(batch)
  IN [sync_offsets |-> found,
      num_codewords |-> Len(words),
      invalid_codewords |-> Cardinality({k \in DOMAIN words : ~BchOk(words[k])}),
      messages |-> Joined([b \in DOMAIN batch |-> PagesOf(batch[b])])]
=============================================================================
