-------------------------------- MODULE Aprs --------------------------------
(***************************************************************************)
(* hw/analysis.py: decode_aprs, the meaning of the payload of a UI frame.  *)
(* A character is its code; a position is in 1/10000 of a minute of arc,   *)
(* which every field of five characters can be told in.                    *)
(***************************************************************************)
EXTENDS Ax25

SPACE == 32
DOT == 46

(* info_ascii: what is not printable is a dot.                             *)
Printable(info) ==
  Tabulated([i \in DOMAIN info |-> IF info[i] \in 32..126 THEN info[i] ELSE DOT])

Stripped(s) ==
  LET at == {i \in DOMAIN s : s[i] # SPACE}
  IN IF at = {} THEN << >> ELSE SubSeq(s, Min(at), Max(at))

(* What int() (no point) and float() (at most one) make of a field: blanks *)
(* around it and a sign are theirs to accept, so that a field whose last   *)
(* digits are blanked out is a number still.  The set of its value, times  *)
(* 10000, or of none.  Exponents, underscores, nan and inf are left out.   *)
DigitsOf(body) == {i \in DOMAIN body : body[i] \in 48..57}
PointsOf(body) == {i \in DOMAIN body : body[i] = DOT}

Value(body) ==
  LET decimals == Len(body) - Min(PointsOf(body) \cup {Len(body)})
      read[i \in 0..Len(body)] ==
        IF i = 0 THEN 0
        ELSE IF body[i] = DOT THEN read[i - 1] ELSE 10 * read[i - 1] + (body[i] - 48)
  IN read[Len(body)] * 10^(4 - decimals)

Unsigned(body, points) ==
  IF DigitsOf(body) # {} /\ DigitsOf(body) \cup PointsOf(body) = DOMAIN body
       /\ Cardinality(PointsOf(body)) <= points
  THEN {Value(body)} ELSE {}

Number(field, points) ==
  LET text == Stripped(field)
  IN IF text = << >> THEN {}
     ELSE CASE text[1] = 43 -> Unsigned(Tail(text), points)
            [] text[1] = 45 -> {-v : v \in Unsigned(Tail(text), points)}
            [] OTHER -> Unsigned(text, points)

(* Degrees, minutes and a hemisphere: DDMM.mmN or DDDMM.mmE.               *)
Angle(text, digits, positive, negative) ==
  LET degrees == Number(SubSeq(text, 1, digits), 0)
      minutes == Number(SubSeq(text, digits + 1, digits + 5), 1)
      hemisphere == text[digits + 6]
  IN IF hemisphere \notin {positive, negative} THEN {}
     ELSE {(60 * d + m) * (IF hemisphere = negative THEN -1 ELSE 1) : d \in degrees, m \in minutes}

Position(body) ==
  IF Len(body) < 19 THEN {}
  ELSE {[lat |-> lat, lon |-> lon, symbol_table |-> body[9], symbol_code |-> body[19],
         comment |-> SubSeq(body, 20, Len(body))] :
          lat \in Angle(SubSeq(body, 1, 8), 2, 78, 83),
          lon \in Angle(SubSeq(body, 10, 18), 3, 69, 87)}

PositionPayload(dti, body) ==
  LET timed == dti \in {47, 64}
      position == Position(IF timed THEN SubSeq(body, 8, Len(body)) ELSE body)
  IN {[kind |-> "position", dti |-> dti, at |-> p,
       timestamp |-> IF timed THEN SubSeq(body, 1, 7) ELSE << >>,
       has_messaging |-> dti \in {61, 64}] : p \in position}

MessagePayload(dti, body) ==
  IF Len(body) < 11 \/ body[10] # 58 THEN {}
  ELSE {[kind |-> "message", dti |-> dti,
         addressee |-> SubSeq(body, 1, Max({0} \cup {i \in 1..9 : body[i] # SPACE})),
         text |-> SubSeq(body, 11, Len(body))]}

(* By the data type identifier, the first character; the set of what the   *)
(* rest can be read as, which is empty for a position that cannot be, as   *)
(* one that is compressed.                                                 *)
Payload(dti, body) ==
  CASE dti \in {33, 61, 47, 64} -> PositionPayload(dti, body)
    [] dti = 58 -> MessagePayload(dti, body)
    [] dti = 62 -> {[kind |-> "status", dti |-> dti, status |-> body]}
    [] dti = 59 -> {[kind |-> "object", dti |-> dti, raw |-> body]}
    [] dti = 84 -> {[kind |-> "telemetry", dti |-> dti, raw |-> body]}
    [] OTHER -> {}

AprsPayload(info) ==
  IF info = << >> THEN [kind |-> "empty"]
  ELSE LET text == Printable(info)
           unknown == [kind |-> "unknown", dti |-> text[1], raw |-> Tail(text)]
           read == Payload(text[1], Tail(text))
       IN IF read = {} THEN unknown ELSE CHOOSE p \in read : TRUE

AprsKinds == {"position", "status", "message", "object", "telemetry"}
NoAprs == [kind |-> "none"]

(* Only a UI frame has a payload to interpret; a bad checksum is no reason *)
(* not to.                                                                 *)
WithAprs(f) ==
  [frame |-> f.frame, crc_ok |-> f.crc_ok,
   aprs |-> IF f.frame.is_ui THEN AprsPayload(f.frame.info) ELSE NoAprs]

DecodeAprs(tones, invert) ==
  LET ax25 == DecodeAx25(tones, invert)
      frames == Each(ax25.frames, WithAprs)
  IN [num_flags |-> ax25.num_flags,
      frames |-> frames,
      num_aprs_frames |-> Cardinality({k \in DOMAIN frames : frames[k].aprs.kind \in AprsKinds})]
=============================================================================
