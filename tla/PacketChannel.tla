--------------------------- MODULE PacketChannel ----------------------------
(***************************************************************************)
(* A transmitter sends POCSAG pages, AX.25 frames or Mode S squitters, the *)
(* air damages some of it, and the recording is decoded as                 *)
(* hw/analysis.py decodes it.  The transmitter is outside the repository:  *)
(* it follows the formats that the decoders' docstrings name.              *)
(***************************************************************************)
EXTENDS Pocsag, Aprs, ModeS

CONSTANTS Pages,          \* [ric, function, digits, chars]: what a pager may be sent
          Frames,         \* an AX.25 frame, its checksum bytes and what it says in APRS
          Latitudes, Longitudes, Comments,    \* of APRS reports, in 1/100 of a minute
          Squitters,      \* messages of 112 bits with their parity
          MaxPages, MaxFrames, MaxSquitters,    \* bounds: items in a recording
          MaxDamagedWords, MaxBursts,    \* bounds: damaged places in a recording
          Flips,          \* ways to damage a codeword: sets of places
          Bursts, SquitterBursts,    \* lengths of damage to AX.25 and to Mode S
          Silences,       \* lengths of silence between squitters, in samples
          MaxSamplesHit,  \* bound: recordings of squitters that are damaged
          HitBits,        \* the bits of a squitter where damage may begin
          max_frames      \* the cap of decode_ads_b

(* Up to four wrong bits in the 31 that the code covers, or the parity bit.*)
ASSUME FlipsAreFew ==
  \A F \in Flips : F \subseteq 1..32 /\ (Cardinality(F \ {32}) \in 1..4 \/ F = {32})
ASSUME SquittersAreLong == \A s \in Squitters : Len(s) = LONG_MSG_BITS

VARIABLES proto,      \* what is sent
          start,      \* polarity of POCSAG; symbols before the first flag of AX.25
          sent,       \* history: the items sent
          damage      \* what the air damaged
vars == <<proto, start, sent, damage>>

Init ==
  /\ proto \in {"pocsag", "ax25", "aprs", "ads_b"}
  /\ start \in IF proto \in {"pocsag", "ax25"} THEN Bit ELSE {0}
  /\ sent = << >>
  /\ damage = {}

Repeated(x, n) == [i \in 1..n |-> x]
-----------------------------------------------------------------------------
(* POCSAG.  The parity of a codeword from a shift register; two payloads.  *)
BchEncode(data) ==
  LET reg[i \in 0..21] ==
        IF i = 0 THEN Repeated(0, 10)
        ELSE LET old == reg[i - 1]
                 shifted == Append(Tail(old), 0)
             IN IF old[1] # data[i] THEN XorAt(shifted, 1, Tail(Generator)) ELSE shifted
      coded == data \o reg[21]
  IN Append(coded, Cardinality(Ones(coded)) % 2)

PayloadOf(page) ==
  LET bits == Joined([k \in DOMAIN page.digits |-> Reverse(BitsOf(page.digits[k], 4))])
                \o Joined([k \in DOMAIN page.chars |-> Reverse(BitsOf(page.chars[k], 7))])
  IN bits \o Repeated(0, (20 - (Len(bits) % 20)) % 20)

AddressWord(page) == BchEncode(<<0>> \o BitsOf(page.ric \div 8, 18) \o BitsOf(page.function, 2))
MessageWords(page) ==
  LET g == Groups(PayloadOf(page), 20)
  IN [k \in DOMAIN g |-> BchEncode(<<1>> \o g[k])]

PageWords == [page \in Pages |-> <<AddressWord(page)>> \o MessageWords(page)]

IdleItem == [ric |-> (-1)]
Word(cw, item) == [cw |-> cw, item |-> item]

(* Every page waits for its frame, the last three bits of its RIC; what    *)
(* comes before it is idle.  A page may run into the next batch.           *)
Words ==
  LET laid[i \in 0..Len(sent)] ==
        IF i = 0 THEN << >>
        ELSE LET before == laid[i - 1]
                 page == sent[i]
                 fits(n) == ((Len(before) + n) % BatchWords) \div 2 = page.ric % 8
                 wait == Min({n \in 0..BatchWords : fits(n)})
             IN IF page = IdleItem THEN Append(before, Word(Idle, 0))
                ELSE before \o Repeated(Word(Idle, 0), wait)
                       \o [k \in DOMAIN PageWords[page] |->
                             Word(PageWords[page][k], IF k = 1 THEN i ELSE 0)]
  IN laid[Len(sent)]

BatchOf(k) == (k - 1) \div BatchWords + 1
Batches == IF Words = << >> THEN 0 ELSE BatchOf(Len(Words))

Damaged(bits, F) == Tabulated([i \in DOMAIN bits |-> IF i \in F THEN 1 - bits[i] ELSE bits[i]])

(* Damage is <<"word", k, F>> or <<"sync", batch, F>>.                     *)
FlipsIn(what, k) == UNION {d[3] : d \in {e \in damage : e[1] = what /\ e[2] = k}}

PocsagAir ==
  LET words == Words
      onAir(k) ==
        (IF (k - 1) % BatchWords = 0 THEN Damaged(Sync, FlipsIn("sync", BatchOf(k))) ELSE << >>)
          \o Damaged(words[k].cw, FlipsIn("word", k))
      bits == Joined([k \in DOMAIN words |-> onAir(k)])
  IN IF start = 0 THEN Not(bits) ELSE bits

SendPage(page) ==
  /\ Len(sent) < MaxPages /\ damage = {}
  /\ sent' = Append(sent, page)
  /\ UNCHANGED <<proto, start, damage>>

DamageWord(what, k, F) ==
  /\ Cardinality(damage) < MaxDamagedWords
  /\ k \in 1..(IF what = "word" THEN Len(Words) ELSE Batches)
  /\ FlipsIn(what, k) = {}
  /\ damage' = damage \cup {<<what, k, F>>}
  /\ UNCHANGED <<proto, start, sent>>
-----------------------------------------------------------------------------
(* AX.25.                                                                  *)
AddressBytes(a) ==
  LET padded == a.callsign \o Repeated(32, 6 - Len(a.callsign))
  IN Append([i \in 1..6 |-> 2 * padded[i]], 96 + 2 * a.ssid + (IF a.last THEN 1 ELSE 0))

FrameBytes(f) ==
  AddressBytes(f.destination) \o AddressBytes(f.source)
    \o Joined([k \in DOMAIN f.digipeaters |-> AddressBytes(f.digipeaters[k])])
    \o <<f.control>> \o (IF f.pid = NoPid THEN << >> ELSE <<f.pid>>) \o f.info

BitsOfBytes(bytes) == Joined([k \in DOMAIN bytes |-> Reverse(BitsOf(bytes[k], 8))])

(* A zero after every five ones in a row.                                  *)
Stuff(bits) ==
  LET run(i) == i - Max({0} \cup {j \in 1..i : bits[j] = 0})
  IN Joined([i \in DOMAIN bits |-> IF run(i) > 0 /\ run(i) % 5 = 0 THEN <<1, 0>> ELSE <<bits[i]>>])

(* NRZI: a 0 changes the tone.                                             *)
Tones(bits) == Tabulated([i \in DOMAIN bits |-> Cardinality({j \in 1..i : bits[j] = 0}) % 2])

(* An item is a frame and the flags sent before it besides the one that    *)
(* closed the frame before; one more flag closes it.                       *)
Stuffing == [f \in Frames |-> Stuff(BitsOfBytes(FrameBytes(f.frame) \o f.fcs))]

Block(f, extra) == (IF extra = 1 THEN Flag ELSE << >>) \o Stuffing[f] \o Flag
BlockTones == [f \in Frames, extra \in {0, 1} |-> Tones(Block(f, extra))]

(* A block starts on the tone the one before ended on, and the first flag  *)
(* follows at most a mark.                                                 *)
Ax25Air ==
  LET tones(i) == BlockTones[sent[i].frame, sent[i].extra]
      keyed[i \in 0..Len(sent)] ==
        IF i = 0 THEN Tones(Repeated(1, start) \o Flag)
        ELSE LET before == keyed[i - 1]
             IN before \o (IF Last(before) = 0 THEN tones(i) ELSE Not(tones(i)))
  IN Damaged(keyed[Len(sent)], UNION {d[1]..d[1] + d[2] - 1 : d \in damage})

AirLength ==
  LET upto[i \in 0..Len(sent)] ==
        IF i = 0 THEN start + 8
        ELSE upto[i - 1] + Len(BlockTones[sent[i].frame, sent[i].extra])
  IN upto[Len(sent)]

SendFrame(f, extra) ==
  /\ Len(sent) < MaxFrames /\ damage = {}
  /\ sent' = Append(sent, [frame |-> f, extra |-> extra])
  /\ UNCHANGED <<proto, start, damage>>

(* A burst of wrong symbols: <<first, how many>>.                          *)
BurstAt(i, n) ==
  /\ sent # << >>
  /\ Cardinality(damage) < MaxBursts
  /\ i + n - 1 \in 1..AirLength
  /\ damage' = damage \cup {<<i, n>>}
  /\ UNCHANGED <<proto, start, sent>>
-----------------------------------------------------------------------------
(* APRS: a position to 1/100 of a minute, of which a sender who does not   *)
(* care to be found blanks out the last digits.                            *)
Digits(n, count) == [i \in 1..count |-> 48 + ((n \div 10^(count - i)) % 10)]

Written(angle, degrees, blanks, hemispheres) ==
  LET v == IF angle < 0 THEN -angle ELSE angle
      text == Digits(v \div 6000, degrees) \o Digits((v % 6000) \div 100, 2)
                \o <<DOT>> \o Digits(v % 100, 2)
      blanked(i) == Cardinality({j \in i..Len(text) : text[j] # DOT}) <= blanks /\ text[i] # DOT
  IN [i \in DOMAIN text |-> IF blanked(i) THEN SPACE ELSE text[i]]
       \o <<IF angle < 0 THEN hemispheres[2] ELSE hemispheres[1]>>

ReportBytes(r) ==
  <<r.dti>> \o (IF r.dti \in {47, 64} THEN Digits(92345, 6) \o <<122>> ELSE << >>)
    \o Written(r.lat, 2, r.blanks, <<78, 83>>) \o <<47>>
    \o Written(r.lon, 3, r.blanks, <<69, 87>>) \o <<45>> \o r.comment

SendReport(dti, lat, lon, blanks, comment) ==
  /\ sent = << >>
  /\ sent' = <<[dti |-> dti, lat |-> lat, lon |-> lon, blanks |-> blanks, comment |-> comment]>>
  /\ UNCHANGED <<proto, start, damage>>
-----------------------------------------------------------------------------
(* Mode S at 2 MHz.  An item is a squitter, a stray preamble with nothing  *)
(* behind it, or a stretch of silence.                                     *)
RATE == 20
STRAY == <<"stray">>
Silence(n) == <<"silence", n>>
IsSilence(item) == item \in {Silence(n) : n \in Silences}

MessageChips(bits) ==
  Tabulated([c \in 1..2 * Len(bits) |-> IF c % 2 = 1 THEN bits[(c + 1) \div 2] ELSE 1 - bits[c \div 2]])

(* Damage is <<item, first bit, how many>>: those bits are read the other  *)
(* way round.                                                              *)
BitsDamaged(i) == UNION {d[2]..d[2] + d[3] - 1 : d \in {e \in damage : e[1] = i}}

ChipsOf(i) ==
  CASE sent[i] = STRAY -> PreambleChips
    [] IsSilence(sent[i]) -> Repeated(0, sent[i][2])
    [] OTHER -> PreambleChips \o MessageChips(Damaged(sent[i], BitsDamaged(i)))

SquitterAir == Joined([i \in DOMAIN sent |-> ChipsOf(i)])

SendSquitter(item) ==
  /\ Len(sent) < MaxSquitters /\ damage = {}
  /\ sent' = Append(sent, item)
  /\ UNCHANGED <<proto, start, damage>>

Collide(i, first, n) ==
  /\ Cardinality(damage) < MaxBursts
  /\ i \in DOMAIN sent /\ sent[i] \in Squitters
  /\ Len(SquitterAir) <= MaxSamplesHit
  /\ first + n - 1 \in 1..LONG_MSG_BITS
  /\ damage' = damage \cup {<<i, first, n>>}
  /\ UNCHANGED <<proto, start, sent>>

Next ==
  \/ /\ proto = "pocsag"
     /\ \/ \E page \in Pages \cup {IdleItem} : SendPage(page)
        \/ \E what \in {"word", "sync"}, k \in 1..Len(Words), F \in Flips : DamageWord(what, k, F)
  \/ /\ proto = "ax25"
     /\ \/ \E f \in Frames, extra \in {0, 1} : SendFrame(f, extra)
        \/ \E i \in 1..AirLength, n \in Bursts : BurstAt(i, n)
  \/ /\ proto = "aprs"
     /\ \E dti \in {33, 61, 47, 64}, lat \in Latitudes, lon \in Longitudes, blanks \in 0..4,
           comment \in Comments : SendReport(dti, lat, lon, blanks, comment)
  \/ /\ proto = "ads_b"
     /\ \/ \E item \in Squitters \cup {STRAY} \cup {Silence(n) : n \in Silences} : SendSquitter(item)
        \/ \E i \in DOMAIN sent, first \in HitBits, n \in SquitterBursts : Collide(i, first, n)

Spec == Init /\ [][Next]_vars
-----------------------------------------------------------------------------
(* What a pager should show: the message words of a page that its batch    *)
(* still holds, in both readings, of which the right one is known.         *)
InBatch(k) ==
  Min({Len(PageWords[sent[Words[k].item]]) - 1, BatchWords - 1 - ((k - 1) % BatchWords)})

ShowsPage(got, k) ==
  LET page == sent[Words[k].item]
      bits == 20 * InBatch(k)
  IN /\ got.ric = page.ric
     /\ got.function = page.function
     /\ got.message_bit_count = bits
     /\ \A d \in DOMAIN page.digits : 4 * d <= bits => got.numeric[d] = page.digits[d]
     /\ \A c \in DOMAIN page.chars : 7 * c <= bits => got.alpha[c] = page.chars[c]

AddressPlaces == Indices(Len(Words), LAMBDA k : Words[k].item # 0)
Heard(k) == FlipsIn("sync", BatchOf(k)) = {}
Intact(k) ==
  /\ Heard(k)
  /\ \A j \in DOMAIN Words : BatchOf(j) = BatchOf(k) => FlipsIn("word", j) = {}

PagesReported(got, page) ==
  LET hit == {k \in DOMAIN Words : Heard(k) /\ FlipsIn("word", k) \notin {{}, {32}}}
      madeUp == {m.ric : m \in Range(got.messages)} \ {sent[Words[k].item].ric : k \in Range(page)}
  IN /\ damage = {} =>
          /\ Len(got.messages) = Len(page)
          /\ \A p \in DOMAIN page : ShowsPage(got.messages[p], page[p])
     /\ \A k \in Range(page) :
          Intact(k) => \E m \in Range(got.messages) : ShowsPage(m, k)
     /\ got.invalid_codewords = Cardinality(hit)
     /\ Cardinality(madeUp) <= Cardinality(damage)

(* Pages are reported in the order they were sent, in either polarity, up  *)
(* to the end of their batch; damage stays in its batch: it is counted     *)
(* once per codeword, it makes up at most one receiver per codeword, and   *)
(* the pages of other batches arrive (hw/analysis.py:1072-1136).           *)
PagesArrive ==
  proto = "pocsag" /\ sent # << >> => PagesReported(DecodePocsag(PocsagAir), AddressPlaces)
-----------------------------------------------------------------------------
Ax25Report == DecodeAprs(Ax25Air, FALSE)

(* The place in the recording of the flag before and the flag after item i.*)
FrameSpan(i) ==
  LET before[j \in 0..i] ==
        IF j = 0 THEN start
        ELSE before[j - 1] + 8 * (1 + sent[j].extra) + Len(Stuffing[sent[j].frame])
      last == before[i] + 8
  IN last - 7 - Len(Stuffing[sent[i].frame]) - 8..last

(* The first flag of a recording that begins with it is not seen: its      *)
(* first bit has no transition to show.                                    *)
Unseen(i) == i = 1 /\ start = 0 /\ sent[1].extra = 0

(* A wrong symbol spoils its own bit and the next.                         *)
Spoiled(i) ==
  \E d \in damage : \E k \in d[1]..d[1] + d[2] : k \in FrameSpan(i)

(* A position with up to two digits blanked out is read as the corner of   *)
(* the square it leaves open; one with more of them is not made up.        *)
Floor(angle, blanks) ==
  LET v == IF angle < 0 THEN -angle ELSE angle
      floor == 100 * (v - (v % 10^blanks))
  IN IF angle < 0 THEN -floor ELSE floor

ReadsAs(got, r) ==
  IF r.blanks > 2 THEN got.kind = "unknown"
  ELSE /\ got.kind = "position"
       /\ got.at.lat = Floor(r.lat, r.blanks) /\ got.at.lon = Floor(r.lon, r.blanks)
       /\ got.at.comment = Printable(r.comment)
       /\ got.has_messaging <=> r.dti \in {61, 64}

FramesReported(report) ==
  LET expected(i) == [frame |-> sent[i].frame.frame, crc_ok |-> TRUE, aprs |-> sent[i].frame.aprs]
      seen == Indices(Len(sent), LAMBDA i : ~Unseen(i))
  IN /\ damage = {} =>
          /\ report.frames = [k \in DOMAIN seen |-> expected(seen[k])]
          /\ report.num_aprs_frames
               = Cardinality({i \in Range(seen) : sent[i].frame.aprs.kind \in AprsKinds})
     /\ \A i \in Range(seen) : ~Spoiled(i) => expected(i) \in Range(report.frames)

(* Whatever needs stuffing, with shared or separate flags: a frame that is *)
(* not hit is reported with a good checksum and every field as it was      *)
(* sent, and without damage nothing else is; and what it says in APRS is   *)
(* what was meant, in all four quarters of the globe, to the digit that    *)
(* was sent (hw/analysis.py:1471-1532, 1540-1687).                         *)
FramesArrive ==
  /\ proto = "ax25" => FramesReported(Ax25Report)
  /\ proto = "aprs" => \A i \in DOMAIN sent : ReadsAs(AprsPayload(ReportBytes(sent[i])), sent[i])
-----------------------------------------------------------------------------
SquitterReport == DecodeAdsB(SquitterAir, RATE, max_frames)

(* Where the preambles sent begin, and which of them the spacing leaves:   *)
(* the first, and then each first one a whole message later.               *)
StartOf(i) ==
  LET length[j \in 0..i - 1] == IF j = 0 THEN 1 ELSE length[j - 1] + Len(ChipsOf(j))
  IN length[i - 1]

Preambles == Indices(Len(sent), LAMBDA i : ~IsSilence(sent[i]))

Taken ==
  LET from[p \in 1..Len(Preambles) + 1, free \in Nat] ==
        IF p > Len(Preambles) THEN << >>
        ELSE IF StartOf(Preambles[p]) >= free
             THEN <<Preambles[p]>> \o from[p + 1, StartOf(Preambles[p]) + 240]
             ELSE from[p + 1, free]
  IN from[1, 0]

(* The threshold is a percentile of the recording itself, and nothing else *)
(* tells a preamble: it must lie above zero, below the peak of each        *)
(* preamble taken, and nowhere below what runs ahead of one (a side lobe   *)
(* of its own pulses, the tail of a message that was masked).  At 2 MHz a  *)
(* recording with more than one preamble in some 200 samples, or less than *)
(* one in some 5000, is not like that.                                     *)
Detectable ==
  LET crossing == Range(Crossings(Correlation(SquitterAir, RATE)))
      taken == {StartOf(i) : i \in Range(Taken)}
  IN /\ taken \subseteq crossing
     /\ \A at \in crossing : \E first \in taken : at \in first..first + 239

(* Each squitter whose preamble is the first in a message's time is        *)
(* reported bit for bit, its checksum good exactly when the air left it    *)
(* alone, up to the cap; a stray preamble masks what follows it for that   *)
(* time, and masks nothing else (hw/analysis.py:1782-1793, 1832-1864).     *)
SquittersArrive ==
  proto = "ads_b" /\ Detectable =>
    LET got == SquitterReport.frames
        whole == SelectSeq(Taken, LAMBDA i : StartOf(i) + 239 <= Len(SquitterAir))
    IN /\ Len(got) = Min({Len(whole), max_frames})
       /\ \A k \in DOMAIN got :
            /\ got[k].start_sample = StartOf(whole[k]) + 16
            /\ sent[whole[k]] \in Squitters =>
                 /\ got[k].raw = Damaged(sent[whole[k]], BitsDamaged(whole[k]))
                 /\ got[k].crc_ok <=> BitsDamaged(whole[k]) = {}
-----------------------------------------------------------------------------
(* A frame or squitter reported with a good checksum was sent: neither one *)
(* wrong symbol of a frame (with the slip of the stuffing or the false     *)
(* flag it makes) nor a short burst in a squitter nor a preamble found in  *)
(* the wrong place gets past the checksums; longer damage may.  The one    *)
(* exception is the message of zeros, whose checksum is good: a stray      *)
(* preamble with silence behind it                                         *)
(* (hw/analysis.py:1339-1353, 1709-1721, 1842-1843).                       *)
NothingIsForged ==
  /\ proto = "ax25" => \A f \in Range(Ax25Report.frames) :
       f.crc_ok => \E i \in DOMAIN sent : sent[i].frame.frame = f.frame
  /\ proto = "ads_b" => \A f \in Range(SquitterReport.frames) :
       f.crc_ok => f.raw \in Range(sent) \/ Ones(f.raw) = {}
=============================================================================
