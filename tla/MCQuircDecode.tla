---------------------------- MODULE MCQuircDecode ----------------------------
(***************************************************************************)
(* Symbols made from messages, some of them damaged, some mirrored, and    *)
(* the decoder reading them.  `sent` says what the symbol was made from.   *)
(***************************************************************************)
EXTENDS QuircDecode, QrReference

VARIABLE sent

Bits(v, n) == [k \in 1..n |-> (v \div 2^(n - k)) % 2]

\* A part of a message: its mode, the number of characters it announces, the characters.
Part(type, text) == [type |-> type, count |-> Len(text), text |-> text]

\* Which of ISO/IEC 18004's three sizes of a character count a version uses.
CountWidth(type, v) ==
  [t \in {Numeric, Alpha, Byte, Kanji} |->
     CASE t = Numeric -> <<10, 12, 14>> [] t = Alpha -> <<9, 11, 13>>
       [] t = Byte -> <<8, 16, 16>> [] t = Kanji -> <<8, 10, 12>>]
  [type][CASE v \in 1..9 -> 1 [] v \in 10..26 -> 2 [] v \in 27..40 -> 3]

Chunks(text, n) ==
  [k \in 1..((Len(text) + n - 1) \div n) |->
     SubSeq(text, (k - 1) * n + 1, Min({k * n, Len(text)}))]
Number(chunk, base) == Accumulate(LAMBDA v, c : base * v + c, 0, chunk)

\* 13 bits for a double-byte character of Shift-JIS.
KanjiIndex(c) ==
  LET d == c - (IF c < 57408 THEN 33088 ELSE 49472)
  IN  (d \div 256) * 192 + (d % 256)

TextBits(type, text) ==
  FlattenSeq(
    CASE type = Numeric -> [k \in DOMAIN Chunks(text, 3) |->
           Bits(Number(Chunks(text, 3)[k], 10), <<4, 7, 10>>[Len(Chunks(text, 3)[k])])]
      [] type = Alpha -> [k \in DOMAIN Chunks(text, 2) |->
           Bits(Number(Chunks(text, 2)[k], 45), <<6, 11>>[Len(Chunks(text, 2)[k])])]
      [] type = Byte -> [k \in DOMAIN text |-> Bits(text[k], 8)]
      [] type = Kanji -> [k \in DOMAIN text |-> Bits(KanjiIndex(text[k]), 13)]
      [] type = Eci -> [k \in DOMAIN text |-> Bits(text[k], 8)])

PartBits(part, v) ==
  Bits(part.type, 4)
    \o (IF part.type = Eci THEN <<>> ELSE Bits(part.count, CountWidth(part.type, v)))
    \o TextBits(part.type, part.text)

\* The data codewords: the message, up to four zero bits, and padding.
DataOf(v, level, message) ==
  LET room == Accumulate(LAMBDA a, b : a + b, 0, DataSizes(v, level))
      bits == FlattenSeq([k \in DOMAIN message |-> PartBits(message[k], v)])
      Bit(k) == IF k <= Len(bits) THEN bits[k] ELSE 0
      used == Min({room, (Len(bits) + 4 + 7) \div 8})
  IN  [k \in 1..room |->
         IF k <= used THEN Number([i \in 1..8 |-> Bit(8 * (k - 1) + i)], 2)
         ELSE IF (k - used) % 2 = 1 THEN 236 ELSE 17]

\* The bytes a reader is to get.
AlphaCodes == <<48, 49, 50, 51, 52, 53, 54, 55, 56, 57>>
                \o [k \in 1..26 |-> 64 + k] \o <<32, 36, 37, 42, 43, 45, 46, 47, 58>>
TextBytes(type, text) ==
  CASE type = Numeric -> [k \in DOMAIN text |-> 48 + text[k]]
    [] type = Alpha -> [k \in DOMAIN text |-> AlphaCodes[text[k] + 1]]
    [] type = Byte -> text
    [] type = Kanji -> FlattenSeq([k \in DOMAIN text |-> <<text[k] \div 256, text[k] % 256>>])
    [] type = Eci -> <<>>
-----------------------------------------------------------------------------
(* Messages.                                                                *)

Digits17 == <<0, 1, 2, 3, 4, 5, 6, 7, 8, 9, 9, 9, 9, 0, 0, 0, 7>>
Mixed == <<Part(Eci, <<26>>), Part(Byte, <<113, 0, 255>>), Part(Numeric, <<4, 2>>),
           Part(Alpha, <<10, 44, 36>>)>>

Msg(v, level, mask, message, outcome) ==
  [version |-> v, level |-> level, mask |-> mask, message |-> message,
   outcome |-> outcome]

\* M, L, H and Q are 0, 1, 2, 3.  The first is damaged in many ways; then every mode, three
\* widths of the counts, several blocks, long blocks, alignment patterns; then counts that
\* announce more than there is or more than a payload holds.
Messages == <<
  Msg(1, 1, 2, <<Part(Byte, <<72, 105>>), Part(Numeric, <<0, 0, 7, 1>>)>>, "SUCCESS"),
  Msg(1, 1, 5, <<Part(Numeric, Digits17 \o Digits17 \o SubSeq(Digits17, 1, 7))>>, "SUCCESS"),
  Msg(1, 3, 0, <<Part(Kanji, <<33088, 40956, 57408, 60351>>)>>, "SUCCESS"),
  Msg(2, 1, 7, Mixed, "SUCCESS"),
  Msg(3, 2, 1, <<Part(Alpha, <<1, 2, 3>>), Part(Kanji, <<34000>>)>>, "SUCCESS"),
  Msg(5, 3, 6, <<Part(Byte, [k \in 1..60 |-> (k * 29) % 256])>>, "SUCCESS"),
  Msg(7, 0, 3, <<Part(Eci, <<129, 182>>), Part(Alpha, [k \in 1..45 |-> k - 1])>>, "SUCCESS"),
  Msg(10, 0, 4, <<Part(Numeric, Digits17), Part(Kanji, <<40000>>), Part(Byte, <<1, 2>>)>>, "SUCCESS"),
  Msg(27, 1, 2, <<Part(Alpha, <<44>>), Part(Kanji, <<58000>>), Part(Numeric, <<5, 0>>)>>, "SUCCESS"),
  Msg(1, 1, 1, <<[Part(Byte, <<1, 2>>) EXCEPT !.count = 18]>>, "DATA_UNDERFLOW"),
  Msg(1, 2, 1, <<Part(Numeric, <<1, 2>>), [Part(Alpha, <<1>>) EXCEPT !.count = 9]>>, "DATA_UNDERFLOW"),
  Msg(10, 0, 1, <<Part(Byte, <<7>>), [Part(Byte, <<1, 2>>) EXCEPT !.count = 8895]>>, "DATA_OVERFLOW")>>

Made(m) ==
  With(Codestream(m.version, m.level, DataOf(m.version, m.level, m.message)), LAMBDA made :
    [stream |-> made, black |-> BlackCells(m.version, m.level, m.mask, made)])

Payload(m) ==
  FlattenSeq([k \in DOMAIN Messages[m].message |->
                TextBytes(Messages[m].message[k].type, Messages[m].message[k].text)])
-----------------------------------------------------------------------------
(* Damage: codewords of the stream read inverted, bits of the two format    *)
(* words, rows and columns exchanged.                                       *)

Sample(m, words, flaws, mirrored) ==
  [msg |-> m, words |-> words, format |-> flaws, mirrored |-> mirrored, stream |-> <<>>]
Sound == <<{}, {}>>

WordSets(range, n) == UNION {kSubset(k, range) : k \in 0..n}

Samples ==
  {Sample(m, {}, Sound, mirrored) : m \in DOMAIN Messages, mirrored \in BOOLEAN}
  \cup {Sample(1, w, Sound, mirrored) :
          w \in WordSets({0, 1, 7, 18, 19, 22, 25}, 4), mirrored \in {FALSE}}
  \cup {Sample(5, w, Sound, TRUE) : w \in {0..7, (0..23) \ {3}, 46..69}}
  \cup {Sample(6, w, Sound, FALSE) : w \in {{60, 61}, {2, 3, 62, 63}, (0..31) \cup {60}}}
  \cup {Sample(1, {}, <<f, {}>>, FALSE) : f \in WordSets(0..14, 2)}
  \cup {Sample(1, {9}, <<f, g>>, FALSE) : f \in {{0, 4, 9}, {1, 2, 12, 14}, 0..14, 0..6},
                                          g \in {{}, {3}, {0, 7, 11}, {0, 7, 11, 13}}}

Inverted(sample) ==
  LET v == Messages[sample.msg].version
      cells == DataCells(v)
  IN  {cells[8 * w + k] : w \in sample.words, k \in 1..8}
        \cup {FormatPlace(v, 0, b) : b \in sample.format[1]}
        \cup {FormatPlace(v, 1, b) : b \in sample.format[2]}

\* The black cells, and the inverted ones, say which cells the decoder sees black.
SymbolOf(sample, black, inverted) ==
  LET size == SizeOf(Messages[sample.msg].version)
      At(p) == IF sample.mirrored THEN <<p[2], p[1]>> ELSE p
  IN  [size |-> size,
       cells |-> [p \in CellsOf(size) |->
                    IF (At(p) \in black) # (At(p) \in inverted) THEN 1 ELSE 0]]

\* Symbols of no message: of every version, all white, and of sizes that no version has.
Blank(size) == [size |-> size, cells |-> [p \in CellsOf(IF size > 177 THEN 1 ELSE size) |-> 0]]
NoMessage == Sample(0, {}, Sound, FALSE)
MCSymbols == {}

MCInit ==
  /\ \/ \E m \in DOMAIN Messages : \E made \in {Made(Messages[m])} :
          \E s \in {t \in Samples : t.msg = m} : \E inverted \in {Inverted(s)} :
            /\ sent = [s EXCEPT !.stream = made.stream]
            /\ code = SymbolOf(s, made.black, inverted)
     \/ sent = NoMessage
        /\ code \in {Blank(SizeOf(v)) : v \in 1..MaxVersion} \cup {Blank(n) : n \in {13, 20, 181}}
  /\ Start
MCNext == Next /\ UNCHANGED sent
MCSpec == MCInit /\ [][MCNext]_<<vars, sent>>
-----------------------------------------------------------------------------
Version == Messages[sent.msg].version
Level == Messages[sent.msg].level

\* The damaged codewords of a block.
Hits(b) ==
  {k \in 1..Len(sent.stream) :
     k - 1 \in sent.words /\ Places(Version, Level)[k].block = b}

\* With these flaws the format word is at most n bits away from one of the 32 there are.
Near(flaws, n) ==
  \E level \in 0..3, mask \in 0..7 :
    LET g == FormatOf(level, mask)
        f == FormatOf(Level, Messages[sent.msg].mask)
    IN  Cardinality({b \in 0..14 : (g[b] # f[b]) # (b \in flaws)}) <= n

\* The damage is within what the codes of the standard correct: a copy of the format word
\* with at most three flaws, where the first copy either has them or is beyond doubt lost,
\* and for every block half as many codewords as it has ECC codewords; one less in a long
\* block, which quirc reads with one wrong codeword.
Repairable ==
  /\ \/ Cardinality(sent.format[1]) <= 3
     \/ ~Near(sent.format[1], 3) /\ Cardinality(sent.format[2]) <= 3
  /\ \A b \in DOMAIN DataSizes(Version, Level) :
       Cardinality(Hits(b)) + (IF b > quirc_version_db[Version].ecc[Level].ns THEN 1 ELSE 0)
         <= EccSize(Version, Level) \div 2

\* A symbol that is damaged no more than it can bear, mirrored or not, is read as the
\* message it was made from; a symbol whose parts announce more than it holds is refused as
\* a whole, and so is one that is no symbol (quirc_decode, qr_decode_detected).
SymbolDecoded ==
  Ended =>
    IF sent = NoMessage THEN reader.error # "SUCCESS"
    ELSE Repairable => /\ reader.error = Messages[sent.msg].outcome
                       /\ reader.error = "SUCCESS" => reader.payload = Payload(sent.msg)

\* The codewords of a codestream that are not where codestream_ecc reads them.
Misread(v, level) ==
  LET layout == Layout(v, level)
      Index(p) == IndexOf(layout, p.block - 1,
                          IF p.part = "data" THEN p.at - 1
                          ELSE EccOf(layout, p.block - 1).dw + p.at - 1)
  IN  With(Places(v, level), LAMBDA places :
        {places[k] : k \in {n \in DOMAIN places : Index(places[n]) # n - 1}})

\* The version table is sound for all versions and levels: the cells that are not reserved
\* hold the codewords of the version and less than one more, the blocks use all codewords,
\* and what codestream_ecc takes from a wrong place is no more than the code can correct.
TableSound ==
  pc = "format" /\ which = 0 /\ ~flipped /\ sent = NoMessage =>
    LET info == quirc_version_db[version]
        data == {p \in DOMAIN code.cells : ~reserved_cell(version, p[2], p[1])}
    IN  /\ Cardinality(data) - 8 * info.data_bytes \in 0..7
        /\ \A level \in 0..3 :
             LET layout == Layout(version, level)
             IN  /\ layout.count * layout.small.bs + layout.long = info.data_bytes
                 /\ \A missed \in {Misread(version, level)} : \A b \in 1..layout.count :
                      Cardinality({p \in missed : p.block = b}) <= EccSize(version, level) \div 2
=============================================================================
