----------------------------- MODULE QrReference -----------------------------
(***************************************************************************)
(* How a QR symbol is made (ISO/IEC 18004), to compare the decoder with:   *)
(* written from what a symbol is, not from how quirc takes it apart.       *)
(***************************************************************************)
EXTENDS QrGrid, RsCode

Doubled(a) == IF a < 128 THEN 2 * a ELSE Xor[2 * a - 256][29]

\* Multiplication in GF(256) by shifting and adding.
Product(a, b) ==
  LET power[k \in 0..7] == IF k = 0 THEN a ELSE Doubled(power[k - 1])
  IN  XorOver(0, 7, LAMBDA k : IF (b \div 2^k) % 2 = 1 THEN power[k] ELSE 0)

\* (x - 1)(x - 2)(x - 4)...: n factors, the coefficient of the highest power first.
Generator(n) ==
  LET root[k \in 0..n] == IF k = 0 THEN 1 ELSE Doubled(root[k - 1])
      poly[k \in 0..n] ==
        IF k = 0 THEN <<1>>
        ELSE With(poly[k - 1], LAMBDA p :
               [i \in 1..(k + 1) |-> Xor[IF i <= k THEN p[i] ELSE 0]
                                        [IF i > 1 THEN Product(p[i - 1], root[k - 1]) ELSE 0]])
  IN  poly[n]

\* The n codewords that make the data a codeword: the remainder of a long division.
Parity(data, n) ==
  With(Generator(n), LAMBDA g : With([q \in 0..255 |-> [i \in 1..n |-> Product(g[i + 1], q)]],
    LAMBDA multiple :
      LET Divide(rest, byte) ==
            With(Xor[Head(rest)][byte], LAMBDA q :
              [i \in 1..n |-> Xor[IF i < n THEN rest[i + 1] ELSE 0][multiple[q][i]]])
      IN  Accumulate(Divide, [i \in 1..n |-> 0], data)))

\* The sizes of the data parts of the blocks, and the ECC codewords of each.
DataSizes(version, level) ==
  LET info == quirc_version_db[version]
      e == info.ecc[level]
      long == CHOOSE n \in 0..info.data_bytes : e.ns * e.bs + n * (e.bs + 1) = info.data_bytes
  IN  [k \in 1..(e.ns + long) |-> IF k <= e.ns THEN e.dw ELSE e.dw + 1]
EccSize(version, level) ==
  quirc_version_db[version].ecc[level].bs - quirc_version_db[version].ecc[level].dw

\* The places of a codestream in their order: codeword j of block b, both from 1, the data
\* first, and in each part all first codewords before all second ones.
Places(version, level) ==
  LET sizes == DataSizes(version, level)
      Round(part, j, Has(_)) ==
        SelectSeq([b \in DOMAIN sizes |-> [part |-> part, block |-> b, at |-> j]],
                  LAMBDA p : Has(p.block))
  IN  FlattenSeq([j \in 1..(Last(sizes)) |-> Round("data", j, LAMBDA b : j <= sizes[b])])
        \o FlattenSeq([j \in 1..EccSize(version, level) |-> Round("ecc", j, LAMBDA b : TRUE)])

\* The codestream of the data codewords.
Codestream(version, level, data) ==
  LET sizes == DataSizes(version, level)
      before[b \in 0..Len(sizes)] == IF b = 0 THEN 0 ELSE before[b - 1] + sizes[b]
      Part(b) == SubSeq(data, before[b - 1] + 1, before[b])
  IN  With([b \in DOMAIN sizes |-> Part(b)], LAMBDA blocks :
        With([b \in DOMAIN sizes |-> Parity(blocks[b], EccSize(version, level))], LAMBDA parity :
          With(Places(version, level), LAMBDA places :
            [k \in DOMAIN places |->
               IF places[k].part = "data" THEN blocks[places[k].block][places[k].at]
               ELSE parity[places[k].block][places[k].at]])))
-----------------------------------------------------------------------------
\* The cells that hold no data: finders with their separators and the format words, timing,
\* version information, and alignment patterns wherever there is no finder.
FunctionCells(version) ==
  LET size == SizeOf(version)
      near == 0..8
      far == (size - 8)..(size - 1)
      apat == ToSet(quirc_version_db[version].apat)
      centres == (apat \X apat) \ ((near \X near) \cup (near \X far) \cup (far \X near))
      info == (0..5) \X ((size - 11)..(size - 9))
  IN  (near \X near) \cup (near \X far) \cup (far \X near)
        \cup {<<x, 6>> : x \in 0..(size - 1)} \cup {<<6, y>> : y \in 0..(size - 1)}
        \cup (IF version >= 7 THEN info \cup {<<p[2], p[1]>> : p \in info} ELSE {})
        \cup UNION {((c[1] - 2)..(c[1] + 2)) \X ((c[2] - 2)..(c[2] + 2)) : c \in centres}

\* The data cells in the order in which a codestream fills them: pairs of columns from the
\* right, the vertical timing pattern left out, upwards and downwards in turn.
DataCells(version) ==
  LET size == SizeOf(version)
      Right(k) == IF size - 1 - 2 * k <= 6 THEN size - 2 - 2 * k ELSE size - 1 - 2 * k
      Row(k, r) == IF k % 2 = 0 THEN size - 1 - r ELSE r
      Pair(k) == [n \in 0..(2 * size - 1) |-> <<Right(k) - (n % 2), Row(k, n \div 2)>>]
  IN  With(FunctionCells(version), LAMBDA taken :
        SelectSeq([n \in 1..(size * (size - 1)) |-> Pair((n - 1) \div (2 * size))[(n - 1) % (2 * size)]],
                  LAMBDA p : p \notin taken))
-----------------------------------------------------------------------------
\* The format word of a level and a mask: five bits and the remainder by x^10 + x^8 + x^5 +
\* x^4 + x^2 + x + 1, then exclusive-or 101010000010010.
FormatOf(level, mask) ==
  LET data == [k \in 1..15 |-> IF k <= 5 THEN ((8 * level + mask) \div 2^(5 - k)) % 2 ELSE 0]
      g == <<1, 0, 1, 0, 0, 1, 1, 0, 1, 1, 1>>
      rest[k \in 0..5] ==
        IF k = 0 THEN data
        ELSE With(rest[k - 1], LAMBDA r :
               IF r[k] = 0 THEN r
               ELSE [i \in 1..15 |-> IF i \in k..(k + 10) THEN (r[i] + g[i - k + 1]) % 2 ELSE r[i]])
  IN  With(rest[5], LAMBDA r :
        [b \in 0..14 |-> ((IF b >= 10 THEN data[15 - b] ELSE r[15 - b])
                          + <<1, 0, 1, 0, 1, 0, 0, 0, 0, 0, 1, 0, 0, 1, 0>>[15 - b]) % 2])

\* Where bit b of the format word is in copy 0 and copy 1.
FormatPlace(version, copy, b) ==
  LET size == SizeOf(version)
  IN  IF copy = 0
        THEN CASE b <= 5 -> <<8, b>> [] b = 6 -> <<8, 7>> [] b = 7 -> <<8, 8>>
               [] b = 8 -> <<7, 8>> [] b >= 9 -> <<14 - b, 8>>
        ELSE IF b <= 7 THEN <<size - 1 - b, 8>> ELSE <<8, size - 15 + b>>

\* The black cells of a symbol with this codestream; of the function patterns only the
\* format words matter to the decoder.
BlackCells(version, level, mask, stream) ==
  LET bit(k) == (stream[(k - 1) \div 8 + 1] \div 2^(7 - ((k - 1) % 8))) % 2
  IN  With(DataCells(version), LAMBDA order : With(FormatOf(level, mask), LAMBDA format :
        {order[k] : k \in {n \in DOMAIN order :
           LET value == IF n <= 8 * Len(stream) THEN bit(n) ELSE 0
           IN  value = 1 <=> ~mask_bit(mask, order[n][2], order[n][1])}}
        \cup {FormatPlace(version, copy, b) : copy \in {0, 1}, b \in {n \in 0..14 : format[n] = 1}}))
=============================================================================
