------------------------------ MODULE QrPayload ------------------------------
(***************************************************************************)
(* decode.c: from the corrected data bits of a symbol to its payload.  The *)
(* state of the reader is a record: the bits, how many have been taken,    *)
(* the payload so far (bytes), the data type, the ECI number and, after a  *)
(* failure, the error.                                                     *)
(***************************************************************************)
EXTENDS Integers, SequencesExt, Once

CONSTANT MaxPayload   \* QUIRC_MAX_PAYLOAD

ASSUME MaxPayloadAssumption == MaxPayload \in Nat \ {0}

Numeric == 1
Alpha == 2
Byte == 4
Kanji == 8
Eci == 7

Remaining(s) == Len(s.bits) - s.ptr

\* take_bits: the next n bits, fewer at the end of the data, and their value.
Taken(s, n) == [s EXCEPT !.ptr = Min({@ + n, Len(s.bits)})]
Value(s, n) ==
  Accumulate(LAMBDA a, b : 2 * a + b, 0, SubSeq(s.bits, s.ptr + 1, Taken(s, n).ptr))

Failed(s, error) == [s EXCEPT !.error = error]

\* The width of a character count, for versions up to 9, up to 26 and above.
CountBits(type, version) ==
  LET widths == CASE type = Numeric -> <<10, 12, 14>>
                  [] type = Alpha -> <<9, 11, 13>>
                  [] type = Byte -> <<8, 16, 16>>
                  [] type = Kanji -> <<8, 10, 12>>
  IN  widths[IF version < 10 THEN 1 ELSE IF version < 27 THEN 2 ELSE 3]

alpha_map == [c \in 0..44 |->
  CASE c < 10 -> 48 + c
    [] c \in 10..35 -> 55 + c
    [] c > 35 -> <<32, 36, 37, 42, 43, 45, 46, 47, 58>>[c - 35]]

\* What a group of bits of value v stands for: n digits, n characters, a byte, or a
\* double-byte character in Shift-JIS.
Digits(v, n) == [k \in 1..n |-> 48 + ((v \div 10^(n - k)) % 10)]
Characters(v, n) == [k \in 1..n |-> alpha_map[(v \div 45^(n - k)) % 45]]
ShiftJis(v) ==
  LET intermediate == (v \div 192) * 256 + (v % 192)
      sjw == (intermediate + (IF intermediate + 33088 <= 40956 THEN 33088 ELSE 49472)) % 65536
  IN  <<sjw \div 256, sjw % 256>>

\* The next group of a segment with `left` characters to come: how many it holds, in how
\* many bits, and the bytes it stands for.
Group(type, left) ==
  CASE type = Numeric /\ left >= 3 -> [size |-> 3, bits |-> 10]
    [] type = Numeric /\ left = 2 -> [size |-> 2, bits |-> 7]
    [] type = Numeric /\ left = 1 -> [size |-> 1, bits |-> 4]
    [] type = Alpha /\ left >= 2 -> [size |-> 2, bits |-> 11]
    [] type = Alpha /\ left = 1 -> [size |-> 1, bits |-> 6]
    [] type = Byte -> [size |-> 1, bits |-> 8]
    [] type = Kanji -> [size |-> 1, bits |-> 13]
Bytes(type, v, n) ==
  CASE type = Numeric -> Digits(v, n)
    [] type = Alpha -> Characters(v, n)
    [] type = Byte -> <<v>>
    [] type = Kanji -> ShiftJis(v)

\* A count is refused that the payload has no room for, with a byte left for the end mark.
TooLong(s, type, count) ==
  Len(s.payload) + (IF type = Kanji THEN 2 * count ELSE count) + 1 > MaxPayload

\* Bytes and Kanji are refused before the first group when not all of them are there,
\* numbers and letters when a group is not.
TooShort(s, type, left) ==
  Remaining(s) < Group(type, left).bits * (IF type \in {Byte, Kanji} THEN left ELSE 1)

\* numeric_tuple, alpha_tuple and the loops around them.
RECURSIVE Groups(_, _, _)
Groups(s, type, left) ==
  IF left = 0 THEN s
  ELSE IF TooShort(s, type, left) THEN Failed(s, "DATA_UNDERFLOW")
  ELSE LET g == Group(type, left)
       IN  Groups([Taken(s, g.bits) EXCEPT !.payload = @ \o Bytes(type, Value(s, g.bits), g.size)],
                  type, left - g.size)

\* decode_numeric, decode_alpha, decode_byte and decode_kanji.
Segment(s, type, version) ==
  LET n == CountBits(type, version)
      count == Value(s, n)
  IN  IF TooLong(s, type, count) THEN Failed(Taken(s, n), "DATA_OVERFLOW")
      ELSE Groups(Taken(s, n), type, count)

\* decode_eci: one byte, two when it starts with 10, three when it starts with 110.
EciNumber(s) ==
  LET first == Value(s, 8)
      more == IF first \in 128..191 THEN 8 ELSE IF first \in 192..223 THEN 16 ELSE 0
  IN  IF Remaining(s) < 8 \/ Remaining(Taken(s, 8)) < more THEN Failed(s, "DATA_UNDERFLOW")
      ELSE [Taken(s, 8 + more) EXCEPT !.eci = Value(s, 8 + more)]

\* One round of decode_payload: the mode and the segment of that mode.  An unknown mode
\* ends the payload, as fewer than four bits do.
RoundOf(s, version) ==
  LET type == Value(s, 4)
      t == Taken(s, 4)
      u == IF type = Eci THEN EciNumber(t) ELSE Segment(t, type, version)
  IN  IF Remaining(s) < 4 THEN [s EXCEPT !.done = TRUE]
      ELSE IF type \notin {Numeric, Alpha, Byte, Kanji, Eci} THEN [t EXCEPT !.done = TRUE]
      ELSE IF u.error # "SUCCESS" \/ type = Eci THEN u
      ELSE [u EXCEPT !.type = IF type > @ THEN type ELSE @]

\* The end mark takes the place of the last byte of a payload that fills its array.
Terminated(payload) ==
  IF Len(payload) >= MaxPayload THEN SubSeq(payload, 1, Len(payload) - 1) ELSE payload
=============================================================================
