----------------------------- MODULE QuircDecode -----------------------------
(***************************************************************************)
(* decode.c, quirc_decode, and its caller in qr_decode.c, which tries a    *)
(* symbol with an ECC error a second time as a mirrored one: the format    *)
(* word from either of its two places, the data bits column by column, the *)
(* blocks taken out of the codestream and corrected, the payload segment   *)
(* by segment.                                                             *)
(***************************************************************************)
EXTENDS QrGrid, RsCode, QrPayload

CONSTANT Symbols   \* the symbols there are to read: [size, cells], a cell is 1 if black

VARIABLES
  code,              \* the symbol, flipped when it is tried as a mirrored one
  flipped, pc, which,
  version, format,   \* format: the error-correction level and the mask
  right, dir, raw,   \* read_data: the column and direction, the bits read
  block, stream,     \* codestream_ecc: the next block, the data codewords
  reader             \* decode_payload

grid == <<right, dir, raw>>
vars == <<code, flipped, pc, which, version, format, grid, block, stream, reader>>

NewReader == [bits |-> <<>>, ptr |-> 0, payload |-> <<>>, type |-> 0, eci |-> 0,
              error |-> "SUCCESS", done |-> FALSE]
NoFormat == [level |-> 0, mask |-> 0]

\* quirc_decode starts from nothing whatever was read before.
Begun(size) ==
  /\ pc' = "format" /\ which' = 0
  /\ version' = (size - 17) \div 4 /\ format' = NoFormat
  /\ right' = size - 1 /\ dir' = -1 /\ raw' = <<>>
  /\ block' = 0 /\ stream' = <<>> /\ reader' = NewReader

Start ==
  /\ flipped = FALSE /\ pc = "begin" /\ which = 0
  /\ version = 0 /\ format = NoFormat
  /\ right = 0 /\ dir = -1 /\ raw = <<>>
  /\ block = 0 /\ stream = <<>> /\ reader = NewReader

Init == code \in Symbols /\ Start

\* quirc_decode comes back: with the payload, or with an error.  A symbol with an ECC
\* error is read once more with rows and columns exchanged.
Return(error) ==
  /\ reader' = [reader EXCEPT !.error = error] /\ pc' = "end"
  /\ UNCHANGED <<code, flipped, which, version, format, grid, block, stream>>

Begin ==
  /\ pc = "begin"
  /\ IF code.size > SizeOf(MaxVersion) \/ (code.size - 17) % 4 # 0
       THEN Return("INVALID_GRID_SIZE")
     ELSE IF code.size < SizeOf(1) THEN Return("INVALID_VERSION")
     ELSE Begun(code.size) /\ UNCHANGED <<code, flipped>>

Retried(error) == error \in {"FORMAT_ECC", "DATA_ECC"}

Mirrored == pc = "end" /\ ~flipped /\ Retried(reader.error)

Retry ==
  /\ Mirrored
  /\ code' = [code EXCEPT !.cells = Flip(@)] /\ flipped' = TRUE
  /\ Begun(code.size)
-----------------------------------------------------------------------------
(* read_format: the first copy, and the second when the first is beyond     *)
(* repair.                                                                  *)

FormatWord ==
  [b \in FormatBits |-> (code.cells[FormatCell(code.size, which, 14 - b)] + FormatMask[15 - b]) % 2]

ReadFormat ==
  /\ pc = "format"
  /\ \E read \in {correct_format(FormatWord)} :
       IF read.ok
         THEN /\ format' = [level |-> 2 * read.word[14] + read.word[13],
                            mask |-> 4 * read.word[12] + 2 * read.word[11] + read.word[10]]
              /\ pc' = "data"
              /\ UNCHANGED <<code, flipped, which, version, grid, block, stream, reader>>
       ELSE IF which = 1 THEN Return("FORMAT_ECC")
       ELSE /\ which' = 1
            /\ UNCHANGED <<code, flipped, pc, version, format, grid, block, stream, reader>>
-----------------------------------------------------------------------------
(* read_data, a pair of columns at a time.                                  *)

ReadColumns ==
  /\ pc = "data"
  /\ LET cells == Column(version, right, dir)
     IN  raw' = raw \o [k \in DOMAIN cells |->
                          BitAt(code.cells, format.mask, cells[k][2], cells[k][1])]
  /\ right' = RightColumn(right) - 2 /\ dir' = -dir
  /\ pc' = IF right' > 0 THEN "data" ELSE "blocks"
  /\ UNCHANGED <<code, flipped, which, version, format, block, stream, reader>>
-----------------------------------------------------------------------------
(* codestream_ecc.                                                          *)

Layout(v, level) ==
  LET info == quirc_version_db[v]
      small == info.ecc[level]
      long == (info.data_bytes - small.bs * small.ns) \div (small.bs + 1)
  IN  [small |-> small, long |-> long, count |-> long + small.ns,
       eccFrom |-> small.dw * (long + small.ns) + long]

EccOf(layout, i) ==
  IF i < layout.small.ns THEN layout.small
  ELSE [layout.small EXCEPT !.dw = @ + 1, !.bs = @ + 1]

\* The codeword of the codestream that becomes codeword j of block i, all from 0.
\* Mutant of IndexOf: the ECC codewords are looked for right after the small blocks' data.
IndexShort(layout, i, j) ==
  LET dw == EccOf(layout, i).dw
  IN  IF j < dw THEN j * layout.count + i
      ELSE layout.small.dw * layout.count + (j - dw) * layout.count + i
IndexOf(layout, i, j) ==
  LET dw == EccOf(layout, i).dw
  IN  IF j < dw THEN j * layout.count + i
      ELSE layout.eccFrom + (j - dw) * layout.count + i

ByteOf(bits, k) == Accumulate(LAMBDA a, b : 2 * a + b, 0, SubSeq(bits, 8 * k + 1, 8 * k + 8))
BitsOf(bytes) ==
  [k \in 1..(8 * Len(bytes)) |->
     (bytes[(k - 1) \div 8 + 1] \div 2^(7 - ((k - 1) % 8))) % 2]

CorrectBlock ==
  /\ pc = "blocks"
  /\ \E layout \in {Layout(version, format.level)} :
       \E ecc \in {EccOf(layout, block)} :
         \E read \in {correct_block([j \in 0..(ecc.bs - 1) |->
                                        ByteOf(raw, IndexOf(layout, block, j))], ecc)} :
           IF ~read.ok THEN Return("DATA_ECC")
           ELSE /\ stream' = stream \o [j \in 1..ecc.dw |-> read.data[j - 1]]
                /\ block' = block + 1
                /\ IF block' < layout.count THEN UNCHANGED <<pc, reader>>
                   ELSE pc' = "payload" /\ reader' = [reader EXCEPT !.bits = BitsOf(stream')]
                /\ UNCHANGED <<code, flipped, which, version, format, grid>>
-----------------------------------------------------------------------------
ReadSegment ==
  /\ pc = "payload"
  /\ \E read \in {RoundOf(reader, version)} :
       IF read.error # "SUCCESS" THEN reader' = read /\ pc' = "end"
       ELSE IF read.done
         THEN reader' = [read EXCEPT !.payload = Terminated(@)] /\ pc' = "end"
       ELSE reader' = read /\ UNCHANGED pc
  /\ UNCHANGED <<code, flipped, which, version, format, grid, block, stream>>

Next == Begin \/ Retry \/ ReadFormat \/ ReadColumns \/ CorrectBlock \/ ReadSegment

Spec == Init /\ [][Next]_vars

\* The call has come back for good.
Ended == pc = "end" /\ ~Mirrored
=============================================================================
