------------------------------- MODULE QrGrid -------------------------------
(***************************************************************************)
(* decode.c: the cells of a QR symbol.  A cell is <<x, y>>; the functions  *)
(* that quirc calls with (i, j) take the row first, as there.              *)
(***************************************************************************)
EXTENDS Integers, VersionTable, SequencesExt

SizeOf(version) == version * 4 + 17
CellsOf(size) == (0..(size - 1)) \X (0..(size - 1))

\* quirc_flip: rows become columns.
Flip(cells) == [p \in DOMAIN cells |-> cells[<<p[2], p[1]>>]]

FormatMask == <<1, 0, 1, 0, 1, 0, 0, 0, 0, 0, 1, 0, 0, 1, 0>>  \* 0x5412

\* read_format: the cell of the i-th bit read, the highest first, from copy `which`.
FormatCell(size, which, i) ==
  CASE which = 0 /\ i < 6 -> <<i, 8>>
    [] which = 0 /\ i \in 6..8 -> <<<<7, 8>>, <<8, 8>>, <<8, 7>>>>[i - 5]
    [] which = 0 /\ i > 8 -> <<8, 14 - i>>
    [] which = 1 /\ i < 7 -> <<8, size - 1 - i>>
    [] which = 1 /\ i >= 7 -> <<size - 15 + i, 8>>

mask_bit(mask, i, j) ==
  CASE mask = 0 -> (i + j) % 2 = 0
    [] mask = 1 -> i % 2 = 0
    [] mask = 2 -> j % 3 = 0
    [] mask = 3 -> (i + j) % 3 = 0
    [] mask = 4 -> ((i \div 2) + (j \div 3)) % 2 = 0
    [] mask = 5 -> ((i * j) % 2) + ((i * j) % 3) = 0
    [] mask = 6 -> (((i * j) % 2) + ((i * j) % 3)) % 2 = 0
    [] mask = 7 -> (((i * j) % 3) + ((i + j) % 2)) % 2 = 0

InFinder(size, i, j) ==
  \/ i < 9 /\ j < 9
  \/ i + 8 >= size /\ j < 9
  \/ i < 9 /\ j + 8 >= size

InVersionInfo(version, size, i, j) ==
  version >= 7 /\ ((i < 6 /\ j + 11 >= size) \/ (i + 11 >= size /\ j < 6))

Between(a, last) == a > 0 /\ a < last

\* ai and aj are the last alignment coordinates near the row and the column, from 0.
InAlignment(apat, i, j) ==
  LET near(k) == {a \in 1..Len(apat) : apat[a] - k \in -2..2}
      last == Len(apat) - 1
  IN  /\ near(i) # {} /\ near(j) # {}
      /\ LET ai == Max(near(i)) - 1
             aj == Max(near(j)) - 1
         IN  Between(ai, last) \/ Between(aj, last) \/ (ai = last /\ aj = last)

reserved_cell(version, i, j) ==
  LET size == SizeOf(version)
  IN  \/ InFinder(size, i, j)
      \/ i = 6 \/ j = 6
      \/ InVersionInfo(version, size, i, j)
      \/ InAlignment(quirc_version_db[version].apat, i, j)

\* read_bit.
BitAt(cells, mask, i, j) == (cells[<<j, i>>] + (IF mask_bit(mask, i, j) THEN 1 ELSE 0)) % 2

\* The pair of columns read together whose right one is x; column 6 is stepped over.
RightColumn(x) == IF x = 6 THEN 5 ELSE x

\* read_data: the cells of the pair in the direction of travel, right before left.
Column(version, x, dir) ==
  LET size == SizeOf(version)
      Y(k) == IF dir = -1 THEN size - 1 - k ELSE k
      cells == [k \in 1..(2 * size) |->
                  <<RightColumn(x) - ((k - 1) % 2), Y((k - 1) \div 2)>>]
  IN  SelectSeq(cells, LAMBDA p : ~reserved_cell(version, p[2], p[1]))
=============================================================================
