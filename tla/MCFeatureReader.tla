--------------------------- MODULE MCFeatureReader ---------------------------
EXTENDS FeatureReader

\* The black places of five runs that begin at place "at".
Bars(at, r) ==
  at..(at + r[1] - 1) \cup (at + r[1] + r[2])..(at + r[1] + r[2] + r[3] - 1)
    \cup (at + r[1] + r[2] + r[3] + r[4])..(at + Total(r) - 1)

\* One row and one column carry runs; they cross where the code looks for the centre.
Cross(at, across, top, down, y) ==
  {<<i, y>> : i \in Bars(at, across)}
    \cup {<<at + across[1] + across[2] + across[3] - across[3] \div 2, j>> : j \in Bars(top, down)}

\* A pattern of 7 x 7 modules, each one pixel.
Square(x, y) ==
  {<<x + i, y + j>> : i \in 0..6, j \in {0, 6}} \cup {<<x + i, y + j>> : i \in {0, 6}, j \in 0..6}
    \cup {<<x + i, y + j>> : i \in 2..4, j \in 2..4}

Even == <<1, 1, 3, 1, 1>>
Wide == <<2, 2, 5, 2, 2>>

MCImages == <<
  \* patterns at the ends of rows, across words, at the top and the bottom, two in a row
  Square(0, 0) \cup Square(8, 0), Square(9, 3), Square(5, 1), {},
  \* a row that ends in one pixel and in two
  Cross(9, Even, 1, Even, 4), Cross(3, Wide, 0, Even, 3), Cross(3, Wide, 6, <<1, 1, 2, 0, 0>>, 9),
  \* proportions at and beyond the tolerances, sizes that differ
  Cross(1, <<1, 1, 2, 1, 1>>, 1, Even, 4), Cross(1, <<1, 1, 4, 1, 1>>, 1, <<1, 1, 2, 1, 1>>, 4),
  Cross(2, Wide, 0, Even, 3), Cross(0, <<2, 2, 8, 2, 2>>, 1, Even, 4),
  Cross(1, Even, 0, <<1, 2, 4, 1, 1>>, 4),
  \* the centre at either end of its column's run
  Cross(2, Even, 1, Even, 3), Cross(2, Even, 1, Even, 5),
  \* the column's runs go to the border, or too far
  Cross(4, Even, 3, Even, 6), Cross(4, Even, 4, <<1, 1, 3, 1, 0>>, 7),
  Cross(4, Even, 0, <<3, 1, 3, 1, 1>>, 5), Cross(4, Even, 0, <<0, 0, 2, 1, 1>>, 1),
  Cross(4, Even, 0, <<5, 1, 3, 0, 0>>, 6), Cross(4, Even, 0, <<1, 1, 1, 1, 6>>, 2),
  Cross(4, Even, 0, <<1, 1, 8, 0, 0>>, 2),
  \* a row that ends in two pixels, and below it one that ends in one
  {<<x, 4>> : x \in Bars(3, Wide)} \cup {<<x, 7>> : x \in Bars(9, Even)}
    \cup {<<10, y>> : y \in Bars(0, Even)} \cup {<<11, y>> : y \in Bars(2, <<1, 1, 4, 1, 1>>)}
    \cup {<<x, y>> : x \in {12, 13}, y \in Bars(3, Even)} >>
=============================================================================
