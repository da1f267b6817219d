------------------------------ MODULE MCIdentify ------------------------------
(* Images with three finder patterns, two of them side by side and one below,  *)
(* and with flaws: a ring broken at the right, a ring touching its stone, two  *)
(* rings joined, a gap in a stone; and a fourth pattern, which is one too many.*)
(* The stack ends the fill of a ring half way round: the other half becomes a  *)
(* region of its own around the same stone.                                    *)
EXTENDS Identify

Box(x, y, w, h) == (x..(x + w - 1)) \X (y..(y + h - 1))
Finder(x, y) == (Box(x, y, 7, 6) \ Box(x + 1, y + 1, 5, 4)) \cup Box(x + 2, y + 2, 3, 2)

Drawing == Finder(0, 0) \cup Finder(8, 0) \cup Finder(0, 7) \cup Box(10, 8, 2, 2)
Flaws == {<<6, 4>>, <<1, 2>>, <<7, 5>>, <<11, 2>>}

MCImages == {(Drawing \ f) \cup (f \ Drawing) : f \in {{}} \cup {{q} : q \in Flaws} \cup {Flaws}}
              \cup {(Drawing \ Box(10, 8, 2, 2)) \cup Finder(8, 7)}

SeedAt(x, y) == [x |-> x, y |-> y, radius |-> 1]
Roi(seeds) == [x |-> <<0, 16>>, y |-> <<0, 13>>, seeds |-> seeds, halfWidth |-> 7]
MCRois == {Roi(<<SeedAt(3, 2), SeedAt(11, 2), SeedAt(3, 9)>>),
           Roi(<<SeedAt(3, 3), SeedAt(3, 2), SeedAt(3, 9)>>),
           [Roi(<<SeedAt(3, 2), SeedAt(11, 2), SeedAt(3, 10)>>) EXCEPT !.y = <<0, 11>>]}
MCProbes == {<<10, 9>>, <<0, 7>>, <<6, 1>>}
=============================================================================
