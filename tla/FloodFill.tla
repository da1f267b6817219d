------------------------------ MODULE FloodFill ------------------------------
(***************************************************************************)
(* identify.c: labelling the black pixels of an image.  flood_fill_seed    *)
(* walks depth-first over horizontal runs of free pixels, those that still *)
(* have the colour it replaces, with a stack of limited size; a fill that  *)
(* reaches the last entry of the stack stops altogether and leaves the     *)
(* rest as it is.                                                          *)
(* An image is a function from its points <<x, y>> to pixel values.        *)
(***************************************************************************)
EXTENDS Integers, Sequences, FiniteSets, Once

F == INSTANCE FiniteSetsExt

CONSTANTS Width, Height,   \* of the image: w, h
          StackLimit       \* num_flood_fill_vars

ASSUME ImageAssumption ==
  Width \in Nat \ {0} /\ Height \in Nat \ {0} /\ StackLimit \in Nat \ {0}

Points == {<<x, y>> : x \in 0..(Width - 1), y \in 0..(Height - 1)}

White == 0     \* QUIRC_PIXEL_WHITE
Black == 1     \* QUIRC_PIXEL_BLACK
FirstCode == 2 \* QUIRC_PIXEL_REGION

\* The maximal run of free pixels of the row of p that p lies in.
Run(free, p) ==
  [y |-> p[2],
   left |-> F!Max({x \in 0..p[1] : <<x - 1, p[2]>> \notin free}),
   right |-> F!Min({x \in p[1]..(Width - 1) : <<x + 1, p[2]>> \notin free})]

Length(run) == run.right - run.left + 1
Row(run, y) == (run.left..run.right) \X {y}

\* The state of a fill: the pixels still free, the runs on the stack, all runs painted in
\* their order, and their area (area_count).
RunSet == {r \in [y : 0..(Height - 1), left : 0..(Width - 1), right : 0..(Width - 1)] :
             r.left <= r.right}
FillSet == [free : SUBSET Points, stack : Seq(RunSet), runs : Seq(RunSet), area : Nat]

\* flood_fill_line, on a new entry of the stack.
Paint(s, p) ==
  LET run == Run(s.free, p)
  IN  [free |-> s.free \ Row(run, run.y), stack |-> Append(s.stack, run),
       runs |-> Append(s.runs, run), area |-> s.area + Length(run)]

\* The free pixels above and below a run; above comes first, from left to right.
Seeds(free, run) == free \cap (Row(run, run.y - 1) \cup Row(run, run.y + 1))
Before(p, q) == p[2] < q[2] \/ (p[2] = q[2] /\ p[1] <= q[1])
First(seeds) == CHOOSE p \in seeds : \A q \in seeds : Before(p, q)

LastEntry(s) == Len(s.stack) = StackLimit
Over(s) == s.stack = <<>> \/ LastEntry(s)

\* One round of the loop of flood_fill_seed.
Step(s) ==
  LET top == s.stack[Len(s.stack)]
  IN  IF Over(s) THEN s
      ELSE IF Seeds(s.free, top) = {} THEN [s EXCEPT !.stack = SubSeq(@, 1, Len(@) - 1)]
      ELSE Paint(s, First(Seeds(s.free, top)))

\* flood_fill_seed from p: each run enters the stack and leaves it once at most.  The rounds
\* are made in halves, one after the other, so that the recursion is not as deep as they are many.
Starts(free) == {p \in free : <<p[1] - 1, p[2]>> \notin free}
Rounds(free) == 2 * Cardinality(Starts(free))
Filled(free, p) ==
  LET after[n \in 0..Rounds(free)] ==
        [s \in FillSet |-> IF n = 0 THEN s ELSE IF n = 1 THEN Step(s)
                           ELSE after[n - n \div 2][after[n \div 2][s]]]
  IN  after[Rounds(free)][Paint([free |-> free, stack |-> <<>>, runs |-> <<>>, area |-> 0], p)]

\* The pixels of the colour of p in the image px are free.
Fill(px, p, to) ==
  With({q \in Points : px[q] = px[p]}, LAMBDA free : With(Filled(free, p), LAMBDA s :
    [px |-> [q \in Points |-> IF q \in free /\ q \notin s.free THEN to ELSE px[q]],
     runs |-> s.runs, area |-> s.area]))
-----------------------------------------------------------------------------
(* find_region_corners                                                      *)

\* The ends of some runs, in their order.
Ends(runs) ==
  [k \in 1..(2 * Len(runs)) |->
     LET run == runs[(k + 1) \div 2] IN <<IF k % 2 = 1 THEN run.left ELSE run.right, run.y>>]

\* The point that scores highest; of equals the first.
Best(Score(_), points) ==
  points[CHOOSE i \in DOMAIN points :
           \A j \in DOMAIN points : /\ Score(points[j]) <= Score(points[i])
                                    /\ j < i => Score(points[j]) < Score(points[i])]

Distance2(p, q) == (p[1] - q[1]) * (p[1] - q[1]) + (p[2] - q[2]) * (p[2] - q[2])

\* find_other_corners: along the reference direction, across it, and the two opposites.
Toward(d, p, j) ==
  CASE j = 1 -> p[1] * d[1] + p[2] * d[2]
    [] j = 2 -> p[2] * d[1] - p[1] * d[2]
    [] j = 3 -> -(p[1] * d[1] + p[2] * d[2])
    [] j = 4 -> p[1] * d[2] - p[2] * d[1]

\* Mutant of BackFrom: the region is painted back from the corner just found.
BackFromCorner(seed, far) == far
BackFrom(seed, far) == seed

\* The region with this code and seed is painted black and painted back; the image and
\* the corners this gives, looking from ref towards the farthest point.
FindCorners(px, code, seed, ref) ==
  LET Far(runs) == Best(LAMBDA p : Distance2(p, ref), Ends(runs))
      Score(far, p, j) == Toward(<<far[1] - ref[1], far[2] - ref[2]>>, p, j)
      Corners(far, runs) == [j \in 1..4 |-> Best(LAMBDA p : Score(far, p, j),
                                                 <<seed>> \o Ends(runs))]
  IN  With(Fill(px, seed, Black), LAMBDA there : With(Far(there.runs), LAMBDA far :
        With(Fill(there.px, BackFrom(seed, far), code), LAMBDA back :
          [px |-> back.px, corners |-> Corners(far, back.runs)])))
=============================================================================
