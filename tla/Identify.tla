------------------------------- MODULE Identify -------------------------------
(***************************************************************************)
(* identify.c: from a thresholded image to capstones (finder patterns) and *)
(* grids.  Regions, the scan of the rows, the capstone test and the        *)
(* bookkeeping of grids are kept; what is computed with floating-point     *)
(* perspective maps (which capstones are neighbours, whether two lines     *)
(* meet, where the alignment pattern is searched, which capstone lies at a *)
(* seed) is any outcome.                                                   *)
(***************************************************************************)
EXTENDS FloodFill

CONSTANTS
  Images,        \* thresholded images: their black points
  Rois,          \* regions of interest for a seeded search
  Probes,        \* points the alignment search may look at
  MaxProbes,     \* and how many of them
  MaxRegions, MaxCapstones, MaxGrids

ASSUME IdentifyAssumption ==
  {MaxProbes, MaxRegions, MaxCapstones, MaxGrids} \subseteq Nat

\* quirc_end_seeded accepts no others.
ASSUME RoiAssumption ==
  \A r \in Rois :
    /\ {r.x[1], r.x[2], r.y[1], r.y[2], r.halfWidth} \subseteq Nat
    /\ \A i \in 1..3 : /\ {r.seeds[i].x, r.seeds[i].y} \subseteq Nat
                      /\ r.seeds[i].radius \in 1..12

VARIABLES
  px, regions, capstones, grids,   \* the decoder
  roi, turn, step, matched,        \* the seeded search: its seeds, the one searched
  row, groups, pc

quirc == <<px, regions, capstones, grids>>
seeded == <<roi, turn, step, matched>>
vars == <<quirc, seeded, row, groups, pc>>

NoRoi == [x |-> <<0, 0>>, y |-> <<0, 0>>, seeds |-> <<>>, halfWidth |-> 0]

\* regions[i] has the code CodeOf(i); codes below QUIRC_PIXEL_REGION are colours.
CodeOf(i) == i + FirstCode - 1
RegionOf(code) == code - FirstCode + 1
-----------------------------------------------------------------------------
(* Regions and capstones: operators on a record of the decoder's state.     *)

\* region_code: the code of the region at p, with a new region for a black pixel that has
\* none; 0 when there is no region to be had.
CodeAt(s, p) ==
  IF p \notin Points \/ s.px[p] = White THEN [s |-> s, code |-> 0]
  ELSE IF s.px[p] >= FirstCode THEN [s |-> s, code |-> s.px[p]]
  ELSE IF CodeOf(Len(s.regions)) + 1 >= MaxRegions THEN [s |-> s, code |-> 0]
  ELSE LET code == CodeOf(Len(s.regions) + 1)
       IN  With(Fill(s.px, p, code), LAMBDA fill :
             [s |-> [s EXCEPT !.px = fill.px,
                              !.regions = Append(@, [seed |-> p, count |-> fill.area,
                                                     capstone |-> 0])],
              code |-> code])

\* Mutant of Taken: only the ring is looked up.
TakenRing(ring, stone) == ring.capstone # 0
Taken(ring, stone) == stone.capstone # 0 \/ ring.capstone # 0

RatioOk(ring, stone) == (stone.count * 100) \div ring.count \in 10..70

\* record_capstone.
WithCapstone(s, ring, stone) ==
  LET n == Len(s.capstones) + 1
  IN  IF n > MaxCapstones THEN s
      ELSE With(FindCorners(s.px, ring, s.regions[RegionOf(ring)].seed,
                            s.regions[RegionOf(stone)].seed), LAMBDA found :
             [px |-> found.px,
              regions |-> [s.regions EXCEPT ![RegionOf(stone)].capstone = n,
                                            ![RegionOf(ring)].capstone = n],
              capstones |-> Append(s.capstones, [ring |-> ring, stone |-> stone, grid |-> 0,
                                                 corners |-> found.corners])])

\* test_capstone: five runs of a row in the proportions of a finder pattern, looked up from
\* the right.
TestCapstone(s, five) ==
  LET at(i) == <<five[i].left, five[i].y>>
      Decide(t, right, stone, left) ==
        IF \/ 0 \in {right, stone, left} \/ left # right \/ left = stone
           \/ Taken(t.regions[RegionOf(left)], t.regions[RegionOf(stone)])
           \/ ~RatioOk(t.regions[RegionOf(left)], t.regions[RegionOf(stone)])
        THEN t ELSE WithCapstone(t, left, stone)
  IN  With(CodeAt(s, at(5)), LAMBDA right :
        With(CodeAt(right.s, at(3)), LAMBDA stone :
          With(CodeAt(stone.s, at(1)), LAMBDA left :
            Decide(left.s, right.code, stone.code, left.code))))

\* 1:1:3:1:1 within three quarters of a module, in sixteenths of a pixel.
Proportioned(five) ==
  LET len(i) == Length(five[i])
      avg == ((len(1) + len(2) + len(4) + len(5)) * 16) \div 4
      err == (avg * 3) \div 4
  IN  \A i \in 1..5 : LET n == IF i = 3 THEN 3 ELSE 1
                      IN  len(i) * 16 \in (n * avg - err)..(n * avg + err)

Dark(v) == v # White

\* The runs of one colour of the row y between start and end.
RowRuns(image, y, start, end) ==
  LET Alike(p, q) == Dark(image[p]) = Dark(image[q])
      Same(p) == {q \in (start..(end - 1)) \X {y} : Alike(p, q)}
      Add(runs, x) == IF x > start /\ Alike(<<x, y>>, <<x - 1, y>>) THEN runs
                      ELSE Append(runs, Run(Same(<<x, y>>), <<x, y>>))
  IN  Accumulate(Add, <<>>, [i \in 1..(end - start) |-> start + i - 1])

\* finder_scan_region: every five runs that end before a white pixel, from left to right;
\* with a seed, only those whose middle lies near it.
ScanRow(s, y, start, end, near) ==
  With(RowRuns(s.px, y, start, end), LAMBDA runs :
  LET Test(t, i) ==
        LET five == SubSeq(runs, i, i + 4)
        IN  IF s.px[<<five[5].left, y>>] # White /\ Proportioned(five)
               /\ five[4].left - Length(five[3]) \div 2 \in near
            THEN With(t, LAMBDA u : TestCapstone(u, five)) ELSE t
  IN  Accumulate(Test, s, [i \in 1..(IF Len(runs) > 5 THEN Len(runs) - 5 ELSE 0) |-> i]))

State == [px |-> px, regions |-> regions, capstones |-> capstones]
BecomesState(t) ==
  \E s \in {t} : px' = s.px /\ regions' = s.regions /\ capstones' = s.capstones
-----------------------------------------------------------------------------
(* Grids                                                                    *)

Link(caps, used, g) == [i \in DOMAIN caps |-> IF i \in used THEN [caps[i] EXCEPT !.grid = g]
                                               ELSE caps[i]]

\* Mutant of Undone: the grid is taken back, and the links to it stay.
UndoneGridOnly(caps, used) == Link(caps, used, Len(grids) + 1)
Undone(caps, used) == Link(caps, used, 0)

\* find_alignment_pattern: the regions at some points around the estimate are looked up, and
\* made where there are none, until one has about the right size.
Aligned(s, points) ==
  LET Look(t, p) == With(t, LAMBDA u : CodeAt(u.s, p))
  IN  Accumulate(Look, [s |-> s, code |-> 0], points)

\* The region found is painted over and back for its corner nearest to the grid's.
Repainted(s, code) ==
  LET seed == s.regions[RegionOf(code)].seed
      Back(there) == [s EXCEPT !.px = Fill(there.px, seed, code).px]
  IN  IF code = 0 THEN s ELSE With(Fill(s.px, seed, Black), Back)

\* record_qr_grid for the capstones a, b, c, b being the corner: nothing when the table is
\* full, taken back when the lines from a and c do not meet, with or without an alignment
\* pattern otherwise.
RecordGrid(a, b, c) ==
  LET new == [caps |-> <<a, b, c>>, align |-> 0]
  IN  \/ Len(grids) >= MaxGrids /\ UNCHANGED quirc
      \/ /\ Len(grids) < MaxGrids
         /\ capstones' = Undone(Link(capstones, {a, b, c}, Len(grids) + 1), {a, b, c})
         /\ UNCHANGED <<px, regions, grids>>
      \/ /\ Len(grids) < MaxGrids
         /\ \E points \in UNION {[1..n -> Probes] : n \in 0..MaxProbes} :
            \E al \in {Aligned(State, points)} : \E code \in {0, al.code} :
              /\ BecomesState([Repainted(al.s, code)
                                 EXCEPT !.capstones = Link(@, {a, b, c}, Len(grids) + 1)])
              /\ grids' = Append(grids, [new EXCEPT !.align = code])
-----------------------------------------------------------------------------
\* quirc_begin, the image and its threshold, and the call of one of the two searches.
Begin ==
  /\ px' \in {[p \in Points |-> IF p \in i THEN Black ELSE White] : i \in Images}
  /\ regions' = <<>> /\ capstones' = <<>> /\ grids' = <<>>
  /\ \/ roi' = NoRoi /\ pc' = "rows"
     \/ roi' \in Rois /\ pc' = "seeds"
  /\ turn' = 1 /\ step' = 0 /\ matched' = <<>> /\ row' = 0 /\ groups' = {}

Init ==
  /\ px = [p \in Points |-> White] /\ regions = <<>> /\ capstones = <<>> /\ grids = <<>>
  /\ roi = NoRoi /\ turn = 1 /\ step = 0 /\ matched = <<>> /\ row = 0 /\ groups = {}
  /\ pc = "done"

\* quirc_end_unseeded: all rows, then the capstones one by one as the corner of a grid.
Scan ==
  /\ pc = "rows"
  /\ BecomesState(ScanRow(State, row, 0, Width, Int))
  /\ row' = row + 1 /\ pc' = IF row' = Height THEN "corner" ELSE pc
  /\ UNCHANGED <<grids, seeded, groups>>

\* test_grouping, test_neighbours: any capstones may lie in the two directions, and any two
\* of them at about the same distance.
Corner ==
  /\ pc = "corner" /\ turn <= Len(capstones)
  /\ groups' \in SUBSET ((DOMAIN capstones \ {turn}) \X DOMAIN capstones)
  /\ \A p, q \in groups' : p[1] # q[2] /\ q[2] # turn
  /\ pc' = "group" /\ UNCHANGED <<quirc, seeded, row>>

Sooner(p, q) == p[1] < q[1] \/ (p[1] = q[1] /\ p[2] <= q[2])

Group ==
  /\ pc = "group"
  /\ \E p \in groups :
       /\ \A q \in groups : Sooner(p, q)
       /\ RecordGrid(p[1], turn, p[2]) /\ groups' = groups \ {p}
  /\ UNCHANGED <<seeded, row, pc>>

NextCorner ==
  /\ pc = "group" /\ groups = {}
  /\ turn' = turn + 1 /\ pc' = "corner"
  /\ UNCHANGED <<quirc, roi, step, matched, row, groups>>

Finish ==
  /\ pc = "corner" /\ turn > Len(capstones) /\ pc' = "done"
  /\ UNCHANGED <<quirc, seeded, row, groups>>
-----------------------------------------------------------------------------
\* quirc_end_seeded: what lies outside the region of interest is white; the rows around each
\* seed are searched, the nearest first, until some capstone lies at the seed.
Cut ==
  /\ pc = "seeds"
  /\ px' = [p \in Points |->
             IF p[1] \in roi.x[1]..(roi.x[2] - 1) /\ p[2] \in roi.y[1]..(roi.y[2] - 1)
             THEN px[p] ELSE White]
  /\ pc' = "seed" /\ UNCHANGED <<regions, capstones, grids, seeded, row, groups>>

Seed == roi.seeds[turn]
SeedRow == Seed.y + (IF step % 2 = 1 THEN (step + 1) \div 2 ELSE -(step \div 2))
From == LET x == Seed.x - roi.halfWidth IN IF x < roi.x[1] THEN roi.x[1] ELSE x
To == LET x == Seed.x + roi.halfWidth + 1 IN IF x > roi.x[2] THEN roi.x[2] ELSE x

Distinct(c) == \A i \in DOMAIN matched : matched[i] # c

GiveUp == pc' = "done" /\ UNCHANGED <<turn, step, matched>>

SeedStep ==
  /\ pc = "seed" /\ step <= 2 * Seed.radius
  /\ LET inside == SeedRow \in roi.y[1]..(roi.y[2] - 1)
         near == (Seed.x - Seed.radius)..(Seed.x + Seed.radius)
     IN  \E s \in {IF inside THEN ScanRow(State, SeedRow, From, To, near) ELSE State} :
         /\ BecomesState(s)
         /\ \/ step' = step + 1 /\ UNCHANGED <<turn, matched, pc>>
            \/ \E c \in DOMAIN s.capstones :
                 /\ inside
                 /\ IF Distinct(c)
                    THEN /\ matched' = Append(matched, c) /\ turn' = turn + 1 /\ step' = 0
                         /\ pc' = IF turn = 3 THEN "matched" ELSE pc
                    ELSE GiveUp
  /\ UNCHANGED <<grids, roi, row, groups>>

NoMatch ==
  /\ pc = "seed" /\ step > 2 * Seed.radius /\ GiveUp
  /\ UNCHANGED <<quirc, roi, row, groups>>

\* The three centres must stand at a plausible right angle.
Matched ==
  /\ pc = "matched" /\ pc' = "done"
  /\ RecordGrid(matched[2], matched[1], matched[3]) \/ UNCHANGED quirc
  /\ UNCHANGED <<seeded, row, groups>>

Next ==
  \/ pc = "done" /\ Begin
  \/ Scan \/ Corner \/ Group \/ NextCorner \/ Finish
  \/ Cut \/ SeedStep \/ NoMatch \/ Matched

Spec == Init /\ [][Next]_vars
-----------------------------------------------------------------------------
\* Painting over and back loses nothing, not even when a fill runs out of stack: every region
\* still has the pixels it was made of, as many as it counts, its seed among them.
RegionsWhole ==
  \A i \in DOMAIN regions :
    /\ px[regions[i].seed] = CodeOf(i)
    /\ regions[i].count = Cardinality({p \in Points : px[p] = CodeOf(i)})

\* No region is part of two finder patterns, and each knows the one it is part of; the corners
\* of a finder are pixels of its ring.
CapstonesDisjoint ==
  /\ \A n \in DOMAIN capstones :
       /\ {i \in DOMAIN regions : regions[i].capstone = n}
            = {RegionOf(capstones[n].ring), RegionOf(capstones[n].stone)}
       /\ capstones[n].ring # capstones[n].stone
       /\ \A j \in 1..4 : px[capstones[n].corners[j]] = capstones[n].ring
  /\ \A i \in DOMAIN regions : regions[i].capstone <= Len(capstones)

\* The capstones of a grid.
Capstones(g) == {grids[g].caps[k] : k \in 1..3}

\* Every grid has three capstones, no two the same, and a capstone that names a grid is one of
\* the three; a seeded search records one grid at most.
GridsLinked ==
  /\ \A g \in DOMAIN grids : Cardinality(Capstones(g)) = 3
  /\ \A c \in DOMAIN capstones :
       capstones[c].grid # 0 => /\ capstones[c].grid \in DOMAIN grids
                                /\ c \in Capstones(capstones[c].grid)
  /\ roi # NoRoi => Len(grids) <= 1
=============================================================================
