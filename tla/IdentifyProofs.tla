--------------------------- MODULE IdentifyProofs ---------------------------
(***************************************************************************)
(* The image of the QR decoder for images of any size, any black points    *)
(* and any stack of the flood fill.  The argument is about the fill: what  *)
(* it paints depends only on the pixels that are free when it begins, and  *)
(* is the same when other pixels than those painted are taken away from    *)
(* them (Refilled), also when the stack ends it half way.  So a region     *)
(* that is painted over and back is what it was (SameImage).               *)
(*                                                                         *)
(* The invariant says this of each region (WholeAt); which regions are in  *)
(* a capstone (Finders) and which capstones in a grid (Linked) rests on    *)
(* it, and on the capstones that are about to be grouped being different   *)
(* ones (Grouping, Matching).                                              *)
(***************************************************************************)
EXTENDS Identify, FiniteSetTheorems, WellFoundedInduction, TLAPS

USE ImageAssumption, IdentifyAssumption DEF ImageAssumption, IdentifyAssumption
-----------------------------------------------------------------------------
(* Numbers and iterated functions.                                          *)

\* A set of numbers that is not empty has a least element,
LEMMA SmallestOf ==
  ASSUME NEW T \in SUBSET Nat, T # {}
  PROVE  \E l \in T : \A m \in T : l <= m
<1> DEFINE R == OpToRel(<, Nat)
<1>1. IsWellFoundedOn(R, Nat)
  BY NatLessThanWellFounded
<1>2. PICK l \in T : \A m \in T : <<m, l>> \notin R
  BY <1>1, WFMin
<1>3. \A m \in T : ~(m < l)
  BY <1>2 DEF OpToRel
<1>4. QED
  BY <1>3

\* and a greatest when it has a bound.
LEMMA LargestOf ==
  ASSUME NEW b \in Nat, NEW T \in SUBSET (0..b), T # {}
  PROVE  \E l \in T : \A m \in T : m <= l
<1> DEFINE S == {t \in 0..b : b - t \in T}
<1>1. \A t \in T : b - t \in S
  OBVIOUS
<1>2. S # {} /\ S \in SUBSET Nat
  <2>1. PICK t \in T : TRUE
    OBVIOUS
  <2>2. b - t \in S
    BY <1>1, <2>1
  <2>3. S \in SUBSET Nat
    OBVIOUS
  <2>4. QED
    BY <2>2, <2>3
<1>3. PICK l \in S : \A m \in S : l <= m
  BY <1>2, SmallestOf
<1>4. ASSUME NEW m \in T PROVE m <= b - l
  <2>1. l <= b - m
    BY <1>1, <1>3
  <2>2. QED
    BY <1>3, <2>1
<1>5. QED
  BY <1>3, <1>4

\* What holds for the first of some numbers and from each for the next holds for all.
LEMMA Induct ==
  ASSUME NEW N \in Nat, NEW T, 0 \in T, \A k \in 0..(N - 1) : k \in T => k + 1 \in T
  PROVE  \A k \in 0..N : k \in T
<1> DEFINE Wrong == {k \in 0..N : k \notin T}
<1> SUFFICES ASSUME Wrong # {} PROVE FALSE
  OBVIOUS
<1>1. PICK k \in Wrong : \A m \in Wrong : k <= m
  <2>1. Wrong \in SUBSET Nat
    OBVIOUS
  <2>2. QED
    BY <2>1, SmallestOf
<1>2. k # 0 /\ k - 1 \in 0..(N - 1)
  BY <1>1
<1>3. k - 1 \in T
  BY <1>1, <1>2
<1>4. QED
  BY <1>1, <1>2, <1>3

Maps(N, V) == [1..N -> [V -> V]]

\* A function on some numbers can be defined from each value to the next.
LEMMA Iterates ==
  ASSUME NEW V, NEW b \in V, NEW N \in Nat, NEW f \in Maps(N, V)
  PROVE  \E g \in [0..N -> V] : g[0] = b /\ \A k \in 1..N : g[k] = f[k][g[k - 1]]
<1> DEFINE Found(n) == \E g \in [0..n -> V] :
                      g[0] = b /\ \A k \in 1..n : g[k] = f[k][g[k - 1]]
           T == {n \in 0..N : Found(n)}
<1>1. 0 \in T
  <2> DEFINE g == [k \in 0..0 |-> b]
  <2>1. g \in [0..0 -> V] /\ g[0] = b
    OBVIOUS
  <2>2. \A k \in 1..0 : g[k] = f[k][g[k - 1]]
    OBVIOUS
  <2>3. Found(0)
    BY <2>1, <2>2
  <2>4. QED
    BY <2>3
<1>2. ASSUME NEW n \in 0..(N - 1), n \in T PROVE n + 1 \in T
  <2>1. PICK g \in [0..n -> V] : g[0] = b /\ \A k \in 1..n : g[k] = f[k][g[k - 1]]
    BY <1>2
  <2> DEFINE h == [k \in 0..(n + 1) |-> IF k = n + 1 THEN f[n + 1][g[n]] ELSE g[k]]
  <2>2. g[n] \in V /\ n + 1 \in 1..N
    OBVIOUS
  <2>3. f[n + 1][g[n]] \in V
    BY <2>2 DEF Maps
  <2>4. h \in [0..(n + 1) -> V] /\ h[0] = b
    BY <2>1, <2>3
  <2>5. ASSUME NEW k \in 1..(n + 1) PROVE h[k] = f[k][h[k - 1]]
    <3>1. h[k - 1] = g[k - 1]
      OBVIOUS
    <3>2. CASE k = n + 1
      BY <3>1, <3>2
    <3>3. CASE k \in 1..n
      BY <2>1, <3>1, <3>3
    <3>4. QED
      BY <3>2, <3>3
  <2>6. Found(n + 1)
    BY <2>4, <2>5
  <2>7. QED
    BY <2>6
<1>3. N \in T
  <2> HIDE DEF T
  <2>1. \A k \in 0..N : k \in T
    BY <1>1, <1>2, Induct
  <2>2. QED
    BY <2>1
<1>4. QED
  BY <1>3
-----------------------------------------------------------------------------
(* Runs.                                                                    *)

Xs == 0..(Width - 1)
Ys == 0..(Height - 1)

\* The points of an image.
LEMMA PointsAre == Points = Xs \X Ys /\ IsFiniteSet(Points)
<1>1. Points = Xs \X Ys
  BY DEF Points, Xs, Ys
<1>2. IsFiniteSet(Xs) /\ IsFiniteSet(Ys)
  <2>1. 0 \in Int /\ Width - 1 \in Int /\ Height - 1 \in Int
    OBVIOUS
  <2>2. QED
    BY <2>1, FS_Interval DEF Xs, Ys
<1>3. QED
  BY <1>1, <1>2, FS_Product

\* The pixels of a run.
LEMMA RowIs ==
  ASSUME NEW r \in RunSet
  PROVE  /\ Row(r, r.y) \in SUBSET Points
         /\ \A q \in Points : q \in Row(r, r.y) <=> q[2] = r.y /\ r.left <= q[1] /\ q[1] <= r.right
         /\ <<r.left, r.y>> \in Row(r, r.y) /\ <<r.right, r.y>> \in Row(r, r.y)
         /\ IsFiniteSet(Row(r, r.y)) /\ Cardinality(Row(r, r.y)) = Length(r) /\ Length(r) \in Nat
<1>1. r.left \in Int /\ r.right \in Int /\ r.left <= r.right /\ r.y \in Ys
  BY DEF RunSet, Xs, Ys
<1>2. r.left..r.right \subseteq Xs
  BY DEF RunSet, Xs
<1>3. Row(r, r.y) \in SUBSET Points
  BY <1>1, <1>2, PointsAre DEF Row
<1>4. ASSUME NEW q \in Points
      PROVE  q \in Row(r, r.y) <=> q[2] = r.y /\ r.left <= q[1] /\ q[1] <= r.right
  <2>1. q = <<q[1], q[2]>> /\ q[1] \in Int
    BY PointsAre DEF Xs, Ys
  <2>2. QED
    BY <1>1, <2>1 DEF Row
<1>5. /\ IsFiniteSet(r.left..r.right) /\ Cardinality(r.left..r.right) = r.right - r.left + 1
      /\ IsFiniteSet({r.y}) /\ Cardinality({r.y}) = 1
  <2>1. /\ IsFiniteSet(r.left..r.right)
        /\ Cardinality(r.left..r.right) = IF r.left > r.right THEN 0 ELSE r.right - r.left + 1
    BY <1>1, FS_Interval
  <2>2. IsFiniteSet({r.y}) /\ Cardinality({r.y}) = 1
    BY FS_Singleton
  <2>3. QED
    BY <1>1, <2>1, <2>2
<1>6. /\ IsFiniteSet(Row(r, r.y))
      /\ Cardinality(Row(r, r.y)) = (r.right - r.left + 1) * 1
  <2> DEFINE I == r.left..r.right
             T == {r.y}
  <2>1. IsFiniteSet(I) /\ IsFiniteSet(T)
    BY <1>5
  <2> HIDE DEF I, T
  <2>2. IsFiniteSet(I \X T) /\ Cardinality(I \X T) = Cardinality(I) * Cardinality(T)
    BY <2>1, FS_Product
  <2>3. Row(r, r.y) = I \X T
    BY DEF Row, I, T
  <2>4. Cardinality(I) = r.right - r.left + 1 /\ Cardinality(T) = 1
    BY <1>5 DEF I, T
  <2>5. QED
    BY <2>2, <2>3, <2>4
<1>7. Cardinality(Row(r, r.y)) = Length(r) /\ Length(r) \in Nat
  <2>1. \A n \in Int : n * 1 = n
    OBVIOUS
  <2>2. r.right - r.left + 1 \in Nat
    BY <1>1
  <2>3. QED
    BY <1>6, <2>1, <2>2 DEF Length
<1>8. <<r.left, r.y>> \in Row(r, r.y) /\ <<r.right, r.y>> \in Row(r, r.y)
  BY <1>1 DEF Row
<1>9. QED
  BY <1>3, <1>4, <1>6, <1>7, <1>8

\* Run finds the maximal run of free pixels around one.
LEMMA RunIs ==
  ASSUME NEW free \in SUBSET Points, NEW p \in free
  PROVE  /\ Run(free, p) \in RunSet
         /\ Run(free, p).y = p[2] /\ Run(free, p).left <= p[1] /\ p[1] <= Run(free, p).right
         /\ Row(Run(free, p), p[2]) \subseteq free
         /\ <<Run(free, p).left - 1, p[2]>> \notin free
         /\ <<Run(free, p).right + 1, p[2]>> \notin free
<1>1. p = <<p[1], p[2]>> /\ p[1] \in Xs /\ p[2] \in Ys
  BY PointsAre
<1>2. p[1] \in Nat /\ p[1] <= Width - 1
  BY <1>1 DEF Xs
<1> DEFINE L == {x \in 0..p[1] : <<x - 1, p[2]>> \notin free}
           R == {x \in p[1]..(Width - 1) : <<x + 1, p[2]>> \notin free}
<1>3. 0 \in L
  <2>1. <<-1, p[2]>> \notin Points
    BY PointsAre DEF Xs
  <2>2. QED
    BY <1>2, <2>1
<1>4. Width - 1 \in R
  <2>1. <<Width, p[2]>> \notin Points
    BY PointsAre DEF Xs
  <2>2. QED
    BY <1>2, <2>1
<1>5. F!Max(L) \in L /\ \A x \in L : x <= F!Max(L)
  <2>1. \E l \in L : \A m \in L : m <= l
    BY <1>2, <1>3, LargestOf
  <2>2. \E l \in L : \A m \in L : l >= m
    BY <1>2, <2>1
  <2>3. F!Max(L) \in L /\ \A x \in L : F!Max(L) >= x
    BY <2>2 DEF F!Max
  <2>4. QED
    BY <1>2, <2>3
<1>6. F!Min(R) \in R /\ \A x \in R : F!Min(R) <= x
  <2>1. R \in SUBSET Nat /\ R # {}
    BY <1>2, <1>4
  <2> HIDE DEF R
  <2>2. \E l \in R : \A m \in R : l <= m
    BY <2>1, SmallestOf
  <2>3. QED
    BY <2>2 DEF F!Min
<1>7. \A x \in 0..p[1] : x > F!Max(L) => <<x - 1, p[2]>> \in free
  <2> SUFFICES ASSUME NEW x \in 0..p[1], x > F!Max(L), <<x - 1, p[2]>> \notin free PROVE FALSE
    OBVIOUS
  <2>1. x \in L /\ F!Max(L) \in Int /\ x \in Int
    BY <1>2, <1>5
  <2> HIDE DEF L
  <2>2. QED
    BY <1>5, <2>1
<1>8. \A x \in p[1]..(Width - 1) : x < F!Min(R) => <<x + 1, p[2]>> \in free
  <2> SUFFICES ASSUME NEW x \in p[1]..(Width - 1), x < F!Min(R), <<x + 1, p[2]>> \notin free
               PROVE  FALSE
    OBVIOUS
  <2>1. x \in R /\ F!Min(R) \in Int /\ x \in Int
    BY <1>2, <1>6
  <2>2. QED
    BY <1>6, <2>1
<1> DEFINE l == F!Max(L)
           r == F!Min(R)
<1>9. Run(free, p) = [y |-> p[2], left |-> l, right |-> r]
  BY DEF Run
<1> HIDE DEF l, r
<1>10. l \in 0..p[1] /\ <<l - 1, p[2]>> \notin free /\ r \in p[1]..(Width - 1)
      /\ <<r + 1, p[2]>> \notin free
  BY <1>5, <1>6 DEF l, r
<1>11. ASSUME NEW x \in l..r PROVE <<x, p[2]>> \in free
  <2>1. CASE x = p[1]
    BY <1>1, <2>1
  <2>2. CASE x < p[1]
    <3>1. x + 1 \in 0..p[1] /\ x + 1 > l /\ (x + 1) - 1 = x
      BY <1>2, <1>10, <2>2
    <3>2. QED
      BY <1>7, <3>1 DEF l
  <2>3. CASE x > p[1]
    <3>1. x - 1 \in p[1]..(Width - 1) /\ x - 1 < r /\ (x - 1) + 1 = x
      BY <1>2, <1>10, <2>3
    <3>2. QED
      BY <1>8, <3>1 DEF r
  <2>4. QED
    BY <1>2, <1>10, <2>1, <2>2, <2>3
<1>12. Row(Run(free, p), p[2]) \subseteq free
  BY <1>9, <1>11 DEF Row
<1>13. l <= p[1] /\ p[1] <= r /\ l <= r /\ l \in Xs /\ r \in Xs
  BY <1>2, <1>10 DEF Xs
<1>14. Run(free, p) \in RunSet
  BY <1>1, <1>9, <1>13 DEF RunSet, Xs, Ys
<1>15. QED
  BY <1>9, <1>10, <1>12, <1>13, <1>14

\* It is the same run when other free pixels are taken away.
LEMMA RunSame ==
  ASSUME NEW free \in SUBSET Points, NEW p \in free, NEW some \in SUBSET free, p \in some,
         Row(Run(free, p), p[2]) \subseteq some
  PROVE  Run(some, p) = Run(free, p)
<1> DEFINE r == Run(free, p)
           s == Run(some, p)
<1>1. /\ r \in RunSet /\ r.y = p[2] /\ r.left <= p[1] /\ p[1] <= r.right
      /\ <<r.left - 1, p[2]>> \notin free /\ <<r.right + 1, p[2]>> \notin free
  BY RunIs
<1>2. /\ s \in RunSet /\ s.y = p[2] /\ s.left <= p[1] /\ p[1] <= s.right
      /\ Row(s, p[2]) \subseteq some
      /\ <<s.left - 1, p[2]>> \notin some /\ <<s.right + 1, p[2]>> \notin some
  BY RunIs
<1> HIDE DEF r, s
<1>3. p[1] \in Int
  BY PointsAre DEF Xs
<1>4. r.left \in Int /\ r.right \in Int /\ s.left \in Int /\ s.right \in Int
  BY <1>1, <1>2 DEF RunSet, Xs
<1>5. \A x \in r.left..r.right : <<x, p[2]>> \in some
  BY DEF Row, r
<1>6. \A x \in s.left..s.right : <<x, p[2]>> \in free
  BY <1>2 DEF Row
<1>7. ~(s.left < r.left)
  <2> SUFFICES ASSUME s.left < r.left PROVE FALSE
    OBVIOUS
  <2>1. r.left - 1 \in s.left..s.right
    BY <1>1, <1>2, <1>3, <1>4
  <2>2. QED
    BY <1>1, <1>6, <2>1
<1>8. ~(r.left < s.left)
  <2> SUFFICES ASSUME r.left < s.left PROVE FALSE
    OBVIOUS
  <2>1. s.left - 1 \in r.left..r.right
    BY <1>1, <1>2, <1>3, <1>4
  <2>2. QED
    BY <1>2, <1>5, <2>1
<1>9. ~(r.right < s.right)
  <2> SUFFICES ASSUME r.right < s.right PROVE FALSE
    OBVIOUS
  <2>1. r.right + 1 \in s.left..s.right
    BY <1>1, <1>2, <1>3, <1>4
  <2>2. QED
    BY <1>1, <1>6, <2>1
<1>10. ~(s.right < r.right)
  <2> SUFFICES ASSUME s.right < r.right PROVE FALSE
    OBVIOUS
  <2>1. s.right + 1 \in r.left..r.right
    BY <1>1, <1>2, <1>3, <1>4
  <2>2. QED
    BY <1>2, <1>5, <2>1
<1>11. s.left = r.left /\ s.right = r.right /\ s.y = r.y
  BY <1>1, <1>2, <1>4, <1>7, <1>8, <1>9, <1>10
<1>12. s = r
  BY <1>1, <1>2, <1>11 DEF RunSet
<1>13. QED
  BY <1>12 DEF r, s
-----------------------------------------------------------------------------
(* The flood fill.                                                          *)

\* Painting a run.
LEMMA PaintIs ==
  ASSUME NEW s \in FillSet, NEW p \in s.free
  PROVE  /\ Paint(s, p) \in FillSet
         /\ Paint(s, p).free = s.free \ Row(Run(s.free, p), p[2])
         /\ Paint(s, p).stack = Append(s.stack, Run(s.free, p))
         /\ Paint(s, p).runs = Append(s.runs, Run(s.free, p))
         /\ Paint(s, p).area = s.area + Length(Run(s.free, p))
<1>1. /\ Run(s.free, p) \in RunSet /\ Run(s.free, p).y = p[2]
  BY RunIs DEF FillSet
<1>2. Length(Run(s.free, p)) \in Nat
  BY <1>1, RowIs
<1>3. Paint(s, p) = [free |-> s.free \ Row(Run(s.free, p), p[2]),
                     stack |-> Append(s.stack, Run(s.free, p)),
                     runs |-> Append(s.runs, Run(s.free, p)),
                     area |-> s.area + Length(Run(s.free, p))]
  BY <1>1 DEF Paint
<1> HIDE DEF Paint
<1>4. /\ s.free \ Row(Run(s.free, p), p[2]) \in SUBSET Points
      /\ Append(s.stack, Run(s.free, p)) \in Seq(RunSet)
      /\ Append(s.runs, Run(s.free, p)) \in Seq(RunSet)
      /\ s.area + Length(Run(s.free, p)) \in Nat
  BY <1>1, <1>2 DEF FillSet
<1>5. QED
  BY <1>3, <1>4 DEF FillSet

\* Of two points at different places one comes first.
LEMMA BeforeOnce ==
  ASSUME NEW p \in Points, NEW q \in Points, Before(p, q), Before(q, p)
  PROVE  p = q
<1>1. /\ p = <<p[1], p[2]>> /\ q = <<q[1], q[2]>>
      /\ p[1] \in Int /\ p[2] \in Int /\ q[1] \in Int /\ q[2] \in Int
  BY PointsAre DEF Xs, Ys
<1>2. p[1] = q[1] /\ p[2] = q[2]
  BY <1>1 DEF Before
<1>3. QED
  BY <1>1, <1>2

\* The first of some points is one of them.
LEMMA FirstIs ==
  ASSUME NEW S \in SUBSET Points, S # {}
  PROVE  First(S) \in S /\ \A q \in S : Before(First(S), q)
<1>1. \A q \in S : q[1] \in Nat /\ q[2] \in Nat
  BY PointsAre DEF Xs, Ys
<1> DEFINE Y == {q[2] : q \in S}
<1>2. PICK y \in Y : \A z \in Y : y <= z
  <2>1. Y \in SUBSET Nat /\ Y # {}
    BY <1>1
  <2>2. QED
    BY <2>1, SmallestOf
<1> DEFINE X == {q[1] : q \in {r \in S : r[2] = y}}
<1>3. PICK x \in X : \A z \in X : x <= z
  <2>1. X \in SUBSET Nat /\ X # {}
    BY <1>1, <1>2
  <2>2. QED
    BY <2>1, SmallestOf
<1>4. PICK p \in S : p[2] = y /\ p[1] = x
  BY <1>3
<1>5. ASSUME NEW q \in S PROVE Before(p, q)
  <2>1. y <= q[2]
    BY <1>2
  <2>2. q[2] = y => x <= q[1]
    BY <1>3
  <2>3. QED
    BY <1>1, <1>4, <2>1, <2>2 DEF Before
<1>6. QED
  BY <1>5 DEF First

\* and does not change when others are taken away.
LEMMA FirstSame ==
  ASSUME NEW S \in SUBSET Points, NEW T \in SUBSET S, S # {}, First(S) \in T
  PROVE  First(T) = First(S)
<1>1. First(T) \in T /\ \A q \in T : Before(First(T), q)
  BY FirstIs
<1>2. \A q \in S : Before(First(S), q)
  BY FirstIs
<1>3. QED
  BY <1>1, <1>2, BeforeOnce

\* The run looked at.
Top(s) == s.stack[Len(s.stack)]
Near(s) == Seeds(s.free, Top(s))

\* The three cases of a round.
LEMMA StepIs ==
  ASSUME NEW s \in FillSet
  PROVE  /\ Step(s) \in FillSet /\ Step(s).free \subseteq s.free
         /\ Over(s) => Step(s) = s
         /\ ~Over(s) => Len(s.stack) \in Nat \ {0} /\ Top(s) \in RunSet
         /\ ~Over(s) /\ Near(s) = {} =>
              /\ Step(s).stack = SubSeq(s.stack, 1, Len(s.stack) - 1)
              /\ Len(Step(s).stack) = Len(s.stack) - 1
              /\ Step(s).free = s.free /\ Step(s).runs = s.runs /\ Step(s).area = s.area
         /\ ~Over(s) /\ Near(s) # {} =>
              /\ First(Near(s)) \in Near(s) /\ Near(s) \in SUBSET s.free
              /\ Step(s) = Paint(s, First(Near(s)))
<1>1. s.stack \in Seq(RunSet) /\ s.free \in SUBSET Points
  BY DEF FillSet
<1>2. ~Over(s) => Len(s.stack) \in Nat \ {0} /\ Top(s) \in RunSet
  BY <1>1 DEF Over, Top
<1>3. CASE Over(s)
  BY <1>3 DEF Step
<1>4. CASE ~Over(s) /\ Near(s) = {}
  <2>1. Step(s) = [s EXCEPT !.stack = SubSeq(s.stack, 1, Len(s.stack) - 1)]
    BY <1>4 DEF Step, Near, Top
  <2>2. /\ SubSeq(s.stack, 1, Len(s.stack) - 1) \in Seq(RunSet)
        /\ Len(SubSeq(s.stack, 1, Len(s.stack) - 1)) = Len(s.stack) - 1
    BY <1>1, <1>2, <1>4
  <2>3. QED
    BY <1>2, <1>4, <2>1, <2>2 DEF FillSet
<1>5. CASE ~Over(s) /\ Near(s) # {}
  <2>1. Step(s) = Paint(s, First(Near(s)))
    BY <1>5 DEF Step, Near, Top
  <2>2. Near(s) \in SUBSET s.free
    BY DEF Near, Seeds
  <2>3. First(Near(s)) \in Near(s)
    BY <1>1, <1>5, <2>2, FirstIs
  <2>4. Paint(s, First(Near(s))) \in FillSet
        /\ Paint(s, First(Near(s))).free \subseteq s.free
    BY <2>2, <2>3, PaintIs
  <2>5. QED
    BY <1>2, <1>5, <2>1, <2>2, <2>3, <2>4
<1>6. QED
  BY <1>3, <1>4, <1>5

\* The rounds of a fill.
Start(free) == [free |-> free, stack |-> <<>>, runs |-> <<>>, area |-> 0]
IsTrace(g, N, free, p) ==
  /\ N = Rounds(free) /\ N \in Nat /\ g \in [0..N -> FillSet]
  /\ g[0] = Paint(Start(free), p)
  /\ \A k \in 0..(N - 1) : g[k + 1] = Step(g[k])

\* The starts of runs among the free pixels.
LEMMA StartsAre ==
  ASSUME NEW free \in SUBSET Points
  PROVE  /\ IsFiniteSet(free) /\ Cardinality(free) \in Nat
         /\ IsFiniteSet(Starts(free)) /\ Cardinality(Starts(free)) \in Nat
<1>1. Starts(free) \in SUBSET Points
  BY DEF Starts
<1>2. QED
  BY <1>1, PointsAre, FS_Subset, FS_CardinalityType

\* The states that rounds lead to from the state s.
IsCourse(g, N, s) ==
  /\ g \in [0..N -> FillSet] /\ g[0] = s
  /\ \A k \in 0..(N - 1) : g[k + 1] = Step(g[k])
Course(N, s) == CHOOSE g : IsCourse(g, N, s)

\* There is a course from each state,
LEMMA CourseIs ==
  ASSUME NEW N \in Nat, NEW s \in FillSet
  PROVE  IsCourse(Course(N, s), N, s)
<1> DEFINE f == [k \in 1..N |-> [t \in FillSet |-> Step(t)]]
<1>1. f \in Maps(N, FillSet)
  BY StepIs DEF Maps
<1> HIDE DEF f
<1>2. PICK g \in [0..N -> FillSet] : g[0] = s /\ \A k \in 1..N : g[k] = f[k][g[k - 1]]
  BY <1>1, Iterates
<1>3. \A k \in 0..(N - 1) : g[k + 1] = Step(g[k])
  <2> SUFFICES ASSUME NEW k \in 0..(N - 1) PROVE g[k + 1] = Step(g[k])
    OBVIOUS
  <2>1. k + 1 \in 1..N /\ (k + 1) - 1 = k /\ g[k] \in FillSet
    OBVIOUS
  <2>2. f[k + 1][g[k]] = Step(g[k])
    BY <2>1 DEF f
  <2>3. QED
    BY <1>2, <2>1, <2>2
<1>4. IsCourse(g, N, s)
  BY <1>2, <1>3 DEF IsCourse
<1>5. QED
  BY <1>4 DEF Course

\* and it goes on as the one from a state it leads to.
LEMMA CourseGoesOn ==
  ASSUME NEW N \in Nat, NEW s, NEW t, NEW g, IsCourse(g, N, s), NEW h, IsCourse(h, N, t),
         NEW k \in 0..N, g[k] = t, NEW n \in 0..N, k <= n
  PROVE  g[n] = h[n - k]
<1> DEFINE T == {m \in 0..(n - k) : g[k + m] = h[m]}
<1>1. 0 \in T
  BY DEF IsCourse
<1>2. ASSUME NEW m \in 0..((n - k) - 1), m \in T PROVE m + 1 \in T
  <2>1. m \in 0..(N - 1) /\ k + m \in 0..(N - 1) /\ (k + m) + 1 = k + (m + 1)
    OBVIOUS
  <2>2. h[m + 1] = Step(h[m]) /\ g[k + (m + 1)] = Step(g[k + m])
    BY <2>1 DEF IsCourse
  <2>3. QED
    BY <1>2, <2>2
<1>3. n - k \in Nat /\ k + (n - k) = n
  OBVIOUS
<1> HIDE DEF T
<1>4. n - k \in T
  <2>1. \A m \in 0..(n - k) : m \in T
    BY <1>1, <1>2, <1>3, Induct
  <2>2. QED
    BY <1>3, <2>1
<1>5. QED
  BY <1>3, <1>4 DEF T

\* n rounds from s, in halves, when u[m][t] is what m rounds from t are.
InHalves(u, n, s) ==
  IF n = 0 THEN s ELSE IF n = 1 THEN Step(s) ELSE u[n - n \div 2][u[n \div 2][s]]

LEMMA Halves ==
  ASSUME NEW n \in Nat, n # 0, n # 1
  PROVE  n \div 2 \in 1..(n - 1) /\ n - n \div 2 \in 1..(n - 1)
OBVIOUS

\* Rounds in halves lead along the course.
LEMMA HalvesAre ==
  ASSUME NEW N \in Nat, NEW u, \A n \in 0..N : \A s \in FillSet : u[n][s] = Course(N, s)[n],
         NEW n \in 0..N, NEW s \in FillSet
  PROVE  InHalves(u, n, s) = Course(N, s)[n]
<1> DEFINE g == Course(N, s)
<1>1. IsCourse(g, N, s)
  BY CourseIs
<1> HIDE DEF g
<1>2. CASE n = 0
  BY <1>1, <1>2 DEF InHalves, IsCourse, g
<1>3. CASE n = 1
  <2>1. 0 \in 0..(N - 1) /\ 0 + 1 = 1
    BY <1>3
  <2>2. g[1] = Step(s)
    BY <1>1, <2>1 DEF IsCourse
  <2>3. QED
    BY <1>3, <2>2 DEF InHalves, g
<1>4. CASE n # 0 /\ n # 1
  <2>1. PICK m \in Nat : m = n \div 2 /\ m \in 1..(n - 1) /\ n - m \in 1..(n - 1)
    BY <1>4, Halves
  <2>2. m \in 0..N /\ n - m \in 0..N /\ m <= n
    BY <2>1
  <2>3. g[m] \in FillSet /\ u[m][s] = g[m]
    BY <1>1, <2>2 DEF IsCourse, g
  <2>4. PICK t \in FillSet : t = g[m]
    BY <2>3
  <2>5. u[n - m][t] = Course(N, t)[n - m]
    BY <2>2
  <2>6. g[n] = Course(N, t)[n - m]
    <3>1. IsCourse(Course(N, t), N, t)
      BY CourseIs
    <3>2. QED
      BY <1>1, <2>2, <2>4, <3>1, CourseGoesOn
  <2>7. InHalves(u, n, s) = u[n - m][u[m][s]]
    BY <1>4, <2>1 DEF InHalves
  <2>8. QED
    BY <2>3, <2>4, <2>5, <2>6, <2>7 DEF g
<1>5. QED
  BY <1>2, <1>3, <1>4

\* Filled ends a trace.
LEMMA FilledIs ==
  ASSUME NEW free \in SUBSET Points, NEW p \in free
  PROVE  \E g : IsTrace(g, Rounds(free), free, p) /\ Filled(free, p) = g[Rounds(free)]
<1> DEFINE N == Rounds(free)
           b == Paint(Start(free), p)
           Is(u) == u = [n \in 0..N |-> [s \in FillSet |->
                           IF n = 0 THEN s ELSE IF n = 1 THEN Step(s)
                           ELSE u[n - n \div 2][u[n \div 2][s]]]]
           u == CHOOSE u : Is(u)
<1>1. N \in Nat
  BY StartsAre DEF Rounds
<1>2. Start(free) \in FillSet /\ Start(free).free = free
  BY DEF Start, FillSet
<1>3. b \in FillSet
  BY <1>2, PaintIs
<1>4. Filled(free, p) = u[N][b]
  BY DEF Filled, Start
<1> HIDE DEF N, b
<1>5. Is(u)
  <2> DEFINE w == [n \in 0..N |-> [s \in FillSet |-> Course(N, s)[n]]]
  <2>1. \A n \in 0..N : \A s \in FillSet : w[n][s] = Course(N, s)[n]
    OBVIOUS
  <2>2. w = [n \in 0..N |-> [s \in FillSet |-> Course(N, s)[n]]]
    OBVIOUS
  <2> HIDE DEF w
  <2>3. \A n \in 0..N : \A s \in FillSet : InHalves(w, n, s) = Course(N, s)[n]
    BY <1>1, <2>1, HalvesAre
  <2>4. w = [n \in 0..N |-> [s \in FillSet |-> InHalves(w, n, s)]]
    BY <2>2, <2>3
  <2>5. Is(w)
    BY <2>4 DEF InHalves
  <2>6. QED
    BY <2>5
<1>6. \A n \in 0..N : \A s \in FillSet : u[n][s] = InHalves(u, n, s)
  <2>1. u = [n \in 0..N |-> [s \in FillSet |-> InHalves(u, n, s)]]
    BY <1>5 DEF InHalves
  <2> HIDE DEF u, Is
  <2>2. \A n \in 0..N : u[n] = [s \in FillSet |-> InHalves(u, n, s)]
    BY <2>1
  <2> SUFFICES ASSUME NEW n \in 0..N, NEW s \in FillSet PROVE u[n][s] = InHalves(u, n, s)
    OBVIOUS
  <2>3. u[n] = [t \in FillSet |-> InHalves(u, n, t)]
    BY <2>2
  <2>4. QED
    BY <2>3
<1> HIDE DEF u, Is
<1>7. \A n \in 0..N : \A s \in FillSet : u[n][s] = Course(N, s)[n]
  <2> DEFINE Wrong == {n \in 0..N : \E s \in FillSet : u[n][s] # Course(N, s)[n]}
  <2> SUFFICES ASSUME Wrong # {} PROVE FALSE
    OBVIOUS
  <2>1. PICK n \in Wrong : \A m \in Wrong : n <= m
    <3>1. Wrong \in SUBSET Nat
      OBVIOUS
    <3>2. QED
      BY <3>1, SmallestOf
  <2>2. PICK s \in FillSet : u[n][s] # Course(N, s)[n]
    BY <2>1
  <2> DEFINE v == [m \in 0..N |-> IF m < n THEN u[m] ELSE [t \in FillSet |-> Course(N, t)[m]]]
  <2>3. \A m \in 0..N : \A t \in FillSet : v[m][t] = Course(N, t)[m]
    <3> SUFFICES ASSUME NEW m \in 0..N, NEW t \in FillSet PROVE v[m][t] = Course(N, t)[m]
      OBVIOUS
    <3>1. CASE m < n
      BY <1>1, <2>1, <3>1
    <3>2. CASE ~(m < n)
      BY <3>2
    <3>3. QED
      BY <3>1, <3>2
  <2>4. \A m \in 0..N : m < n => v[m] = u[m]
    OBVIOUS
  <2>5. n \in 0..N
    BY <2>1
  <2> HIDE DEF v, Wrong
  <2>6. InHalves(v, n, s) = Course(N, s)[n]
    BY <1>1, <2>3, <2>5, HalvesAre
  <2>7. InHalves(u, n, s) = InHalves(v, n, s)
    <3>1. CASE n = 0 \/ n = 1
      BY <3>1 DEF InHalves
    <3>2. CASE n # 0 /\ n # 1
      <4>1. PICK m \in Nat : m = n \div 2 /\ m \in 1..(n - 1) /\ n - m \in 1..(n - 1)
        BY <1>1, <2>5, <3>2, Halves
      <4>2. v[m] = u[m] /\ v[n - m] = u[n - m]
        BY <1>1, <2>4, <2>5, <4>1
      <4>3. QED
        BY <3>2, <4>1, <4>2 DEF InHalves
    <3>3. QED
      BY <3>1, <3>2
  <2>8. QED
    BY <1>6, <2>2, <2>5, <2>6, <2>7
<1>8. IsCourse(Course(N, b), N, b)
  BY <1>1, <1>3, CourseIs
<1>9. IsTrace(Course(N, b), N, free, p)
  BY <1>1, <1>8 DEF IsTrace, IsCourse, N, b
<1>10. Filled(free, p) = Course(N, b)[N]
  <2>1. N \in 0..N
    BY <1>1
  <2>2. QED
    BY <1>3, <1>4, <1>7, <2>1
<1>11. QED
  BY <1>9, <1>10 DEF N

\* A run that is painted takes one start away.
LEMMA OneStartLess ==
  ASSUME NEW free \in SUBSET Points, NEW p \in free
  PROVE  Cardinality(Starts(free \ Row(Run(free, p), p[2]))) = Cardinality(Starts(free)) - 1
<1> DEFINE r == Run(free, p)
           c == <<r.left, r.y>>
           rest == free \ Row(r, r.y)
<1>1. /\ r \in RunSet /\ r.y = p[2] /\ Row(r, r.y) \subseteq free
      /\ <<r.left - 1, r.y>> \notin free /\ <<r.right + 1, r.y>> \notin free
  BY RunIs
<1> HIDE DEF r
<1>2. r.left \in Int /\ r.right \in Int /\ r.left <= r.right /\ c \in Row(r, r.y)
  <2>1. r.left \in Int /\ r.right \in Int /\ r.left <= r.right
    BY <1>1 DEF RunSet, Xs
  <2>2. c \in Row(r, r.y)
    BY <1>1, RowIs
  <2>3. QED
    BY <2>1, <2>2
<1>3. \A q \in Points : q = <<q[1], q[2]>> /\ q[1] \in Int
  BY PointsAre DEF Xs, Ys
<1>4. \A q \in Points : q \in Row(r, r.y) <=> q[2] = r.y /\ r.left <= q[1] /\ q[1] <= r.right
  BY <1>1, RowIs
<1>5. c \in Starts(free)
  BY <1>1, <1>2 DEF Starts
<1>6. ASSUME NEW q \in Starts(rest) PROVE q \in Starts(free) \ {c}
  <2>1. q \in free /\ q \notin Row(r, r.y) /\ q \in Points
    BY <1>6 DEF Starts
  <2>2. <<q[1] - 1, q[2]>> \notin free
    <3> SUFFICES ASSUME <<q[1] - 1, q[2]>> \in free PROVE FALSE
      OBVIOUS
    <3>1. <<q[1] - 1, q[2]>> \in Row(r, r.y)
      BY <1>6 DEF Starts
    <3>2. q[2] = r.y /\ r.left <= q[1] - 1 /\ q[1] - 1 <= r.right
      BY <1>4, <3>1
    <3>3. q[1] = r.right + 1
      BY <1>2, <1>3, <1>4, <2>1, <3>2
    <3>4. q = <<r.right + 1, r.y>>
      BY <1>3, <2>1, <3>2, <3>3
    <3>5. QED
      BY <1>1, <2>1, <3>4
  <2>3. QED
    BY <1>2, <2>1, <2>2 DEF Starts
<1>7. ASSUME NEW q \in Starts(free) \ {c} PROVE q \in Starts(rest)
  <2>1. q \in free /\ q \in Points /\ <<q[1] - 1, q[2]>> \notin free /\ q # c
    BY <1>7 DEF Starts
  <2>2. q \notin Row(r, r.y)
    <3> SUFFICES ASSUME q \in Row(r, r.y) PROVE FALSE
      OBVIOUS
    <3>1. q[2] = r.y /\ r.left <= q[1] /\ q[1] <= r.right
      BY <1>4, <2>1
    <3>2. q[1] # r.left
      BY <1>3, <2>1, <3>1
    <3>3. q[1] - 1 \in r.left..r.right
      BY <1>2, <1>3, <2>1, <3>1, <3>2
    <3>4. <<q[1] - 1, q[2]>> \in Row(r, r.y)
      BY <3>1, <3>3 DEF Row
    <3>5. QED
      BY <1>1, <2>1, <3>4
  <2>3. QED
    BY <2>1, <2>2 DEF Starts
<1>8. Starts(rest) = Starts(free) \ {c}
  BY <1>6, <1>7
<1>9. Cardinality(Starts(rest)) = Cardinality(Starts(free)) - 1
  <2>1. IsFiniteSet(Starts(free))
    BY StartsAre
  <2> HIDE DEF c, rest
  <2>2. Cardinality(Starts(free) \ {c}) = Cardinality(Starts(free)) - 1
    BY <1>5, <2>1, FS_RemoveElement
  <2>3. QED
    BY <1>8, <2>2
<1>10. QED
  BY <1>1, <1>9 DEF r

\* What a fill from p among the pixels "free" has painted, s being its state.
Painted(s, free, p) ==
  /\ s \in FillSet /\ s.free \subseteq free /\ p \in free \ s.free
  /\ s.area = Cardinality(free \ s.free)
  /\ s.runs # <<>>
  /\ \A i \in 1..Len(s.runs) : Row(s.runs[i], s.runs[i].y) \subseteq free \ s.free

\* The runs painted lie among the pixels that are no longer free.
Inside(s, free) ==
  \A i \in 1..Len(s.runs) : Row(s.runs[i], s.runs[i].y) \subseteq free \ s.free

\* Painting a run keeps to that.
LEMMA PaintKeeps ==
  ASSUME NEW free \in SUBSET Points, NEW p \in free, NEW s \in FillSet, NEW q \in s.free,
         s.free \subseteq free, s.area = Cardinality(free \ s.free),
         p = q \/ p \notin s.free, Inside(s, free)
  PROVE  /\ Painted(Paint(s, q), free, p)
         /\ Cardinality(Starts(Paint(s, q).free)) = Cardinality(Starts(s.free)) - 1
         /\ Len(Paint(s, q).stack) = Len(s.stack) + 1
<1> DEFINE t == Paint(s, q)
           r == Run(s.free, q)
<1>1. s.free \in SUBSET Points /\ s.runs \in Seq(RunSet) /\ s.stack \in Seq(RunSet)
  BY DEF FillSet
<1>2. r \in RunSet /\ r.y = q[2] /\ Row(r, r.y) \subseteq s.free /\ q \in Row(r, r.y)
  <2>1. /\ r \in RunSet /\ r.y = q[2] /\ Row(r, r.y) \subseteq s.free
        /\ r.left <= q[1] /\ q[1] <= r.right
    BY <1>1, RunIs
  <2>2. QED
    BY <1>1, <2>1, RowIs
<1>3. /\ t \in FillSet /\ t.free = s.free \ Row(r, r.y) /\ t.stack = Append(s.stack, r)
      /\ t.runs = Append(s.runs, r) /\ t.area = s.area + Length(r)
  BY <1>2, PaintIs
<1>4. Cardinality(Starts(t.free)) = Cardinality(Starts(s.free)) - 1
  <2>1. Cardinality(Starts(s.free \ Row(r, r.y))) = Cardinality(Starts(s.free)) - 1
    BY <1>1, <1>2, OneStartLess
  <2>2. QED
    BY <1>3, <2>1
<1> HIDE DEF t, r
<1>5. t.free \subseteq free /\ p \in free \ t.free
  BY <1>2, <1>3
<1>6. t.area = Cardinality(free \ t.free)
  <2>1. free \ t.free = (free \ s.free) \cup Row(r, r.y)
    BY <1>2, <1>3
  <2>2. (free \ s.free) \cap Row(r, r.y) = {}
    BY <1>2
  <2>3. /\ IsFiniteSet(free \ s.free) /\ IsFiniteSet(Row(r, r.y))
        /\ Cardinality(Row(r, r.y)) = Length(r)
    BY <1>2, RowIs, StartsAre
  <2>4. Cardinality(free \ t.free)
          = Cardinality(free \ s.free) + Cardinality(Row(r, r.y)) - Cardinality({})
    BY <2>1, <2>2, <2>3, FS_Union
  <2>5. Cardinality({}) = 0
    BY FS_EmptySet
  <2>6. Length(r) \in Nat /\ s.area \in Nat
    BY <1>2, RowIs DEF FillSet
  <2>7. QED
    BY <1>3, <2>3, <2>4, <2>5, <2>6
<1>7. t.runs # <<>> /\ Len(t.runs) = Len(s.runs) + 1 /\ Len(t.stack) = Len(s.stack) + 1
  <2>1. t.runs = Append(s.runs, r) /\ t.stack = Append(s.stack, r) /\ r \in RunSet
    BY <1>2, <1>3
  <2>2. QED
    BY <1>1, <2>1
<1>8. ASSUME NEW i \in 1..Len(t.runs) PROVE Row(t.runs[i], t.runs[i].y) \subseteq free \ t.free
  <2>1. CASE i = Len(s.runs) + 1
    <3>1. t.runs[i] = r
      BY <1>1, <1>2, <1>3, <2>1
    <3>2. QED
      BY <1>2, <1>3, <3>1
  <2>2. CASE i \in 1..Len(s.runs)
    <3>1. t.runs[i] = s.runs[i]
      BY <1>1, <1>2, <1>3, <2>2
    <3>2. QED
      BY <1>3, <2>2, <3>1 DEF Inside
  <2>3. QED
    BY <1>1, <1>7, <2>1, <2>2
<1>9. QED
  BY <1>3, <1>4, <1>5, <1>6, <1>7, <1>8 DEF Painted, t

\* The same from any state of a fill.
LEMMA PaintKept ==
  ASSUME NEW free \in SUBSET Points, NEW p \in free, NEW s, Painted(s, free, p),
         NEW q \in s.free
  PROVE  /\ Painted(Paint(s, q), free, p)
         /\ Cardinality(Starts(Paint(s, q).free)) = Cardinality(Starts(s.free)) - 1
         /\ Len(Paint(s, q).stack) = Len(s.stack) + 1
<1>1. /\ s \in FillSet /\ s.free \subseteq free /\ p \notin s.free
      /\ s.area = Cardinality(free \ s.free)
  BY DEF Painted
<1>2. Inside(s, free)
  BY DEF Painted, Inside
<1>3. QED
  BY <1>1, <1>2, PaintKeeps

\* Round k of N leaves enough rounds for what is left to do.
InTime(s, k, N) == Over(s) \/ 2 * Cardinality(Starts(s.free)) + Len(s.stack) + k <= N

\* All states of a trace are states of the fill, and enough rounds are left.
LEMMA TraceIs ==
  ASSUME NEW free \in SUBSET Points, NEW p \in free, NEW N, NEW g, IsTrace(g, N, free, p)
  PROVE  \A k \in 0..N : Painted(g[k], free, p) /\ InTime(g[k], k, N)
<1> DEFINE T == {k \in 0..N : Painted(g[k], free, p) /\ InTime(g[k], k, N)}
<1>1. N \in Nat /\ N = 2 * Cardinality(Starts(free)) /\ \A k \in 0..N : g[k] \in FillSet
  BY DEF IsTrace, Rounds
<1>2. 0 \in T
  <2> DEFINE s == Start(free)
  <2>1. /\ s \in FillSet /\ s.free = free /\ s.stack = <<>> /\ s.runs = <<>> /\ s.area = 0
    BY DEF Start, FillSet
  <2>2. s.area = Cardinality(free \ s.free) /\ Len(s.stack) = 0 /\ 1..Len(s.runs) = {}
    <3>1. free \ s.free = {}
      BY <2>1
    <3>2. Cardinality(free \ s.free) = 0
      BY <3>1, FS_EmptySet
    <3>3. Len(<<>>) = 0 /\ 1..0 = {}
      OBVIOUS
    <3>4. QED
      BY <2>1, <3>2, <3>3
  <2> HIDE DEF s
  <2>3. /\ Painted(Paint(s, p), free, p)
        /\ Cardinality(Starts(Paint(s, p).free)) = Cardinality(Starts(free)) - 1
        /\ Len(Paint(s, p).stack) = 1
    <3>1. p \in s.free /\ s.free \subseteq free
      BY <2>1
    <3>2. Inside(s, free)
      BY <2>2 DEF Inside
    <3>3. /\ Painted(Paint(s, p), free, p)
          /\ Cardinality(Starts(Paint(s, p).free)) = Cardinality(Starts(s.free)) - 1
          /\ Len(Paint(s, p).stack) = Len(s.stack) + 1
      BY <2>1, <2>2, <3>1, <3>2, PaintKeeps
    <3>4. QED
      BY <2>1, <2>2, <3>3
  <2>4. g[0] = Paint(s, p)
    BY DEF IsTrace, s
  <2>5. Cardinality(Starts(free)) \in Nat
    BY StartsAre
  <2>6. InTime(g[0], 0, N)
    <3>1. PICK c \in Nat : c = Cardinality(Starts(free))
      BY <2>5
    <3>2. Cardinality(Starts(g[0].free)) = c - 1 /\ Len(g[0].stack) = 1 /\ N = 2 * c
      BY <1>1, <2>3, <2>4, <3>1
    <3>3. 2 * (c - 1) + 1 + 0 <= 2 * c
      OBVIOUS
    <3>4. QED
      BY <3>2, <3>3 DEF InTime
  <2>7. QED
    BY <1>1, <2>3, <2>4, <2>6
<1>3. ASSUME NEW k \in 0..(N - 1), k \in T PROVE k + 1 \in T
  <2> DEFINE s == g[k]
  <2>1. s \in FillSet /\ Painted(s, free, p) /\ InTime(s, k, N) /\ g[k + 1] = Step(s)
    BY <1>1, <1>3 DEF IsTrace
  <2> HIDE DEF s
  <2>2. s.free \in SUBSET Points /\ Cardinality(Starts(s.free)) \in Nat /\ Len(s.stack) \in Nat
    BY <2>1, StartsAre DEF FillSet
  <2>3. Painted(Step(s), free, p) /\ InTime(Step(s), k + 1, N)
    <3>1. CASE Over(s)
      BY <2>1, <3>1, StepIs DEF InTime
    <3>2. CASE ~Over(s) /\ Near(s) = {}
      <4>1. /\ Step(s) \in FillSet /\ Len(Step(s).stack) = Len(s.stack) - 1
            /\ Step(s).free = s.free /\ Step(s).runs = s.runs /\ Step(s).area = s.area
        BY <2>1, <3>2, StepIs
      <4>2. Painted(Step(s), free, p)
        BY <2>1, <4>1 DEF Painted
      <4>3. 2 * Cardinality(Starts(s.free)) + Len(s.stack) + k <= N
        BY <2>1, <3>2 DEF InTime
      <4>4. \A c, n \in Nat : 2 * c + n + k <= N => 2 * c + (n - 1) + (k + 1) <= N
        BY <1>1
      <4>5. QED
        BY <2>2, <4>1, <4>2, <4>3, <4>4 DEF InTime
    <3>3. CASE ~Over(s) /\ Near(s) # {}
      <4>1. /\ First(Near(s)) \in s.free /\ Step(s) = Paint(s, First(Near(s)))
        BY <2>1, <3>3, StepIs
      <4>2. /\ Painted(Step(s), free, p)
            /\ Cardinality(Starts(Step(s).free)) = Cardinality(Starts(s.free)) - 1
            /\ Len(Step(s).stack) = Len(s.stack) + 1
        <5>1. PICK q \in s.free : q = First(Near(s))
          BY <4>1
        <5>2. QED
          BY <2>1, <4>1, <5>1, PaintKept
      <4>3. 2 * Cardinality(Starts(s.free)) + Len(s.stack) + k <= N
        BY <2>1, <3>3 DEF InTime
      <4>4. \A c, n \in Nat : 2 * c + n + k <= N => 2 * (c - 1) + (n + 1) + (k + 1) <= N
        BY <1>1
      <4>5. QED
        BY <2>2, <4>2, <4>3, <4>4 DEF InTime
    <3>4. QED
      BY <3>1, <3>2, <3>3
  <2>4. QED
    BY <1>1, <2>1, <2>3
<1> HIDE DEF T
<1>4. \A k \in 0..N : k \in T
  BY <1>1, <1>2, <1>3, Induct
<1>5. QED
  BY <1>4 DEF T

\* The rounds are enough: a fill is over after them.
LEMMA FilledOver ==
  ASSUME NEW free \in SUBSET Points, NEW p \in free, NEW N, NEW g, IsTrace(g, N, free, p)
  PROVE  Over(g[N])
<1>1. N \in Nat /\ g[N] \in FillSet
  BY DEF IsTrace
<1>2. InTime(g[N], N, N)
  <2>1. \A k \in 0..N : Painted(g[k], free, p) /\ InTime(g[k], k, N)
    BY TraceIs
  <2>2. N \in 0..N
    BY <1>1
  <2>3. QED
    BY <2>1, <2>2
<1>3. g[N].free \in SUBSET Points /\ g[N].stack \in Seq(RunSet)
  BY <1>1 DEF FillSet
<1>4. Cardinality(Starts(g[N].free)) \in Nat /\ Len(g[N].stack) \in Nat
  BY <1>3, StartsAre
<1>5. Over(g[N]) \/ Len(g[N].stack) = 0
  BY <1>1, <1>2, <1>4 DEF InTime
<1>6. QED
  BY <1>3, <1>5 DEF Over

\* What Filled gives.
LEMMA FilledFacts ==
  ASSUME NEW free \in SUBSET Points, NEW p \in free
  PROVE  Painted(Filled(free, p), free, p)
<1>1. PICK g : IsTrace(g, Rounds(free), free, p) /\ Filled(free, p) = g[Rounds(free)]
  BY FilledIs
<1>2. Rounds(free) \in 0..Rounds(free)
  BY <1>1 DEF IsTrace
<1>3. QED
  BY <1>1, <1>2, TraceIs

\* Pixels only cease to be free.
LEMMA FreeShrinks ==
  ASSUME NEW free \in SUBSET Points, NEW p \in free, NEW N, NEW g, IsTrace(g, N, free, p),
         NEW k \in 0..N
  PROVE  g[N].free \subseteq g[k].free
<1> DEFINE T == {m \in 0..N : k <= m => g[m].free \subseteq g[k].free}
<1>1. N \in Nat /\ k \in Int /\ \A m \in 0..N : g[m] \in FillSet
  BY DEF IsTrace
<1>2. 0 \in T
  BY <1>1
<1>3. ASSUME NEW m \in 0..(N - 1), m \in T PROVE m + 1 \in T
  <2>1. m \in 0..N /\ m + 1 \in 0..N
    BY <1>1
  <2>2. g[m + 1].free \subseteq g[m].free
    BY <1>1, <2>1, StepIs DEF IsTrace
  <2>3. k <= m + 1 => k <= m \/ k = m + 1
    BY <1>1
  <2>4. QED
    BY <1>3, <2>1, <2>2, <2>3
<1> HIDE DEF T
<1>4. \A m \in 0..N : m \in T
  BY <1>1, <1>2, <1>3, Induct
<1>5. QED
  BY <1>1, <1>4 DEF T

\* A fill that is over stays as it is.
LEMMA OverStays ==
  ASSUME NEW free \in SUBSET Points, NEW p \in free, NEW N, NEW g, IsTrace(g, N, free, p),
         NEW k \in 0..N, Over(g[k])
  PROVE  g[N] = g[k]
<1> DEFINE T == {m \in 0..N : k <= m => g[m] = g[k]}
<1>1. N \in Nat /\ k \in Int /\ \A m \in 0..N : g[m] \in FillSet
  BY DEF IsTrace
<1>2. 0 \in T
  BY <1>1
<1>3. ASSUME NEW m \in 0..(N - 1), m \in T PROVE m + 1 \in T
  <2>1. m \in 0..N /\ m + 1 \in 0..N
    BY <1>1
  <2>2. k <= m => g[m + 1] = g[k]
    BY <1>1, <1>3, <2>1, StepIs DEF IsTrace
  <2>3. k <= m + 1 => k <= m \/ k = m + 1
    BY <1>1
  <2>4. QED
    BY <1>3, <2>1, <2>2, <2>3
<1> HIDE DEF T
<1>4. \A m \in 0..N : m \in T
  BY <1>1, <1>2, <1>3, Induct
<1>5. QED
  BY <1>1, <1>4 DEF T

\* s and t have done the same, s among the free pixels A and t among B.
Alike(s, A, t, B) ==
  s.stack = t.stack /\ s.runs = t.runs /\ s.area = t.area /\ A \ s.free = B \ t.free

\* They still have when both paint the same run,
LEMMA PaintAlike ==
  ASSUME NEW A \in SUBSET Points, NEW B \in SUBSET A, NEW s \in FillSet, NEW t \in FillSet,
         s.free \subseteq A, t.free \subseteq B, Alike(s, A, t, B), NEW q \in s.free,
         A \ Paint(s, q).free \subseteq B
  PROVE  q \in t.free /\ Alike(Paint(s, q), A, Paint(t, q), B)
<1> DEFINE r == Run(s.free, q)
<1>1. s.free \in SUBSET Points /\ t.free \in SUBSET s.free
  BY DEF FillSet, Alike
<1>2. r \in RunSet /\ r.y = q[2] /\ Row(r, q[2]) \subseteq s.free /\ q \in Row(r, q[2])
  <2>1. /\ r \in RunSet /\ r.y = q[2] /\ Row(r, r.y) \subseteq s.free
        /\ r.left <= q[1] /\ q[1] <= r.right
    BY <1>1, RunIs
  <2>2. QED
    BY <1>1, <2>1, RowIs
<1>3. Paint(s, q).free = s.free \ Row(r, q[2])
  BY PaintIs
<1>4. Row(r, q[2]) \subseteq t.free
  BY <1>2, <1>3 DEF Alike
<1>5. q \in t.free
  BY <1>2, <1>4
<1>6. Run(t.free, q) = r
  BY <1>1, <1>4, <1>5, RunSame
<1>7. /\ Paint(t, q).free = t.free \ Row(r, q[2])
      /\ Paint(t, q).stack = Append(t.stack, r) /\ Paint(t, q).runs = Append(t.runs, r)
      /\ Paint(t, q).area = t.area + Length(r)
  BY <1>5, <1>6, PaintIs
<1>8. /\ Paint(s, q).stack = Append(s.stack, r) /\ Paint(s, q).runs = Append(s.runs, r)
      /\ Paint(s, q).area = s.area + Length(r)
  BY PaintIs
<1> HIDE DEF r
<1>9. A \ Paint(s, q).free = B \ Paint(t, q).free
  BY <1>1, <1>2, <1>3, <1>4, <1>7 DEF Alike
<1>10. QED
  BY <1>5, <1>7, <1>8, <1>9 DEF Alike

\* or make any round.
LEMMA StepAlike ==
  ASSUME NEW A \in SUBSET Points, NEW B \in SUBSET A, NEW s \in FillSet, NEW t \in FillSet,
         s.free \subseteq A, t.free \subseteq B, Alike(s, A, t, B),
         A \ Step(s).free \subseteq B
  PROVE  Alike(Step(s), A, Step(t), B)
<1>1. (Over(s) <=> Over(t)) /\ Top(s) = Top(t)
  BY DEF Alike, Over, LastEntry, Top
<1>2. s.free \in SUBSET Points /\ t.free \in SUBSET s.free
  BY DEF FillSet, Alike
<1>3. Near(t) \in SUBSET Near(s) /\ Near(s) \in SUBSET s.free /\ Near(t) = Near(s) \cap t.free
  BY <1>1, <1>2 DEF Near, Seeds
<1>4. CASE Over(s)
  BY <1>1, <1>4, StepIs
<1>5. CASE ~Over(s) /\ Near(s) = {}
  <2>1. Near(t) = {} /\ ~Over(t)
    BY <1>1, <1>3, <1>5
  <2>2. /\ Step(s).stack = SubSeq(s.stack, 1, Len(s.stack) - 1)
        /\ Step(s).free = s.free /\ Step(s).runs = s.runs /\ Step(s).area = s.area
    BY <1>5, StepIs
  <2>3. /\ Step(t).stack = SubSeq(t.stack, 1, Len(t.stack) - 1)
        /\ Step(t).free = t.free /\ Step(t).runs = t.runs /\ Step(t).area = t.area
    BY <2>1, StepIs
  <2>4. QED
    BY <2>2, <2>3 DEF Alike
<1>6. CASE ~Over(s) /\ Near(s) # {}
  <2> DEFINE q == First(Near(s))
  <2>1. q \in Near(s) /\ q \in s.free /\ Step(s) = Paint(s, q)
    BY <1>3, <1>6, StepIs
  <2> HIDE DEF q
  <2>2. q \in t.free /\ Alike(Paint(s, q), A, Paint(t, q), B)
    BY <2>1, PaintAlike
  <2>3. q \in Near(t)
    BY <1>3, <2>1, <2>2
  <2>4. First(Near(t)) = q
    <3>1. Near(s) \in SUBSET Points
      BY <1>2, <1>3
    <3>2. QED
      BY <1>3, <1>6, <2>3, <3>1, FirstSame DEF q
  <2>5. Step(t) = Paint(t, q)
    BY <1>1, <1>6, <2>3, <2>4, StepIs
  <2>6. QED
    BY <2>1, <2>2, <2>5
<1>7. QED
  BY <1>4, <1>5, <1>6

\* A fill paints the same runs when other pixels than those it paints are no longer free.
LEMMA Refilled ==
  ASSUME NEW A \in SUBSET Points, NEW p \in A, NEW B \in SUBSET A,
         A \ Filled(A, p).free \subseteq B
  PROVE  Alike(Filled(A, p), A, Filled(B, p), B)
<1>1. p \in B
  BY FilledFacts DEF Painted
<1>2. PICK g : IsTrace(g, Rounds(A), A, p) /\ Filled(A, p) = g[Rounds(A)]
  BY FilledIs
<1>3. PICK h : IsTrace(h, Rounds(B), B, p) /\ Filled(B, p) = h[Rounds(B)]
  BY <1>1, FilledIs
<1> DEFINE N == Rounds(A)
           M == Rounds(B)
<1> HIDE DEF N, M
<1>4. IsTrace(g, N, A, p) /\ IsTrace(h, M, B, p) /\ N \in Nat /\ M \in Nat
  BY <1>2, <1>3 DEF N, M, IsTrace
<1>5. \A k \in 0..N : Painted(g[k], A, p)
  BY <1>4, TraceIs
<1>6. \A k \in 0..M : Painted(h[k], B, p)
  BY <1>1, <1>4, TraceIs
<1>7. \A k \in 0..N : A \ g[k].free \subseteq B
  <2> SUFFICES ASSUME NEW k \in 0..N PROVE A \ g[k].free \subseteq B
    OBVIOUS
  <2>1. g[N].free \subseteq g[k].free
    BY <1>4, FreeShrinks
  <2>2. QED
    BY <1>2, <2>1 DEF N
<1> DEFINE T == {k \in Nat : k <= N /\ k <= M => Alike(g[k], A, h[k], B)}
<1>8. 0 \in T
  <2>1. Start(A) \in FillSet /\ Start(A).free = A /\ Start(B) \in FillSet /\ Start(B).free = B
    BY DEF Start, FillSet
  <2>2. Alike(Start(A), A, Start(B), B)
    BY DEF Start, Alike
  <2>3. g[0] = Paint(Start(A), p) /\ h[0] = Paint(Start(B), p)
    BY <1>4 DEF IsTrace
  <2>4. A \ Paint(Start(A), p).free \subseteq B
    BY <1>4, <1>7, <2>3
  <2>5. Alike(g[0], A, h[0], B)
    BY <2>1, <2>2, <2>3, <2>4, PaintAlike
  <2>6. QED
    BY <2>5
<1>9. ASSUME NEW k \in Nat, k \in T PROVE k + 1 \in T
  <2> SUFFICES ASSUME k + 1 <= N, k + 1 <= M PROVE Alike(g[k + 1], A, h[k + 1], B)
    OBVIOUS
  <2>1. k \in 0..N /\ k \in 0..M /\ k \in 0..(N - 1) /\ k \in 0..(M - 1) /\ k + 1 \in 0..N
    BY <1>4
  <2>2. Alike(g[k], A, h[k], B)
    BY <1>4, <1>9, <2>1
  <2>3. g[k + 1] = Step(g[k]) /\ h[k + 1] = Step(h[k])
    BY <1>4, <2>1 DEF IsTrace
  <2>4. /\ g[k] \in FillSet /\ h[k] \in FillSet /\ g[k].free \subseteq A /\ h[k].free \subseteq B
    BY <1>5, <1>6, <2>1 DEF Painted
  <2>5. A \ Step(g[k]).free \subseteq B
    BY <1>7, <2>1, <2>3
  <2>6. QED
    BY <2>2, <2>3, <2>4, <2>5, StepAlike
<1> HIDE DEF T
<1>10. \A n \in Nat : n \in T
  <2> SUFFICES ASSUME NEW n \in Nat PROVE n \in T
    OBVIOUS
  <2>1. \A k \in 0..n : k \in T
    BY <1>8, <1>9, Induct
  <2>2. QED
    BY <2>1
<1>11. Over(g[N]) /\ Over(h[M])
  BY <1>1, <1>4, FilledOver
<1>12. CASE N <= M
  <2>1. Alike(g[N], A, h[N], B) /\ N \in 0..M
    BY <1>4, <1>10, <1>12 DEF T
  <2>2. Over(h[N])
    BY <1>11, <2>1 DEF Alike, Over, LastEntry
  <2>3. h[M] = h[N]
    BY <1>1, <1>4, <2>1, <2>2, OverStays
  <2>4. QED
    BY <1>2, <1>3, <2>1, <2>3 DEF N, M
<1>13. CASE M <= N
  <2>1. Alike(g[M], A, h[M], B) /\ M \in 0..N
    BY <1>4, <1>10, <1>13 DEF T
  <2>2. Over(g[M])
    BY <1>11, <2>1 DEF Alike, Over, LastEntry
  <2>3. g[N] = g[M]
    BY <1>4, <2>1, <2>2, OverStays
  <2>4. QED
    BY <1>2, <1>3, <2>1, <2>3 DEF N, M
<1>14. QED
  BY <1>4, <1>12, <1>13
-----------------------------------------------------------------------------
(* Painting an image.                                                       *)

Pictures == [Points -> Nat]
Coloured(im, c) == {q \in Points : im[q] = c}
Repaint(im, W, to) == [q \in Points |-> IF q \in W THEN to ELSE im[q]]

\* What Fill does to an image.
LEMMA FillIs ==
  ASSUME NEW im \in Pictures, NEW p \in Points, NEW to \in Nat, NEW free, NEW s,
         free = Coloured(im, im[p]), s = Filled(free, p)
  PROVE  /\ p \in free /\ free \in SUBSET Points /\ Painted(s, free, p)
         /\ Fill(im, p, to) = [px |-> Repaint(im, free \ s.free, to),
                               runs |-> s.runs, area |-> s.area]
<1>1. p \in free /\ free \in SUBSET Points
  BY DEF Coloured
<1>2. Painted(s, free, p)
  BY <1>1, FilledFacts
<1> DEFINE R(fr, st) ==
             [px |-> [q \in Points |-> IF q \in fr /\ q \notin st.free THEN to ELSE im[q]],
              runs |-> st.runs, area |-> st.area]
<1>3. Fill(im, p, to) = With(free, LAMBDA fr : With(Filled(fr, p), LAMBDA st : R(fr, st)))
  BY DEF Fill, Coloured
<1>4. \A v : With(v, LAMBDA st : R(free, st)) = R(free, v)
  <2> HIDE DEF R
  <2>1. QED
    BY DEF With
<1>5. Fill(im, p, to) = With(Filled(free, p), LAMBDA st : R(free, st))
  <2> DEFINE G(fr) == With(Filled(fr, p), LAMBDA st : R(fr, st))
  <2>1. Fill(im, p, to) = With(free, G)
    BY <1>3
  <2> HIDE DEF G
  <2>2. With(free, G) = G(free)
    BY DEF With
  <2>3. QED
    BY <2>1, <2>2 DEF G
<1>6. Fill(im, p, to) = R(free, s)
  BY <1>4, <1>5
<1>7. [q \in Points |-> IF q \in free /\ q \notin s.free THEN to ELSE im[q]]
        = Repaint(im, free \ s.free, to)
  BY DEF Repaint
<1>8. QED
  BY <1>1, <1>2, <1>6, <1>7

\* Of some scores one is the first of the highest.
LEMMA HighestOf ==
  ASSUME NEW n \in Nat \ {0}, NEW v \in [1..n -> Int]
  PROVE  \E i \in 1..n : \A j \in 1..n : v[j] <= v[i] /\ (j < i => v[j] < v[i])
<1> DEFINE Highest(m) == \E i \in 1..m : \A j \in 1..m : v[j] <= v[i] /\ (j < i => v[j] < v[i])
           T == {k \in 0..(n - 1) : Highest(k + 1)}
<1>1. 0 \in T
  <2>1. Highest(1)
    OBVIOUS
  <2>2. QED
    BY <2>1
<1> DEFINE N == n - 1
<1>2. N \in Nat
  OBVIOUS
<1>3. ASSUME NEW k \in 0..(N - 1), k \in T PROVE k + 1 \in T
  <2>1. PICK i \in 1..(k + 1) : \A j \in 1..(k + 1) : v[j] <= v[i] /\ (j < i => v[j] < v[i])
    BY <1>3
  <2>2. Highest(k + 1 + 1)
    <3>1. CASE v[k + 2] <= v[i]
      <4>1. \A j \in 1..(k + 2) : v[j] <= v[i] /\ (j < i => v[j] < v[i])
        <5> SUFFICES ASSUME NEW j \in 1..(k + 2) PROVE v[j] <= v[i] /\ (j < i => v[j] < v[i])
          OBVIOUS
        <5>1. CASE j \in 1..(k + 1)
          BY <2>1, <5>1
        <5>2. CASE j = k + 2
          BY <3>1, <5>2
        <5>3. QED
          BY <5>1, <5>2
      <4>2. QED
        BY <4>1
    <3>2. CASE v[i] < v[k + 2]
      <4>1. \A j \in 1..(k + 2) : v[j] <= v[k + 2] /\ (j < k + 2 => v[j] < v[k + 2])
        <5> SUFFICES ASSUME NEW j \in 1..(k + 2)
                     PROVE  v[j] <= v[k + 2] /\ (j < k + 2 => v[j] < v[k + 2])
          OBVIOUS
        <5>1. v[k + 2] \in Int /\ v[i] \in Int /\ v[j] \in Int
          OBVIOUS
        <5>2. j \in 1..(k + 1) \/ j = k + 2
          OBVIOUS
        <5>3. QED
          BY <2>1, <3>2, <5>1, <5>2
      <4>2. QED
        BY <4>1
    <3>3. v[i] \in Int /\ v[k + 2] \in Int
      OBVIOUS
    <3>4. QED
      BY <3>1, <3>2, <3>3
  <2>3. QED
    BY <2>2
<1> HIDE DEF T, N
<1>4. \A k \in 0..N : k \in T
  BY <1>1, <1>3, <1>2, Induct
<1>5. N \in T
  BY <1>4, <1>2
<1>6. Highest(n)
  BY <1>5 DEF T, N
<1>7. QED
  BY <1>6

\* The ends of runs are pixels of the runs.
LEMMA EndsIn ==
  ASSUME NEW W, NEW runs \in Seq(RunSet), runs # <<>>,
         \A i \in 1..Len(runs) : Row(runs[i], runs[i].y) \subseteq W
  PROVE  Ends(runs) \in Seq(W) /\ Len(Ends(runs)) \in Nat \ {0}
<1>1. Len(runs) \in Nat \ {0}
  OBVIOUS
<1> DEFINE e(k) == LET run == runs[(k + 1) \div 2]
                   IN  <<IF k % 2 = 1 THEN run.left ELSE run.right, run.y>>
<1>2. ASSUME NEW k \in 1..(2 * Len(runs)) PROVE e(k) \in W
  <2>1. (k + 1) \div 2 \in 1..Len(runs)
    BY <1>1
  <2>2. PICK i \in 1..Len(runs) : i = (k + 1) \div 2
    BY <2>1
  <2>3. runs[i] \in RunSet
    OBVIOUS
  <2>4. <<runs[i].left, runs[i].y>> \in W /\ <<runs[i].right, runs[i].y>> \in W
    BY <2>3, RowIs
  <2>5. QED
    BY <2>2, <2>4
<1>3. Ends(runs) = [k \in 1..(2 * Len(runs)) |-> e(k)]
  BY DEF Ends
<1> HIDE DEF e
<1>4. 2 * Len(runs) \in Nat \ {0}
  BY <1>1
<1>5. QED
  BY <1>2, <1>3, <1>4

\* What it takes to paint a region over and back: the fill from its seed paints the region,
\* whichever black pixels are free beside it.
WholeAt(im, code, seed) ==
  /\ seed \in Points /\ im[seed] = code
  /\ \A B \in SUBSET Points :
       Coloured(im, code) \subseteq B /\ B \subseteq Coloured(im, code) \cup Coloured(im, Black)
         => B \ Filled(B, seed).free = Coloured(im, code)

\* Painted over, a region is black,
LEMMA PaintOver ==
  ASSUME NEW im \in Pictures, NEW code \in Nat, NEW seed, WholeAt(im, code, seed)
  PROVE  /\ Fill(im, seed, Black).px = Repaint(im, Coloured(im, code), Black)
         /\ Fill(im, seed, Black).runs \in Seq(RunSet) /\ Fill(im, seed, Black).runs # <<>>
         /\ \A i \in 1..Len(Fill(im, seed, Black).runs) :
              Row(Fill(im, seed, Black).runs[i], Fill(im, seed, Black).runs[i].y)
                \subseteq Coloured(im, code)
<1> DEFINE W == Coloured(im, code)
           s == Filled(W, seed)
<1>1. seed \in Points /\ W = Coloured(im, im[seed]) /\ W \in SUBSET Points
  BY DEF WholeAt, Coloured
<1>2. W \ s.free = W
  BY <1>1 DEF WholeAt
<1>3. Black \in Nat
  BY DEF Black
<1> HIDE DEF s
<1>4. /\ Painted(s, W, seed)
      /\ Fill(im, seed, Black) = [px |-> Repaint(im, W \ s.free, Black),
                                  runs |-> s.runs, area |-> s.area]
  BY <1>1, <1>3, FillIs DEF s
<1>5. s.runs \in Seq(RunSet) /\ s.runs # <<>>
      /\ \A i \in 1..Len(s.runs) : Row(s.runs[i], s.runs[i].y) \subseteq W
  BY <1>2, <1>4 DEF Painted, FillSet
<1>6. /\ Fill(im, seed, Black).px = Repaint(im, W, Black)
      /\ Fill(im, seed, Black).runs = s.runs
  BY <1>2, <1>4
<1>7. QED
  BY <1>5, <1>6

\* and painted back it is what it was.
LEMMA PaintBack ==
  ASSUME NEW im \in Pictures, NEW code \in Nat, NEW seed, WholeAt(im, code, seed),
         code # Black, NEW there, there = Repaint(im, Coloured(im, code), Black)
  PROVE  /\ there \in Pictures
         /\ Fill(there, seed, code).px = im
         /\ Fill(there, seed, code).runs \in Seq(RunSet) /\ Fill(there, seed, code).runs # <<>>
         /\ \A i \in 1..Len(Fill(there, seed, code).runs) :
              Row(Fill(there, seed, code).runs[i], Fill(there, seed, code).runs[i].y)
                \subseteq Coloured(im, code)
<1> DEFINE W == Coloured(im, code)
           B == Coloured(there, Black)
           s == Filled(B, seed)
<1>1. seed \in W /\ W \in SUBSET Points /\ B \in SUBSET Points
  BY DEF WholeAt, Coloured
<1>2. Black \in Nat
  BY DEF Black
<1>3. there \in Pictures
  BY <1>2 DEF Pictures, Repaint
<1>4. B = W \cup Coloured(im, Black)
  BY DEF Coloured, Repaint
<1>5. B = Coloured(there, there[seed])
  BY <1>1 DEF Repaint, Coloured
<1>6. B \ s.free = W
  BY <1>1, <1>4 DEF WholeAt
<1> HIDE DEF s
<1>7. /\ Painted(s, B, seed)
      /\ Fill(there, seed, code) = [px |-> Repaint(there, B \ s.free, code),
                                    runs |-> s.runs, area |-> s.area]
  BY <1>1, <1>3, <1>5, FillIs DEF s
<1>8. Repaint(there, W, code) = im
  BY DEF Repaint, Coloured, Pictures
<1>9. s.runs \in Seq(RunSet) /\ s.runs # <<>>
      /\ \A i \in 1..Len(s.runs) : Row(s.runs[i], s.runs[i].y) \subseteq W
  BY <1>6, <1>7 DEF Painted, FillSet
<1>10. Fill(there, seed, code).px = im /\ Fill(there, seed, code).runs = s.runs
  BY <1>6, <1>7, <1>8
<1>11. QED
  BY <1>3, <1>9, <1>10
\* One of some points is the farthest,
LEMMA FarIs ==
  ASSUME NEW pts \in Seq(Points), Len(pts) \in Nat \ {0}, NEW ref \in Points
  PROVE  \E i \in DOMAIN pts :
           \A j \in DOMAIN pts : /\ Distance2(pts[j], ref) <= Distance2(pts[i], ref)
                                 /\ j < i => Distance2(pts[j], ref) < Distance2(pts[i], ref)
<1> DEFINE v == [i \in 1..Len(pts) |-> Distance2(pts[i], ref)]
<1>1. ASSUME NEW p \in Points PROVE Distance2(p, ref) \in Int
  <2>1. p[1] \in Int /\ p[2] \in Int /\ ref[1] \in Int /\ ref[2] \in Int
    BY PointsAre DEF Xs, Ys
  <2>2. \A a, b, c, e \in Int : (a - b) * (a - b) + (c - e) * (c - e) \in Int
    OBVIOUS
  <2>3. QED
    BY <2>1, <2>2 DEF Distance2
<1>2. \A i \in 1..Len(pts) : v[i] = Distance2(pts[i], ref)
  OBVIOUS
<1>3. v \in [1..Len(pts) -> Int]
  BY <1>1
<1> HIDE DEF v
<1>4. PICK i \in 1..Len(pts) :
        \A j \in 1..Len(pts) : v[j] <= v[i] /\ (j < i => v[j] < v[i])
  BY <1>3, HighestOf
<1>5. \A j \in 1..Len(pts) : /\ Distance2(pts[j], ref) <= Distance2(pts[i], ref)
                             /\ j < i => Distance2(pts[j], ref) < Distance2(pts[i], ref)
  BY <1>2, <1>4
<1>6. DOMAIN pts = 1..Len(pts)
  OBVIOUS
<1>7. QED
  BY <1>5, <1>6

\* one the farthest in a direction.
LEMMA TowardIs ==
  ASSUME NEW pts \in Seq(Points), Len(pts) \in Nat \ {0}, NEW d \in Int \X Int, NEW k \in 1..4
  PROVE  \E i \in DOMAIN pts :
           \A j \in DOMAIN pts : /\ Toward(d, pts[j], k) <= Toward(d, pts[i], k)
                                 /\ j < i => Toward(d, pts[j], k) < Toward(d, pts[i], k)
<1> DEFINE v == [i \in 1..Len(pts) |-> Toward(d, pts[i], k)]
<1>1. ASSUME NEW p \in Points PROVE Toward(d, p, k) \in Int
  <2>1. p[1] \in Int /\ p[2] \in Int /\ d[1] \in Int /\ d[2] \in Int
    BY PointsAre DEF Xs, Ys
  <2>2. \A a, b, c, e \in Int : a * b + c * e \in Int /\ a * b - c * e \in Int
                                /\ -(a * b + c * e) \in Int
    OBVIOUS
  <2>3. k = 1 \/ k = 2 \/ k = 3 \/ k = 4
    OBVIOUS
  <2>4. CASE k = 1
    BY <2>1, <2>2, <2>4 DEF Toward
  <2>5. CASE k = 2
    BY <2>1, <2>2, <2>5 DEF Toward
  <2>6. CASE k = 3
    BY <2>1, <2>2, <2>6 DEF Toward
  <2>7. CASE k = 4
    BY <2>1, <2>2, <2>7 DEF Toward
  <2>8. QED
    BY <2>3, <2>4, <2>5, <2>6, <2>7
<1>2. \A i \in 1..Len(pts) : v[i] = Toward(d, pts[i], k)
  OBVIOUS
<1>3. v \in [1..Len(pts) -> Int]
  BY <1>1
<1> HIDE DEF v
<1>4. PICK i \in 1..Len(pts) :
        \A j \in 1..Len(pts) : v[j] <= v[i] /\ (j < i => v[j] < v[i])
  BY <1>3, HighestOf
<1>5. \A j \in 1..Len(pts) : /\ Toward(d, pts[j], k) <= Toward(d, pts[i], k)
                             /\ j < i => Toward(d, pts[j], k) < Toward(d, pts[i], k)
  BY <1>2, <1>4
<1>6. DOMAIN pts = 1..Len(pts)
  OBVIOUS
<1>7. QED
  BY <1>5, <1>6

\* Looking for the corners of a region leaves the image as it is, and they lie in the region.
LEMMA SameImage ==
  ASSUME NEW im \in Pictures, NEW code \in Nat, NEW seed, WholeAt(im, code, seed),
         code # Black, NEW ref \in Points
  PROVE  /\ FindCorners(im, code, seed, ref).px = im
         /\ FindCorners(im, code, seed, ref).corners \in [1..4 -> Coloured(im, code)]
<1> DEFINE W == Coloured(im, code)
           Far(runs) == Best(LAMBDA p : Distance2(p, ref), Ends(runs))
           Score(far, p, j) == Toward(<<far[1] - ref[1], far[2] - ref[2]>>, p, j)
           Corners(far, runs) == [j \in 1..4 |-> Best(LAMBDA p : Score(far, p, j),
                                                      <<seed>> \o Ends(runs))]
           Give(far, back) == [px |-> back.px, corners |-> Corners(far, back.runs)]
           there == Fill(im, seed, Black)
           far == Far(there.runs)
           back == Fill(there.px, seed, code)
<1>1. FindCorners(im, code, seed, ref) = Give(far, back)
  <2> DEFINE G2(t, f) == With(Fill(t.px, seed, code), LAMBDA b : Give(f, b))
             G1(t) == With(Far(t.runs), LAMBDA f : G2(t, f))
  <2>1. FindCorners(im, code, seed, ref) = With(there, G1)
    BY DEF FindCorners, BackFrom
  <2>2. With(there, G1) = G1(there)
    <3> HIDE DEF G1, there
    <3>1. QED
      BY DEF With
  <2>3. G1(there) = G2(there, far)
    <3> HIDE DEF G2, there, Far
    <3>1. QED
      BY DEF With
  <2>4. G2(there, far) = Give(far, back)
    <3> HIDE DEF there, far, Give
    <3>1. QED
      BY DEF With
  <2>5. QED
    BY <2>1, <2>2, <2>3, <2>4
<1>2. seed \in W /\ W \in SUBSET Points
  BY DEF WholeAt, Coloured
<1>3. /\ there.px = Repaint(im, W, Black)
      /\ there.runs \in Seq(RunSet) /\ there.runs # <<>>
      /\ \A i \in 1..Len(there.runs) : Row(there.runs[i], there.runs[i].y) \subseteq W
  BY PaintOver
<1>4. /\ back.px = im
      /\ back.runs \in Seq(RunSet) /\ back.runs # <<>>
      /\ \A i \in 1..Len(back.runs) : Row(back.runs[i], back.runs[i].y) \subseteq W
  <2> HIDE DEF there
  <2>1. QED
    BY <1>3, PaintBack
<1> HIDE DEF W, there, back
<1>5. far \in W
  <2> DEFINE pts == Ends(there.runs)
  <2>1. pts \in Seq(W) /\ pts \in Seq(Points) /\ Len(pts) \in Nat \ {0}
    BY <1>2, <1>3, EndsIn
  <2>2. far = Best(LAMBDA p : Distance2(p, ref), pts)
    OBVIOUS
  <2> HIDE DEF pts, far
  <2> DEFINE Is(i) == \A j \in DOMAIN pts :
                        /\ Distance2(pts[j], ref) <= Distance2(pts[i], ref)
                        /\ j < i => Distance2(pts[j], ref) < Distance2(pts[i], ref)
  <2>3. far = pts[CHOOSE i \in DOMAIN pts : Is(i)]
    BY <2>2 DEF Best
  <2>4. \E i \in DOMAIN pts : Is(i)
    BY <2>1, FarIs
  <2> HIDE DEF Is
  <2>5. QED
    BY <2>1, <2>3, <2>4
<1>6. ASSUME NEW j \in 1..4 PROVE Corners(far, back.runs)[j] \in W
  <2> DEFINE d == <<far[1] - ref[1], far[2] - ref[2]>>
             pts == <<seed>> \o Ends(back.runs)
  <2>1. Ends(back.runs) \in Seq(W) /\ Len(Ends(back.runs)) \in Nat
    BY <1>4, EndsIn
  <2>2. <<seed>> \in Seq(W)
    BY <1>2
  <2>3. pts \in Seq(W) /\ Len(pts) = 1 + Len(Ends(back.runs))
    <3> HIDE DEF pts
    <3>1. QED
      BY <2>1, <2>2 DEF pts
  <2>4. d \in Int \X Int
    <3>1. far \in Points
      BY <1>2, <1>5
    <3> HIDE DEF far
    <3>2. far[1] \in Int /\ far[2] \in Int /\ ref[1] \in Int /\ ref[2] \in Int
      BY <3>1, PointsAre DEF Xs, Ys
    <3>3. QED
      BY <3>2
  <2> HIDE DEF d, pts
  <2>5. Len(pts) \in Nat \ {0} /\ pts \in Seq(Points)
    BY <1>2, <2>1, <2>3
  <2> DEFINE Is(i) == \A k \in DOMAIN pts :
                        /\ Toward(d, pts[k], j) <= Toward(d, pts[i], j)
                        /\ k < i => Toward(d, pts[k], j) < Toward(d, pts[i], j)
  <2>6. Corners(far, back.runs)[j] = Best(LAMBDA p : Toward(d, p, j), pts)
    BY DEF d, pts
  <2>7. Best(LAMBDA p : Toward(d, p, j), pts) = pts[CHOOSE i \in DOMAIN pts : Is(i)]
    BY DEF Best
  <2>8. \E i \in DOMAIN pts : Is(i)
    BY <2>4, <2>5, TowardIs
  <2> HIDE DEF Is
  <2>9. QED
    BY <2>3, <2>6, <2>7, <2>8
<1>7. Corners(far, back.runs) \in [1..4 -> W]
  <2> HIDE DEF far
  <2>1. QED
    BY <1>6
<1>8. QED
  BY <1>1, <1>4, <1>7 DEF W

-----------------------------------------------------------------------------
(* The decoder: an image, its regions and its capstones.                    *)

Region == [seed : Points, count : Nat, capstone : Nat]
Capstone == [ring : Nat, stone : Nat, grid : Nat, corners : [1..4 -> Points]]
Decoders == [px : Pictures, regions : Seq(Region), capstones : Seq(Capstone)]

Parts(s, n) == {i \in DOMAIN s.regions : s.regions[i].capstone = n}

\* A pixel that is no colour is part of a region;
Coded(s) ==
  \A q \in Points : s.px[q] \in {White, Black} \/ RegionOf(s.px[q]) \in DOMAIN s.regions
\* a region is whole, and has a seed it can be painted from;
Wholes(s) ==
  \A i \in DOMAIN s.regions :
    /\ WholeAt(s.px, CodeOf(i), s.regions[i].seed)
    /\ s.regions[i].count = Cardinality(Coloured(s.px, CodeOf(i)))
    /\ s.regions[i].capstone <= Len(s.capstones)
\* and a capstone is made of two.
Finders(s) ==
  \A n \in DOMAIN s.capstones :
    /\ Parts(s, n) = {RegionOf(s.capstones[n].ring), RegionOf(s.capstones[n].stone)}
    /\ s.capstones[n].ring # s.capstones[n].stone
    /\ \A j \in 1..4 : s.px[s.capstones[n].corners[j]] = s.capstones[n].ring

Good(s) == s \in Decoders /\ Coded(s) /\ Wholes(s) /\ Finders(s)

\* t has the capstones of s with their grids; those it has more have none.
Extends(s, t) ==
  /\ Len(s.capstones) <= Len(t.capstones)
  /\ \A n \in DOMAIN t.capstones :
       t.capstones[n].grid = IF n \in DOMAIN s.capstones THEN s.capstones[n].grid ELSE 0

IsCode(s, code) == code \in Nat /\ code >= FirstCode /\ RegionOf(code) \in DOMAIN s.regions

\* Codes and regions.
LEMMA Codes ==
  /\ White = 0 /\ Black = 1 /\ FirstCode = 2
  /\ \A i \in Nat \ {0} : /\ CodeOf(i) \in Nat /\ CodeOf(i) >= FirstCode /\ RegionOf(CodeOf(i)) = i
                          /\ CodeOf(i) # White /\ CodeOf(i) # Black
  /\ \A c \in Nat : CodeOf(RegionOf(c)) = c
BY DEF White, Black, FirstCode, CodeOf, RegionOf

\* A region stays whole while its pixels do and no pixel turns black.
LEMMA WholeStays ==
  ASSUME NEW im, NEW there, NEW code, NEW seed, WholeAt(im, code, seed),
         Coloured(there, code) = Coloured(im, code),
         Coloured(there, Black) \subseteq Coloured(im, Black)
  PROVE  WholeAt(there, code, seed)
<1>1. seed \in Coloured(im, code)
  BY DEF WholeAt, Coloured
<1>2. seed \in Points /\ there[seed] = code
  BY <1>1 DEF Coloured
<1>3. Coloured(there, code) \cup Coloured(there, Black)
        \subseteq Coloured(im, code) \cup Coloured(im, Black)
  OBVIOUS
<1>4. QED
  BY <1>2, <1>3 DEF WholeAt

\* A region that is made of black pixels is whole.
LEMMA NewWhole ==
  ASSUME NEW im \in Pictures, NEW p \in Points, im[p] = Black, NEW code \in Nat,
         code # Black, Coloured(im, code) = {}, NEW there, NEW count,
         there = Fill(im, p, code).px, count = Fill(im, p, code).area
  PROVE  /\ there \in Pictures /\ WholeAt(there, code, p)
         /\ count = Cardinality(Coloured(there, code)) /\ count \in Nat
         /\ \A q \in Points : there[q] = im[q] \/ (im[q] = Black /\ there[q] = code)
<1> DEFINE A == Coloured(im, Black)
           s == Filled(A, p)
           W == A \ s.free
<1>1. /\ p \in A /\ A \in SUBSET Points /\ Painted(s, A, p)
      /\ there = Repaint(im, W, code) /\ count = s.area
  <2> DEFINE f == Fill(im, p, code)
  <2>1. /\ p \in A /\ A \in SUBSET Points /\ Painted(s, A, p)
        /\ f = [px |-> Repaint(im, W, code), runs |-> s.runs, area |-> s.area]
    BY FillIs
  <2> HIDE DEF A, s, W, f
  <2>2. there = f.px /\ count = f.area
    BY DEF f
  <2>3. QED
    BY <2>1, <2>2
<1>2. W \in SUBSET Points /\ p \in W /\ s.area = Cardinality(W) /\ s.area \in Nat
  <2> HIDE DEF s
  <2>1. s \in FillSet /\ p \in A \ s.free /\ s.area = Cardinality(A \ s.free)
    BY <1>1 DEF Painted
  <2>2. QED
    BY <1>1, <2>1 DEF FillSet
<1>3. ASSUME NEW B \in SUBSET Points, W \subseteq B, B \subseteq A
      PROVE  B \ Filled(B, p).free = W
  <2>1. B \in SUBSET A /\ A \ Filled(A, p).free \subseteq B
    BY <1>3
  <2> HIDE DEF A
  <2>2. Alike(Filled(A, p), A, Filled(B, p), B)
    BY <1>1, <2>1, Refilled
  <2>3. QED
    BY <2>2 DEF Alike
<1> HIDE DEF s, W
<1>4. W \subseteq A
  BY DEF W
<1>5. \A q \in Points : there[q] = IF q \in W THEN code ELSE im[q]
  BY <1>1 DEF Repaint
<1>6. there \in Pictures
  BY <1>1 DEF Repaint, Pictures
<1>7. Coloured(there, code) = W
  BY <1>2, <1>5 DEF Coloured
<1>8. Coloured(there, Black) \cup W \subseteq A
  BY <1>4, <1>5 DEF Coloured
<1>9. WholeAt(there, code, p)
  BY <1>2, <1>3, <1>5, <1>7, <1>8 DEF WholeAt
<1>10. \A q \in Points : there[q] = im[q] \/ (im[q] = Black /\ there[q] = code)
  BY <1>4, <1>5 DEF Coloured
<1>11. QED
  BY <1>1, <1>2, <1>6, <1>7, <1>9, <1>10

\* Looking up a region, or making one, keeps the decoder good.
LEMMA CodeAtIs ==
  ASSUME NEW s, Good(s), NEW p
  PROVE  /\ Good(CodeAt(s, p).s) /\ CodeAt(s, p).s.capstones = s.capstones
         /\ CodeAt(s, p).code = 0 \/ IsCode(CodeAt(s, p).s, CodeAt(s, p).code)
         /\ Len(s.regions) <= Len(CodeAt(s, p).s.regions)
         /\ CodeAt(s, p) \in [s : Decoders, code : Nat]
<1> DEFINE n == Len(s.regions) + 1
           code == CodeOf(n)
<1>1. s \in Decoders /\ s.px \in Pictures /\ s.regions \in Seq(Region)
      /\ s.capstones \in Seq(Capstone)
  BY DEF Good, Decoders
<1>2. n \in Nat \ {0} /\ DOMAIN s.regions = 1..(n - 1) /\ Len(s.regions) = n - 1
  BY <1>1
<1>3. CASE CodeAt(s, p) = [s |-> s, code |-> 0]
  BY <1>1, <1>2, <1>3
<1>4. CASE p \in Points /\ s.px[p] # White /\ s.px[p] >= FirstCode
  <2>1. CodeAt(s, p) = [s |-> s, code |-> s.px[p]]
    BY <1>4 DEF CodeAt
  <2>2. s.px[p] \in Nat /\ s.px[p] # Black
    BY <1>1, <1>4, Codes DEF Pictures
  <2>3. RegionOf(s.px[p]) \in DOMAIN s.regions
    BY <1>4, <2>2 DEF Good, Coded
  <2>4. QED
    BY <1>1, <1>2, <1>4, <2>1, <2>2, <2>3 DEF IsCode
<1>5. CASE /\ p \in Points /\ s.px[p] # White /\ ~(s.px[p] >= FirstCode)
           /\ ~(CodeOf(Len(s.regions)) + 1 >= MaxRegions)
  <2> DEFINE fill == Fill(s.px, p, code)
             new == [seed |-> p, count |-> fill.area, capstone |-> 0]
             t == [s EXCEPT !.px = fill.px, !.regions = Append(@, new)]
  <2>1. CodeAt(s, p) = [s |-> t, code |-> code]
    <3> DEFINE G(f) == [s |-> [s EXCEPT !.px = f.px,
                                 !.regions = Append(@, [seed |-> p, count |-> f.area,
                                                        capstone |-> 0])],
                        code |-> code]
    <3>1. CodeAt(s, p) = With(fill, G)
      BY <1>5 DEF CodeAt
    <3>2. With(fill, G) = G(fill)
      <4> HIDE DEF G, fill
      <4>1. QED
        BY DEF With
    <3>3. QED
      BY <3>1, <3>2
  <2>2. s.px[p] = Black /\ code \in Nat /\ code # Black /\ code >= FirstCode /\ code # White
    <3>1. s.px[p] \in Nat
      BY <1>1, <1>5 DEF Pictures
    <3>2. s.px[p] = Black
      BY <1>5, <3>1 DEF White, Black, FirstCode
    <3>3. QED
      BY <1>2, <3>2, Codes
  <2>3. Coloured(s.px, code) = {}
    <3>1. ~(code \in {White, Black}) /\ RegionOf(code) = n
      BY <1>2, <2>2, Codes
    <3>2. n \notin DOMAIN s.regions
      BY <1>2
    <3>3. QED
      BY <3>1, <3>2 DEF Good, Coded, Coloured
  <2> HIDE DEF code
  <2>4. /\ fill.px \in Pictures /\ WholeAt(fill.px, code, p)
        /\ fill.area = Cardinality(Coloured(fill.px, code)) /\ fill.area \in Nat
        /\ \A q \in Points : fill.px[q] = s.px[q] \/ (s.px[q] = Black /\ fill.px[q] = code)
    BY <1>1, <1>5, <2>2, <2>3, NewWhole
  <2> HIDE DEF fill
  <2>5. new \in Region /\ new.seed = p /\ new.count = fill.area /\ new.capstone = 0
    BY <1>5, <2>4 DEF Region
  <2> HIDE DEF new
  <2>6. /\ t \in Decoders /\ t.px = fill.px /\ t.regions = Append(s.regions, new)
        /\ t.capstones = s.capstones
    <3>1. Append(s.regions, new) \in Seq(Region)
      BY <1>1, <2>5
    <3> DEFINE more == Append(s.regions, new)
    <3> HIDE DEF more
    <3>2. t = [s EXCEPT !.px = fill.px, !.regions = more]
      BY DEF more
    <3> HIDE DEF t
    <3>3. /\ t \in Decoders /\ t.px = fill.px /\ t.regions = more
          /\ t.capstones = s.capstones
      BY <1>1, <2>4, <3>1, <3>2 DEF Decoders, more
    <3>4. QED
      BY <3>3 DEF more
  <2>7. /\ DOMAIN t.regions = 1..n /\ t.regions[n] = new /\ Len(t.regions) = n
        /\ \A i \in 1..(n - 1) : t.regions[i] = s.regions[i]
    BY <1>1, <1>2, <2>5, <2>6
  <2> HIDE DEF t, n
  <2>8. n \in DOMAIN t.regions /\ RegionOf(code) = n
    <3>1. RegionOf(code) = n
      BY <1>2, Codes DEF code
    <3>2. QED
      BY <1>2, <2>7, <3>1
  <2>9. Coded(t)
    <3> SUFFICES ASSUME NEW q \in Points
                 PROVE  t.px[q] \in {White, Black} \/ RegionOf(t.px[q]) \in DOMAIN t.regions
      BY DEF Coded
    <3>1. t.px[q] = code => RegionOf(t.px[q]) \in DOMAIN t.regions
      BY <2>8
    <3>2. DOMAIN s.regions \subseteq DOMAIN t.regions
      BY <1>2, <2>7
    <3>3. t.px[q] = s.px[q] => t.px[q] \in {White, Black} \/ RegionOf(t.px[q]) \in DOMAIN t.regions
      BY <3>2 DEF Good, Coded
    <3>4. QED
      BY <2>4, <2>6, <3>1, <3>3
  <2>10. Wholes(t)
    <3> SUFFICES ASSUME NEW i \in DOMAIN t.regions
                 PROVE  /\ WholeAt(t.px, CodeOf(i), t.regions[i].seed)
                        /\ t.regions[i].count = Cardinality(Coloured(t.px, CodeOf(i)))
                        /\ t.regions[i].capstone <= Len(t.capstones)
      BY DEF Wholes
    <3>1. CASE i = n
      <4>1. 0 <= Len(t.capstones)
        BY <1>1, <2>6
      <4>2. QED
        BY <2>4, <2>5, <2>6, <2>7, <3>1, <4>1 DEF code
    <3>2. CASE i # n
      <4>1. i \in 1..(n - 1) /\ i \in DOMAIN s.regions /\ i \in Nat \ {0}
        BY <1>2, <2>7, <3>2
      <4>2. CodeOf(i) # Black /\ CodeOf(i) # code /\ RegionOf(CodeOf(i)) = i
        BY <1>2, <2>8, <3>2, <4>1, Codes
      <4>3. Coloured(t.px, CodeOf(i)) = Coloured(s.px, CodeOf(i))
        BY <2>4, <2>6, <4>2 DEF Coloured
      <4>4. Coloured(t.px, Black) \subseteq Coloured(s.px, Black)
        BY <2>2, <2>4, <2>6 DEF Coloured
      <4>5. /\ WholeAt(s.px, CodeOf(i), s.regions[i].seed)
            /\ s.regions[i].count = Cardinality(Coloured(s.px, CodeOf(i)))
            /\ s.regions[i].capstone <= Len(s.capstones)
        BY <4>1 DEF Good, Wholes
      <4>6. WholeAt(t.px, CodeOf(i), s.regions[i].seed)
        BY <4>3, <4>4, <4>5, WholeStays
      <4>7. t.regions[i] = s.regions[i]
        BY <2>7, <4>1
      <4>8. QED
        BY <2>6, <4>3, <4>5, <4>6, <4>7
    <3>3. QED
      BY <3>1, <3>2
  <2>11. Finders(t)
    <3> SUFFICES ASSUME NEW m \in DOMAIN t.capstones
                 PROVE  /\ Parts(t, m) = {RegionOf(t.capstones[m].ring),
                                          RegionOf(t.capstones[m].stone)}
                        /\ t.capstones[m].ring # t.capstones[m].stone
                        /\ \A j \in 1..4 : t.px[t.capstones[m].corners[j]] = t.capstones[m].ring
      BY DEF Finders
    <3>1. m \in Nat \ {0} /\ m \in DOMAIN s.capstones
      BY <1>1, <2>6
    <3> DEFINE c == s.capstones[m]
    <3>2. /\ Parts(s, m) = {RegionOf(c.ring), RegionOf(c.stone)} /\ c.ring # c.stone
          /\ \A j \in 1..4 : s.px[c.corners[j]] = c.ring
      BY <3>1 DEF Good, Finders
    <3>3. c \in Capstone
      BY <1>1, <3>1
    <3> HIDE DEF c
    <3>4. \A i \in DOMAIN t.regions : t.regions[i].capstone = m <=> i \in Parts(s, m)
      <4> SUFFICES ASSUME NEW i \in DOMAIN t.regions
                   PROVE  t.regions[i].capstone = m <=> i \in Parts(s, m)
        OBVIOUS
      <4>1. CASE i = n
        <5>1. n \notin DOMAIN s.regions
          BY <1>2
        <5>2. QED
          BY <2>5, <2>7, <3>1, <4>1, <5>1 DEF Parts
      <4>2. CASE i # n
        <5>1. i \in 1..(n - 1) /\ i \in DOMAIN s.regions
          BY <1>2, <2>7, <4>2
        <5>2. QED
          BY <2>7, <5>1 DEF Parts
      <4>3. QED
        BY <4>1, <4>2
    <3>5. Parts(s, m) \subseteq DOMAIN t.regions
      BY <1>2, <2>7 DEF Parts
    <3>6. Parts(t, m) = Parts(s, m)
      BY <3>4, <3>5 DEF Parts
    <3>7. c.ring # Black
      <4>1. RegionOf(c.ring) \in DOMAIN s.regions
        BY <3>2 DEF Parts
      <4>2. RegionOf(Black) \notin DOMAIN s.regions
        BY <1>2 DEF RegionOf, Black, FirstCode
      <4>3. QED
        BY <4>1, <4>2
    <3>8. ASSUME NEW j \in 1..4 PROVE t.px[c.corners[j]] = c.ring
      <4>1. c.corners[j] \in Points /\ s.px[c.corners[j]] = c.ring
        BY <3>2, <3>3 DEF Capstone
      <4>2. QED
        BY <2>4, <2>6, <3>7, <4>1
    <3>9. t.capstones[m] = c
      BY <2>6 DEF c
    <3>10. QED
      BY <3>2, <3>6, <3>8, <3>9
  <2>12. Good(t)
    BY <2>6, <2>9, <2>10, <2>11 DEF Good
  <2>13. IsCode(t, code)
    BY <2>2, <2>8 DEF IsCode
  <2>14. Len(s.regions) <= Len(t.regions)
    BY <1>2, <2>7
  <2>15. QED
    BY <2>1, <2>2, <2>6, <2>12, <2>13, <2>14
<1>6. \/ CodeAt(s, p) = [s |-> s, code |-> 0]
      \/ p \in Points /\ s.px[p] # White /\ s.px[p] >= FirstCode
      \/ /\ p \in Points /\ s.px[p] # White /\ ~(s.px[p] >= FirstCode)
         /\ ~(CodeOf(Len(s.regions)) + 1 >= MaxRegions)
  BY DEF CodeAt
<1>7. QED
  BY <1>3, <1>4, <1>5, <1>6

\* Recording a capstone of two regions that are part of none keeps the decoder good.
LEMMA WithCapstoneIs ==
  ASSUME NEW s, Good(s), NEW ring, NEW stone, IsCode(s, ring), IsCode(s, stone), ring # stone,
         s.regions[RegionOf(ring)].capstone = 0, s.regions[RegionOf(stone)].capstone = 0
  PROVE  Good(WithCapstone(s, ring, stone)) /\ Extends(s, WithCapstone(s, ring, stone))
<1> DEFINE n == Len(s.capstones) + 1
           a == RegionOf(ring)
           b == RegionOf(stone)
           found == FindCorners(s.px, ring, s.regions[a].seed, s.regions[b].seed)
           new == [ring |-> ring, stone |-> stone, grid |-> 0, corners |-> found.corners]
           marked == [s.regions EXCEPT ![b].capstone = n, ![a].capstone = n]
           t == [px |-> found.px, regions |-> marked, capstones |-> Append(s.capstones, new)]
<1>1. s \in Decoders /\ s.px \in Pictures /\ s.regions \in Seq(Region)
      /\ s.capstones \in Seq(Capstone)
  BY DEF Good, Decoders
<1>2. n \in Nat \ {0} /\ DOMAIN s.capstones = 1..(n - 1) /\ Len(s.capstones) = n - 1
  BY <1>1
<1>3. /\ a \in DOMAIN s.regions /\ b \in DOMAIN s.regions /\ a # b /\ a \in Nat \ {0}
      /\ ring \in Nat /\ stone \in Nat /\ ring # Black /\ CodeOf(a) = ring
  <2>1. ring \in Nat /\ stone \in Nat /\ CodeOf(a) = ring /\ CodeOf(b) = stone /\ ring # Black
    BY Codes DEF IsCode
  <2>2. a # b
    BY <2>1
  <2>3. a \in DOMAIN s.regions /\ b \in DOMAIN s.regions
    BY DEF IsCode
  <2>4. DOMAIN s.regions \subseteq Nat \ {0}
    BY <1>1
  <2>5. QED
    BY <2>1, <2>2, <2>3, <2>4
<1>4. ASSUME NEW i \in DOMAIN s.regions
      PROVE  s.regions[i] \in Region /\ s.regions[i].seed \in Points
             /\ s.regions[i].capstone \in Nat
  <2>1. s.regions[i] \in Region
    BY <1>1
  <2>2. QED
    BY <2>1 DEF Region
<1>5. CASE n > MaxCapstones
  <2>1. WithCapstone(s, ring, stone) = s
    BY <1>5 DEF WithCapstone
  <2>2. Extends(s, s)
    BY <1>2 DEF Extends
  <2>3. QED
    BY <2>1, <2>2
<1>6. CASE ~(n > MaxCapstones)
  <2>1. WithCapstone(s, ring, stone) = t
    <3> DEFINE G(f) == [px |-> f.px, regions |-> marked,
                        capstones |-> Append(s.capstones,
                                             [ring |-> ring, stone |-> stone, grid |-> 0,
                                              corners |-> f.corners])]
    <3>1. WithCapstone(s, ring, stone) = With(found, G)
      BY <1>6 DEF WithCapstone
    <3>2. With(found, G) = G(found)
      <4> HIDE DEF G, found
      <4>1. QED
        BY DEF With
    <3>3. QED
      BY <3>1, <3>2
  <2>2. found.px = s.px /\ found.corners \in [1..4 -> Coloured(s.px, ring)]
    <3>1. WholeAt(s.px, ring, s.regions[a].seed)
      BY <1>3 DEF Good, Wholes
    <3>2. s.regions[b] \in Region /\ s.regions[b].seed \in Points
      BY <1>3, <1>4
    <3>3. QED
      BY <1>1, <1>3, <3>1, <3>2, SameImage
  <2> HIDE DEF found
  <2>3. new \in Capstone
    <3>1. Coloured(s.px, ring) \subseteq Points
      BY DEF Coloured
    <3>2. found.corners \in [1..4 -> Points]
      BY <2>2, <3>1
    <3>3. QED
      BY <1>3, <3>2 DEF Capstone
  <2>4. /\ new.ring = ring /\ new.stone = stone /\ new.grid = 0
        /\ \A j \in 1..4 : s.px[new.corners[j]] = ring
    BY <2>2 DEF Coloured
  <2> HIDE DEF new
  <2>5. /\ marked \in Seq(Region) /\ DOMAIN marked = DOMAIN s.regions
        /\ \A i \in DOMAIN s.regions :
             /\ marked[i].seed = s.regions[i].seed /\ marked[i].count = s.regions[i].count
             /\ marked[i].capstone = IF i \in {a, b} THEN n ELSE s.regions[i].capstone
    <3> HIDE DEF a, b, n
    <3> DEFINE R == [i \in DOMAIN s.regions |->
                      IF i \in {a, b} THEN [s.regions[i] EXCEPT !.capstone = n]
                      ELSE s.regions[i]]
    <3>1. marked = R
      BY <1>3
    <3>2. \A i \in DOMAIN s.regions : s.regions[i] \in Region
      BY <1>1
    <3>3. ASSUME NEW i \in DOMAIN s.regions
          PROVE  /\ R[i] \in Region
                 /\ R[i].seed = s.regions[i].seed /\ R[i].count = s.regions[i].count
                 /\ R[i].capstone = IF i \in {a, b} THEN n ELSE s.regions[i].capstone
      <4>1. CASE i \in {a, b}
        <5>1. R[i] = [s.regions[i] EXCEPT !.capstone = n]
          BY <4>1
        <5>2. QED
          BY <1>2, <3>2, <4>1, <5>1 DEF Region
      <4>2. CASE i \notin {a, b}
        BY <3>2, <4>2
      <4>3. QED
        BY <4>1, <4>2
    <3>4. DOMAIN s.regions = 1..Len(s.regions) /\ Len(s.regions) \in Nat
      BY <1>1
    <3> HIDE DEF marked
    <3>5. R \in [1..Len(s.regions) -> Region]
      BY <3>3, <3>4
    <3>6. R \in Seq(Region) /\ DOMAIN R = DOMAIN s.regions
      BY <3>4, <3>5
    <3> HIDE DEF R
    <3>7. QED
      BY <3>1, <3>3, <3>6
  <2> HIDE DEF marked
  <2>6. /\ t \in Decoders /\ t.px = s.px /\ t.regions = marked
        /\ t.capstones = Append(s.capstones, new)
    <3>1. Append(s.capstones, new) \in Seq(Capstone)
      BY <1>1, <2>3
    <3>2. QED
      BY <1>1, <2>2, <2>5, <3>1 DEF Decoders
  <2>7. /\ DOMAIN t.capstones = 1..n /\ Len(t.capstones) = n /\ t.capstones[n] = new
        /\ \A m \in 1..(n - 1) : t.capstones[m] = s.capstones[m]
    BY <1>1, <1>2, <2>3, <2>6
  <2> HIDE DEF t, n
  <2>8. Coded(t)
    BY <2>5, <2>6 DEF Good, Coded
  <2>9. Wholes(t)
    <3> SUFFICES ASSUME NEW i \in DOMAIN t.regions
                 PROVE  /\ WholeAt(t.px, CodeOf(i), t.regions[i].seed)
                        /\ t.regions[i].count = Cardinality(Coloured(t.px, CodeOf(i)))
                        /\ t.regions[i].capstone <= Len(t.capstones)
      BY DEF Wholes
    <3>1. i \in DOMAIN s.regions
      BY <2>5, <2>6
    <3>2. /\ WholeAt(s.px, CodeOf(i), s.regions[i].seed)
          /\ s.regions[i].count = Cardinality(Coloured(s.px, CodeOf(i)))
          /\ s.regions[i].capstone <= Len(s.capstones)
      BY <3>1 DEF Good, Wholes
    <3>3. s.regions[i].capstone \in Nat
      BY <1>4, <3>1
    <3>4. t.regions[i].capstone <= n
      BY <1>2, <2>5, <2>6, <3>1, <3>2, <3>3
    <3>5. QED
      BY <2>5, <2>6, <2>7, <3>1, <3>2, <3>4
  <2>10. Finders(t)
    <3> SUFFICES ASSUME NEW m \in DOMAIN t.capstones
                 PROVE  /\ Parts(t, m) = {RegionOf(t.capstones[m].ring),
                                          RegionOf(t.capstones[m].stone)}
                        /\ t.capstones[m].ring # t.capstones[m].stone
                        /\ \A j \in 1..4 : t.px[t.capstones[m].corners[j]] = t.capstones[m].ring
      BY DEF Finders
    <3>1. CASE m = n
      <4>1. ASSUME NEW i \in DOMAIN s.regions PROVE marked[i].capstone = n <=> i \in {a, b}
        <5>1. s.regions[i].capstone <= n - 1 /\ s.regions[i].capstone \in Nat
          BY <1>2, <1>4 DEF Good, Wholes
        <5>2. s.regions[i].capstone # n
          BY <1>2, <5>1
        <5>3. QED
          BY <2>5, <5>2
      <4>2. Parts(t, n) = {a, b}
        BY <1>3, <2>5, <2>6, <4>1 DEF Parts
      <4>3. QED
        BY <2>4, <2>6, <2>7, <3>1, <4>2
    <3>2. CASE m # n
      <4>1. m \in DOMAIN s.capstones /\ t.capstones[m] = s.capstones[m] /\ m # 0
        BY <1>2, <2>7, <3>2
      <4>2. /\ Parts(s, m) = {RegionOf(s.capstones[m].ring), RegionOf(s.capstones[m].stone)}
            /\ s.capstones[m].ring # s.capstones[m].stone
            /\ \A j \in 1..4 : s.px[s.capstones[m].corners[j]] = s.capstones[m].ring
        BY <4>1 DEF Good, Finders
      <4>3. \A i \in DOMAIN s.regions : marked[i].capstone = m <=> s.regions[i].capstone = m
        BY <2>5, <3>2, <4>1
      <4>4. Parts(t, m) = Parts(s, m)
        BY <2>5, <2>6, <4>3 DEF Parts
      <4>5. QED
        BY <2>6, <4>1, <4>2, <4>4
    <3>3. QED
      BY <3>1, <3>2
  <2>11. Good(t)
    BY <2>6, <2>8, <2>9, <2>10 DEF Good
  <2>12. Extends(s, t)
    <3>1. Len(s.capstones) <= Len(t.capstones)
      BY <1>2, <2>7
    <3>2. ASSUME NEW m \in DOMAIN t.capstones
          PROVE  t.capstones[m].grid = IF m \in DOMAIN s.capstones THEN s.capstones[m].grid
                                       ELSE 0
      <4>1. CASE m = n
        <5>1. n \notin DOMAIN s.capstones
          BY <1>2
        <5>2. QED
          BY <2>4, <2>7, <4>1, <5>1
      <4>2. CASE m # n
        <5>1. m \in 1..(n - 1) /\ m \in DOMAIN s.capstones
          BY <1>2, <2>7, <4>2
        <5>2. QED
          BY <2>7, <5>1
      <4>3. QED
        BY <4>1, <4>2
    <3>3. QED
      BY <3>1, <3>2 DEF Extends
  <2>13. QED
    BY <2>1, <2>11, <2>12
<1>7. QED
  BY <1>5, <1>6

\* A code stays the code of a region while regions are added.
LEMMA CodeStays ==
  ASSUME NEW s, NEW t, Good(s), Good(t), Len(s.regions) <= Len(t.regions), NEW code,
         IsCode(s, code)
  PROVE  IsCode(t, code)
<1>1. s.regions \in Seq(Region) /\ t.regions \in Seq(Region)
  BY DEF Good, Decoders
<1>2. DOMAIN s.regions \subseteq DOMAIN t.regions
  BY <1>1
<1>3. QED
  BY <1>2 DEF IsCode

\* So does the test for a capstone.
LEMMA TestCapstoneIs ==
  ASSUME NEW s, Good(s), NEW five
  PROVE  Good(TestCapstone(s, five)) /\ Extends(s, TestCapstone(s, five))
<1> DEFINE at(i) == <<five[i].left, five[i].y>>
           Decide(t, right, stone, left) ==
             IF \/ 0 \in {right, stone, left} \/ left # right \/ left = stone
                \/ Taken(t.regions[RegionOf(left)], t.regions[RegionOf(stone)])
                \/ ~RatioOk(t.regions[RegionOf(left)], t.regions[RegionOf(stone)])
             THEN t ELSE WithCapstone(t, left, stone)
           r == CodeAt(s, at(5))
           q == CodeAt(r.s, at(3))
           l == CodeAt(q.s, at(1))
           t == l.s
<1>1. TestCapstone(s, five) = Decide(t, r.code, q.code, l.code)
  <2> DEFINE G3(x, y, z) == Decide(z.s, x.code, y.code, z.code)
             G2(x, y) == With(CodeAt(y.s, at(1)), LAMBDA z : G3(x, y, z))
             G1(x) == With(CodeAt(x.s, at(3)), LAMBDA y : G2(x, y))
  <2>1. TestCapstone(s, five) = With(r, G1)
    BY DEF TestCapstone
  <2>2. With(r, G1) = G1(r)
    <3> HIDE DEF G1, r
    <3>1. QED
      BY DEF With
  <2>3. G1(r) = G2(r, q)
    <3> HIDE DEF G2, r
    <3>1. QED
      BY DEF With
  <2>4. G2(r, q) = G3(r, q, l)
    <3> HIDE DEF G3, r, q
    <3>1. QED
      BY DEF With
  <2>5. QED
    BY <2>1, <2>2, <2>3, <2>4
<1>2. /\ Good(r.s) /\ r.s.capstones = s.capstones
      /\ r.code = 0 \/ IsCode(r.s, r.code)
  BY CodeAtIs
<1> HIDE DEF r
<1>3. /\ Good(q.s) /\ q.s.capstones = s.capstones
      /\ q.code = 0 \/ IsCode(q.s, q.code)
  BY <1>2, CodeAtIs
<1> HIDE DEF q
<1>4. /\ Good(t) /\ t.capstones = s.capstones /\ Len(q.s.regions) <= Len(t.regions)
      /\ l.code = 0 \/ IsCode(t, l.code)
  BY <1>3, CodeAtIs
<1> HIDE DEF l
<1>5. q.code = 0 \/ IsCode(t, q.code)
  BY <1>3, <1>4, CodeStays
<1> HIDE DEF t
<1>6. s.capstones \in Seq(Capstone)
  BY DEF Good, Decoders
<1>7. Extends(s, t)
  BY <1>4, <1>6 DEF Extends
<1>8. CASE TestCapstone(s, five) = t
  BY <1>4, <1>7, <1>8
<1>9. CASE /\ l.code # 0 /\ q.code # 0 /\ l.code # q.code
           /\ ~Taken(t.regions[RegionOf(l.code)], t.regions[RegionOf(q.code)])
           /\ TestCapstone(s, five) = WithCapstone(t, l.code, q.code)
  <2> DEFINE w == WithCapstone(t, l.code, q.code)
  <2>1. IsCode(t, l.code) /\ IsCode(t, q.code)
    BY <1>4, <1>5, <1>9
  <2>2. /\ t.regions[RegionOf(l.code)].capstone = 0
        /\ t.regions[RegionOf(q.code)].capstone = 0
    BY <1>9 DEF Taken
  <2>3. Good(w) /\ Extends(t, w)
    BY <1>4, <1>9, <2>1, <2>2, WithCapstoneIs
  <2> HIDE DEF w
  <2>4. Extends(s, w)
    BY <1>4, <2>3 DEF Extends
  <2>5. QED
    BY <1>9, <2>3, <2>4 DEF w
<1>10. QED
  BY <1>1, <1>8, <1>9

-----------------------------------------------------------------------------
(* The searches: folds of these operators.                                  *)

\* A function on an interval is a sequence.
LEMMA IntervalLen ==
  ASSUME NEW m \in Int, NEW q, q = [i \in 1..m |-> q[i]]
  PROVE  Len(q) \in Nat /\ DOMAIN q = 1..Len(q)
<1>1. CASE m \in Nat
  BY <1>1
<1>2. CASE m < 0
  <2>1. 1..m = 1..0
    BY <1>2
  <2>2. q \in [1..0 -> {0}]
    BY <2>1
  <2>3. q \in Seq({0})
    BY <2>2
  <2>4. \A r \in Seq({0}) : Len(r) \in Nat /\ DOMAIN r = 1..Len(r)
    OBVIOUS
  <2>5. QED
    BY <2>3, <2>4
<1>3. m \in Nat \/ m < 0
  OBVIOUS
<1>4. QED
  BY <1>1, <1>2, <1>3

\* The runs of a row are a sequence.
LEMMA RowRunsAre ==
  ASSUME NEW image, NEW y, NEW start \in Int, NEW end \in Int
  PROVE  Len(RowRuns(image, y, start, end)) \in Nat
<1> DEFINE Matches(p, q) == Dark(image[p]) = Dark(image[q])
           Same(p) == {q \in (start..(end - 1)) \X {y} : Matches(p, q)}
           The(x) == Run(Same(<<x, y>>), <<x, y>>)
           Add(runs, x) == IF x > start /\ Matches(<<x, y>>, <<x - 1, y>>) THEN runs
                           ELSE Append(runs, The(x))
           xs == [i \in 1..(end - start) |-> start + i - 1]
           N == Len(xs)
           b == <<>>
           V == Seq({The(x) : x \in Int})
<1>1. N \in Nat /\ DOMAIN xs = 1..N
  <2> DEFINE m == end - start
  <2>1. m \in Int /\ xs = [i \in 1..m |-> xs[i]]
    OBVIOUS
  <2> HIDE DEF xs, m
  <2>2. QED
    BY <2>1, IntervalLen
<1>2. ASSUME NEW k \in 1..N PROVE xs[k] \in Int
  <2>1. k \in 1..(end - start)
    BY <1>1
  <2>2. xs[k] = start + k - 1
    BY <2>1
  <2>3. QED
    BY <2>1, <2>2
<1> HIDE DEF xs, N, The
<1>3. b \in V
  OBVIOUS
<1>4. ASSUME NEW t \in V, NEW x \in Int PROVE Add(t, x) \in V
  OBVIOUS
<1> HIDE DEF V, Add, b
<1> DEFINE f == [k \in 1..N |-> [t \in V |-> Add(t, xs[k])]]
<1>5. f \in Maps(N, V)
  BY <1>2, <1>4 DEF Maps
<1>6. PICK g \in [0..N -> V] : g[0] = b /\ \A k \in 1..N : g[k] = f[k][g[k - 1]]
  <2> HIDE DEF f
  <2>1. QED
    BY <1>1, <1>3, <1>5, Iterates
<1>7. g = [k \in 0..N |-> IF k = 0 THEN b ELSE Add(g[k - 1], xs[k])]
  <2>1. ASSUME NEW k \in 0..N PROVE g[k] = IF k = 0 THEN b ELSE Add(g[k - 1], xs[k])
    <3>1. CASE k = 0
      BY <1>6, <3>1
    <3>2. CASE k # 0
      <4>1. k \in 1..N /\ k - 1 \in 0..N
        BY <1>1, <3>2
      <4>2. g[k - 1] \in V
        BY <1>6, <4>1
      <4>3. QED
        BY <1>6, <3>2, <4>1, <4>2
    <3>3. QED
      BY <3>1, <3>2
  <2>2. QED
    BY <1>6, <2>1
<1> DEFINE sum == CHOOSE u : u = [k \in 0..N |-> IF k = 0 THEN b ELSE Add(u[k - 1], xs[k])]
<1>8. sum = [k \in 0..N |-> IF k = 0 THEN b ELSE Add(sum[k - 1], xs[k])]
  BY <1>7
<1>9. RowRuns(image, y, start, end) = sum[N]
  BY DEF RowRuns, Accumulate, N, xs, Add, The, b
<1> HIDE DEF sum, f
<1>10. \A k \in 0..N : sum[k] = IF k = 0 THEN b ELSE Add(sum[k - 1], xs[k])
  BY <1>8
<1> DEFINE T == {k \in 0..N : sum[k] \in V}
<1>11. 0 \in T
  BY <1>1, <1>3, <1>10
<1>12. ASSUME NEW k \in 0..(N - 1), k \in T PROVE k + 1 \in T
  <2>1. k + 1 \in 1..N /\ k + 1 \in 0..N /\ k + 1 # 0 /\ (k + 1) - 1 = k
    BY <1>1
  <2>2. sum[k + 1] = Add(sum[k], xs[k + 1])
    BY <1>10, <2>1
  <2>3. QED
    BY <1>2, <1>4, <1>12, <2>1, <2>2
<1> HIDE DEF T
<1>13. \A k \in 0..N : k \in T
  BY <1>1, <1>11, <1>12, Induct
<1>14. sum[N] \in V
  BY <1>1, <1>13 DEF T
<1>15. QED
  BY <1>9, <1>14 DEF V

\* The scan of a row keeps the decoder good, and its grids.
LEMMA ScanRowIs ==
  ASSUME NEW s, Good(s), NEW y, NEW start \in Int, NEW end \in Int, NEW near
  PROVE  Good(ScanRow(s, y, start, end, near)) /\ Extends(s, ScanRow(s, y, start, end, near))
<1> DEFINE runs == RowRuns(s.px, y, start, end)
           Fold(rs) ==
             LET Test(t, i) ==
                   LET five == SubSeq(rs, i, i + 4)
                   IN  IF s.px[<<five[5].left, y>>] # White /\ Proportioned(five)
                          /\ five[4].left - Length(five[3]) \div 2 \in near
                       THEN With(t, LAMBDA u : TestCapstone(u, five)) ELSE t
             IN  Accumulate(Test, s, [i \in 1..(IF Len(rs) > 5 THEN Len(rs) - 5 ELSE 0) |-> i])
           Test(t, i) ==
             LET five == SubSeq(runs, i, i + 4)
             IN  IF s.px[<<five[5].left, y>>] # White /\ Proportioned(five)
                    /\ five[4].left - Length(five[3]) \div 2 \in near
                 THEN With(t, LAMBDA u : TestCapstone(u, five)) ELSE t
           is == [i \in 1..(IF Len(runs) > 5 THEN Len(runs) - 5 ELSE 0) |-> i]
           N == Len(is)
           V == {t \in Decoders : Good(t) /\ Extends(s, t)}
<1>1. ScanRow(s, y, start, end, near) = Accumulate(Test, s, is)
  <2>1. ScanRow(s, y, start, end, near) = With(runs, Fold)
    BY DEF ScanRow
  <2>2. With(runs, Fold) = Fold(runs)
    <3> HIDE DEF Fold, runs
    <3>1. QED
      BY DEF With
  <2>3. QED
    BY <2>1, <2>2
<1>2. N \in Nat
  <2>1. Len(runs) \in Nat
    BY RowRunsAre
  <2> DEFINE m == IF Len(runs) > 5 THEN Len(runs) - 5 ELSE 0
  <2>2. m \in Int
    BY <2>1
  <2> HIDE DEF m, runs
  <2>3. is = [i \in 1..m |-> is[i]]
    BY DEF m
  <2> HIDE DEF is
  <2>4. QED
    BY <2>2, <2>3, IntervalLen
<1> HIDE DEF runs, is, N
<1>3. s \in V
  <2>1. s \in Decoders /\ s.capstones \in Seq(Capstone)
    BY DEF Good, Decoders
  <2>2. Extends(s, s)
    BY <2>1 DEF Extends
  <2>3. QED
    BY <2>1, <2>2
<1>4. ASSUME NEW t \in V, NEW i PROVE Test(t, i) \in V
  <2> DEFINE five == SubSeq(runs, i, i + 4)
             u == TestCapstone(t, five)
  <2>1. With(t, LAMBDA v : TestCapstone(v, five)) = u
    BY DEF With
  <2>2. Test(t, i) = t \/ Test(t, i) = u
    BY <2>1
  <2>3. Good(u) /\ Extends(t, u)
    BY TestCapstoneIs
  <2> HIDE DEF u
  <2>4. Extends(s, u)
    <3>1. s.capstones \in Seq(Capstone) /\ t.capstones \in Seq(Capstone)
          /\ u.capstones \in Seq(Capstone)
      BY <2>3 DEF Good, Decoders
    <3>2. /\ Len(s.capstones) <= Len(u.capstones)
          /\ DOMAIN s.capstones \subseteq DOMAIN t.capstones
      BY <2>3, <3>1 DEF Extends
    <3>3. QED
      BY <2>3, <3>1, <3>2 DEF Extends
  <2>5. u \in V
    BY <2>3, <2>4 DEF Good
  <2>6. QED
    BY <2>2, <2>5
<1> HIDE DEF V, Test
<1> DEFINE f == [k \in 1..N |-> [t \in V |-> Test(t, is[k])]]
<1>5. f \in Maps(N, V)
  BY <1>4 DEF Maps
<1>6. PICK g \in [0..N -> V] : g[0] = s /\ \A k \in 1..N : g[k] = f[k][g[k - 1]]
  <2> HIDE DEF f
  <2>1. QED
    BY <1>2, <1>3, <1>5, Iterates
<1>7. g = [k \in 0..N |-> IF k = 0 THEN s ELSE Test(g[k - 1], is[k])]
  <2>1. ASSUME NEW k \in 0..N PROVE g[k] = IF k = 0 THEN s ELSE Test(g[k - 1], is[k])
    <3>1. CASE k = 0
      BY <1>6, <3>1
    <3>2. CASE k # 0
      <4>1. k \in 1..N /\ k - 1 \in 0..N
        BY <1>2, <3>2
      <4>2. g[k - 1] \in V
        BY <1>6, <4>1
      <4>3. QED
        BY <1>6, <3>2, <4>1, <4>2
    <3>3. QED
      BY <3>1, <3>2
  <2>2. QED
    BY <1>6, <2>1
<1> DEFINE sum == CHOOSE u : u = [k \in 0..N |-> IF k = 0 THEN s ELSE Test(u[k - 1], is[k])]
<1>8. sum = [k \in 0..N |-> IF k = 0 THEN s ELSE Test(sum[k - 1], is[k])]
  BY <1>7
<1>9. Accumulate(Test, s, is) = sum[N]
  BY DEF Accumulate, N
<1> HIDE DEF sum, f
<1>10. \A k \in 0..N : sum[k] = IF k = 0 THEN s ELSE Test(sum[k - 1], is[k])
  BY <1>8
<1> DEFINE T == {k \in 0..N : sum[k] \in V}
<1>11. 0 \in T
  BY <1>2, <1>3, <1>10
<1>12. ASSUME NEW k \in 0..(N - 1), k \in T PROVE k + 1 \in T
  <2>1. k + 1 \in 1..N /\ k + 1 \in 0..N /\ k + 1 # 0 /\ (k + 1) - 1 = k
    BY <1>2
  <2>2. sum[k + 1] = Test(sum[k], is[k + 1])
    BY <1>10, <2>1
  <2>3. QED
    BY <1>4, <1>12, <2>1, <2>2
<1> HIDE DEF T
<1>13. \A k \in 0..N : k \in T
  BY <1>2, <1>11, <1>12, Induct
<1>14. sum[N] \in V
  BY <1>2, <1>13 DEF T
<1>15. QED
  BY <1>1, <1>9, <1>14 DEF V

\* The points that an alignment search looks at.
Tries == UNION {[1..n -> Probes] : n \in 0..MaxProbes}

\* So does looking up the points of an alignment search.
LEMMA AlignedIs ==
  ASSUME NEW s, Good(s), NEW points \in Tries
  PROVE  /\ Good(Aligned(s, points).s) /\ Aligned(s, points).s.capstones = s.capstones
         /\ Aligned(s, points).code = 0
              \/ IsCode(Aligned(s, points).s, Aligned(s, points).code)
<1> DEFINE Look(t, p) == With(t, LAMBDA u : CodeAt(u.s, p))
           N == Len(points)
           b == [s |-> s, code |-> 0]
           V == {t \in [s : Decoders, code : Nat] :
                   /\ Good(t.s) /\ t.s.capstones = s.capstones
                   /\ t.code = 0 \/ IsCode(t.s, t.code)}
<1>1. N \in Nat
  <2>1. PICK n \in 0..MaxProbes : points \in [1..n -> Probes]
    BY DEF Tries
  <2>2. n \in Nat /\ Len(points) = n
    BY <2>1
  <2>3. QED
    BY <2>2
<1>2. b \in V
  BY DEF Good
<1>3. ASSUME NEW t \in V, NEW p PROVE Look(t, p) \in V
  <2> DEFINE u == CodeAt(t.s, p)
  <2>1. Look(t, p) = u
    BY DEF With
  <2>2. /\ Good(u.s) /\ u.s.capstones = t.s.capstones /\ u \in [s : Decoders, code : Nat]
        /\ u.code = 0 \/ IsCode(u.s, u.code)
    BY CodeAtIs
  <2> HIDE DEF u
  <2>3. QED
    BY <2>1, <2>2
<1> HIDE DEF V, Look, N, b
<1> DEFINE f == [k \in 1..N |-> [t \in V |-> Look(t, points[k])]]
<1>4. f \in Maps(N, V)
  BY <1>3 DEF Maps
<1>5. PICK g \in [0..N -> V] : g[0] = b /\ \A k \in 1..N : g[k] = f[k][g[k - 1]]
  <2> HIDE DEF f
  <2>1. QED
    BY <1>1, <1>2, <1>4, Iterates
<1>6. g = [k \in 0..N |-> IF k = 0 THEN b ELSE Look(g[k - 1], points[k])]
  <2>1. ASSUME NEW k \in 0..N PROVE g[k] = IF k = 0 THEN b ELSE Look(g[k - 1], points[k])
    <3>1. CASE k = 0
      BY <1>5, <3>1
    <3>2. CASE k # 0
      <4>1. k \in 1..N /\ k - 1 \in 0..N
        BY <1>1, <3>2
      <4>2. g[k - 1] \in V
        BY <1>5, <4>1
      <4>3. QED
        BY <1>5, <3>2, <4>1, <4>2
    <3>3. QED
      BY <3>1, <3>2
  <2>2. QED
    BY <1>5, <2>1
<1> DEFINE sum == CHOOSE u : u = [k \in 0..N |-> IF k = 0 THEN b ELSE Look(u[k - 1], points[k])]
<1>7. sum = [k \in 0..N |-> IF k = 0 THEN b ELSE Look(sum[k - 1], points[k])]
  BY <1>6
<1>8. Aligned(s, points) = sum[N]
  BY DEF Aligned, Accumulate, N, Look, b
<1> HIDE DEF sum, f
<1>9. \A k \in 0..N : sum[k] = IF k = 0 THEN b ELSE Look(sum[k - 1], points[k])
  BY <1>7
<1> DEFINE T == {k \in 0..N : sum[k] \in V}
<1>10. 0 \in T
  BY <1>1, <1>2, <1>9
<1>11. ASSUME NEW k \in 0..(N - 1), k \in T PROVE k + 1 \in T
  <2>1. k + 1 \in 1..N /\ k + 1 \in 0..N /\ k + 1 # 0 /\ (k + 1) - 1 = k
    BY <1>1
  <2>2. sum[k + 1] = Look(sum[k], points[k + 1])
    BY <1>9, <2>1
  <2>3. QED
    BY <1>3, <1>11, <2>1, <2>2
<1> HIDE DEF T
<1>12. \A k \in 0..N : k \in T
  BY <1>1, <1>10, <1>11, Induct
<1>13. sum[N] \in V
  BY <1>1, <1>12 DEF T
<1>14. QED
  BY <1>8, <1>13 DEF V

\* The region of an alignment pattern is painted over and back for nothing.
LEMMA RepaintedIs ==
  ASSUME NEW s, Good(s), NEW code, code = 0 \/ IsCode(s, code)
  PROVE  Repainted(s, code) = s
<1> DEFINE seed == s.regions[RegionOf(code)].seed
           Back(there) == [s EXCEPT !.px = Fill(there.px, seed, code).px]
           there == Fill(s.px, seed, Black)
<1>1. s \in Decoders /\ s.px \in Pictures
  BY DEF Good, Decoders
<1>2. CASE code = 0
  BY <1>2 DEF Repainted
<1>3. CASE code # 0
  <2>1. Repainted(s, code) = With(there, Back)
    BY <1>3 DEF Repainted
  <2>2. With(there, Back) = Back(there)
    <3> HIDE DEF Back, there
    <3>1. QED
      BY DEF With
  <2>3. code \in Nat /\ code # Black /\ WholeAt(s.px, code, seed)
    <3>1. code \in Nat /\ RegionOf(code) \in DOMAIN s.regions /\ code # Black
      BY <1>3, Codes DEF IsCode
    <3>2. CodeOf(RegionOf(code)) = code
      BY <3>1, Codes
    <3>3. QED
      BY <3>1, <3>2 DEF Good, Wholes
  <2> HIDE DEF seed
  <2>4. there.px = Repaint(s.px, Coloured(s.px, code), Black)
    BY <1>1, <2>3, PaintOver
  <2>5. Fill(there.px, seed, code).px = s.px
    BY <1>1, <2>3, <2>4, PaintBack
  <2> HIDE DEF there
  <2>6. Back(there) = [s EXCEPT !.px = s.px]
    BY <2>5
  <2> DEFINE t == [s EXCEPT !.px = s.px]
  <2>7. t \in Decoders /\ t.px = s.px /\ t.regions = s.regions /\ t.capstones = s.capstones
    BY <1>1 DEF Decoders
  <2> HIDE DEF t
  <2>8. t = s
    BY <1>1, <2>7 DEF Decoders
  <2>9. QED
    BY <2>1, <2>2, <2>6, <2>8 DEF t
<1>4. QED
  BY <1>2, <1>3

LinkedTo(s, used, g) ==
  [px |-> s.px, regions |-> s.regions, capstones |-> Link(s.capstones, used, g)]

\* Linking capstones to a grid changes nothing but their grids.
LEMMA LinkIs ==
  ASSUME NEW s, Good(s), NEW used, NEW g \in Nat, NEW t, t = LinkedTo(s, used, g)
  PROVE  /\ Good(t) /\ Len(t.capstones) = Len(s.capstones)
         /\ \A n \in DOMAIN s.capstones :
              t.capstones[n].grid = IF n \in used THEN g ELSE s.capstones[n].grid
<1> DEFINE N == Len(s.capstones)
           caps == Link(s.capstones, used, g)
<1>1. /\ s \in Decoders /\ s.px \in Pictures /\ s.regions \in Seq(Region)
      /\ s.capstones \in Seq(Capstone) /\ N \in Nat /\ DOMAIN s.capstones = 1..N
      /\ \A n \in 1..N : s.capstones[n] \in Capstone
  BY DEF Good, Decoders
<1>2. ASSUME NEW n \in 1..N
      PROVE  /\ caps[n] \in Capstone /\ caps[n].ring = s.capstones[n].ring
             /\ caps[n].stone = s.capstones[n].stone /\ caps[n].corners = s.capstones[n].corners
             /\ caps[n].grid = IF n \in used THEN g ELSE s.capstones[n].grid
  <2>1. caps[n] = IF n \in used THEN [s.capstones[n] EXCEPT !.grid = g] ELSE s.capstones[n]
    BY <1>1 DEF Link
  <2>2. CASE n \in used
    <3>1. caps[n] = [s.capstones[n] EXCEPT !.grid = g]
      BY <2>1, <2>2
    <3>2. QED
      BY <1>1, <2>2, <3>1 DEF Capstone
  <2>3. CASE n \notin used
    BY <1>1, <2>1, <2>3
  <2>4. QED
    BY <2>2, <2>3
<1>3. caps \in [1..N -> Capstone]
  <2>1. caps = [n \in 1..N |-> caps[n]]
    BY <1>1 DEF Link
  <2> HIDE DEF caps
  <2>2. QED
    BY <1>2, <2>1
<1> HIDE DEF N
<1>4. caps \in Seq(Capstone) /\ Len(caps) = N /\ DOMAIN caps = 1..N
  <2> HIDE DEF caps
  <2>1. QED
    BY <1>1, <1>3
<1>5. t.px = s.px /\ t.regions = s.regions /\ t.capstones = caps
  BY DEF LinkedTo
<1>6. t \in Decoders
  BY <1>1, <1>4 DEF Decoders, LinkedTo
<1> HIDE DEF caps
<1>7. Coded(t)
  BY <1>5 DEF Good, Coded
<1>8. Wholes(t)
  BY <1>4, <1>5 DEF Good, Wholes, N
<1>9. Finders(t)
  <2> SUFFICES ASSUME NEW m \in 1..N
               PROVE  /\ Parts(t, m) = {RegionOf(caps[m].ring), RegionOf(caps[m].stone)}
                      /\ caps[m].ring # caps[m].stone
                      /\ \A j \in 1..4 : s.px[caps[m].corners[j]] = caps[m].ring
    BY <1>4, <1>5 DEF Finders
  <2>1. Parts(t, m) = Parts(s, m)
    BY <1>5 DEF Parts
  <2>2. QED
    BY <1>1, <1>2, <2>1 DEF Good, Finders
<1>10. QED
  BY <1>1, <1>2, <1>4, <1>5, <1>6, <1>7, <1>8, <1>9 DEF Good, N

-----------------------------------------------------------------------------
(* The invariant.                                                           *)

Grid == [caps : [1..3 -> Nat], align : Nat]

\* A search of all rows has no region of interest; a corner and its groups are capstones.
Grouping ==
  /\ turn \in Nat \ {0}
  /\ pc \in {"rows", "corner", "group"} => roi = NoRoi
  /\ pc = "group" =>
       /\ turn \in DOMAIN capstones
       /\ \A p \in groups : /\ p[1] \in DOMAIN capstones /\ p[2] \in DOMAIN capstones
                            /\ p[1] # turn /\ p[2] # turn /\ p[1] # p[2]

\* A seeded search has no grid before its end, and the capstones matched are distinct.
Matching ==
  /\ pc \in {"seeds", "seed", "matched"} =>
       /\ roi \in Rois /\ grids = <<>>
       /\ matched \in Seq(Nat) /\ Len(matched) = turn - 1
       /\ \A i \in DOMAIN matched : /\ matched[i] \in DOMAIN capstones
                                    /\ \A j \in DOMAIN matched : matched[j] = matched[i] => j = i
  /\ pc = "seeds" => regions = <<>> /\ capstones = <<>> /\ turn = 1
  /\ pc = "seed" => turn \in 1..3
  /\ pc = "matched" => turn = 4

Linked == grids \in Seq(Grid) /\ GridsLinked

IInv == Good(State) /\ Linked /\ Grouping /\ Matching

\* Three different things.
LEMMA ThreeOf ==
  ASSUME NEW a, NEW b, NEW c, a # b, a # c, b # c
  PROVE  Cardinality({a, b, c}) = 3
<1>1. Cardinality({a}) = 1 /\ IsFiniteSet({a})
  BY FS_Singleton
<1> DEFINE two == {a} \cup {b}
<1>2. Cardinality(two) = 2 /\ IsFiniteSet(two)
  <2> DEFINE one == {a}
  <2>1. b \notin one /\ IsFiniteSet(one) /\ Cardinality(one) = 1
    BY <1>1
  <2> HIDE DEF one
  <2>2. IsFiniteSet(one \cup {b}) /\ Cardinality(one \cup {b}) = Cardinality(one) + 1
    BY <2>1, FS_AddElement
  <2>3. two = one \cup {b}
    BY DEF one
  <2>4. QED
    BY <2>1, <2>2, <2>3
<1>3. c \notin two /\ {a, b, c} = two \cup {c}
  OBVIOUS
<1> HIDE DEF two
<1>4. Cardinality(two \cup {c}) = 3
  BY <1>2, <1>3, FS_AddElement
<1>5. QED
  BY <1>3, <1>4

\* The decoder without regions is good when its image is black and white.
LEMMA EmptyGood ==
  ASSUME NEW s, NEW im \in [Points -> {White, Black}],
         s = [px |-> im, regions |-> <<>>, capstones |-> <<>>]
  PROVE  Good(s)
<1>1. s.px = im /\ s.regions = <<>> /\ s.capstones = <<>> /\ im \in Pictures
  BY Codes DEF Pictures
<1>2. s \in Decoders
  BY <1>1 DEF Decoders
<1>3. QED
  BY <1>1, <1>2 DEF Good, Coded, Wholes, Finders

\* A good decoder has what the properties say.
LEMMA GoodMeans ==
  ASSUME Good(State)
  PROVE  RegionsWhole /\ CapstonesDisjoint
<1>1. State.px = px /\ State.regions = regions /\ State.capstones = capstones
  BY DEF State
<1>2. ASSUME NEW i \in DOMAIN regions
      PROVE  /\ px[regions[i].seed] = CodeOf(i)
             /\ regions[i].count = Cardinality({p \in Points : px[p] = CodeOf(i)})
             /\ regions[i].capstone <= Len(capstones)
  BY <1>1 DEF Good, Wholes, WholeAt, Coloured
<1>3. ASSUME NEW n \in DOMAIN capstones
      PROVE  /\ {i \in DOMAIN regions : regions[i].capstone = n}
                  = {RegionOf(capstones[n].ring), RegionOf(capstones[n].stone)}
             /\ capstones[n].ring # capstones[n].stone
             /\ \A j \in 1..4 : px[capstones[n].corners[j]] = capstones[n].ring
  BY <1>1 DEF Good, Finders, Parts
<1>4. QED
  BY <1>2, <1>3 DEF RegionsWhole, CapstonesDisjoint

\* Grids stay linked while capstones are added that have none,
LEMMA LinkedStays ==
  ASSUME Good(State), Linked, NEW s, Good(s), Extends(State, s), BecomesState(s),
         grids' = grids, roi' = roi
  PROVE  Good(State)' /\ Linked' /\ DOMAIN capstones \subseteq DOMAIN capstones'
<1>1. px' = s.px /\ regions' = s.regions /\ capstones' = s.capstones
  BY DEF BecomesState
<1>2. State' = s
  BY <1>1 DEF State, Good, Decoders
<1>3. Good(State')
  BY <1>2
<1>4. /\ Len(capstones) <= Len(capstones')
      /\ \A n \in DOMAIN capstones' :
           capstones'[n].grid = IF n \in DOMAIN capstones THEN capstones[n].grid ELSE 0
  BY <1>1 DEF Extends, State
<1>5. capstones \in Seq(Capstone) /\ capstones' \in Seq(Capstone)
  BY <1>1 DEF Good, Decoders, State
<1>6. DOMAIN capstones \subseteq DOMAIN capstones'
  BY <1>4, <1>5
<1>7. GridsLinked'
  BY <1>4 DEF Linked, GridsLinked, Capstones
<1>8. QED
  BY <1>3, <1>6, <1>7 DEF Linked

\* and when a grid is recorded.
LEMMA RecordKeeps ==
  ASSUME Good(State), Linked, NEW a \in DOMAIN capstones, NEW b \in DOMAIN capstones,
         NEW c \in DOMAIN capstones, a # b, a # c, b # c, RecordGrid(a, b, c),
         roi' = roi, roi # NoRoi => grids = <<>>
  PROVE  Good(State)' /\ Linked' /\ DOMAIN capstones' = DOMAIN capstones
<1> DEFINE used == {a, b, c}
           g == Len(grids) + 1
<1>1. /\ State.px = px /\ State.regions = regions /\ State.capstones = capstones
      /\ capstones \in Seq(Capstone) /\ grids \in Seq(Grid)
  BY DEF State, Good, Decoders, Linked
<1>2. g \in Nat \ {0} /\ DOMAIN grids = 1..(g - 1) /\ g - 1 = Len(grids)
  BY <1>1
<1>3. DOMAIN capstones = 1..Len(capstones) /\ a \in Nat /\ b \in Nat /\ c \in Nat
  BY <1>1
<1>4. CASE UNCHANGED quirc
  <2>1. State' = State /\ grids' = grids /\ capstones' = capstones
    BY <1>4 DEF State, quirc
  <2>2. Good(State')
    BY <2>1
  <2>3. Linked'
    BY <2>1 DEF Linked, GridsLinked, Capstones
  <2>4. QED
    BY <2>1, <2>2, <2>3
<1>5. CASE /\ capstones' = Undone(Link(capstones, used, g), used)
           /\ UNCHANGED <<px, regions, grids>>
  <2> DEFINE t == LinkedTo(State, used, g)
             u == LinkedTo(t, used, 0)
  <2>1. /\ Good(t) /\ Len(t.capstones) = Len(capstones)
        /\ \A n \in DOMAIN capstones :
             t.capstones[n].grid = IF n \in used THEN g ELSE capstones[n].grid
    BY <1>1, <1>2, LinkIs
  <2>2. t.px = px /\ t.regions = regions /\ t.capstones = Link(capstones, used, g)
    BY <1>1 DEF LinkedTo
  <2>3. t.capstones \in Seq(Capstone)
    <3> HIDE DEF t
    <3>1. QED
      BY <2>1 DEF Good, Decoders
  <2>4. DOMAIN t.capstones = DOMAIN capstones
    <3> HIDE DEF t
    <3>1. QED
      BY <1>1, <2>1, <2>3
  <2>5. /\ Good(u) /\ Len(u.capstones) = Len(capstones)
        /\ \A n \in DOMAIN capstones :
             u.capstones[n].grid = IF n \in used THEN 0 ELSE capstones[n].grid
    <3> HIDE DEF used, t
    <3>1. /\ Good(u) /\ Len(u.capstones) = Len(t.capstones)
          /\ \A n \in DOMAIN t.capstones :
               u.capstones[n].grid = IF n \in used THEN 0 ELSE t.capstones[n].grid
      BY <2>1, LinkIs
    <3>2. QED
      BY <2>1, <2>4, <3>1
  <2>6. State' = u
    BY <1>5, <2>2 DEF State, Undone, LinkedTo
  <2>7. capstones' = u.capstones /\ grids' = grids
    <3>1. State'.capstones = capstones'
      BY DEF State
    <3>2. QED
      BY <1>5, <2>6, <3>1
  <2> HIDE DEF u, t
  <2>8. u.capstones \in Seq(Capstone)
    BY <2>5 DEF Good, Decoders
  <2>9. DOMAIN capstones' = DOMAIN capstones
    BY <1>1, <2>5, <2>7, <2>8
  <2>10. Linked'
    <3>1. ASSUME NEW n \in DOMAIN capstones', capstones'[n].grid # 0
          PROVE  capstones[n].grid = capstones'[n].grid /\ n \in DOMAIN capstones
      BY <2>5, <2>7, <2>9, <3>1
    <3>2. QED
      BY <2>7, <3>1 DEF Linked, GridsLinked, Capstones
  <2>11. Good(State')
    BY <2>5, <2>6
  <2>12. QED
    BY <2>9, <2>10, <2>11
<1>6. ASSUME NEW points \in Tries, NEW al, al = Aligned(State, points), NEW code \in {0, al.code},
             BecomesState([Repainted(al.s, code) EXCEPT !.capstones = Link(@, used, g)]),
             grids' = Append(grids, [caps |-> <<a, b, c>>, align |-> code])
      PROVE  Good(State)' /\ Linked' /\ DOMAIN capstones' = DOMAIN capstones
  <2> DEFINE s == al.s
             t == LinkedTo(s, used, g)
             new == [caps |-> <<a, b, c>>, align |-> code]
  <2>1. /\ Good(s) /\ s.capstones = capstones
        /\ al.code = 0 \/ IsCode(s, al.code)
    BY <1>1, <1>6, AlignedIs
  <2>2. Repainted(s, code) = s /\ code \in Nat
    <3>1. code = 0 \/ IsCode(s, code)
      BY <2>1
    <3> HIDE DEF s
    <3>2. QED
      BY <2>1, <3>1, RepaintedIs DEF IsCode
  <2> HIDE DEF s
  <2>3. px' = s.px /\ regions' = s.regions /\ capstones' = Link(s.capstones, used, g)
    <3> DEFINE r == [s EXCEPT !.capstones = Link(s.capstones, used, g)]
    <3>1. BecomesState([s EXCEPT !.capstones = Link(@, used, g)])
      BY <1>6, <2>2 DEF s
    <3>2. BecomesState(r)
      BY <3>1
    <3>3. s \in Decoders
      BY <2>1 DEF Good
    <3> DEFINE lk == Link(s.capstones, used, g)
    <3> HIDE DEF lk
    <3>4. r = [s EXCEPT !.capstones = lk]
      BY DEF lk
    <3> HIDE DEF r
    <3>5. r.px = s.px /\ r.regions = s.regions /\ r.capstones = lk
      BY <3>3, <3>4 DEF Decoders
    <3>6. QED
      BY <3>2, <3>5 DEF BecomesState, lk
  <2>4. State' = t
    BY <2>3 DEF State, LinkedTo
  <2>5. /\ Good(t) /\ Len(t.capstones) = Len(s.capstones)
        /\ \A n \in DOMAIN s.capstones :
             t.capstones[n].grid = IF n \in used THEN g ELSE s.capstones[n].grid
    <3>1. Good(s) /\ g \in Nat /\ t = LinkedTo(s, used, g)
      BY <1>2, <2>1
    <3> HIDE DEF t, used, g
    <3>2. QED
      BY <3>1, LinkIs
  <2>6. capstones' = t.capstones
    BY <2>3 DEF LinkedTo
  <2> HIDE DEF t
  <2>7. t.capstones \in Seq(Capstone)
    BY <2>5 DEF Good, Decoders
  <2>8. DOMAIN capstones' = DOMAIN capstones
    BY <1>1, <2>1, <2>5, <2>6, <2>7
  <2>9. new \in Grid
    <3>1. <<a, b, c>> \in [1..3 -> Nat]
      BY <1>3
    <3>2. QED
      BY <2>2, <3>1 DEF Grid
  <2>10. /\ grids' \in Seq(Grid) /\ DOMAIN grids' = 1..g /\ Len(grids') = g
         /\ grids'[g] = new /\ \A i \in 1..(g - 1) : grids'[i] = grids[i]
    <3> HIDE DEF new
    <3>1. grids' = Append(grids, new)
      BY <1>6 DEF new
    <3>2. QED
      BY <1>1, <1>2, <2>9, <3>1
  <2>11. {new.caps[k] : k \in 1..3} = used /\ Cardinality(used) = 3
    <3>1. new.caps = <<a, b, c>>
      OBVIOUS
    <3>2. {new.caps[k] : k \in 1..3} = used
      BY <3>1
    <3>3. QED
      BY <3>2, ThreeOf
  <2> HIDE DEF new, used, g
  <2>12. ASSUME NEW i \in 1..g
         PROVE  {grids'[i].caps[k] : k \in 1..3}
                  = IF i = g THEN used ELSE {grids[i].caps[k] : k \in 1..3}
    <3>1. CASE i = g
      BY <2>10, <2>11, <3>1
    <3>2. CASE i # g
      <4>1. i \in 1..(g - 1)
        BY <1>2, <3>2
      <4>2. QED
        BY <2>10, <3>2, <4>1
    <3>3. QED
      BY <3>1, <3>2
  <2>13. ASSUME NEW i \in 1..g PROVE Cardinality({grids'[i].caps[k] : k \in 1..3}) = 3
    <3>1. CASE i = g
      BY <2>11, <2>12, <3>1
    <3>2. CASE i # g
      <4>1. i \in DOMAIN grids
        BY <1>2, <3>2
      <4>2. Cardinality({grids[i].caps[k] : k \in 1..3}) = 3
        BY <4>1 DEF Linked, GridsLinked, Capstones
      <4>3. QED
        BY <2>12, <3>2, <4>2
    <3>3. QED
      BY <3>1, <3>2
  <2>14. ASSUME NEW n \in DOMAIN capstones', capstones'[n].grid # 0
         PROVE  /\ capstones'[n].grid \in 1..g
                /\ n \in {grids'[capstones'[n].grid].caps[k] : k \in 1..3}
    <3>1. n \in DOMAIN capstones
          /\ capstones'[n].grid = IF n \in used THEN g ELSE capstones[n].grid
      BY <2>1, <2>5, <2>6, <2>8
    <3>2. CASE n \in used
      <4>1. capstones'[n].grid = g /\ g \in 1..g
        BY <1>2, <3>1, <3>2
      <4>2. QED
        BY <2>12, <3>2, <4>1
    <3>3. CASE n \notin used
      <4>1. capstones[n].grid \in DOMAIN grids
            /\ n \in {grids[capstones[n].grid].caps[k] : k \in 1..3}
        BY <2>14, <3>1, <3>3 DEF Linked, GridsLinked, Capstones
      <4>2. capstones[n].grid \in 1..g /\ capstones[n].grid # g
        BY <1>2, <4>1
      <4>3. QED
        BY <2>12, <3>1, <3>3, <4>1, <4>2
    <3>4. QED
      BY <3>2, <3>3
  <2>15. roi # NoRoi => Len(grids') <= 1
    <3>1. grids = <<>> => g = 1
      BY DEF g
    <3>2. QED
      BY <2>10, <3>1
  <2>16. Linked'
    BY <2>10, <2>13, <2>14, <2>15 DEF Linked, GridsLinked, Capstones
  <2>17. Good(State')
    BY <2>4, <2>5
  <2>18. QED
    BY <2>8, <2>16, <2>17
<1>7. QED
  <2>1. \/ UNCHANGED quirc
        \/ /\ capstones' = Undone(Link(capstones, used, g), used)
           /\ UNCHANGED <<px, regions, grids>>
        \/ \E points \in Tries :
             \E al \in {Aligned(State, points)} : \E code \in {0, al.code} :
               /\ BecomesState([Repainted(al.s, code) EXCEPT !.capstones = Link(@, used, g)])
               /\ grids' = Append(grids, [[caps |-> <<a, b, c>>, align |-> 0]
                                            EXCEPT !.align = code])
    BY DEF RecordGrid, Tries
  <2>2. CASE \E points \in Tries :
               \E al \in {Aligned(State, points)} : \E code \in {0, al.code} :
                 /\ BecomesState([Repainted(al.s, code) EXCEPT !.capstones = Link(@, used, g)])
                 /\ grids' = Append(grids, [[caps |-> <<a, b, c>>, align |-> 0]
                                              EXCEPT !.align = code])
    <3>1. PICK points \in Tries :
               \E al \in {Aligned(State, points)} : \E code \in {0, al.code} :
                 /\ BecomesState([Repainted(al.s, code) EXCEPT !.capstones = Link(@, used, g)])
                 /\ grids' = Append(grids, [[caps |-> <<a, b, c>>, align |-> 0]
                                              EXCEPT !.align = code])
      BY <2>2
    <3> DEFINE al == Aligned(State, points)
    <3>2. PICK code \in {0, al.code} :
                 /\ BecomesState([Repainted(al.s, code) EXCEPT !.capstones = Link(@, used, g)])
                 /\ grids' = Append(grids, [[caps |-> <<a, b, c>>, align |-> 0]
                                              EXCEPT !.align = code])
      BY <3>1
    <3>3. [[caps |-> <<a, b, c>>, align |-> 0] EXCEPT !.align = code]
            = [caps |-> <<a, b, c>>, align |-> code]
      OBVIOUS
    <3>4. grids' = Append(grids, [caps |-> <<a, b, c>>, align |-> code])
      BY <3>2, <3>3
    <3>5. QED
      BY <1>6, <3>2, <3>4
  <2>3. QED
    BY <1>4, <1>5, <2>1, <2>2

\* It holds at first,
LEMMA InitInv == Init => IInv
<1> SUFFICES ASSUME Init PROVE IInv
  OBVIOUS
<1>1. px \in [Points -> {White, Black}] /\ regions = <<>> /\ capstones = <<>> /\ grids = <<>>
  BY DEF Init
<1>2. Good(State)
  BY <1>1, EmptyGood DEF State
<1>3. Linked
  BY <1>1 DEF Linked, GridsLinked
<1>4. Grouping /\ Matching
  BY DEF Init, Grouping, Matching
<1>5. QED
  BY <1>2, <1>3, <1>4 DEF IInv

\* for each new image,
LEMMA BeginKeeps == IInv /\ Begin => IInv'
<1> SUFFICES ASSUME Begin PROVE IInv'
  OBVIOUS
<1>1. /\ px' \in [Points -> {White, Black}] /\ regions' = <<>> /\ capstones' = <<>>
      /\ grids' = <<>> /\ turn' = 1 /\ matched' = <<>> /\ groups' = {}
      /\ (roi' = NoRoi /\ pc' = "rows") \/ (roi' \in Rois /\ pc' = "seeds")
  BY DEF Begin
<1>2. Good(State')
  BY <1>1, EmptyGood DEF State
<1>3. Linked'
  BY <1>1 DEF Linked, GridsLinked
<1>4. Grouping' /\ Matching'
  BY <1>1 DEF Grouping, Matching
<1>5. QED
  BY <1>2, <1>3, <1>4 DEF IInv

\* and after every step.
LEMMA NextInv == IInv /\ [Next]_vars => IInv'
<1> SUFFICES ASSUME IInv, [Next]_vars PROVE IInv'
  OBVIOUS
<1>1. Good(State) /\ Linked /\ Grouping /\ Matching
  BY DEF IInv
<1>2. CASE pc = "done" /\ Begin
  BY <1>2, BeginKeeps
<1>3. CASE Scan
  <2> DEFINE s == ScanRow(State, row, 0, Width, Int)
  <2>1. Good(s) /\ Extends(State, s)
    BY <1>1, ScanRowIs
  <2>2. BecomesState(s) /\ grids' = grids /\ roi' = roi /\ turn' = turn /\ pc = "rows"
        /\ pc' \in {"rows", "corner"}
    BY <1>3 DEF Scan, seeded
  <2> HIDE DEF s
  <2>3. Good(State)' /\ Linked'
    BY <1>1, <2>1, <2>2, LinkedStays
  <2>4. Grouping' /\ Matching'
    BY <1>1, <2>2 DEF Grouping, Matching
  <2>5. QED
    BY <2>3, <2>4 DEF IInv
<1>4. CASE Corner
  <2>1. State' = State /\ UNCHANGED <<quirc, seeded, row>> /\ pc = "corner" /\ pc' = "group"
        /\ turn <= Len(capstones)
    BY <1>4 DEF Corner, State, quirc
  <2>2. Good(State') /\ Linked'
    BY <1>1, <2>1 DEF Linked, GridsLinked, Capstones, quirc, seeded
  <2>3. turn \in DOMAIN capstones
    <3>1. capstones \in Seq(Capstone) /\ turn \in Nat \ {0}
      BY <1>1 DEF Good, Decoders, State, Grouping
    <3>2. QED
      BY <2>1, <3>1
  <2>4. \A p \in groups' : /\ p[1] \in DOMAIN capstones /\ p[2] \in DOMAIN capstones
                           /\ p[1] # turn /\ p[2] # turn /\ p[1] # p[2]
    BY <1>4 DEF Corner
  <2>5. Grouping'
    BY <1>1, <2>1, <2>3, <2>4 DEF Grouping, quirc, seeded
  <2>6. Matching'
    BY <1>1, <2>1 DEF Matching
  <2>7. QED
    BY <2>2, <2>5, <2>6 DEF IInv
<1>5. CASE Group
  <2>1. PICK p \in groups : RecordGrid(p[1], turn, p[2]) /\ groups' = groups \ {p}
    BY <1>5 DEF Group
  <2>2. UNCHANGED <<seeded, row, pc>> /\ pc = "group" /\ roi = NoRoi /\ turn \in DOMAIN capstones
    BY <1>1, <1>5 DEF Group, Grouping
  <2>3. /\ p[1] \in DOMAIN capstones /\ p[2] \in DOMAIN capstones
        /\ p[1] # turn /\ p[2] # turn /\ p[1] # p[2]
    BY <1>1, <2>1, <2>2 DEF Grouping
  <2>4. Good(State)' /\ Linked' /\ DOMAIN capstones' = DOMAIN capstones
    BY <1>1, <2>1, <2>2, <2>3, RecordKeeps DEF seeded
  <2>5. Grouping' /\ Matching'
    BY <1>1, <2>1, <2>2, <2>4 DEF Grouping, Matching, seeded
  <2>6. QED
    BY <2>4, <2>5 DEF IInv
<1>6. CASE NextCorner
  <2>1. State' = State /\ grids' = grids /\ capstones' = capstones /\ roi' = roi
        /\ turn' = turn + 1 /\ pc = "group" /\ pc' = "corner"
    BY <1>6 DEF NextCorner, State, quirc
  <2>2. Good(State') /\ Linked'
    BY <1>1, <2>1 DEF Linked, GridsLinked, Capstones
  <2>3. Grouping' /\ Matching'
    BY <1>1, <2>1 DEF Grouping, Matching
  <2>4. QED
    BY <2>2, <2>3 DEF IInv
<1>7. CASE Finish
  <2>1. State' = State /\ grids' = grids /\ capstones' = capstones /\ roi' = roi
        /\ turn' = turn /\ pc' = "done"
    BY <1>7 DEF Finish, State, quirc, seeded
  <2>2. Good(State') /\ Linked'
    BY <1>1, <2>1 DEF Linked, GridsLinked, Capstones
  <2>3. Grouping' /\ Matching'
    BY <1>1, <2>1 DEF Grouping, Matching
  <2>4. QED
    BY <2>2, <2>3 DEF IInv
<1>8. CASE Cut
  <2>1. UNCHANGED <<regions, capstones, grids, seeded, row, groups>>
        /\ pc = "seeds" /\ pc' = "seed"
    BY <1>8 DEF Cut
  <2>2. regions = <<>> /\ capstones = <<>> /\ turn = 1
    BY <1>1, <2>1 DEF Matching
  <2>3. px \in [Points -> {White, Black}]
    <3>1. px \in Pictures /\ \A q \in Points : px[q] \in {White, Black}
      BY <1>1, <2>2 DEF Good, Decoders, Coded, State
    <3>2. QED
      BY <3>1 DEF Pictures
  <2>4. px' \in [Points -> {White, Black}]
    BY <1>8, <2>3 DEF Cut
  <2>5. Good(State')
    BY <2>1, <2>2, <2>4, EmptyGood DEF State
  <2>6. Linked'
    BY <1>1, <2>1 DEF Linked, GridsLinked, Capstones, seeded
  <2>7. Grouping'
    BY <1>1, <2>1 DEF Grouping, seeded
  <2>8. Matching'
    BY <1>1, <2>1, <2>2 DEF Matching, seeded
  <2>9. QED
    BY <2>5, <2>6, <2>7, <2>8 DEF IInv
<1>9. CASE SeedStep
  <2> DEFINE inside == SeedRow \in roi.y[1]..(roi.y[2] - 1)
             near == (Seed.x - Seed.radius)..(Seed.x + Seed.radius)
             s == IF inside THEN ScanRow(State, SeedRow, From, To, near) ELSE State
  <2>1. pc = "seed" /\ roi \in Rois /\ turn \in 1..3 /\ grids = <<>>
        /\ matched \in Seq(Nat) /\ Len(matched) = turn - 1
        /\ \A i \in DOMAIN matched : /\ matched[i] \in DOMAIN capstones
                                     /\ \A j \in DOMAIN matched : matched[j] = matched[i] => j = i
    BY <1>1, <1>9 DEF SeedStep, Matching
  <2>2. From \in Int /\ To \in Int
    <3>1. /\ roi.x[1] \in Int /\ roi.x[2] \in Int /\ roi.halfWidth \in Int
          /\ roi.seeds[turn].x \in Int
      BY <2>1, RoiAssumption DEF RoiAssumption
    <3>2. QED
      BY <3>1 DEF From, To, Seed
  <2>3. Good(s) /\ Extends(State, s)
    <3>1. Good(ScanRow(State, SeedRow, From, To, near))
          /\ Extends(State, ScanRow(State, SeedRow, From, To, near))
      BY <1>1, <2>2, ScanRowIs
    <3>2. State.capstones \in Seq(Capstone)
      BY <1>1 DEF Good, Decoders
    <3>3. Extends(State, State)
      BY <3>2 DEF Extends
    <3>4. QED
      BY <1>1, <3>1, <3>3
  <2>4. /\ BecomesState(s)
        /\ \/ step' = step + 1 /\ UNCHANGED <<turn, matched, pc>>
           \/ \E c \in DOMAIN s.capstones :
                /\ inside
                /\ IF Distinct(c)
                   THEN /\ matched' = Append(matched, c) /\ turn' = turn + 1 /\ step' = 0
                        /\ pc' = IF turn = 3 THEN "matched" ELSE pc
                   ELSE GiveUp
        /\ UNCHANGED <<grids, roi, row, groups>>
    BY <1>9 DEF SeedStep
  <2> HIDE DEF s
  <2>5. Good(State)' /\ Linked' /\ DOMAIN capstones \subseteq DOMAIN capstones'
    BY <1>1, <2>3, <2>4, LinkedStays
  <2>6. capstones' = s.capstones /\ s.capstones \in Seq(Capstone)
    BY <2>3, <2>4 DEF BecomesState, Good, Decoders
  <2> HIDE DEF inside
  <2>7. CASE UNCHANGED <<turn, matched, pc>>
    <3>1. Grouping'
      BY <1>1, <2>1, <2>4, <2>7 DEF Grouping
    <3>2. Matching'
      BY <2>1, <2>4, <2>5, <2>7 DEF Matching
    <3>3. QED
      BY <2>5, <3>1, <3>2 DEF IInv
  <2>8. CASE GiveUp
    <3>1. Grouping' /\ Matching'
      BY <1>1, <2>8 DEF Grouping, Matching, GiveUp
    <3>2. QED
      BY <2>5, <3>1 DEF IInv
  <2>9. ASSUME NEW c \in DOMAIN s.capstones, Distinct(c), matched' = Append(matched, c),
               turn' = turn + 1, pc' = IF turn = 3 THEN "matched" ELSE pc
        PROVE  IInv'
    <3>1. c \in DOMAIN capstones' /\ c \in Nat
      BY <2>6
    <3>2. /\ matched' \in Seq(Nat) /\ Len(matched') = turn /\ DOMAIN matched' = 1..turn
          /\ matched'[turn] = c /\ \A i \in 1..(turn - 1) : matched'[i] = matched[i]
          /\ DOMAIN matched = 1..(turn - 1)
      BY <2>1, <2>9, <3>1
    <3>3. \A i \in 1..(turn - 1) : matched[i] # c
      BY <2>9, <3>2 DEF Distinct
    <3>4. ASSUME NEW i \in DOMAIN matched'
          PROVE  /\ matched'[i] \in DOMAIN capstones'
                 /\ \A j \in DOMAIN matched' : matched'[j] = matched'[i] => j = i
      <4>1. CASE i = turn
        <5>1. \A j \in 1..turn : j # turn => j \in 1..(turn - 1)
          BY <2>1
        <5>2. QED
          BY <3>1, <3>2, <3>3, <4>1, <5>1
      <4>2. CASE i # turn
        <5>1. i \in 1..(turn - 1) /\ i \in DOMAIN matched
          BY <2>1, <3>2, <4>2
        <5>2. matched'[i] \in DOMAIN capstones' /\ matched'[i] # c
          BY <2>1, <2>5, <3>2, <3>3, <5>1
        <5>3. \A j \in 1..turn : j = turn \/ j \in DOMAIN matched
          BY <2>1, <3>2
        <5>4. QED
          BY <2>1, <3>2, <5>1, <5>2, <5>3
      <4>3. QED
        BY <4>1, <4>2
    <3>5. turn' \in Nat \ {0} /\ Len(matched') = turn' - 1
          /\ (turn = 3 => turn' = 4 /\ pc' = "matched")
          /\ (turn # 3 => turn' \in 1..3 /\ pc' = "seed")
      BY <2>1, <2>9, <3>2
    <3>6. Grouping'
      BY <3>5 DEF Grouping
    <3>7. Matching'
      BY <2>1, <2>4, <3>2, <3>4, <3>5 DEF Matching
    <3>8. QED
      BY <2>5, <3>6, <3>7 DEF IInv
  <2>10. QED
    BY <2>4, <2>7, <2>8, <2>9
<1>10. CASE NoMatch
  <2>1. State' = State /\ grids' = grids /\ capstones' = capstones /\ roi' = roi
        /\ turn' = turn /\ pc' = "done"
    BY <1>10 DEF NoMatch, State, quirc, GiveUp
  <2>2. Good(State') /\ Linked'
    BY <1>1, <2>1 DEF Linked, GridsLinked, Capstones
  <2>3. Grouping' /\ Matching'
    BY <1>1, <2>1 DEF Grouping, Matching
  <2>4. QED
    BY <2>2, <2>3 DEF IInv
<1>11. CASE Matched
  <2>1. pc = "matched" /\ grids = <<>> /\ matched \in Seq(Nat) /\ Len(matched) = 3
        /\ \A i \in DOMAIN matched : /\ matched[i] \in DOMAIN capstones
                                     /\ \A j \in DOMAIN matched : matched[j] = matched[i] => j = i
    BY <1>1, <1>11 DEF Matched, Matching
  <2>2. roi' = roi /\ turn' = turn /\ pc' = "done"
    BY <1>11 DEF Matched, seeded
  <2>3. /\ matched[1] \in DOMAIN capstones /\ matched[2] \in DOMAIN capstones
        /\ matched[3] \in DOMAIN capstones /\ matched[2] # matched[1]
        /\ matched[2] # matched[3] /\ matched[1] # matched[3]
    <3>1. DOMAIN matched = 1..3
      BY <2>1
    <3>2. 1 \in 1..3 /\ 2 \in 1..3 /\ 3 \in 1..3
      OBVIOUS
    <3>3. QED
      BY <2>1, <3>1, <3>2
  <2>4. CASE RecordGrid(matched[2], matched[1], matched[3])
    <3>1. Good(State)' /\ Linked'
      BY <1>1, <2>1, <2>2, <2>3, <2>4, RecordKeeps
    <3>2. Grouping' /\ Matching'
      BY <1>1, <2>2 DEF Grouping, Matching
    <3>3. QED
      BY <3>1, <3>2 DEF IInv
  <2>5. CASE UNCHANGED quirc
    <3>1. State' = State /\ grids' = grids /\ capstones' = capstones
      BY <2>5 DEF State, quirc
    <3>2. Good(State') /\ Linked'
      BY <1>1, <2>2, <3>1 DEF Linked, GridsLinked, Capstones
    <3>3. Grouping' /\ Matching'
      BY <1>1, <2>2 DEF Grouping, Matching
    <3>4. QED
      BY <3>2, <3>3 DEF IInv
  <2>6. QED
    BY <1>11, <2>4, <2>5 DEF Matched
<1>12. CASE UNCHANGED vars
  <2>1. State' = State /\ UNCHANGED <<regions, capstones, grids, roi, turn, matched, groups, pc>>
    BY <1>12 DEF vars, quirc, seeded, State
  <2>2. Good(State') /\ Linked'
    BY <1>1, <2>1 DEF Linked, GridsLinked, Capstones
  <2>3. Grouping' /\ Matching'
    BY <1>1, <2>1 DEF Grouping, Matching
  <2>4. QED
    BY <2>2, <2>3 DEF IInv
<1>13. QED
  BY <1>2, <1>3, <1>4, <1>5, <1>6, <1>7, <1>8, <1>9, <1>10, <1>11, <1>12 DEF Next

\* The invariant holds throughout, for every image, region of interest and limit.
THEOREM IdentifyInvariant == Spec => []IInv
<1>1. QED
  BY InitInv, NextInv, PTL DEF Spec

\* Painting a region over and back loses none of its pixels, whatever the stack of the fill.
THEOREM RegionsWholeHolds == Spec => []RegionsWhole
<1>1. IInv => RegionsWhole
  BY GoodMeans DEF IInv
<1>2. QED
  BY <1>1, IdentifyInvariant, PTL

\* No region is part of two capstones, and the corners of each lie on its ring.
THEOREM CapstonesDisjointHolds == Spec => []CapstonesDisjoint
<1>1. IInv => CapstonesDisjoint
  BY GoodMeans DEF IInv
<1>2. QED
  BY <1>1, IdentifyInvariant, PTL

\* Grids and capstones name each other, and a seeded search records one grid at most.
THEOREM GridsLinkedHolds == Spec => []GridsLinked
<1>1. IInv => GridsLinked
  BY DEF IInv, Linked
<1>2. QED
  BY <1>1, IdentifyInvariant, PTL
=============================================================================
