-------------------------- MODULE PostProcessProofs --------------------------
(***************************************************************************)
(* Proofs about the path of a frame's features, for frames of any size,    *)
(* any thresholds, tables and queues of any size and any interleaving of   *)
(* scanner, labeling, table and builder.                                   *)
(*                                                                         *)
(*   1. qr_sparse_ccl.v with any neighbours: labels are components.        *)
(*   2. The composition: the phases of a frame, what scanner, packer,      *)
(*      ingress, FIFO and table know of each other in each, and where the  *)
(*      HITs offered so far are.                                           *)
(*   3. The rows of the table describe the HITs replayed so far, and the   *)
(*      records are the rows listed so far.                                *)
(***************************************************************************)
EXTENDS PostProcess, WellFoundedInduction, FiniteSetTheorems, TLAPS

USE CclAssumption

\* A non-empty set of labels has a smallest member, so Selected is one.
LEMMA SmallestLabel ==
  ASSUME NEW T \in SUBSET Nat, T # {}
  PROVE  \E l \in T : \A m \in T : l <= m
<1> DEFINE R == OpToRel(<, Nat)
<1>1. IsWellFoundedOn(R, Nat)
  BY NatLessThanWellFounded
<1>2. PICK l \in T : \A m \in T : <<m, l>> \notin R
  BY <1>1, WFMin
<1>3. \A m \in T : ~(m < l)
  BY <1>2 DEF OpToRel
<1>4. QED
  BY <1>3

\* The merge picks the smallest label of the mask.
LEMMA SelectedIsLeast ==
  ASSUME mergeMask \subseteq Labels, mergeMask # {}
  PROVE  Selected \in mergeMask /\ \A m \in mergeMask : Selected <= m
<1>1. \E l \in mergeMask : \A m \in mergeMask : l <= m
  BY SmallestLabel DEF Labels
<1>2. QED
  BY <1>1 DEF Selected
-----------------------------------------------------------------------------
\* A HIT is only scanned while the table has room for it, and the replay stays in it.
RoomLeft ==
  /\ ccl \in {"SCAN", "CLASSIFY"} => Len(hits) < MaxHits
  /\ ccl = "OUTPUT" => outputIndex <= Len(hits)

\* The inductive invariant of the labeling.
CclInv == CclTypeOK /\ RoomLeft /\ FlatForest /\ MaskComplete /\ LabelsAreComponents

\* At power-up there is no HIT.
LEMMA CclInvInit == CclInit => CclInv
<1> SUFFICES ASSUME CclInit PROVE CclInv
  OBVIOUS
<1> USE DEF CclInit
<1>1. CclTypeOK
  BY DEF CclTypeOK, CclState, Labels, Points, Hit
<1>2. Indices = {}
  BY DEF Indices
<1>3. FlatForest /\ MaskComplete /\ LabelsAreComponents
  BY <1>2 DEF FlatForest, MaskComplete, LabelsAreComponents
<1>4. QED
  BY <1>1, <1>3 DEF CclInv, RoomLeft

\* Storing the pending HIT adds an entry and leaves the others alone.
LEMMA StoredHits ==
  ASSUME CclTypeOK, NEW l \in Labels
  PROVE  /\ Stored(l) \in Seq(Hit) /\ Len(Stored(l)) = Len(hits) + 1
         /\ \A k \in Indices : Stored(l)[k] = hits[k]
         /\ Stored(l)[Len(hits) + 1] = [x |-> pending.x, y |-> pending.y, label |-> l]
<1>1. [x |-> pending.x, y |-> pending.y, label |-> l] \in Hit
  BY DEF CclTypeOK, Points, Hit
<1> DEFINE h == [x |-> pending.x, y |-> pending.y, label |-> l]
<1>2. Stored(l) = Append(hits, h) /\ hits \in Seq(Hit)
  BY DEF Stored, CclTypeOK
<1> HIDE DEF h
<1>3. /\ Append(hits, h) \in Seq(Hit) /\ Len(Append(hits, h)) = Len(hits) + 1
      /\ \A k \in 1..Len(hits) : Append(hits, h)[k] = hits[k]
      /\ Append(hits, h)[Len(hits) + 1] = h
  BY <1>1, <1>2 DEF h
<1>4. QED
  BY <1>2, <1>3 DEF Indices, h

\* The root of a stored HIT is a label.
LEMMA RootType ==
  ASSUME CclTypeOK, NEW k \in Indices
  PROVE  hits[k] \in Hit /\ Root(k) \in Labels
<1>1. hits[k] \in Hit
  BY DEF CclTypeOK, Indices
<1>2. hits[k].label \in Labels
  BY <1>1 DEF Hit
<1>3. QED
  BY <1>1, <1>2 DEF Root, CclTypeOK

\* The types and the room in the tables are kept by every edge.
LEMMA CclTypeStep ==
  ASSUME CclInv, NEW in \in CclInputs, CclEdge(in)
  PROVE  CclTypeOK' /\ RoomLeft'
<1> USE DEF CclInv, CclTypeOK, RoomLeft
<1>1. cclErrors' \subseteq CclError
  BY DEF CclEdge, CclRaised
<1>2. CASE CclStart(in)
  BY <1>1, <1>2 DEF CclStart, CclState
<1>3. CASE TakeHit(in)
  <2>1. in.event.x \in 0..(Width - 1) /\ in.event.y \in 0..(Height - 1)
    BY <1>3 DEF TakeHit, InFrame, CclInputs, Events, NoEvent
  <2>2. QED
    BY <1>1, <1>3, <2>1 DEF TakeHit, Points, CclState
<1>4. CASE TakeFrameDone(in)
  BY <1>1, <1>4 DEF TakeFrameDone, CclState
<1>5. CASE Scan
  <2>1. scanIndex \in 1..Len(hits)
    BY <1>5 DEF Scan, MaskComplete
  <2>2. Root(scanIndex) \in Labels
    BY <2>1, RootType DEF Indices
  <2>3. mergeMask' \subseteq Labels
    BY <1>5, <2>2 DEF Scan
  <2>4. scanIndex' \in 1..MaxHits
    BY <1>5, <2>1 DEF Scan
  <2>5. QED
    BY <1>1, <1>5, <2>3, <2>4 DEF Scan, CclState
<1>6. CASE Classify
  <2>1. CASE Join
    <3>1. Selected \in Labels
      BY <2>1, SelectedIsLeast DEF Join
    <3>2. hits' \in Seq(Hit) /\ Len(hits') = Len(hits) + 1
      BY <2>1, <3>1, StoredHits DEF Join
    <3>3. parent' \in [Labels -> Labels]
      BY <2>1, <3>1 DEF Join, Merged
    <3>4. QED
      BY <1>1, <1>6, <2>1, <3>2, <3>3 DEF Classify, Join, CclState
  <2>2. CASE NewLabel
    <3>1. labelCount \in Labels
      BY <2>2 DEF NewLabel, Labels
    <3>2. hits' \in Seq(Hit) /\ Len(hits') = Len(hits) + 1
      BY <2>2, <3>1, StoredHits DEF NewLabel
    <3>3. parent' \in [Labels -> Labels] /\ labelCount' \in 0..MaxLabels
      BY <2>2, <3>1 DEF NewLabel
    <3>4. QED
      BY <1>1, <1>6, <2>2, <3>2, <3>3 DEF Classify, NewLabel, CclState
  <2>3. CASE NoLabelLeft
    BY <1>1, <1>6, <2>3 DEF Classify, NoLabelLeft, CclState
  <2>4. QED
    BY <1>6, <2>1, <2>2, <2>3 DEF Classify
<1>7. CASE Replay(in)
  BY <1>1, <1>7 DEF Replay, CclState
<1>8. CASE CclDone(in)
  BY <1>1, <1>8 DEF CclDone, CclState
<1>9. CASE CclHold(in)
  BY <1>1, <1>9 DEF CclHold
<1>10. QED
  BY <1>2, <1>3, <1>4, <1>5, <1>6, <1>7, <1>8, <1>9 DEF CclEdge
-----------------------------------------------------------------------------
\* What storing a HIT does to the final labels, with or without a merge: the
\* labels in the mask become that of the new HIT, which no other HIT has.
StoresHit == Join \/ NewLabel

\* The final labels after a HIT was stored.
LEMMA StoredRoots ==
  ASSUME CclInv, StoresHit, NEW n, n = Len(hits) + 1
  PROVE  /\ Indices' = Indices \cup {n} /\ n \notin Indices
         /\ \A k \in Indices : hits'[k] = hits[k]
         /\ hits'[n].x = pending.x /\ hits'[n].y = pending.y
         /\ \A k \in Indices :
               Root(k)' = IF Root(k) \in mergeMask THEN Root(n)' ELSE Root(k)
         /\ \A k \in Indices : Root(k) = Root(n)' => Root(k) \in mergeMask
<1> USE DEF CclInv
<1>1. hits \in Seq(Hit) /\ Indices = 1..Len(hits) /\ parent \in [Labels -> Labels]
      /\ labelCount \in 0..MaxLabels /\ mergeMask \subseteq Labels
  BY DEF Indices, CclTypeOK
<1>2. \A k \in Indices : hits[k].label \in 0..(labelCount - 1) /\ hits[k].label \in Labels
  BY <1>1, RootType DEF FlatForest, Hit
<1>3. \A k \in Indices : Root(k) \in 0..(labelCount - 1) /\ parent[Root(k)] = Root(k)
  <2>1. SUFFICES ASSUME NEW k \in Indices
                 PROVE  Root(k) \in 0..(labelCount - 1) /\ parent[Root(k)] = Root(k)
    OBVIOUS
  <2>2. parent[hits[k].label] <= hits[k].label
        /\ parent[parent[hits[k].label]] = parent[hits[k].label]
    BY <1>2 DEF FlatForest
  <2>3. QED
    BY <1>1, <1>2, <2>2 DEF Root, Labels
<1>4. CASE Join
  <2>1. Selected \in mergeMask /\ Selected \in Labels
    BY <1>1, <1>4, SelectedIsLeast DEF Join
  <2>2. /\ hits' \in Seq(Hit) /\ Len(hits') = n
        /\ \A k \in Indices : hits'[k] = hits[k]
        /\ hits'[n] = [x |-> pending.x, y |-> pending.y, label |-> Selected]
    BY <1>4, <2>1, StoredHits DEF Join
  <2>3. Indices' = Indices \cup {n} /\ n \notin Indices
    BY <1>1, <2>2 DEF Indices
  <2>4. PICK j \in Indices : Root(j) = Selected
    BY <1>4, <2>1 DEF MaskComplete, Touched, Join
  <2>5. Selected \in 0..(labelCount - 1) /\ parent[Selected] = Selected
    BY <1>3, <2>4
  <2>6. Root(n)' = Selected
    BY <1>1, <1>4, <2>1, <2>2, <2>5 DEF Root, Join, Merged
  <2>7. \A k \in Indices :
          Root(k)' = IF Root(k) \in mergeMask THEN Selected ELSE Root(k)
    BY <1>1, <1>2, <1>4, <2>2 DEF Root, Join, Merged
  <2>8. QED
    BY <2>1, <2>2, <2>3, <2>6, <2>7
<1>5. CASE NewLabel
  <2>1. labelCount \in Labels /\ mergeMask = {}
    BY <1>1, <1>5 DEF NewLabel, Labels
  <2>2. /\ hits' \in Seq(Hit) /\ Len(hits') = n
        /\ \A k \in Indices : hits'[k] = hits[k]
        /\ hits'[n] = [x |-> pending.x, y |-> pending.y, label |-> labelCount]
    BY <1>5, <2>1, StoredHits DEF NewLabel
  <2>3. Indices' = Indices \cup {n} /\ n \notin Indices
    BY <1>1, <2>2 DEF Indices
  <2>4. Root(n)' = labelCount
    BY <1>1, <1>5, <2>1, <2>2 DEF Root, NewLabel
  <2>5. \A k \in Indices : Root(k)' = Root(k)
    BY <1>1, <1>2, <1>5, <2>2 DEF Root, NewLabel
  <2>6. \A k \in Indices : Root(k) # labelCount
    BY <1>1, <1>3
  <2>7. QED
    BY <2>1, <2>2, <2>3, <2>4, <2>5, <2>6
<1>6. QED
  BY <1>4, <1>5 DEF StoresHit

\* The distance of two HITs does not depend on which came first.
LEMMA NearSymmetric ==
  ASSUME NEW p, NEW q, p.x \in Int, p.y \in Int, q.x \in Int, q.y \in Int
  PROVE  Near(p, q) = Near(q, p)
BY DEF Near, Distance

\* The components of the stored HITs stay the sets of one final label when a HIT
\* is stored: those it touches become one component with it.
LEMMA ComponentsKept ==
  ASSUME CclInv, ccl = "CLASSIFY", StoresHit
  PROVE  LabelsAreComponents'
<1> DEFINE I == Indices
           near(k) == Near(pending, hits[k])
<1>1. PICK n : n = Len(hits) + 1
  OBVIOUS
<1>2. /\ Indices' = I \cup {n} /\ n \notin I
      /\ \A k \in I : hits'[k] = hits[k]
      /\ hits'[n].x = pending.x /\ hits'[n].y = pending.y
      /\ \A k \in I : Root(k)' = IF Root(k) \in mergeMask THEN Root(n)' ELSE Root(k)
      /\ \A k \in I : Root(k) = Root(n)' => Root(k) \in mergeMask
  BY <1>1, StoredRoots
\* The mask holds the labels of the touched components.
<1>3. \A k \in I : Root(k) \in mergeMask <=> \E j \in I : near(j) /\ Root(j) = Root(k)
  <2>1. mergeMask = {Root(k) : k \in {j \in I : j <= Len(hits) /\ near(j)}}
    BY DEF CclInv, MaskComplete, Touched
  <2>2. \A j \in I : j <= Len(hits)
    BY DEF Indices, CclInv, CclTypeOK
  <2>3. QED
    BY <2>1, <2>2
<1>4. \A k \in I : Near(hits'[n], hits'[k]) = near(k) /\ Near(hits'[k], hits'[n]) = near(k)
  <2>1. SUFFICES ASSUME NEW k \in I
                 PROVE  /\ Near(hits'[n], hits[k]) = near(k)
                        /\ Near(hits[k], hits'[n]) = near(k)
    BY <1>2
  <2>2. Near(hits'[n], hits[k]) = near(k)
    BY <1>2 DEF Near
  <2>3. hits[k].x \in Int /\ hits[k].y \in Int /\ pending.x \in Int /\ pending.y \in Int
    BY RootType DEF CclInv, CclTypeOK, Hit, Points
  <2>4. Near(hits[k], hits'[n]) = Near(hits'[n], hits[k])
    BY <1>2, <2>3, NearSymmetric
  <2>5. QED
    BY <2>2, <2>4
<1>5. \A i \in I : Component(SameLabel(i))
  BY DEF CclInv, LabelsAreComponents
<1>6. \A i \in I : SameLabel(i) \subseteq I /\ i \in SameLabel(i) /\ Closed(SameLabel(i))
  BY <1>5 DEF SameLabel, Component
\* A set that is closed afterwards takes in every component it meets.
<1>7. ASSUME NEW T \in SUBSET (I \cup {n}), Closed(T)', NEW i \in T \cap I
      PROVE  SameLabel(i) \subseteq T
  <2>1. Closed(T \cap SameLabel(i))
    BY <1>2, <1>6, <1>7 DEF Closed
  <2>2. T \cap SameLabel(i) # {}
    BY <1>6
  <2>3. QED
    BY <1>5, <2>1, <2>2 DEF Component
<1> DEFINE U == {k \in I \cup {n} : k = n \/ Root(k) \in mergeMask}
<1>8. PICK V : V = U
  OBVIOUS
<1>9. ASSUME NEW i \in I, Root(i) \notin mergeMask
      PROVE  Component(SameLabel(i))'
  <2>1. PICK C : C = SameLabel(i)
    OBVIOUS
  <2>2. SameLabel(i)' = C
    BY <1>2, <1>9, <2>1 DEF SameLabel
  <2>3. Closed(C)'
    <3>1. SUFFICES ASSUME NEW a \in C, NEW b \in I \cup {n}, Near(hits'[a], hits'[b])
                   PROVE  b \in C
      BY <1>2 DEF Closed
    <3>2. a \in I /\ Root(a) = Root(i)
      BY <2>1 DEF SameLabel
    <3>3. b # n
      BY <1>3, <1>4, <1>9, <3>1, <3>2
    <3>4. QED
      BY <1>2, <1>6, <2>1, <3>1, <3>2, <3>3 DEF Closed
  <2>4. ASSUME NEW T \in SUBSET C, T # {}, Closed(T)' PROVE T = C
    <3>1. PICK a \in T : a \in I
      BY <1>6, <2>1, <2>4
    <3>2. SameLabel(a) = C
      BY <2>1, <2>4, <3>1 DEF SameLabel
    <3>3. QED
      BY <1>6, <1>7, <2>1, <2>4, <3>1, <3>2
  <2>5. QED
    BY <2>2, <2>3, <2>4 DEF Component
<1>10. Closed(V)'
  <2>1. SUFFICES ASSUME NEW a \in V, NEW b \in I \cup {n}, Near(hits'[a], hits'[b]), b # n
                 PROVE  Root(b) \in mergeMask
    BY <1>2, <1>8 DEF Closed
  <2>2. CASE a = n
    BY <1>3, <1>4, <2>1, <2>2
  <2>3. CASE a # n
    <3>1. a \in I /\ b \in I /\ Root(a) \in mergeMask /\ Near(hits[a], hits[b])
      BY <1>2, <1>8, <2>1, <2>3
    <3>2. b \in SameLabel(a)
      BY <1>6, <3>1 DEF Closed
    <3>3. QED
      BY <3>1, <3>2 DEF SameLabel
  <2>4. QED
    BY <2>2, <2>3
<1>11. ASSUME NEW T \in SUBSET V, T # {}, Closed(T)' PROVE T = V
  <2>1. T \in SUBSET (I \cup {n})
    BY <1>8
  <2>2. \A k \in I : near(k) => (k \in T <=> n \in T)
    BY <1>2, <1>4, <1>11, <2>1 DEF Closed
  <2>3. \A k \in I : Root(k) \in mergeMask => (k \in T <=> n \in T)
    <3>1. SUFFICES ASSUME NEW k \in I, Root(k) \in mergeMask PROVE k \in T <=> n \in T
      OBVIOUS
    <3>2. PICK j \in I : near(j) /\ Root(j) = Root(k)
      BY <1>3, <3>1
    <3>3. SameLabel(j) = SameLabel(k) /\ j \in SameLabel(j) /\ k \in SameLabel(j)
      BY <3>2 DEF SameLabel
    <3>4. j \in T <=> k \in T
      BY <1>7, <1>11, <2>1, <3>3
    <3>5. QED
      BY <2>2, <3>2, <3>4
  <2>4. QED
    BY <1>8, <1>11, <2>3
<1>12. ASSUME NEW i \in I \cup {n}, i = n \/ Root(i) \in mergeMask
       PROVE  Component(SameLabel(i))'
  <2>1. SameLabel(i)' = V
    BY <1>2, <1>8, <1>12 DEF SameLabel
  <2>2. QED
    BY <1>10, <1>11, <2>1 DEF Component
<1>13. QED
  BY <1>2, <1>9, <1>12 DEF LabelsAreComponents

\* Storing a HIT keeps the parent table flat.
LEMMA ForestKept ==
  ASSUME CclInv, StoresHit
  PROVE  FlatForest'
<1> USE DEF CclInv
<1>1. PICK n : n = Len(hits) + 1
  OBVIOUS
<1>2. parent \in [Labels -> Labels] /\ labelCount \in 0..MaxLabels
      /\ mergeMask \subseteq Labels /\ hits \in Seq(Hit) /\ Indices = 1..Len(hits)
  BY DEF CclTypeOK, Indices
<1>3. \A l \in 0..(labelCount - 1) :
        parent[l] \in 0..(labelCount - 1) /\ parent[l] <= l /\ parent[parent[l]] = parent[l]
  BY <1>2 DEF FlatForest, Labels
<1>4. Indices' = Indices \cup {n} /\ \A k \in Indices : hits'[k] = hits[k]
  BY <1>1, StoredRoots
<1>5. CASE Join
  <2>1. Selected \in mergeMask /\ \A m \in mergeMask : Selected <= m
    BY <1>2, <1>5, SelectedIsLeast DEF Join
  <2>2. hits'[n].label = Selected /\ labelCount' = labelCount
    <3>1. hits' = Stored(Selected) /\ Selected \in Labels
      BY <1>2, <1>5, <2>1 DEF Join
    <3>2. hits'[n] = [x |-> pending.x, y |-> pending.y, label |-> Selected]
      BY <1>1, <3>1, StoredHits
    <3>3. QED
      BY <1>5, <3>2 DEF Join
  <2>3. PICK j \in Indices : Root(j) = Selected
    BY <1>5, <2>1 DEF MaskComplete, Touched, Join
  <2>4. Selected \in 0..(labelCount - 1) /\ parent[Selected] = Selected
    BY <1>3, <2>3 DEF FlatForest, Root
  <2>5. \A l \in 0..(labelCount - 1) :
          parent'[l] = IF parent[l] \in mergeMask THEN Selected ELSE parent[l]
    BY <1>2, <1>5 DEF Join, Merged, Labels
  <2>6. \A l \in 0..(labelCount - 1) : parent'[l] <= l /\ parent'[parent'[l]] = parent'[l]
    BY <1>2, <1>3, <2>1, <2>4, <2>5
  <2>7. {hits'[k].label : k \in Indices'} \subseteq 0..(labelCount - 1)
    BY <1>4, <2>2, <2>4 DEF FlatForest
  <2>8. \A l \in 0..(labelCount - 1) : \E k \in Indices' : hits'[k].label = l
    BY <1>4 DEF FlatForest
  <2>9. QED
    BY <2>2, <2>6, <2>7, <2>8 DEF FlatForest
<1>6. CASE NewLabel
  <2>1. labelCount \in Labels /\ labelCount' = labelCount + 1
    BY <1>2, <1>6 DEF NewLabel, Labels
  <2>2. hits'[n].label = labelCount
    <3>1. hits' = Stored(labelCount)
      BY <1>6 DEF NewLabel
    <3>2. hits'[n] = [x |-> pending.x, y |-> pending.y, label |-> labelCount]
      BY <1>1, <2>1, <3>1, StoredHits
    <3>3. QED
      BY <3>2
  <2>3. parent'[labelCount] = labelCount
        /\ \A l \in 0..(labelCount - 1) : parent'[l] = parent[l]
    BY <1>2, <1>6, <2>1 DEF NewLabel, Labels
  <2>4. \A l \in 0..labelCount : l \in 0..(labelCount - 1) \/ l = labelCount
    BY <1>2
  <2>5. \A l \in 0..labelCount : parent'[l] <= l /\ parent'[parent'[l]] = parent'[l]
    BY <1>2, <1>3, <2>3, <2>4
  <2>6. {hits'[k].label : k \in Indices'} \subseteq 0..labelCount
    <3>1. \A k \in Indices : hits[k].label \in 0..(labelCount - 1)
      BY DEF FlatForest
    <3>2. \A k \in Indices' : hits'[k].label \in 0..labelCount
      BY <1>2, <1>4, <2>2, <3>1
    <3>3. QED
      BY <3>2
  <2>7. \A l \in 0..labelCount : \E k \in Indices' : hits'[k].label = l
    BY <1>4, <2>2, <2>4 DEF FlatForest
  <2>8. labelCount' - 1 = labelCount
    BY <1>2, <2>1
  <2>9. QED
    BY <2>5, <2>6, <2>7, <2>8 DEF FlatForest
<1>7. QED
  BY <1>5, <1>6 DEF StoresHit

\* A scan takes the HITs one by one, and ends when all were looked at.
LEMMA MaskStep ==
  ASSUME CclInv, NEW in \in CclInputs, CclEdge(in)
  PROVE  MaskComplete'
<1> USE DEF CclInv
<1>1. hits \in Seq(Hit) /\ Indices = 1..Len(hits) /\ Len(hits) \in Nat
  BY DEF CclTypeOK, Indices
<1>2. CASE TakeHit(in)
  <2>1. hits' = hits /\ parent' = parent /\ mergeMask' = {} /\ scanIndex' = 1
    BY <1>2 DEF TakeHit
  <2>2. Touched(0)' = {}
    BY <1>1, <2>1 DEF Touched, Indices
  <2>3. CASE hits = <<>>
    BY <1>2, <2>1, <2>2, <2>3 DEF TakeHit, MaskComplete
  <2>4. CASE hits # <<>>
    <3>1. Len(hits) >= 1 /\ ccl' = "SCAN"
      BY <1>1, <1>2, <2>4 DEF TakeHit
    <3>2. QED
      BY <2>1, <2>2, <3>1 DEF MaskComplete
  <2>5. QED
    BY <2>3, <2>4
<1>3. CASE Scan
  <2>1. scanIndex \in 1..Len(hits) /\ mergeMask = Touched(scanIndex - 1)
    BY <1>3 DEF Scan, MaskComplete, CclTypeOK
  <2>2. hits' = hits /\ parent' = parent /\ pending' = pending
    BY <1>3 DEF Scan
  <2>3. mergeMask' = Touched(scanIndex)
    <3>1. \A j \in Indices : j <= scanIndex <=> j <= scanIndex - 1 \/ j = scanIndex
      BY <1>1, <2>1
    <3>2. QED
      BY <1>1, <1>3, <2>1, <3>1 DEF Scan, Touched
  <2>4. \A m : Touched(m)' = Touched(m)
    BY <2>2 DEF Touched, Root, Indices
  <2>5. CASE scanIndex = Len(hits)
    BY <1>3, <2>2, <2>3, <2>4, <2>5 DEF Scan, MaskComplete
  <2>6. CASE scanIndex # Len(hits)
    <3>1. scanIndex' = scanIndex + 1 /\ scanIndex' - 1 = scanIndex /\ scanIndex' <= Len(hits)
      BY <1>1, <1>3, <2>1, <2>6 DEF Scan
    <3>2. ccl' = "SCAN"
      BY <1>3, <2>6 DEF Scan
    <3>3. QED
      BY <2>2, <2>3, <2>4, <3>1, <3>2 DEF MaskComplete
  <2>7. QED
    BY <2>5, <2>6
<1>4. CASE CclStart(in) \/ TakeFrameDone(in) \/ Classify \/ Replay(in) \/ CclDone(in) \/ CclHold(in)
  <2>1. ccl' \notin {"SCAN", "CLASSIFY"}
    BY <1>4 DEF CclStart, TakeFrameDone, Classify, Replay, CclDone, CclHold
  <2>2. QED
    BY <2>1 DEF MaskComplete
<1>5. QED
  BY <1>2, <1>3, <1>4 DEF CclEdge

\* Every edge, with any inputs, keeps the invariant.
LEMMA CclInvStep == CclInv /\ [CclNext]_cclVars => CclInv'
<1> SUFFICES ASSUME CclInv, [CclNext]_cclVars PROVE CclInv'
  OBVIOUS
<1>1. ASSUME NEW in \in CclInputs, CclEdge(in) PROVE CclInv'
  <2>1. CclTypeOK' /\ RoomLeft' /\ MaskComplete'
    BY <1>1, CclTypeStep, MaskStep
  <2>2. CASE CclStart(in)
    <3>1. Indices' = {} /\ labelCount' = 0
      BY <2>2 DEF CclStart, Indices
    <3>2. FlatForest' /\ LabelsAreComponents'
      BY <3>1 DEF FlatForest, LabelsAreComponents
    <3>3. QED
      BY <2>1, <3>2 DEF CclInv
  <2>3. CASE Classify /\ StoresHit
    BY <2>1, <2>3, ForestKept, ComponentsKept DEF CclInv, StoresHit, Join, NewLabel
  <2>4. CASE UNCHANGED <<hits, parent, labelCount>>
    <3>1. FlatForest' /\ LabelsAreComponents'
      BY <2>4 DEF CclInv, FlatForest, LabelsAreComponents, Component, Closed, SameLabel,
                  Root, Indices
    <3>2. QED
      BY <2>1, <3>1 DEF CclInv
  <2>5. CASE TakeHit(in) \/ TakeFrameDone(in) \/ Scan \/ Replay(in) \/ CclDone(in) \/ CclHold(in)
    BY <2>4, <2>5 DEF TakeHit, TakeFrameDone, Scan, Replay, CclDone, CclHold
  <2>6. CASE Classify /\ ~StoresHit
    BY <2>4, <2>6 DEF Classify, StoresHit, NoLabelLeft
  <2>7. QED
    BY <1>1, <2>2, <2>3, <2>5, <2>6 DEF CclEdge
<1>2. CASE UNCHANGED cclVars
  <2>1. CclTypeOK' /\ RoomLeft'
    BY <1>2 DEF cclVars, CclInv, CclTypeOK, RoomLeft
  <2>2. FlatForest'
    BY <1>2 DEF cclVars, CclInv, FlatForest, Indices
  <2>3. LabelsAreComponents'
    BY <1>2 DEF cclVars, CclInv, LabelsAreComponents, Component, Closed, SameLabel, Root,
                Indices
  <2>4. MaskComplete'
    BY <1>2 DEF cclVars, CclInv, MaskComplete, Touched, Root, Indices
  <2>5. QED
    BY <2>1, <2>2, <2>3, <2>4 DEF CclInv
<1>3. QED
  BY <1>1, <1>2 DEF CclNext

\* The labeling by itself, with neighbours that do anything.
THEOREM CclInvariant == CclSpec => []CclInv
BY CclInvInit, CclInvStep, PTL DEF CclSpec

\* Whatever events come in whatever order, the registers and memories stay in range.
THEOREM CclTypeCorrect == CclSpec => []CclTypeOK
BY CclInvariant, PTL DEF CclInv

\* For every frame size, threshold and table size, after any merges and any number
\* of frames, the HITs of one label are a connected component.
THEOREM LabelsAreComponentsHolds == CclSpec => []LabelsAreComponents
BY CclInvariant, PTL DEF CclInv

\* One lookup in the parent table finds the final label.
THEOREM FlatForestHolds == CclSpec => []FlatForest
BY CclInvariant, PTL DEF CclInv

\* The scan misses no HIT that touches the one being classified.
THEOREM MaskCompleteHolds == CclSpec => []MaskComplete
BY CclInvariant, PTL DEF CclInv

-----------------------------------------------------------------------------
(* The composition: a frame in its phases.                                 *)

HIDE CclAssumption

\* The phases of a frame: its events come in, its HITs are replayed, the rows of the
\* table are listed, the result waits to be sent.
Streaming == builder = "COLLECT" /\ ccl \in {"WAIT", "SCAN", "CLASSIFY"} /\ op = "ACCUM"
Replaying == builder = "COLLECT" /\ ccl = "OUTPUT" /\ op = "ACCUM"
Replayed  == builder = "COLLECT" /\ ccl = "DONE" /\ op = "ACCUM"
Listing   == builder = "COLLECT" /\ ccl = "IDLE" /\ op \in {"SCAN", "OUTPUT", "DONE"}
Answering == builder \in {"READY", "SEND", "DONE"} /\ ccl = "IDLE" /\ op = "IDLE"
Idling    == builder = "IDLE" /\ ccl = "IDLE" /\ op = "IDLE"

PhaseInv == Streaming \/ Replaying \/ Replayed \/ Listing \/ Answering \/ Idling

\* The events of a frame.
StreamEvents == Source!Hits \cup {Source!RowDone(y) : y \in 0..(Height - 1)} \cup {Source!FrameDone}

\* The scanner, and the rows that packer and ingress count along.
ScanInv ==
  /\ scanning \in BOOLEAN /\ packing = scanning /\ nextRow \in 0..Height
  /\ offer \in StreamEvents \cup {NoEvent}
  /\ offer.type = "hit" => nextRow < Height
  /\ offer.type = "row" => nextRow < Height /\ offer = Source!RowDone(nextRow)
  /\ offer.type = "frame" => nextRow = Height
  /\ ~scanning => offer = NoEvent
  /\ scanning => /\ Streaming /\ packRow = nextRow /\ row = nextRow
                 /\ packLast = (nextRow = Height) /\ lastRow = (nextRow = Height)
                 /\ ~frameDone /\ ~packDone /\ ~ip2Done
  /\ packBlocked \in {NoEvent, offer} /\ blocked \in {NoEvent, offer}

\* The end of the stream reaches the ingress before the result does.
EndInv ==
  /\ ingress = (builder # "IDLE")
  /\ ingress /\ ~scanning => frameDone
  /\ packDone \in BOOLEAN /\ ip2Done \in BOOLEAN
  /\ Streaming /\ ~scanning => packDone # ip2Done
  /\ ~Streaming => ~packDone
  /\ ingress /\ ~Streaming => ip2Done

\* The queued events: the last one, and only that, ends the frame.
FifoInv ==
  /\ fifo \in Seq(StreamEvents)
  /\ ~Streaming => fifo = <<>>
  /\ Streaming /\ ~scanning => fifo # <<>>
  /\ \A j \in DOMAIN fifo : fifo[j].type = "frame" <=> ~scanning /\ j = Len(fifo)

\* The HITs accumulated are those replayed so far.
TableInv ==
  /\ DOMAIN table = Labels
  /\ \A l \in Labels : /\ table[l].n \in 0..accumulated
                       /\ table[l].sumX \in 0..(accumulated * Width)
                       /\ table[l].sumY \in 0..(accumulated * Height)
  /\ Streaming => accumulated = 0
  /\ Streaming \/ Replaying => ~sawLast
  /\ Replaying => accumulated = outputIndex - 1
  /\ Replayed => sawLast \/ accumulated = 0

\* No stage sees what it does not expect.
ErrorInv ==
  /\ opErrors = {} /\ packErrors = {} /\ ingressErrors = {}
  /\ cclErrors \subseteq {"hitOverflow", "labelOverflow"}
  /\ builderErrors \subseteq {"recordOverflow"}

\* No HIT of this frame has been dropped.
Lossless == {"hitOverflow", "labelOverflow"} \cap (frameErrors \cup cclErrors) = {}

Position(p) == [x |-> p.x, y |-> p.y]
InHand == IF ccl \in {"SCAN", "CLASSIFY"} THEN 1 ELSE 0
HitIn(e) == IF e.type = "hit" THEN 1 ELSE 0

\* The HITs sent are those stored, the one in hand, those queued and the one on
\* offer, in this order: place[j] HITs were sent before the queued event j.
Places(place) ==
  /\ place[1] = Len(hits) + InHand
  /\ place[Len(fifo) + 1] + HitIn(offer) = Len(sent)
  /\ \A j \in DOMAIN fifo :
       /\ place[j + 1] = place[j] + HitIn(fifo[j])
       /\ fifo[j].type = "hit" => sent[place[j] + 1] = Position(fifo[j])

\* What was sent is what is stored, in hand, queued and on offer.
SentInv ==
  /\ \A k \in Indices : k <= Len(sent) /\ sent[k] = Position(hits[k])
  /\ InHand = 1 => sent[Len(hits) + 1] = pending
  /\ offer.type = "hit" => sent[Len(sent)] = Position(offer)
  /\ \E place \in [1..(Len(fifo) + 1) -> 0..Len(sent)] : Places(place)

\* As long as no HIT was dropped, and in a packet that reports no error.
DataInv ==
  /\ sent \in Seq([x : 0..(Width - 1), y : 0..(Height - 1)])
  /\ builder = "COLLECT" /\ Lossless => SentInv
  /\ Result /\ packet.errors = {} => Len(sent) = Len(hits) /\ SentInv

\* The inductive invariant of the event stream.
StreamInv == PhaseInv /\ ScanInv /\ EndInv /\ FifoInv /\ TableInv /\ ErrorInv /\ DataInv

\* One edge of the composition, with the inputs Next gives it.
Clocked(start, clear, send, last) ==
  /\ Edge(start, clear, send, last)
  /\ start => StartReady
  /\ send => builder = "READY"
  /\ last => builder = "SEND"

\* Every step is such an edge or a stutter.
LEMMA StepIsEdge ==
  ASSUME [Next]_postVars
  PROVE  \/ UNCHANGED postVars
         \/ \E start, clear, send, last \in BOOLEAN : Clocked(start, clear, send, last)
<1>1. CASE Start
  <2>1. Clocked(TRUE, FALSE, FALSE, FALSE)
    BY <1>1 DEF Start, Clocked
  <2>2. QED
    BY <2>1
<1>2. CASE Run
  <2>1. Clocked(FALSE, FALSE, FALSE, FALSE)
    BY <1>2 DEF Run, Clocked
  <2>2. QED
    BY <2>1
<1>3. CASE ErrorClear
  <2>1. Clocked(FALSE, TRUE, FALSE, FALSE)
    BY <1>3 DEF ErrorClear, Clocked
  <2>2. QED
    BY <2>1
<1>4. CASE Send
  <2>1. Clocked(FALSE, FALSE, TRUE, FALSE)
    BY <1>4 DEF Send, Clocked
  <2>2. QED
    BY <2>1
<1>5. CASE LastBeat
  <2>1. Clocked(FALSE, FALSE, FALSE, TRUE)
    BY <1>5 DEF LastBeat, Clocked
  <2>2. QED
    BY <2>1
<1>6. QED
  BY <1>1, <1>2, <1>3, <1>4, <1>5 DEF Next

\* What an event of the stream is.
LEMMA EventShape ==
  ASSUME NEW e \in StreamEvents
  PROVE  /\ e \in Events /\ e # NoEvent /\ ~Malformed(e)
         /\ e.type \in {"hit", "row", "frame"}
         /\ e.type = "hit" => InFrame(e) /\ Position(e) \in Points
         /\ e.type = "frame" => e = Source!FrameDone
<1>1. CASE e \in Source!Hits
  <2>1. e.type = "hit" /\ e.x \in 0..(Width - 1) /\ e.y \in 0..(Height - 1)
    BY <1>1 DEF Source!Hits
  <2>2. e \in Events
    BY <1>1, CclAssumption DEF Source!Hits, Events
  <2>3. InFrame(e) /\ Position(e) \in Points
    BY <2>1, CclAssumption DEF InFrame, Position, Points
  <2>4. QED
    BY <2>1, <2>2, <2>3 DEF NoEvent, Malformed
<1>2. CASE e \in {Source!RowDone(y) : y \in 0..(Height - 1)}
  <2>1. PICK y \in 0..(Height - 1) : e = [type |-> "row", x |-> 0, y |-> y]
    BY <1>2 DEF Source!RowDone
  <2>2. e.type = "row" /\ e.x = 0
    BY <2>1
  <2>3. e \in Events
    BY <2>1 DEF Events
  <2>4. QED
    BY <2>2, <2>3 DEF NoEvent, Malformed
<1>3. CASE e = Source!FrameDone
  <2>1. e = [type |-> "frame", x |-> 0, y |-> Height - 1]
    BY <1>3 DEF Source!FrameDone
  <2>2. e.type = "frame" /\ e.x = 0 /\ e.y = Height - 1
    BY <2>1
  <2>3. e \in Events
    BY <2>1, CclAssumption DEF Events
  <2>4. QED
    BY <1>3, <2>2, <2>3 DEF NoEvent, Malformed
<1>4. QED
  BY <1>1, <1>2, <1>3 DEF StreamEvents

\* The head of the queue.
LEMMA HeadShape ==
  ASSUME FifoInv
  PROVE  /\ fifo = <<>> => HeadEvent = NoEvent
         /\ fifo # <<>> => /\ HeadEvent = fifo[1] /\ fifo[1] \in StreamEvents
                           /\ 1 \in DOMAIN fifo /\ Len(fifo) \in Nat \ {0}
BY DEF FifoInv, HeadEvent

\* The labeling in its surroundings is the labeling by itself: it reads an event only
\* when it waits for one.
LEMMA CclAlone ==
  ASSUME CclInv, FifoInv, NEW start \in BOOLEAN, NEW clear \in BOOLEAN,
         CclEdge(CclIn(start, clear))
  PROVE  CclInv'
<1> DEFINE in == CclIn(start, clear)
           b == [start |-> start, clear |-> clear,
                 event |-> IF ccl \in {"IDLE", "WAIT"} THEN HeadEvent ELSE NoEvent,
                 hitReady |-> ccl = "OUTPUT" /\ Props!HitReady,
                 doneReady |-> ccl = "DONE" /\ Props!DoneReady(ccl = "OUTPUT")]
<1>1. HeadEvent \in Events \cup {NoEvent}
  BY HeadShape, EventShape
<1>2. b \in CclInputs
  BY <1>1 DEF CclInputs
<1>3. /\ in.start = b.start /\ in.clear = b.clear
      /\ ccl \in {"IDLE", "WAIT"} => in.event = b.event
      /\ ccl = "OUTPUT" => in.hitReady = b.hitReady
      /\ ccl = "DONE" => in.doneReady = b.doneReady
  <2>1. /\ in.start = start /\ in.clear = clear /\ in.event = HeadEvent
        /\ in.hitReady = Props!HitReady /\ in.doneReady = Props!DoneReady(ccl = "OUTPUT")
    BY Zenon DEF CclIn
  <2>2. /\ b.start = start /\ b.clear = clear
        /\ b.event = IF ccl \in {"IDLE", "WAIT"} THEN HeadEvent ELSE NoEvent
        /\ b.hitReady = (ccl = "OUTPUT" /\ Props!HitReady)
        /\ b.doneReady = (ccl = "DONE" /\ Props!DoneReady(ccl = "OUTPUT"))
    BY Zenon
  <2> HIDE DEF in, b
  <2>3. /\ ccl = "OUTPUT" => b.hitReady = Props!HitReady
        /\ ccl = "DONE" => b.doneReady = Props!DoneReady(ccl = "OUTPUT")
    BY <2>2 DEF Props!HitReady, Props!DoneReady
  <2>4. QED
    BY <2>1, <2>2, <2>3
<1> HIDE DEF in, b
<1>4. CclRaised(in) = CclRaised(b)
  BY <1>3 DEF CclRaised
<1>5. CclEdge(b)
  <2>1. CclEdge(in)
    BY DEF in
  <2>2. \/ CclStart(in) \/ TakeHit(in) \/ TakeFrameDone(in) \/ Scan \/ Classify
        \/ Replay(in) \/ CclDone(in) \/ CclHold(in)
    BY <2>1 DEF CclEdge
  <2>3. \/ CclStart(b) \/ TakeHit(b) \/ TakeFrameDone(b) \/ Scan \/ Classify
        \/ Replay(b) \/ CclDone(b) \/ CclHold(b)
    BY <1>3, <2>2 DEF CclStart, TakeHit, TakeFrameDone, Replay, CclDone, CclHold
  <2>4. QED
    BY <1>3, <1>4, <2>1, <2>3 DEF CclEdge
<1>6. QED
  BY <1>2, <1>5, CclInvStep DEF CclNext

\* What the labeling and the table see of their surroundings.
LEMMA InputsAre ==
  ASSUME NEW start \in BOOLEAN, NEW clear \in BOOLEAN
  PROVE  LET c == CclIn(start, clear)
             o == OpIn(start, clear)
         IN /\ c.start = start /\ c.clear = clear /\ c.event = HeadEvent
            /\ c.hitReady = (op = "ACCUM")
            /\ c.doneReady = (op = "ACCUM" /\ ~(ccl = "OUTPUT"))
            /\ o.start = start /\ o.clear = clear
            /\ o.hit.valid = (ccl = "OUTPUT") /\ o.cclDone = (ccl = "DONE")
            /\ ccl = "OUTPUT" =>
                 o.hit = [x |-> hits[outputIndex].x, y |-> hits[outputIndex].y,
                          label |-> Root(outputIndex), last |-> outputIndex = Len(hits),
                          valid |-> TRUE]
            /\ o.propertyReady = (builder = "COLLECT") /\ o.doneReady = (builder = "COLLECT")
<1> DEFINE c == CclIn(start, clear)
           o == OpIn(start, clear)
<1>1. /\ c.start = start /\ c.clear = clear /\ c.event = HeadEvent
      /\ c.hitReady = (op = "ACCUM")
      /\ c.doneReady = (op = "ACCUM" /\ ~(ccl = "OUTPUT"))
  BY Zenon DEF CclIn, Props!HitReady, Props!DoneReady
<1>2. /\ o.start = start /\ o.clear = clear /\ o.cclDone = (ccl = "DONE")
      /\ o.propertyReady = (builder = "COLLECT") /\ o.doneReady = (builder = "COLLECT")
      /\ o.hit = IF ccl = "OUTPUT"
                 THEN [x |-> LabeledHit.x, y |-> LabeledHit.y, label |-> LabeledHit.label,
                       last |-> LabeledHit.last, valid |-> TRUE]
                 ELSE Props!NoLabeledHit
  BY Zenon DEF OpIn
<1> DEFINE h == [x |-> hits[outputIndex].x, y |-> hits[outputIndex].y,
                 label |-> Root(outputIndex), last |-> outputIndex = Len(hits),
                 valid |-> TRUE]
<1>3. [x |-> LabeledHit.x, y |-> LabeledHit.y, label |-> LabeledHit.label,
       last |-> LabeledHit.last, valid |-> TRUE] = h
  BY Zenon DEF LabeledHit
<1>4. h.valid = TRUE /\ Props!NoLabeledHit.valid = FALSE
  BY DEF Props!NoLabeledHit
<1>5. o.hit = IF ccl = "OUTPUT" THEN h ELSE Props!NoLabeledHit
  BY <1>2, <1>3, Zenon
<1> HIDE DEF c, o, h
<1>6. o.hit.valid = (ccl = "OUTPUT")
  BY <1>4, <1>5
<1>7. QED
  BY <1>1, <1>2, <1>5, <1>6, Zenon DEF c, o, h

\* While nothing is under way only a start changes something.
LEMMA FromIdling ==
  ASSUME StreamInv, Idling, NEW start \in BOOLEAN, NEW clear \in BOOLEAN,
         NEW send \in BOOLEAN, NEW last \in BOOLEAN, Clocked(start, clear, send, last)
  PROVE  /\ start => /\ ccl' = "WAIT" /\ hits' = <<>> /\ op' = "ACCUM" /\ builder' = "COLLECT"
                     /\ accumulated' = 0 /\ sawLast' = FALSE
                     /\ table' = [l \in Labels |-> Props!NoRow]
         /\ ~start => UNCHANGED <<ccl, hits, outputIndex, op, table, accumulated, sawLast,
                                  builder>>
<1> DEFINE c == CclIn(start, clear)
           o == OpIn(start, clear)
<1>a. /\ c.start = start /\ c.event = HeadEvent
      /\ c.hitReady = (op = "ACCUM") /\ c.doneReady = (op = "ACCUM" /\ ~(ccl = "OUTPUT"))
      /\ o.start = start /\ o.hit.valid = (ccl = "OUTPUT") /\ o.cclDone = (ccl = "DONE")
      /\ o.propertyReady = (builder = "COLLECT") /\ o.doneReady = (builder = "COLLECT")
  BY InputsAre, Zenon
<1>1. /\ CclEdge(c) /\ Props!OpEdge(o)
      /\ Builder(start, clear, send, last)
      /\ ccl = "IDLE" /\ op = "IDLE" /\ builder = "IDLE"
  BY DEF Clocked, Edge, Idling
<1> HIDE DEF c, o
<1>2. \/ CclStart(c)
      \/ ccl' = ccl /\ hits' = hits /\ outputIndex' = outputIndex /\ ~start
  <2>1. \/ CclStart(c) \/ TakeHit(c) \/ TakeFrameDone(c) \/ Scan \/ Classify
        \/ Replay(c) \/ CclDone(c) \/ CclHold(c)
    BY <1>1 DEF CclEdge
  <2>2. ~TakeHit(c) /\ ~TakeFrameDone(c) /\ ~Scan /\ ~Classify /\ ~Replay(c) /\ ~CclDone(c)
    BY <1>1 DEF TakeHit, TakeFrameDone, Scan, Classify, Join, NewLabel, NoLabelLeft, Replay,
                CclDone
  <2>3. CclHold(c) => ccl' = ccl /\ hits' = hits /\ outputIndex' = outputIndex /\ ~start
    BY <1>1, <1>a DEF CclHold
  <2>4. QED
    BY <2>1, <2>2, <2>3
<1>3. \/ Props!OpStart(o)
      \/ UNCHANGED <<op, table, accumulated, sawLast>> /\ ~start
  BY <1>1, <1>a DEF Props!OpEdge, Props!OpStart, Props!Accumulate, Props!EndOfHits,
       Props!ScanRow, Props!EmitRow, Props!OpDone, Props!OpHold, Props!DoneReady
<1>4. builder' = IF start THEN "COLLECT" ELSE builder
  BY <1>1 DEF Builder
<1>5. CclStart(c) =>
        /\ start /\ ccl' = "WAIT" /\ hits' = <<>>
  BY <1>a DEF CclStart
<1>6. Props!OpStart(o) =>
        /\ start /\ op' = "ACCUM" /\ accumulated' = 0 /\ sawLast' = FALSE
        /\ table' = [l \in Labels |-> Props!NoRow]
  BY <1>a DEF Props!OpStart, Props!Rows, Labels
<1>7. QED
  BY <1>2, <1>3, <1>4, <1>5, <1>6

\* The events of a frame come in: the table waits.
LEMMA FromStreaming ==
  ASSUME StreamInv, CclInv, Streaming, NEW start \in BOOLEAN, NEW clear \in BOOLEAN,
         NEW send \in BOOLEAN, NEW last \in BOOLEAN, Clocked(start, clear, send, last)
  PROVE  /\ ~start /\ UNCHANGED <<op, table, accumulated, sawLast, builder>>
         /\ \/ /\ ccl = "WAIT" /\ HeadEvent.type = "frame" /\ hits' = hits /\ outputIndex' = 1
               /\ ccl' = IF hits = <<>> THEN "DONE" ELSE "OUTPUT"
            \/ /\ ccl = "WAIT" /\ HeadEvent.type = "hit" /\ Len(hits) # MaxHits
               /\ ccl' \in {"SCAN", "CLASSIFY"} /\ hits' = hits
               /\ pending' = Position(HeadEvent)
            \/ /\ ccl = "WAIT" /\ HeadEvent.type \notin {"frame"} /\ ccl' = ccl /\ hits' = hits
               /\ HeadEvent.type = "hit" => "hitOverflow" \in cclErrors'
            \/ /\ ccl = "SCAN" /\ ccl' \in {"SCAN", "CLASSIFY"} /\ hits' = hits
               /\ pending' = pending
            \/ /\ ccl = "CLASSIFY" /\ ccl' = "WAIT"
               /\ \/ \E l : hits' = Stored(l)
                  \/ hits' = hits /\ "labelOverflow" \in cclErrors'
<1> DEFINE c == CclIn(start, clear)
           o == OpIn(start, clear)
<1>a. /\ c.start = start /\ c.event = HeadEvent
      /\ c.hitReady = (op = "ACCUM") /\ c.doneReady = (op = "ACCUM" /\ ~(ccl = "OUTPUT"))
      /\ o.start = start /\ o.hit.valid = (ccl = "OUTPUT") /\ o.cclDone = (ccl = "DONE")
      /\ o.propertyReady = (builder = "COLLECT") /\ o.doneReady = (builder = "COLLECT")
  BY InputsAre, Zenon
<1>1. /\ CclEdge(c) /\ Props!OpEdge(o)
      /\ Builder(start, clear, send, last)
      /\ ccl \in {"WAIT", "SCAN", "CLASSIFY"} /\ op = "ACCUM" /\ builder = "COLLECT"
  BY DEF Clocked, Edge, Streaming
<1> HIDE DEF c, o
<1>b. \/ CclStart(c) \/ TakeHit(c) \/ TakeFrameDone(c) \/ Scan \/ Classify
      \/ Replay(c) \/ CclDone(c) \/ CclHold(c)
  BY <1>1 DEF CclEdge
<1>c. CclRaised(c) \subseteq cclErrors'
  BY <1>1 DEF CclEdge
<1>2. ~start
  BY <1>1 DEF Clocked, StartReady
<1>3. UNCHANGED <<op, table, accumulated, sawLast>>
  BY <1>1, <1>a DEF Props!OpEdge, Props!OpStart, Props!Accumulate, Props!EndOfHits,
       Props!ScanRow, Props!EmitRow, Props!OpDone, Props!OpHold, Props!DoneReady
<1>4. builder' = builder
  BY <1>1, <1>2 DEF Builder, Props!PropertiesDone
<1>5. HeadEvent.type = "hit" => InFrame(HeadEvent)
  BY HeadShape, EventShape DEF StreamInv, NoEvent
<1>6. CASE ccl = "WAIT"
  <2>1. TakeHit(c) \/ TakeFrameDone(c) \/ CclHold(c)
    <3>1. ~CclStart(c) /\ ~Scan /\ ~Classify /\ ~Replay(c) /\ ~CclDone(c)
      BY <1>6 DEF CclStart, Scan, Classify, Join, NewLabel, NoLabelLeft, Replay, CclDone
    <3>2. QED
      BY <1>b, <3>1
  <2>2. CASE TakeHit(c)
    BY <1>2, <1>3, <1>4, <1>6, <2>2, <1>a DEF TakeHit, Position
  <2>3. CASE TakeFrameDone(c)
    BY <1>2, <1>3, <1>4, <1>6, <2>3, <1>a DEF TakeFrameDone
  <2>4. CASE CclHold(c)
    <3>1. /\ HeadEvent.type # "frame" /\ ccl' = ccl /\ hits' = hits
          /\ HeadEvent.type = "hit" => Len(hits) = MaxHits
      BY <1>5, <1>6, <2>4, <1>a DEF CclHold
    <3>2. HeadEvent.type = "hit" => "hitOverflow" \in cclErrors'
      BY <1>5, <1>6, <3>1, <1>a, <1>c DEF CclRaised, CclError
    <3>3. QED
      BY <1>2, <1>3, <1>4, <1>6, <3>1, <3>2
  <2>5. QED
    BY <2>1, <2>2, <2>3, <2>4
<1>7. CASE ccl = "SCAN"
  <2>1. Scan
    <3>1. /\ ~CclStart(c) /\ ~TakeHit(c) /\ ~TakeFrameDone(c) /\ ~Classify /\ ~Replay(c)
          /\ ~CclDone(c) /\ ~CclHold(c)
      BY <1>7 DEF CclStart, TakeHit, TakeFrameDone, Classify, Join, NewLabel, NoLabelLeft,
                  Replay, CclDone, CclHold
    <3>2. QED
      BY <1>b, <3>1
  <2>2. QED
    BY <1>2, <1>3, <1>4, <1>7, <2>1 DEF Scan
<1>8. CASE ccl = "CLASSIFY"
  <2>1. Classify
    <3>1. /\ ~CclStart(c) /\ ~TakeHit(c) /\ ~TakeFrameDone(c) /\ ~Scan /\ ~Replay(c)
          /\ ~CclDone(c) /\ ~CclHold(c)
      BY <1>8 DEF CclStart, TakeHit, TakeFrameDone, Scan, Replay, CclDone, CclHold
    <3>2. QED
      BY <1>b, <3>1
  <2>2. NoLabelLeft => hits' = hits /\ "labelOverflow" \in cclErrors'
    BY <1>c DEF NoLabelLeft, CclRaised, CclError
  <2>3. Join \/ NewLabel => \E l : hits' = Stored(l)
    BY DEF Join, NewLabel
  <2>4. QED
    BY <1>2, <1>3, <1>4, <1>8, <2>1, <2>2, <2>3 DEF Classify
<1>9. QED
  BY <1>1, <1>6, <1>7, <1>8

\* A coordinate is added to a sum of so many others.
LEMMA SumFits ==
  ASSUME NEW W \in Nat \ {0}, MaxHits * W <= SumMax, NEW a \in Nat, a < MaxHits,
         NEW s \in 0..(a * W), NEW v \in 0..(W - 1)
  PROVE  /\ ~Props!Saturated(s, v)
         /\ Props!Plus(s, v) \in 0..((a + 1) * W)
<1>1. /\ a * W \in Nat /\ (a + 1) * W = a * W + W /\ (a + 1) * W \in Nat
      /\ MaxHits * W \in Nat /\ SumMax \in Nat
  BY CclAssumption, PostAssumption
<1>2. (a + 1) * W <= MaxHits * W
  BY CclAssumption
<1>3. s + v <= (a + 1) * W /\ s + v \in Nat
  BY <1>1
<1>4. s + v <= SumMax
  BY <1>1, <1>2, <1>3
<1>5. QED
  BY <1>1, <1>3, <1>4 DEF Props!Saturated, Props!Plus

\* A counted HIT stays within the registers.
LEMMA RowFits ==
  ASSUME NEW r, NEW h, NEW a \in Nat, a < MaxHits,
         h.x \in 0..(Width - 1), h.y \in 0..(Height - 1),
         r.n \in 0..a, r.sumX \in 0..(a * Width), r.sumY \in 0..(a * Height)
  PROVE  /\ r.n # CountMax /\ ~Props!Saturated(r.sumX, h.x) /\ ~Props!Saturated(r.sumY, h.y)
         /\ Props!Extended(r, h).n \in 0..(a + 1)
         /\ Props!Extended(r, h).sumX \in 0..((a + 1) * Width)
         /\ Props!Extended(r, h).sumY \in 0..((a + 1) * Height)
<1>1. r.n # CountMax
  BY CclAssumption, PostAssumption
<1>2. /\ ~Props!Saturated(r.sumX, h.x)
      /\ Props!Plus(r.sumX, h.x) \in 0..((a + 1) * Width)
  BY SumFits, CclAssumption, PostAssumption
<1>3. /\ ~Props!Saturated(r.sumY, h.y)
      /\ Props!Plus(r.sumY, h.y) \in 0..((a + 1) * Height)
  BY SumFits, CclAssumption, PostAssumption
<1>4. /\ Props!Extended(r, h).n = r.n + 1
      /\ Props!Extended(r, h).sumX = Props!Plus(r.sumX, h.x)
      /\ Props!Extended(r, h).sumY = Props!Plus(r.sumY, h.y)
  BY <1>1, Zenon DEF Props!Extended
<1>5. QED
  BY <1>1, <1>2, <1>3, <1>4

\* The HIT on offer during the replay fits into the table.
LEMMA ReplayedFits ==
  ASSUME StreamInv, CclInv, Replaying, NEW start \in BOOLEAN, NEW clear \in BOOLEAN
  PROVE  LET h == OpIn(start, clear).hit
         IN /\ h.valid = TRUE /\ h.last = (outputIndex = Len(hits)) /\ h.label \in Labels
            /\ h.x \in 0..(Width - 1) /\ h.y \in 0..(Height - 1)
            /\ Props!Sound(h) /\ accumulated \in Nat /\ accumulated < MaxHits
            /\ h.label = Root(outputIndex)
            /\ h.x = hits[outputIndex].x /\ h.y = hits[outputIndex].y
<1> DEFINE h == OpIn(start, clear).hit
<1>1. /\ ccl = "OUTPUT" /\ outputIndex \in Indices /\ Len(hits) <= MaxHits
      /\ hits[outputIndex] \in Hit /\ Root(outputIndex) \in Labels
      /\ Len(hits) \in Nat
  BY RootType DEF Replaying, CclInv, RoomLeft, CclTypeOK, Indices
<1>2. h = [x |-> hits[outputIndex].x, y |-> hits[outputIndex].y,
           label |-> Root(outputIndex), last |-> outputIndex = Len(hits), valid |-> TRUE]
  BY <1>1, InputsAre, Zenon
<1> HIDE DEF h
<1>3. /\ h.valid = TRUE /\ h.label = Root(outputIndex)
      /\ h.x = hits[outputIndex].x /\ h.y = hits[outputIndex].y
  BY <1>2
<1>4. h.last = (outputIndex = Len(hits))
  BY <1>2, Zenon
<1>5. /\ h.label \in Labels /\ h.x \in 0..(Width - 1) /\ h.y \in 0..(Height - 1)
  BY <1>1, <1>3 DEF Hit
<1>6. Props!Sound(h)
  BY <1>5, CclAssumption DEF Props!Sound, Props!Rows, Labels
<1>7. accumulated \in Nat /\ accumulated < MaxHits
  BY <1>1, CclAssumption DEF StreamInv, TableInv, Replaying, Indices
<1>8. QED
  BY <1>3, <1>4, <1>5, <1>6, <1>7, Zenon DEF h

\* Each HIT of the replay enters the table.
LEMMA FromReplaying ==
  ASSUME StreamInv, CclInv, Replaying, NEW start \in BOOLEAN, NEW clear \in BOOLEAN,
         NEW send \in BOOLEAN, NEW last \in BOOLEAN, Clocked(start, clear, send, last)
  PROVE  LET h == OpIn(start, clear).hit
         IN /\ ~start /\ UNCHANGED <<op, hits, builder>>
            /\ accumulated' = accumulated + 1 /\ sawLast' = (outputIndex = Len(hits))
            /\ table' = [table EXCEPT ![h.label] = Props!Extended(@, h)]
            /\ IF outputIndex = Len(hits) THEN ccl' = "DONE"
               ELSE ccl' = "OUTPUT" /\ outputIndex' = outputIndex + 1
<1> DEFINE c == CclIn(start, clear)
           o == OpIn(start, clear)
           h == o.hit
<1>1. /\ CclEdge(c) /\ Props!OpEdge(o)
      /\ Builder(start, clear, send, last)
      /\ ccl = "OUTPUT" /\ op = "ACCUM" /\ builder = "COLLECT"
  BY DEF Clocked, Edge, Replaying
<1>a. /\ c.start = start /\ c.hitReady = (op = "ACCUM")
      /\ o.start = start /\ o.cclDone = (ccl = "DONE")
  BY InputsAre, Zenon
<1>b. /\ h.valid = TRUE /\ h.last = (outputIndex = Len(hits))
      /\ Props!Sound(h) /\ accumulated \in Nat /\ accumulated < MaxHits
  BY ReplayedFits, Zenon
<1>c. ~sawLast
  BY DEF StreamInv, TableInv
<1> SUFFICES /\ ~start /\ UNCHANGED <<op, hits, builder>>
             /\ accumulated' = accumulated + 1 /\ sawLast' = (outputIndex = Len(hits))
             /\ table' = [table EXCEPT ![h.label] = Props!Extended(@, h)]
             /\ IF outputIndex = Len(hits) THEN ccl' = "DONE"
                ELSE ccl' = "OUTPUT" /\ outputIndex' = outputIndex + 1
  BY Zenon
<1>2. ~start
  BY <1>1 DEF Clocked, StartReady
<1>3. builder' = builder
  BY <1>1, <1>2 DEF Builder, Props!PropertiesDone
<1> HIDE DEF c, o
<1>4. Replay(c)
  <2>1. \/ CclStart(c) \/ TakeHit(c) \/ TakeFrameDone(c) \/ Scan \/ Classify
        \/ Replay(c) \/ CclDone(c) \/ CclHold(c)
    BY <1>1 DEF CclEdge
  <2>2. /\ ~CclStart(c) /\ ~TakeHit(c) /\ ~TakeFrameDone(c) /\ ~Scan /\ ~Classify
        /\ ~CclDone(c) /\ ~CclHold(c)
    BY <1>1, <1>a DEF CclStart, TakeHit, TakeFrameDone, Scan, Classify, Join, NewLabel,
                      NoLabelLeft, CclDone, CclHold
  <2>3. QED
    BY <2>1, <2>2
<1>5. Props!Accumulate(o)
  <2>1. \/ Props!OpStart(o) \/ Props!Accumulate(o) \/ Props!EndOfHits(o) \/ Props!ScanRow
        \/ Props!EmitRow(o) \/ Props!OpDone(o) \/ Props!OpHold(o)
    BY <1>1 DEF Props!OpEdge
  <2>2. /\ ~Props!OpStart(o) /\ ~Props!EndOfHits(o) /\ ~Props!ScanRow
        /\ ~Props!EmitRow(o) /\ ~Props!OpDone(o) /\ ~Props!OpHold(o)
    BY <1>1, <1>a, <1>b DEF Props!OpStart, Props!EndOfHits, Props!ScanRow, Props!EmitRow,
                            Props!OpDone, Props!OpHold
  <2>3. QED
    BY <2>1, <2>2
<1>6. Props!Counted(o)
  BY <1>1, <1>b, <1>c DEF Props!Counted, Props!Room
<1>7. /\ accumulated' = accumulated + 1 /\ op' = op
      /\ table' = [table EXCEPT ![h.label] = Props!Extended(@, h)]
      /\ sawLast' = (sawLast \/ h.last)
  BY <1>5, <1>6, Zenon DEF Props!Accumulate
<1>8. sawLast' = (outputIndex = Len(hits))
  BY <1>7, <1>b, <1>c, Zenon
<1>9. /\ hits' = hits
      /\ IF outputIndex = Len(hits) THEN ccl' = "DONE"
         ELSE ccl' = "OUTPUT" /\ outputIndex' = outputIndex + 1
  BY <1>1, <1>4 DEF Replay
<1>10. QED
  BY <1>2, <1>3, <1>7, <1>8, <1>9, Zenon

\* The end of the replay is taken at the first edge.
LEMMA FromReplayed ==
  ASSUME StreamInv, CclInv, Replayed, NEW start \in BOOLEAN, NEW clear \in BOOLEAN,
         NEW send \in BOOLEAN, NEW last \in BOOLEAN, Clocked(start, clear, send, last)
  PROVE  /\ ~start /\ UNCHANGED <<hits, builder, table, accumulated, sawLast>>
         /\ ccl' = "IDLE" /\ op' = "SCAN"
<1> DEFINE c == CclIn(start, clear)
           o == OpIn(start, clear)
<1>1. /\ CclEdge(c) /\ Props!OpEdge(o)
      /\ Builder(start, clear, send, last)
      /\ ccl = "DONE" /\ op = "ACCUM" /\ builder = "COLLECT"
  BY DEF Clocked, Edge, Replayed
<1>a. /\ c.start = start /\ c.doneReady = (op = "ACCUM" /\ ~(ccl = "OUTPUT"))
      /\ o.start = start /\ o.cclDone = (ccl = "DONE") /\ o.hit.valid = (ccl = "OUTPUT")
  BY InputsAre, Zenon
<1>2. ~start
  BY <1>1 DEF Clocked, StartReady
<1>3. builder' = builder
  BY <1>1, <1>2 DEF Builder, Props!PropertiesDone
<1> HIDE DEF c, o
<1>4. CclDone(c)
  <2>1. \/ CclStart(c) \/ TakeHit(c) \/ TakeFrameDone(c) \/ Scan \/ Classify
        \/ Replay(c) \/ CclDone(c) \/ CclHold(c)
    BY <1>1 DEF CclEdge
  <2>2. /\ ~CclStart(c) /\ ~TakeHit(c) /\ ~TakeFrameDone(c) /\ ~Scan /\ ~Classify
        /\ ~Replay(c) /\ ~CclHold(c)
    BY <1>1, <1>a DEF CclStart, TakeHit, TakeFrameDone, Scan, Classify, Join, NewLabel,
                      NoLabelLeft, Replay, CclHold
  <2>3. QED
    BY <2>1, <2>2
<1>5. Props!EndOfHits(o)
  <2>1. \/ Props!OpStart(o) \/ Props!Accumulate(o) \/ Props!EndOfHits(o) \/ Props!ScanRow
        \/ Props!EmitRow(o) \/ Props!OpDone(o) \/ Props!OpHold(o)
    BY <1>1 DEF Props!OpEdge
  <2>2. /\ ~Props!OpStart(o) /\ ~Props!Accumulate(o) /\ ~Props!ScanRow
        /\ ~Props!EmitRow(o) /\ ~Props!OpDone(o) /\ ~Props!OpHold(o)
    BY <1>1, <1>a DEF Props!OpStart, Props!Accumulate, Props!ScanRow, Props!EmitRow,
                      Props!OpDone, Props!OpHold, Props!DoneReady
  <2>3. QED
    BY <2>1, <2>2
<1>6. QED
  BY <1>2, <1>3, <1>4, <1>5 DEF CclDone, Props!EndOfHits

\* The rows are listed, then the packet is formed.
LEMMA FromListing ==
  ASSUME StreamInv, CclInv, Listing, NEW start \in BOOLEAN, NEW clear \in BOOLEAN,
         NEW send \in BOOLEAN, NEW last \in BOOLEAN, Clocked(start, clear, send, last)
  PROVE  /\ ~start /\ UNCHANGED <<ccl, hits, table, accumulated, sawLast>>
         /\ IF op = "DONE"
            THEN /\ op' = "IDLE" /\ builder' = "READY"
                 /\ packet'.errors = ErrorsAtDone(start, send)
            ELSE /\ op' \in {"SCAN", "OUTPUT", "DONE"} /\ builder' = builder
<1> DEFINE c == CclIn(start, clear)
           o == OpIn(start, clear)
<1>1. /\ CclEdge(c) /\ Props!OpEdge(o)
      /\ Builder(start, clear, send, last)
      /\ ccl = "IDLE" /\ op \in {"SCAN", "OUTPUT", "DONE"} /\ builder = "COLLECT"
  BY DEF Clocked, Edge, Listing
<1>a. /\ c.start = start
      /\ o.start = start /\ o.cclDone = (ccl = "DONE") /\ o.hit.valid = (ccl = "OUTPUT")
      /\ o.doneReady = (builder = "COLLECT")
  BY InputsAre, Zenon
<1>2. ~start
  BY <1>1 DEF Clocked, StartReady
<1> HIDE DEF c, o
<1>3. builder' = IF op = "DONE" THEN "READY" ELSE builder
  BY <1>1, <1>2 DEF Builder, Props!PropertiesDone
<1>4. op = "DONE" => packet'.errors = ErrorsAtDone(start, send)
  <2> DEFINE e == ErrorsAtDone(start, send)
  <2> SUFFICES ASSUME op = "DONE" PROVE packet'.errors = e
    OBVIOUS
  <2>1. packet' = [errors |-> e, records |-> IF e \cap Fatal = {} THEN records ELSE <<>>]
    BY <1>1, <1>2 DEF Builder, Props!PropertiesDone
  <2> HIDE DEF e
  <2>2. QED
    BY <2>1
<1>5. CclHold(c)
  <2>1. \/ CclStart(c) \/ TakeHit(c) \/ TakeFrameDone(c) \/ Scan \/ Classify
        \/ Replay(c) \/ CclDone(c) \/ CclHold(c)
    BY <1>1 DEF CclEdge
  <2>2. /\ ~CclStart(c) /\ ~TakeHit(c) /\ ~TakeFrameDone(c) /\ ~Scan /\ ~Classify
        /\ ~Replay(c) /\ ~CclDone(c)
    BY <1>1, <1>2, <1>a DEF CclStart, TakeHit, TakeFrameDone, Scan, Classify, Join, NewLabel,
                      NoLabelLeft, Replay, CclDone
  <2>3. QED
    BY <2>1, <2>2
<1>6. /\ UNCHANGED <<table, accumulated, sawLast>>
      /\ op' \in IF op = "DONE" THEN {"IDLE"} ELSE {"SCAN", "OUTPUT", "DONE"}
  <2>1. \/ Props!OpStart(o) \/ Props!Accumulate(o) \/ Props!EndOfHits(o) \/ Props!ScanRow
        \/ Props!EmitRow(o) \/ Props!OpDone(o) \/ Props!OpHold(o)
    BY <1>1 DEF Props!OpEdge
  <2>2. /\ ~Props!OpStart(o) /\ ~Props!Accumulate(o) /\ ~Props!EndOfHits(o)
    BY <1>1, <1>a DEF Props!OpStart, Props!Accumulate, Props!EndOfHits, Props!DoneReady
  <2>3. CASE Props!ScanRow
    BY <1>1, <2>3 DEF Props!ScanRow, Props!AfterRow
  <2>4. CASE Props!EmitRow(o)
    BY <1>1, <2>4 DEF Props!EmitRow, Props!AfterRow
  <2>5. CASE Props!OpDone(o)
    BY <1>1, <2>5 DEF Props!OpDone
  <2>6. CASE Props!OpHold(o)
    BY <1>1, <1>a, <2>6 DEF Props!OpHold
  <2>7. QED
    BY <2>1, <2>2, <2>3, <2>4, <2>5, <2>6
<1>7. QED
  BY <1>1, <1>2, <1>3, <1>4, <1>5, <1>6 DEF CclHold

\* The packet waits and is sent; nothing else moves.
LEMMA FromAnswering ==
  ASSUME StreamInv, CclInv, Answering, NEW start \in BOOLEAN, NEW clear \in BOOLEAN,
         NEW send \in BOOLEAN, NEW last \in BOOLEAN, Clocked(start, clear, send, last)
  PROVE  /\ ~start /\ UNCHANGED <<ccl, hits, table, accumulated, sawLast, op, packet>>
         /\ builder' \in IF builder = "DONE" THEN {"IDLE"} ELSE {"READY", "SEND", "DONE"}
<1> DEFINE c == CclIn(start, clear)
           o == OpIn(start, clear)
<1>1. /\ CclEdge(c) /\ Props!OpEdge(o)
      /\ Builder(start, clear, send, last)
      /\ ccl = "IDLE" /\ op = "IDLE" /\ builder \in {"READY", "SEND", "DONE"}
  BY DEF Clocked, Edge, Answering
<1>a. /\ c.start = start
      /\ o.start = start /\ o.cclDone = (ccl = "DONE") /\ o.hit.valid = (ccl = "OUTPUT")
  BY InputsAre, Zenon
<1>2. ~start
  BY <1>1 DEF Clocked, StartReady
<1> HIDE DEF c, o
<1>3. /\ builder' \in IF builder = "DONE" THEN {"IDLE"} ELSE {"READY", "SEND", "DONE"}
      /\ packet' = packet
  BY <1>1, <1>2 DEF Builder, Props!PropertiesDone
<1>4. CclHold(c)
  <2>1. \/ CclStart(c) \/ TakeHit(c) \/ TakeFrameDone(c) \/ Scan \/ Classify
        \/ Replay(c) \/ CclDone(c) \/ CclHold(c)
    BY <1>1 DEF CclEdge
  <2>2. /\ ~CclStart(c) /\ ~TakeHit(c) /\ ~TakeFrameDone(c) /\ ~Scan /\ ~Classify
        /\ ~Replay(c) /\ ~CclDone(c)
    BY <1>1, <1>2, <1>a DEF CclStart, TakeHit, TakeFrameDone, Scan, Classify, Join, NewLabel,
                      NoLabelLeft, Replay, CclDone
  <2>3. QED
    BY <2>1, <2>2
<1>5. Props!OpHold(o)
  <2>1. \/ Props!OpStart(o) \/ Props!Accumulate(o) \/ Props!EndOfHits(o) \/ Props!ScanRow
        \/ Props!EmitRow(o) \/ Props!OpDone(o) \/ Props!OpHold(o)
    BY <1>1 DEF Props!OpEdge
  <2>2. /\ ~Props!OpStart(o) /\ ~Props!Accumulate(o) /\ ~Props!EndOfHits(o)
        /\ ~Props!ScanRow /\ ~Props!EmitRow(o) /\ ~Props!OpDone(o)
    BY <1>1, <1>2, <1>a DEF Props!OpStart, Props!Accumulate, Props!EndOfHits, Props!DoneReady,
                            Props!ScanRow, Props!EmitRow, Props!OpDone
  <2>3. QED
    BY <2>1, <2>2
<1>6. QED
  BY <1>2, <1>3, <1>4, <1>5 DEF CclHold, Props!OpHold

\* What ScanInv says of the event on offer.
LEMMA OfferShape ==
  ASSUME ScanInv
  PROVE  /\ offer # NoEvent => offer \in StreamEvents /\ ~Malformed(offer) /\ scanning
         /\ offer.type \in {"hit", "row", "frame", "none"}
         /\ offer.type = "none" <=> offer = NoEvent
         /\ offer.type = "hit" => InFrame(offer) /\ Position(offer) \in Points
         /\ offer.type = "row" => offer.y = nextRow
         /\ offer.type = "frame" => offer = Source!FrameDone
<1>1. NoEvent.type = "none"
  BY DEF NoEvent
<1>2. offer.type = "row" => offer.y = nextRow
  BY DEF ScanInv, Source!RowDone
<1>3. CASE offer = NoEvent
  BY <1>1, <1>2, <1>3
<1>4. CASE offer \in StreamEvents
  BY <1>1, <1>2, <1>4, EventShape DEF ScanInv
<1>5. QED
  BY <1>3, <1>4 DEF ScanInv

\* The packer sees the events of one frame, in order.
LEMMA PackerQuiet ==
  ASSUME ScanInv, NEW start \in BOOLEAN, start => StartReady
  PROVE  PackRaised(start) = {}
<1>1. /\ offer # NoEvent => offer \in StreamEvents /\ scanning
      /\ offer.type = "hit" => InFrame(offer)
      /\ offer.type = "row" => offer.y = nextRow
      /\ offer.type # "none" => offer # NoEvent
  BY OfferShape
<1>2. /\ packing = scanning
      /\ scanning => packRow = nextRow /\ packLast = (nextRow = Height)
      /\ offer.type = "frame" => nextRow = Height
      /\ packBlocked \in {NoEvent, offer}
  BY DEF ScanInv
<1>3. offer.type = "frame" => packLast /\ packing
  BY <1>1, <1>2
<1>4. packing => ~start
  BY DEF StartReady
<1>5. offer # NoEvent => Valid
  BY <1>1, <1>2, <1>3 DEF Valid
<1>6. Fire => packing
  BY DEF Fire, Valid
<1>7. QED
  BY <1>1, <1>2, <1>3, <1>4, <1>5, <1>6 DEF PackRaised

\* So does the ingress, and the stream ends before the result comes.
LEMMA IngressQuiet ==
  ASSUME ScanInv, EndInv
  PROVE  IngressRaised(builder = "READY" /\ ~resultSeen) = {}
<1>1. /\ offer # NoEvent => offer \in StreamEvents /\ scanning /\ ~Malformed(offer)
      /\ offer.type = "row" => offer.y = nextRow
      /\ offer.type # "none" => offer # NoEvent
  BY OfferShape
<1>2. /\ packing = scanning
      /\ scanning => packLast = (nextRow = Height) /\ row = nextRow
      /\ scanning => lastRow = (nextRow = Height)
      /\ scanning => Streaming /\ ~frameDone /\ ~packDone /\ ~ip2Done
      /\ offer.type = "frame" => nextRow = Height
      /\ blocked \in {NoEvent, offer}
  BY DEF ScanInv
<1>3. offer.type = "frame" => packLast /\ scanning /\ lastRow
  BY <1>1, <1>2
<1>4. offer # NoEvent => Valid
  BY <1>1, <1>2, <1>3 DEF Valid
<1>5. Valid => ingress /\ ~frameDone /\ offer # NoEvent /\ scanning
  BY <1>1, <1>2 DEF Valid, Streaming, EndInv
<1>6. Fire => Valid
  BY DEF Fire
<1>7. packDone => ingress /\ ~ip2Done
  BY <1>2 DEF EndInv, Streaming
<1>8. builder = "READY" => ip2Done
  BY DEF EndInv, Streaming
<1>9. QED
  BY <1>1, <1>2, <1>3, <1>4, <1>5, <1>6, <1>7, <1>8 DEF IngressRaised

\* The labeling is started when it is idle and gets events when it waits for them.
LEMMA CclQuiet ==
  ASSUME PhaseInv, FifoInv, NEW start \in BOOLEAN, NEW clear \in BOOLEAN, start => StartReady
  PROVE  CclRaised(CclIn(start, clear)) \subseteq {"hitOverflow", "labelOverflow"}
<1> DEFINE c == CclIn(start, clear)
<1>1. c.start = start /\ c.event = HeadEvent
  BY InputsAre, Zenon
<1> HIDE DEF c
<1>2. start => ccl = "IDLE"
  BY DEF StartReady
<1>3. ccl = "IDLE" => HeadEvent = NoEvent
  BY HeadShape DEF FifoInv, Streaming
<1>4. ~Malformed(HeadEvent)
  <2>1. ~Malformed(NoEvent)
    BY DEF Malformed, NoEvent
  <2>2. QED
    BY <2>1, HeadShape, EventShape
<1>5. CclRaised(c) \subseteq {"hitOverflow", "labelOverflow"}
  BY <1>1, <1>2, <1>3, <1>4 DEF CclRaised, CclError
<1>6. QED
  BY <1>5 DEF c

\* The table gets HITs only while it accumulates and has room for each.
LEMMA PropsQuiet ==
  ASSUME StreamInv, CclInv, NEW start \in BOOLEAN, NEW clear \in BOOLEAN, start => StartReady
  PROVE  Props!OpRaised(OpIn(start, clear)) = {}
<1> DEFINE o == OpIn(start, clear)
           h == o.hit
<1>1. /\ o.start = start /\ o.cclDone = (ccl = "DONE") /\ h.valid = (ccl = "OUTPUT")
  BY InputsAre, Zenon
<1>2. start => op = "IDLE"
  BY DEF StartReady
<1>3. ccl \in {"OUTPUT", "DONE"} => op = "ACCUM"
  BY DEF StreamInv, PhaseInv, Streaming, Replaying, Replayed, Listing, Answering, Idling
<1>4. ccl = "OUTPUT" => /\ ~sawLast /\ Props!Sound(h) /\ Props!Room
                        /\ table[h.label].n # CountMax
                        /\ ~Props!Saturated(table[h.label].sumX, h.x)
                        /\ ~Props!Saturated(table[h.label].sumY, h.y)
  <2> SUFFICES ASSUME ccl = "OUTPUT"
               PROVE  /\ ~sawLast /\ Props!Sound(h) /\ Props!Room
                      /\ table[h.label].n # CountMax
                      /\ ~Props!Saturated(table[h.label].sumX, h.x)
                      /\ ~Props!Saturated(table[h.label].sumY, h.y)
    BY Zenon
  <2>1. Replaying
    BY DEF StreamInv, PhaseInv, Streaming, Replaying, Replayed, Listing, Answering, Idling
  <2>2. /\ h.label \in Labels /\ Props!Sound(h) /\ accumulated \in Nat /\ accumulated < MaxHits
        /\ h.x \in 0..(Width - 1) /\ h.y \in 0..(Height - 1)
    BY <2>1, ReplayedFits, Zenon
  <2> HIDE DEF h
  <2>3. ~sawLast
    BY <2>1 DEF StreamInv, TableInv
  <2> DEFINE r == table[h.label]
  <2>4. /\ r.n \in 0..accumulated /\ r.sumX \in 0..(accumulated * Width)
        /\ r.sumY \in 0..(accumulated * Height)
    BY <2>2 DEF StreamInv, TableInv
  <2> HIDE DEF r
  <2>5. /\ r.n # CountMax /\ ~Props!Saturated(r.sumX, h.x) /\ ~Props!Saturated(r.sumY, h.y)
    BY <2>2, <2>4, RowFits
  <2>6. QED
    BY <2>2, <2>3, <2>5 DEF r, Props!Room
<1>5. ccl = "DONE" => accumulated = 0 \/ sawLast
  BY <1>3 DEF StreamInv, PhaseInv, TableInv, Streaming, Replaying, Replayed, Listing, Answering,
              Idling
<1> HIDE DEF o, h
<1>6. o.hit = h
  BY DEF h
<1>7. /\ ~(op # "IDLE" /\ o.start)
      /\ ~(op # "ACCUM" /\ (o.hit.valid \/ o.cclDone))
      /\ ~(op = "ACCUM" /\ o.hit.valid /\ (sawLast \/ ~Props!Sound(o.hit)))
      /\ ~(o.cclDone /\ Props!DoneReady(o.hit.valid) /\ accumulated # 0 /\ ~sawLast)
  BY <1>1, <1>2, <1>3, <1>4, <1>5, <1>6 DEF Props!DoneReady
<1>8. /\ ~(op = "ACCUM" /\ o.hit.valid /\ ~sawLast /\ Props!Sound(o.hit) /\ ~Props!Room)
      /\ Props!Counted(o) => /\ table[o.hit.label].n # CountMax
                            /\ ~Props!Saturated(table[o.hit.label].sumX, o.hit.x)
                            /\ ~Props!Saturated(table[o.hit.label].sumY, o.hit.y)
  BY <1>1, <1>4, <1>6, Zenon DEF Props!Counted
<1>9. Props!OpRaised(o) = {}
  BY <1>7, <1>8, Zenon DEF Props!OpRaised
<1>10. QED
  BY <1>9 DEF o

\* The builder is started when it is idle and gets records when it collects.
LEMMA BuilderQuiet ==
  ASSUME PhaseInv, NEW start \in BOOLEAN, NEW send \in BOOLEAN, start => StartReady,
         send => builder = "READY"
  PROVE  BuilderRaised(start, send) \subseteq {"recordOverflow"}
<1>1. start => builder = "IDLE"
  BY DEF StartReady
<1>2. op \in {"OUTPUT", "DONE"} => builder = "COLLECT"
  BY DEF PhaseInv, Streaming, Replaying, Replayed, Listing, Answering, Idling
<1>3. QED
  BY <1>1, <1>2 DEF BuilderRaised

\* No stage sees what it does not expect.
LEMMA ErrorStep ==
  ASSUME StreamInv, CclInv, NEW start \in BOOLEAN, NEW clear \in BOOLEAN,
         NEW send \in BOOLEAN, NEW last \in BOOLEAN, Clocked(start, clear, send, last)
  PROVE  ErrorInv'
<1> DEFINE c == CclIn(start, clear)
           o == OpIn(start, clear)
<1>1. /\ Props!OpRaised(o) = {} /\ PackRaised(start) = {}
      /\ IngressRaised(builder = "READY" /\ ~resultSeen) = {}
      /\ CclRaised(c) \subseteq {"hitOverflow", "labelOverflow"}
      /\ BuilderRaised(start, send) \subseteq {"recordOverflow"}
  BY PropsQuiet, PackerQuiet, IngressQuiet, CclQuiet, BuilderQuiet DEF Clocked, StreamInv
<1>2. /\ CclEdge(c) /\ Props!OpEdge(o)
      /\ StreamEdge(start, clear, builder = "READY" /\ ~resultSeen, builder = "DONE")
      /\ Builder(start, clear, send, last)
  BY DEF Clocked, Edge
<1> HIDE DEF c, o
<1>3. ErrorInv
  BY DEF StreamInv
<1>4. cclErrors' \subseteq cclErrors \cup CclRaised(c)
  BY <1>2 DEF CclEdge
<1>5. opErrors' \subseteq opErrors \cup Props!OpRaised(o)
  BY <1>2 DEF Props!OpEdge
<1>6. packErrors' \subseteq packErrors \cup PackRaised(start)
  BY <1>2 DEF StreamEdge, Packer
<1>7. ingressErrors' \subseteq ingressErrors \cup IngressRaised(builder = "READY" /\ ~resultSeen)
  BY <1>2 DEF StreamEdge, Ingress
<1>8. builderErrors' \subseteq builderErrors \cup BuilderRaised(start, send)
  BY <1>2 DEF Builder
<1>9. QED
  BY <1>1, <1>3, <1>4, <1>5, <1>6, <1>7, <1>8 DEF ErrorInv

\* How the phases follow each other.
LEMMA PhaseStep ==
  ASSUME StreamInv, CclInv, NEW start \in BOOLEAN, NEW clear \in BOOLEAN,
         NEW send \in BOOLEAN, NEW last \in BOOLEAN, Clocked(start, clear, send, last)
  PROVE  /\ PhaseInv'
         /\ start => Idling /\ Streaming'
         /\ Streaming' /\ ~start => Streaming /\ (ccl = "WAIT" => HeadEvent.type # "frame")
         /\ Streaming /\ ~Streaming' => ccl = "WAIT" /\ HeadEvent.type = "frame"
         /\ builder' = "IDLE" <=> (builder = "DONE" \/ (builder = "IDLE" /\ ~start))
<1> USE DEF Streaming, Replaying, Replayed, Listing, Answering, Idling, PhaseInv
<1>1. start => Idling
  BY DEF Clocked, StartReady, StreamInv
<1>2. CASE Idling
  BY <1>2, FromIdling
<1>3. CASE Streaming
  <2>1. /\ ~start /\ UNCHANGED <<op, builder>>
        /\ \/ ccl = "WAIT" /\ HeadEvent.type = "frame" /\ ccl' \in {"DONE", "OUTPUT"}
           \/ ccl' \in {"WAIT", "SCAN", "CLASSIFY"}
              /\ (ccl = "WAIT" => HeadEvent.type # "frame")
    BY <1>3, FromStreaming
  <2>2. QED
    BY <1>1, <1>3, <2>1
<1>4. CASE Replaying
  <2>1. /\ ~start /\ UNCHANGED <<op, builder>> /\ ccl' \in {"DONE", "OUTPUT"}
    BY <1>4, FromReplaying, Zenon
  <2>2. QED
    BY <1>1, <1>4, <2>1
<1>5. CASE Replayed
  BY <1>5, FromReplayed
<1>6. CASE Listing
  BY <1>6, FromListing
<1>7. CASE Answering
  BY <1>7, FromAnswering
<1>8. QED
  BY <1>2, <1>3, <1>4, <1>5, <1>6, <1>7 DEF StreamInv

\* Between the start and the result, what has not been lost now was not lost before.
LEMMA LosslessBefore ==
  ASSUME NEW start \in BOOLEAN, NEW clear \in BOOLEAN,
         NEW send \in BOOLEAN, NEW last \in BOOLEAN, Clocked(start, clear, send, last),
         builder = "COLLECT", Lossless'
  PROVE  Lossless
<1>1. Builder(start, clear, send, last)
  BY DEF Clocked, Edge
<1>2. frameErrors' = ErrorsAtDone(start, send)
  BY <1>1 DEF Builder
<1>3. frameErrors \cup cclErrors \subseteq frameErrors'
  BY <1>2 DEF ErrorsAtDone, AllErrors
<1>4. QED
  BY <1>3 DEF Lossless

\* The table holds what has been replayed.
LEMMA TableStep ==
  ASSUME StreamInv, CclInv, NEW start \in BOOLEAN, NEW clear \in BOOLEAN,
         NEW send \in BOOLEAN, NEW last \in BOOLEAN, Clocked(start, clear, send, last)
  PROVE  TableInv'
<1> USE DEF Streaming, Replaying, Replayed, Listing, Answering, Idling
<1>1. TableInv
  BY DEF StreamInv
<1>2. ASSUME UNCHANGED <<table, accumulated, sawLast>>,
             Streaming' \/ Replaying' \/ Replayed' => Streaming,
             Replaying' => outputIndex' = 1
      PROVE  TableInv'
  BY <1>1, <1>2 DEF TableInv
<1>3. CASE Idling
  <2>1. CASE start
    <3>1. /\ table' = [l \in Labels |-> Props!NoRow] /\ accumulated' = 0 /\ sawLast' = FALSE
          /\ Streaming'
      BY <1>3, <2>1, FromIdling
    <3>2. \A l \in Labels : table'[l].n = 0 /\ table'[l].sumX = 0 /\ table'[l].sumY = 0
      BY <3>1 DEF Props!NoRow
    <3>3. DOMAIN table' = Labels
      BY <3>1
    <3>4. 0 \in 0..(accumulated' * Width) /\ 0 \in 0..(accumulated' * Height)
          /\ 0 \in 0..accumulated'
      BY <3>1, CclAssumption
    <3>5. Labels' = Labels
      BY DEF Labels
    <3>6. QED
      BY <3>1, <3>2, <3>3, <3>4, <3>5 DEF TableInv
  <2>2. CASE ~start
    BY <1>2, <1>3, <2>2, FromIdling
  <2>3. QED
    BY <2>1, <2>2
<1>4. CASE Streaming
  <2>1. UNCHANGED <<op, table, accumulated, sawLast, builder>> /\ (ccl' = "OUTPUT" => outputIndex' = 1)
    BY <1>4, FromStreaming
  <2>2. QED
    BY <1>2, <1>4, <2>1
<1>5. CASE Replaying
  <2> DEFINE h == OpIn(start, clear).hit
  <2>1. /\ UNCHANGED <<op, builder>>
        /\ accumulated' = accumulated + 1 /\ sawLast' = (outputIndex = Len(hits))
        /\ table' = [table EXCEPT ![h.label] = Props!Extended(@, h)]
        /\ IF outputIndex = Len(hits) THEN ccl' = "DONE"
           ELSE ccl' = "OUTPUT" /\ outputIndex' = outputIndex + 1
    BY <1>5, FromReplaying, Zenon
  <2>2. /\ h.label \in Labels /\ h.x \in 0..(Width - 1) /\ h.y \in 0..(Height - 1)
        /\ accumulated \in Nat /\ accumulated < MaxHits
    BY <1>5, ReplayedFits, Zenon
  <2> HIDE DEF h
  <2>3. DOMAIN table = Labels /\ accumulated = outputIndex - 1 /\ outputIndex \in Nat
    BY <1>1, <1>5 DEF TableInv, CclInv, CclTypeOK
  <2>4. DOMAIN table' = Labels
    BY <2>1, <2>3
  <2>5. ASSUME NEW l \in Labels
        PROVE  /\ table'[l].n \in 0..accumulated'
               /\ table'[l].sumX \in 0..(accumulated' * Width)
               /\ table'[l].sumY \in 0..(accumulated' * Height)
    <3>1. /\ table[l].n \in 0..accumulated
          /\ table[l].sumX \in 0..(accumulated * Width)
          /\ table[l].sumY \in 0..(accumulated * Height)
      BY <1>1 DEF TableInv
    <3>2. CASE l = h.label
      <4> DEFINE r == table[l]
      <4>1. table'[l] = Props!Extended(r, h)
        BY <2>1, <2>3, <3>2
      <4>2. r.n \in 0..accumulated /\ r.sumX \in 0..(accumulated * Width)
            /\ r.sumY \in 0..(accumulated * Height)
        BY <3>1
      <4> HIDE DEF r
      <4>3. /\ Props!Extended(r, h).n \in 0..(accumulated + 1)
            /\ Props!Extended(r, h).sumX \in 0..((accumulated + 1) * Width)
            /\ Props!Extended(r, h).sumY \in 0..((accumulated + 1) * Height)
        BY <2>2, <4>2, RowFits
      <4>4. QED
        BY <2>1, <4>1, <4>3
    <3>3. CASE l # h.label
      <4>1. table'[l] = table[l]
        BY <2>1, <2>3, <3>3
      <4>2. /\ accumulated * Width <= (accumulated + 1) * Width
            /\ accumulated * Height <= (accumulated + 1) * Height
            /\ accumulated * Width \in Nat /\ accumulated * Height \in Nat
            /\ (accumulated + 1) * Width \in Nat /\ (accumulated + 1) * Height \in Nat
        BY <2>2, CclAssumption
      <4>3. QED
        BY <2>1, <2>2, <3>1, <4>1, <4>2
    <3>4. QED
      BY <3>2, <3>3
  <2>6. /\ ~Streaming'
        /\ Replaying' => ~sawLast'
        /\ Replaying' => accumulated' = outputIndex' - 1
    <3>1. ~Streaming' /\ (Replaying' => outputIndex # Len(hits))
      BY <2>1
    <3>2. Replaying' => ~sawLast'
      BY <2>1, <3>1, Zenon
    <3>3. Replaying' => accumulated' = outputIndex' - 1
      BY <2>1, <2>2, <2>3, <3>1
    <3>4. QED
      BY <3>1, <3>2, <3>3
  <2>7. Replayed' => sawLast'
    BY <2>1
  <2>8. Labels' = Labels
    BY DEF Labels
  <2>9. QED
    BY <2>4, <2>5, <2>6, <2>7, <2>8 DEF TableInv
<1>6. CASE Replayed
  BY <1>2, <1>6, FromReplayed
<1>7. CASE Listing
  BY <1>2, <1>7, FromListing
<1>8. CASE Answering
  BY <1>2, <1>8, FromAnswering
<1>9. QED
  BY <1>3, <1>4, <1>5, <1>6, <1>7, <1>8 DEF StreamInv, PhaseInv

\* One edge of the scanner in its surroundings.
LEMMA ScannerStep ==
  ASSUME ScanInv, NEW start \in BOOLEAN, NEW clear \in BOOLEAN,
         NEW send \in BOOLEAN, NEW last \in BOOLEAN, Clocked(start, clear, send, last)
  PROVE  \/ /\ start /\ ~Fire /\ ~scanning
            /\ scanning' = TRUE /\ nextRow' = 0 /\ sent' = <<>> /\ offer' = NoEvent
         \/ /\ ~start /\ ~Fire /\ scanning /\ offer = NoEvent
            /\ offer' \in Source!Offers
            /\ sent' = IF offer'.type = "hit" THEN Append(sent, Position(offer')) ELSE sent
            /\ UNCHANGED <<scanning, nextRow>>
         \/ /\ ~start /\ Fire /\ scanning /\ offer # NoEvent
            /\ offer' = NoEvent
            /\ nextRow' = IF offer.type = "row" THEN nextRow + 1 ELSE nextRow
            /\ scanning' = (offer.type # "frame")
            /\ UNCHANGED sent
         \/ ~start /\ ~Fire /\ UNCHANGED <<scanning, offer, nextRow, sent>>
<1>1. Source!Scanner(start, Fire)
  BY DEF Clocked, Edge, StreamEdge
<1>2. start => ~scanning
  BY DEF Clocked, StartReady
<1>3. Fire => scanning /\ offer # NoEvent
  BY DEF ScanInv, Fire, Valid
<1>4. Source!NoEvent = NoEvent
  BY DEF NoEvent, Source!NoEvent
<1>5. QED
  BY <1>1, <1>2, <1>3, <1>4 DEF Source!Scanner, Source!eventVars, Position

\* The registers of packer and ingress after an edge without errors.
LEMMA RegistersAre ==
  ASSUME NEW start \in BOOLEAN, NEW clear \in BOOLEAN,
         NEW send \in BOOLEAN, NEW last \in BOOLEAN, Clocked(start, clear, send, last)
  PROVE  /\ packing' = ((packing \/ start) /\ ~(Fire /\ offer.type = "frame"))
         /\ packDone' = (Fire /\ offer.type = "frame")
         /\ packBlocked' # NoEvent => packBlocked' = offer /\ Valid /\ ~Fire
         /\ packRow' = CASE start /\ ~packing          -> 0
                         [] Fire /\ offer.type = "row" -> RowAfter(offer.y, packRow)
                         [] OTHER                      -> packRow
         /\ packLast' = CASE start /\ ~packing -> FALSE
                          [] OTHER -> packLast \/ (Fire /\ offer = Source!RowDone(Height - 1))
         /\ ingress' = ((ingress \/ start) /\ builder # "DONE")
         /\ frameDone' = (~start /\ builder # "DONE"
                          /\ (frameDone \/ (Fire /\ offer.type = "frame")))
         /\ ip2Done' = (~start /\ (ip2Done \/ (packDone /\ ingress)))
         /\ blocked' # NoEvent => blocked' = offer /\ Valid /\ ~Fire /\ ~start
         /\ row' = IF start THEN 0
                   ELSE IF Fire /\ offer.type = "row" THEN RowAfter(offer.y, row) ELSE row
         /\ lastRow' = (~start /\ (lastRow \/ (Fire /\ offer.type = "row"
                                               /\ offer.y = Height - 1)))
<1>1. Packer(start, clear) /\ Ingress(start, clear, builder = "READY" /\ ~resultSeen, builder = "DONE")
  BY DEF Clocked, Edge, StreamEdge
<1>2. /\ packing' = ((packing \/ start) /\ ~(Fire /\ offer.type = "frame"))
      /\ packDone' = (Fire /\ offer.type = "frame")
      /\ packRow' = CASE start /\ ~packing          -> 0
                      [] Fire /\ offer.type = "row" -> RowAfter(offer.y, packRow)
                      [] OTHER                      -> packRow
      /\ packLast' = CASE start /\ ~packing -> FALSE
                       [] OTHER -> packLast \/ (Fire /\ offer = Source!RowDone(Height - 1))
  BY <1>1, Zenon DEF Packer
<1>3. packBlocked' # NoEvent => packBlocked' = offer /\ Valid /\ ~Fire
  BY <1>1, Zenon DEF Packer
<1>4. /\ ingress' = ((ingress \/ start) /\ builder # "DONE")
      /\ frameDone' = (~start /\ builder # "DONE"
                          /\ (frameDone \/ (Fire /\ offer.type = "frame")))
      /\ ip2Done' = (~start /\ (ip2Done \/ (packDone /\ ingress)))
      /\ row' = IF start THEN 0
                ELSE IF Fire /\ offer.type = "row" THEN RowAfter(offer.y, row) ELSE row
      /\ lastRow' = (~start /\ (lastRow \/ (Fire /\ offer.type = "row"
                                               /\ offer.y = Height - 1)))
  BY <1>1, Zenon DEF Ingress, CompletionSeen
<1>5. blocked' # NoEvent => blocked' = offer /\ Valid /\ ~Fire /\ ~start
  BY <1>1, Zenon DEF Ingress, Fire
<1>6. QED
  BY <1>2, <1>3, <1>4, <1>5, Zenon

\* The rows are counted alike by scanner, packer and ingress.
LEMMA RowsCounted ==
  ASSUME ScanInv, scanning, offer.type = "row", NEW r, r = nextRow
  PROVE  /\ RowAfter(offer.y, r) = nextRow + 1
         /\ nextRow + 1 \in 0..Height
         /\ offer = Source!RowDone(Height - 1) <=> nextRow + 1 = Height
         /\ offer.y = Height - 1 <=> nextRow + 1 = Height
<1>1. nextRow \in 0..Height /\ nextRow < Height /\ offer = Source!RowDone(nextRow)
  BY DEF ScanInv
<1>2. offer.y = nextRow
  BY <1>1 DEF Source!RowDone
<1>3. RowAfter(offer.y, r) = nextRow + 1
  <2>1. (nextRow + 1) % (2 * Height) = nextRow + 1
    BY <1>1, CclAssumption
  <2>2. QED
    BY <1>1, <1>2, <2>1, CclAssumption DEF RowAfter
<1>4. offer = Source!RowDone(Height - 1) => offer.y = Height - 1
  BY DEF Source!RowDone
<1>5. offer.y = Height - 1 => offer = Source!RowDone(Height - 1)
  BY <1>1, <1>2
<1>6. QED
  BY <1>1, <1>2, <1>3, <1>4, <1>5, CclAssumption

\* What may be offered.
LEMMA OffersAre ==
  ASSUME nextRow \in 0..Height, NEW e \in Source!Offers
  PROVE  /\ e \in StreamEvents
         /\ e.type = "hit" => nextRow < Height
         /\ e.type = "row" => nextRow < Height /\ e = Source!RowDone(nextRow)
         /\ e.type = "frame" => nextRow = Height
<1>1. CASE e \in Source!Hits /\ nextRow < Height
  <2>1. e.type = "hit"
    BY <1>1 DEF Source!Hits
  <2>2. QED
    BY <1>1, <2>1 DEF StreamEvents
<1>2. CASE e = Source!RowDone(nextRow) /\ nextRow < Height
  <2>1. e.type = "row" /\ nextRow \in 0..(Height - 1)
    BY <1>2, CclAssumption DEF Source!RowDone
  <2>2. QED
    BY <1>2, <2>1 DEF StreamEvents
<1>3. CASE e = Source!FrameDone /\ ~(nextRow < Height)
  <2>1. e.type = "frame" /\ nextRow = Height
    BY <1>3, CclAssumption DEF Source!FrameDone
  <2>2. QED
    BY <1>3, <2>1 DEF StreamEvents
<1>4. QED
  BY <1>1, <1>2, <1>3 DEF Source!Offers

\* The scanner and those who count along.
LEMMA ScanStep ==
  ASSUME StreamInv, CclInv, NEW start \in BOOLEAN, NEW clear \in BOOLEAN,
         NEW send \in BOOLEAN, NEW last \in BOOLEAN, Clocked(start, clear, send, last)
  PROVE  ScanInv'
<1> DEFINE frame == Fire /\ offer.type = "frame"
<1>1. ScanInv /\ FifoInv
  BY DEF StreamInv
<1>2. /\ scanning \in BOOLEAN /\ packing = scanning /\ nextRow \in 0..Height
      /\ offer \in StreamEvents \cup {NoEvent}
      /\ offer.type = "hit" => nextRow < Height
      /\ offer.type = "row" => nextRow < Height /\ offer = Source!RowDone(nextRow)
      /\ offer.type = "frame" => nextRow = Height
      /\ ~scanning => offer = NoEvent
      /\ scanning => Streaming
      /\ scanning => packRow = nextRow /\ row = nextRow
      /\ scanning => packLast = (nextRow = Height)
      /\ scanning => lastRow = (nextRow = Height)
      /\ scanning => ~frameDone /\ ~packDone /\ ~ip2Done
  BY <1>1 DEF ScanInv
<1>3. scanning' => Streaming'
  <2>1. scanning /\ ccl = "WAIT" => HeadEvent.type # "frame"
    BY <1>1, HeadShape DEF FifoInv, NoEvent
  <2>2. scanning' => start \/ scanning
    BY <1>1, ScannerStep
  <2>3. QED
    BY <1>2, <2>1, <2>2, PhaseStep
<1>4. packing' = scanning' /\ scanning' \in BOOLEAN /\ packDone' = frame
  <2>1. packing' = ((packing \/ start) /\ ~frame) /\ packDone' = frame
    BY RegistersAre, Zenon
  <2> HIDE DEF frame
  <2>2. scanning' = ((scanning \/ start) /\ ~frame)
    BY <1>1, <1>2, ScannerStep DEF frame
  <2>3. QED
    BY <1>2, <2>1, <2>2
<1>5. NoEvent.type = "none"
  BY DEF NoEvent
<1>6. /\ packBlocked' # NoEvent => packBlocked' = offer /\ Valid /\ ~Fire
      /\ blocked' # NoEvent => blocked' = offer /\ Valid /\ ~Fire /\ ~start
  BY RegistersAre, Zenon
<1>7. /\ packRow' = CASE start /\ ~packing          -> 0
                      [] Fire /\ offer.type = "row" -> RowAfter(offer.y, packRow)
                      [] OTHER                      -> packRow
      /\ packLast' = CASE start /\ ~packing -> FALSE
                       [] OTHER -> packLast \/ (Fire /\ offer = Source!RowDone(Height - 1))
      /\ row' = IF start THEN 0
                ELSE IF Fire /\ offer.type = "row" THEN RowAfter(offer.y, row) ELSE row
      /\ lastRow' = (~start /\ (lastRow \/ (Fire /\ offer.type = "row"
                                               /\ offer.y = Height - 1)))
      /\ frameDone' = (~start /\ builder # "DONE" /\ (frameDone \/ frame))
      /\ ip2Done' = (~start /\ (ip2Done \/ (packDone /\ ingress)))
  BY RegistersAre, Zenon
<1> DEFINE Counts == /\ packRow' = nextRow' /\ row' = nextRow'
                     /\ packLast' = (nextRow' = Height) /\ lastRow' = (nextRow' = Height)
                     /\ ~frameDone' /\ ~packDone' /\ ~ip2Done'
<1>8. CASE start /\ ~Fire /\ ~scanning /\ scanning' = TRUE /\ nextRow' = 0 /\ offer' = NoEvent
  <2>1. packRow' = 0 /\ packLast' = FALSE /\ row' = 0
    BY <1>2, <1>7, <1>8
  <2>2. lastRow' = FALSE /\ ~frameDone' /\ ~ip2Done' /\ ~packDone'
    BY <1>4, <1>7, <1>8, Zenon
  <2>3. packBlocked' = NoEvent /\ blocked' = NoEvent
    BY <1>2, <1>6, <1>8 DEF Valid
  <2>4. 0 # Height /\ 0 \in 0..Height
    BY CclAssumption
  <2>5. QED
    BY <1>3, <1>4, <1>5, <1>8, <2>1, <2>2, <2>3, <2>4 DEF ScanInv
<1>9. CASE /\ ~start /\ ~Fire /\ scanning /\ offer = NoEvent /\ offer' \in Source!Offers
           /\ UNCHANGED <<scanning, nextRow>>
  <2>1. packRow' = packRow /\ row' = row
    BY <1>7, <1>9
  <2>2. /\ packLast' = packLast /\ lastRow' = lastRow
        /\ ~frameDone' /\ ~ip2Done' /\ ~packDone'
    BY <1>2, <1>4, <1>7, <1>9
  <2>3. packBlocked' = NoEvent /\ blocked' = NoEvent
    BY <1>6, <1>9 DEF Valid
  <2>4. /\ offer' \in StreamEvents
        /\ offer'.type = "hit" => nextRow < Height
        /\ offer'.type = "row" => nextRow < Height /\ offer' = Source!RowDone(nextRow)
        /\ offer'.type = "frame" => nextRow = Height
    BY <1>2, <1>9, OffersAre
  <2>5. StreamEvents' = StreamEvents /\ Source!RowDone(nextRow)' = Source!RowDone(nextRow')
    BY DEF StreamEvents, Source!RowDone, Source!Hits, Source!FrameDone
  <2>6. QED
    BY <1>2, <1>3, <1>4, <1>9, <2>1, <2>2, <2>3, <2>4, <2>5 DEF ScanInv
<1>10. CASE /\ ~start /\ Fire /\ scanning /\ offer # NoEvent /\ offer' = NoEvent
            /\ nextRow' = IF offer.type = "row" THEN nextRow + 1 ELSE nextRow
            /\ scanning' = (offer.type # "frame")
  <2>1. packBlocked' = NoEvent /\ blocked' = NoEvent
    BY <1>6, <1>10
  <2>2. nextRow' \in 0..Height
    BY <1>1, <1>2, <1>10, RowsCounted
  <2>3. CASE offer.type = "row"
    <3>1. /\ packRow' = nextRow + 1 /\ row' = nextRow + 1
          /\ offer = Source!RowDone(Height - 1) <=> nextRow + 1 = Height
          /\ offer.y = Height - 1 <=> nextRow + 1 = Height
      BY <1>1, <1>2, <1>7, <1>10, <2>3, RowsCounted
    <3>2. nextRow # Height
      BY <1>2, <2>3
    <3>3. /\ packLast' = (nextRow + 1 = Height) /\ lastRow' = (nextRow + 1 = Height)
          /\ ~frameDone' /\ ~ip2Done' /\ ~packDone'
      BY <1>2, <1>4, <1>7, <1>10, <2>3, <3>1, <3>2
    <3>4. QED
      BY <1>3, <1>4, <1>5, <1>10, <2>1, <2>2, <2>3, <3>1, <3>3 DEF ScanInv
  <2>4. CASE offer.type = "frame"
    BY <1>4, <1>5, <1>10, <2>1, <2>2, <2>4 DEF ScanInv
  <2>5. CASE offer.type \notin {"row", "frame"}
    <3>1. packRow' = packRow /\ row' = row /\ offer # Source!RowDone(Height - 1)
      BY <1>7, <1>10, <2>5 DEF Source!RowDone
    <3>2. /\ packLast' = packLast /\ lastRow' = lastRow
          /\ ~frameDone' /\ ~ip2Done' /\ ~packDone'
      BY <1>2, <1>4, <1>7, <1>10, <2>5, <3>1
    <3>3. QED
      BY <1>2, <1>3, <1>4, <1>5, <1>10, <2>1, <2>2, <2>5, <3>1, <3>2 DEF ScanInv
  <2>6. QED
    BY <2>3, <2>4, <2>5
<1>11. CASE ~start /\ ~Fire /\ UNCHANGED <<scanning, offer, nextRow>>
  <2>1. packBlocked' \in {NoEvent, offer'} /\ blocked' \in {NoEvent, offer'}
    BY <1>6, <1>11
  <2>2. packRow' = packRow /\ row' = row
    BY <1>7, <1>11
  <2>3. scanning => /\ packLast' = packLast /\ lastRow' = lastRow
                    /\ ~frameDone' /\ ~ip2Done' /\ ~packDone'
    BY <1>2, <1>4, <1>7, <1>11
  <2>4. StreamEvents' = StreamEvents /\ Source!RowDone(nextRow)' = Source!RowDone(nextRow')
    BY DEF StreamEvents, Source!RowDone, Source!Hits, Source!FrameDone
  <2>5. QED
    BY <1>2, <1>3, <1>4, <1>11, <2>1, <2>2, <2>3, <2>4 DEF ScanInv
<1>12. QED
  BY <1>1, <1>8, <1>9, <1>10, <1>11, ScannerStep

\* The end of the stream is seen before the result is due.
LEMMA EndStep ==
  ASSUME StreamInv, CclInv, NEW start \in BOOLEAN, NEW clear \in BOOLEAN,
         NEW send \in BOOLEAN, NEW last \in BOOLEAN, Clocked(start, clear, send, last)
  PROVE  EndInv'
<1> DEFINE frame == Fire /\ offer.type = "frame"
<1>1. /\ ingress = (builder # "IDLE")
      /\ ingress /\ ~scanning => frameDone
      /\ packDone \in BOOLEAN /\ ip2Done \in BOOLEAN
      /\ Streaming /\ ~scanning => packDone # ip2Done
      /\ ~Streaming => ~packDone
      /\ ingress /\ ~Streaming => ip2Done
  BY DEF StreamInv, EndInv
<1>2. /\ scanning \in BOOLEAN
      /\ scanning => Streaming
      /\ scanning => ~frameDone /\ ~packDone /\ ~ip2Done
      /\ ScanInv /\ FifoInv
  BY DEF StreamInv, ScanInv
<1>3. /\ start => Idling /\ Streaming'
      /\ Streaming' /\ ~start => Streaming /\ (ccl = "WAIT" => HeadEvent.type # "frame")
      /\ Streaming /\ ~Streaming' => ccl = "WAIT" /\ HeadEvent.type = "frame"
      /\ builder' = "IDLE" <=> (builder = "DONE" \/ (builder = "IDLE" /\ ~start))
  BY PhaseStep
<1>4. /\ packDone' = frame
      /\ ingress' = ((ingress \/ start) /\ builder # "DONE")
      /\ frameDone' = (~start /\ builder # "DONE" /\ (frameDone \/ frame))
      /\ ip2Done' = (~start /\ (ip2Done \/ (packDone /\ ingress)))
  BY RegistersAre, Zenon
<1>5. /\ frame => scanning /\ ~start /\ ~scanning'
      /\ ~frame => scanning' = (scanning \/ start)
  BY <1>2, ScannerStep
<1> HIDE DEF frame
<1>6. Streaming /\ ~Streaming' => ~scanning
  BY <1>2, <1>3, HeadShape DEF FifoInv, NoEvent
<1>7. ingress' = (builder' # "IDLE")
  BY <1>1, <1>3, <1>4 DEF Idling
<1>8. ingress' /\ ~scanning' => frameDone'
  BY <1>1, <1>2, <1>4, <1>5
<1>9. packDone' \in BOOLEAN /\ ip2Done' \in BOOLEAN
  BY RegistersAre
<1>10. Streaming' /\ ~scanning' => packDone' # ip2Done'
  <2> SUFFICES ASSUME Streaming', ~scanning' PROVE packDone' # ip2Done'
    OBVIOUS
  <2>1. CASE frame
    BY <1>2, <1>4, <1>5, <2>1
  <2>2. CASE ~frame
    <3>1. ~scanning /\ ~start /\ Streaming /\ ingress
      BY <1>1, <1>3, <1>5, <2>2 DEF Streaming
    <3>2. packDone # ip2Done
      BY <1>1, <3>1
    <3>3. ip2Done' /\ ~packDone'
      BY <1>1, <1>4, <2>2, <3>1, <3>2
    <3>4. QED
      BY <3>3
  <2>3. QED
    BY <2>1, <2>2
<1>11. ~Streaming' => ~packDone'
  BY <1>2, <1>4, <1>5, <1>6
<1>12. ingress' /\ ~Streaming' => ip2Done'
  <2> SUFFICES ASSUME ingress', ~Streaming' PROVE ip2Done'
    OBVIOUS
  <2>1. ~start /\ ingress
    BY <1>3, <1>4
  <2>2. CASE Streaming
    BY <1>1, <1>4, <1>6, <2>1, <2>2
  <2>3. CASE ~Streaming
    BY <1>1, <1>4, <2>1, <2>3
  <2>4. QED
    BY <2>2, <2>3
<1>13. QED
  BY <1>7, <1>8, <1>9, <1>10, <1>11, <1>12 DEF EndInv

\* What one edge makes of the queue: pop events leave at its head, push enter.
Moved(pop, push) ==
  /\ pop = IF Pop THEN 1 ELSE 0
  /\ push = IF Fire THEN 1 ELSE 0
  /\ fifo' \in Seq(StreamEvents)
  /\ Len(fifo') = Len(fifo) - pop + push
  /\ \A j \in 1..(Len(fifo) - pop) : fifo'[j] = fifo[j + pop]
  /\ push = 1 => fifo'[Len(fifo')] = offer

\* Every edge moves the queue like this.
LEMMA QueueMoves ==
  ASSUME FifoInv, ScanInv, Fifo
  PROVE  \E pop, push \in {0, 1} : Moved(pop, push)
<1> DEFINE pop == IF Pop THEN 1 ELSE 0
           push == IF Fire THEN 1 ELSE 0
           kept == IF Pop THEN Tail(fifo) ELSE fifo
<1>1. fifo \in Seq(StreamEvents) /\ Len(fifo) \in Nat
  BY DEF FifoInv
<1>2. /\ kept \in Seq(StreamEvents) /\ Len(kept) = Len(fifo) - pop
      /\ \A j \in 1..(Len(fifo) - pop) : kept[j] = fifo[j + pop]
      /\ pop \in {0, 1} /\ Len(kept) \in Nat
  BY <1>1 DEF Pop
<1>3. fifo' = IF Fire THEN Append(kept, offer) ELSE kept
  BY DEF Fifo
<1> HIDE DEF kept
<1>4. push \in {0, 1}
  OBVIOUS
<1>5. CASE Fire
  <2>1. offer \in StreamEvents
    BY <1>5, OfferShape DEF Fire, Valid
  <2>2. /\ fifo' \in Seq(StreamEvents) /\ Len(fifo') = Len(kept) + 1
        /\ \A j \in 1..Len(kept) : fifo'[j] = kept[j]
        /\ fifo'[Len(kept) + 1] = offer
    BY <1>2, <1>3, <1>5, <2>1
  <2>3. Moved(pop, push)
    BY <1>1, <1>2, <1>5, <2>2 DEF Moved
  <2>4. QED
    BY <1>2, <1>4, <2>3
<1>6. CASE ~Fire
  <2>1. fifo' = kept
    BY <1>3, <1>6
  <2>2. Moved(pop, push)
    BY <1>1, <1>2, <1>6, <2>1 DEF Moved
  <2>3. QED
    BY <1>2, <1>4, <2>2
<1>7. QED
  BY <1>5, <1>6

\* The queue ends with the end of the frame.
LEMMA QueueStep ==
  ASSUME StreamInv, CclInv, NEW start \in BOOLEAN, NEW clear \in BOOLEAN,
         NEW send \in BOOLEAN, NEW last \in BOOLEAN, Clocked(start, clear, send, last)
  PROVE  FifoInv'
<1>1. FifoInv /\ ScanInv
  BY DEF StreamInv
<1>2. PICK pop \in {0, 1}, push \in {0, 1} : Moved(pop, push)
  BY <1>1, QueueMoves DEF Clocked, Edge, StreamEdge
<1>3. /\ fifo \in Seq(StreamEvents) /\ Len(fifo) \in Nat
      /\ ~Streaming => fifo = <<>>
      /\ Streaming /\ ~scanning => fifo # <<>>
      /\ \A j \in 1..Len(fifo) : fifo[j].type = "frame" <=> ~scanning /\ j = Len(fifo)
  BY <1>1 DEF FifoInv
<1>4. /\ pop = IF fifo # <<>> /\ ccl = "WAIT" THEN 1 ELSE 0
      /\ push = IF Fire THEN 1 ELSE 0
      /\ fifo' \in Seq(StreamEvents) /\ Len(fifo') \in Nat
      /\ Len(fifo') = Len(fifo) - pop + push
      /\ \A j \in 1..(Len(fifo) - pop) : fifo'[j] = fifo[j + pop]
      /\ push = 1 => fifo'[Len(fifo')] = offer
  BY <1>2 DEF Moved, Pop, EventReady
<1>a. /\ pop = 1 <=> fifo # <<>> /\ ccl = "WAIT"
      /\ push = 1 <=> Fire
      /\ Len(fifo') = Len(fifo) - pop + push
      /\ Len(fifo') \in Nat
      /\ pop \in {0, 1} /\ push \in {0, 1}
      /\ ~Fire => push = 0
      /\ ~(fifo # <<>> /\ ccl = "WAIT") => pop = 0
      /\ push = 0 => Len(fifo') = Len(fifo) - pop
  BY <1>3, <1>4
<1>b. Len(fifo) \in Nat /\ (fifo = <<>> <=> Len(fifo) = 0)
  BY <1>3
<1>5. /\ start => Idling /\ Streaming'
      /\ Streaming' /\ ~start => Streaming /\ (ccl = "WAIT" => HeadEvent.type # "frame")
      /\ Streaming /\ ~Streaming' => ccl = "WAIT" /\ HeadEvent.type = "frame"
  BY PhaseStep
<1>6. /\ Fire => scanning /\ ~start /\ scanning' = (offer.type # "frame")
      /\ ~Fire => scanning' = (scanning \/ start)
      /\ start => ~Fire /\ ~scanning
  BY <1>1, ScannerStep DEF ScanInv
<1>7. /\ scanning \in BOOLEAN
      /\ scanning => Streaming
  BY <1>1 DEF ScanInv
<1>8. fifo # <<>> => HeadEvent = fifo[1] /\ 1 \in 1..Len(fifo)
  BY <1>1, HeadShape
<1>9. fifo = <<>> => HeadEvent.type # "frame" /\ Len(fifo) = 0
  BY <1>1, HeadShape DEF NoEvent
<1>10. ~Streaming' => fifo' = <<>>
  <2> SUFFICES ASSUME ~Streaming' PROVE Len(fifo') = 0
    BY <1>4
  <2>1. ~start
    BY <1>5
  <2>2. CASE Streaming
    <3>1. ccl = "WAIT" /\ HeadEvent.type = "frame" /\ fifo # <<>>
      BY <1>5, <1>9, <2>2
    <3>2. ~scanning /\ Len(fifo) = 1
      BY <1>3, <1>8, <3>1
    <3>3. QED
      BY <1>4, <1>6, <3>1, <3>2
  <2>3. CASE ~Streaming
    <3>1. fifo = <<>> /\ ~Fire
      BY <1>3, <1>6, <1>7, <2>3
    <3>2. QED
      BY <1>a, <1>b, <3>1
  <2>4. QED
    BY <2>2, <2>3
<1>11. Streaming' /\ ~scanning' => fifo' # <<>>
  <2> SUFFICES ASSUME Streaming', ~scanning' PROVE Len(fifo') # 0
    OBVIOUS
  <2>1. CASE Fire
    BY <1>3, <1>4, <1>9, <2>1
  <2>2. CASE ~Fire
    <3>1. ~scanning /\ ~start
      BY <1>6, <2>2
    <3>2. fifo # <<>> /\ (ccl = "WAIT" => HeadEvent.type # "frame")
      BY <1>3, <1>5, <3>1
    <3>3. ccl = "WAIT" => Len(fifo) # 1
      BY <1>3, <1>8, <3>1, <3>2
    <3>4. Len(fifo) # 0
      BY <1>3, <3>2
    <3>5. QED
      <4>1. push = 0 /\ Len(fifo') = Len(fifo) - pop
        BY <1>a, <2>2
      <4>2. CASE ccl = "WAIT"
        <5>1. Len(fifo) \in Nat /\ Len(fifo) # 0 /\ Len(fifo) # 1
          BY <1>b, <3>3, <3>4, <4>2
        <5>2. pop \in {0, 1}
          OBVIOUS
        <5>3. QED
          BY <4>1, <5>1, <5>2
      <4>3. CASE ccl # "WAIT"
        <5>1. pop = 0
          BY <1>a, <4>3
        <5>2. QED
          BY <1>b, <3>4, <4>1, <5>1
      <4>4. QED
        BY <4>2, <4>3
  <2>3. QED
    BY <2>1, <2>2
<1>12. ASSUME NEW j \in 1..Len(fifo')
       PROVE  fifo'[j].type = "frame" <=> ~scanning' /\ j = Len(fifo')
  <2>1. CASE push = 1 /\ j = Len(fifo')
    <3>1. fifo'[j] = offer /\ Fire
      BY <1>4, <1>a, <2>1
    <3>2. QED
      BY <1>6, <1>7, <2>1, <3>1
  <2>2. CASE ~(push = 1 /\ j = Len(fifo'))
    <3>1. j \in 1..(Len(fifo) - pop) /\ j + pop \in 1..Len(fifo)
      BY <1>2, <1>3, <1>4, <2>2
    <3>2. fifo'[j].type = "frame" <=> ~scanning /\ j + pop = Len(fifo)
      BY <1>3, <1>4, <3>1
    <3>3. CASE Fire
      BY <1>4, <1>6, <2>2, <3>2, <3>3
    <3>4. CASE ~Fire
      <4>1. ~start
        BY <1>3, <1>5, <3>1, <1>9 DEF Idling, Streaming
      <4>2. scanning' = scanning /\ Len(fifo') = Len(fifo) - pop
        <5>1. scanning' = scanning
          BY <1>6, <1>7, <3>4, <4>1
        <5>2. QED
          BY <1>a, <3>4, <5>1
      <4>3. QED
        BY <1>2, <1>3, <3>1, <3>2, <4>2
    <3>5. QED
      BY <3>3, <3>4
  <2>3. QED
    BY <2>1, <2>2
<1>13. StreamEvents' = StreamEvents
  BY DEF StreamEvents, Source!RowDone, Source!Hits, Source!FrameDone
<1>14. QED
  <2>1. fifo' \in Seq(StreamEvents')
    BY <1>4, <1>13
  <2>2. DOMAIN fifo' = 1..Len(fifo')
    <3>1. fifo' \in Seq(StreamEvents)
      BY <1>4
    <3>2. QED
      BY <3>1
  <2>3. QED
    BY <1>10, <1>11, <1>12, <2>1, <2>2 DEF FifoInv

\* The history of the HITs offered only grows during a frame.
LEMMA Produced ==
  ASSUME ScanInv, sent \in Seq(Points), NEW start \in BOOLEAN, NEW clear \in BOOLEAN,
         NEW send \in BOOLEAN, NEW last \in BOOLEAN, Clocked(start, clear, send, last), ~start
  PROVE  /\ sent' \in Seq(Points) /\ Len(sent') >= Len(sent)
         /\ \A k \in 1..Len(sent) : sent'[k] = sent[k]
         /\ (offer.type = "hit" => sent[Len(sent)] = Position(offer)) =>
              (offer'.type = "hit" => sent'[Len(sent')] = Position(offer'))
         /\ Fire => Len(sent') = Len(sent) /\ HitIn(offer') = 0
         /\ ~Fire => Len(sent') = (Len(sent) + HitIn(offer')) - HitIn(offer)
         /\ ~scanning => UNCHANGED <<sent, offer>>
<1>1. NoEvent.type = "none" /\ HitIn(NoEvent) = 0
  BY DEF NoEvent, HitIn
<1>2. CASE /\ ~Fire /\ scanning /\ offer = NoEvent /\ offer' \in Source!Offers
           /\ sent' = IF offer'.type = "hit" THEN Append(sent, Position(offer')) ELSE sent
  <2>1. offer' \in StreamEvents
    BY <1>2, OffersAre DEF ScanInv
  <2>2. CASE offer'.type = "hit"
    <3>1. Position(offer') \in Points
      BY <2>1, <2>2, EventShape
    <3> DEFINE p == Position(offer')
    <3>2. sent' = Append(sent, p) /\ p \in Points
      BY <1>2, <2>2, <3>1
    <3> HIDE DEF p
    <3>3. /\ sent' \in Seq(Points) /\ Len(sent') = Len(sent) + 1 /\ Len(sent) \in Nat
          /\ \A k \in 1..Len(sent) : sent'[k] = sent[k]
          /\ sent'[Len(sent) + 1] = p
      BY <3>2
    <3>4. HitIn(offer') = 1 /\ HitIn(offer) = 0
      BY <1>1, <1>2, <2>2 DEF HitIn
    <3>5. QED
      BY <1>2, <3>3, <3>4 DEF p
  <2>3. CASE offer'.type # "hit"
    <3>1. HitIn(offer') = 0 /\ HitIn(offer) = 0 /\ sent' = sent /\ Len(sent) \in Nat
      BY <1>1, <1>2, <2>3 DEF HitIn
    <3>2. QED
      BY <1>2, <2>3, <3>1
  <2>4. QED
    BY <2>2, <2>3
<1>3. CASE Fire /\ offer' = NoEvent /\ sent' = sent /\ scanning
  BY <1>1, <1>3
<1>4. CASE ~Fire /\ UNCHANGED <<offer, sent>>
  <2>1. HitIn(offer) \in {0, 1} /\ Len(sent) \in Nat
    BY DEF HitIn
  <2>2. Len(sent') = (Len(sent) + HitIn(offer')) - HitIn(offer)
    BY <1>4, <2>1
  <2>3. QED
    BY <1>4, <2>1, <2>2
<1>5. QED
  BY <1>2, <1>3, <1>4, ScannerStep

\* The labeling stores or holds the HITs that it takes, unless it says so.
LEMMA Consumed ==
  ASSUME StreamInv, CclInv, Streaming, NEW start \in BOOLEAN, NEW clear \in BOOLEAN,
         NEW send \in BOOLEAN, NEW last \in BOOLEAN, Clocked(start, clear, send, last),
         Lossless', sent \in Seq(Points),
         \A k \in Indices : k <= Len(sent) /\ sent[k] = Position(hits[k]),
         InHand = 1 => Len(hits) + 1 <= Len(sent) /\ sent[Len(hits) + 1] = pending,
         fifo # <<>> /\ ccl = "WAIT" /\ fifo[1].type = "hit" =>
           Len(hits) + 1 <= Len(sent) /\ sent[Len(hits) + 1] = Position(fifo[1])
  PROVE  /\ Len(hits') + InHand' = Len(hits) + InHand + (IF Pop THEN HitIn(fifo[1]) ELSE 0)
         /\ \A k \in Indices' : k <= Len(sent) /\ sent[k] = Position(hits'[k])
         /\ InHand' = 1 => sent[Len(hits') + 1] = pending'
<1>1. /\ hits \in Seq(Hit) /\ Len(hits) \in Nat /\ Indices = 1..Len(hits)
      /\ Indices' = 1..Len(hits') /\ pending \in Points
  BY DEF CclInv, CclTypeOK, Indices
<1>2. /\ fifo # <<>> => HeadEvent = fifo[1]
      /\ fifo = <<>> => HeadEvent.type = "none"
  BY HeadShape DEF StreamInv, NoEvent
<1>3. /\ ccl = "WAIT" => InHand = 0
      /\ ccl \in {"SCAN", "CLASSIFY"} => InHand = 1 /\ ~Pop
      /\ ccl' \in {"SCAN", "CLASSIFY"} => InHand' = 1
      /\ ccl' \notin {"SCAN", "CLASSIFY"} => InHand' = 0
  BY DEF InHand, Pop, EventReady
<1>4. ccl = "WAIT" => (IF Pop THEN HitIn(fifo[1]) ELSE 0) = HitIn(HeadEvent)
  BY <1>2 DEF Pop, EventReady, HitIn
<1>5. "hitOverflow" \notin cclErrors' /\ "labelOverflow" \notin cclErrors'
  BY DEF Lossless
<1>6. CASE /\ ccl = "WAIT" /\ HeadEvent.type # "hit" /\ hits' = hits
           /\ ccl' \notin {"SCAN", "CLASSIFY"}
  <2>1. HitIn(HeadEvent) = 0
    BY <1>6 DEF HitIn
  <2>2. QED
    BY <1>1, <1>3, <1>4, <1>6, <2>1
<1>7. CASE /\ ccl = "WAIT" /\ HeadEvent.type = "hit" /\ hits' = hits
           /\ ccl' \in {"SCAN", "CLASSIFY"} /\ pending' = Position(HeadEvent)
  <2>1. HitIn(HeadEvent) = 1 /\ fifo # <<>>
    BY <1>2, <1>7 DEF HitIn
  <2>2. QED
    BY <1>1, <1>2, <1>3, <1>4, <1>7, <2>1
<1>8. CASE ccl = "SCAN" /\ ccl' \in {"SCAN", "CLASSIFY"} /\ hits' = hits /\ pending' = pending
  BY <1>1, <1>3, <1>8
<1>9. ASSUME ccl = "CLASSIFY", ccl' = "WAIT", NEW l, hits' = Stored(l)
      PROVE  /\ Len(hits') + InHand' = Len(hits) + InHand + (IF Pop THEN HitIn(fifo[1]) ELSE 0)
             /\ \A k \in Indices' : k <= Len(sent) /\ sent[k] = Position(hits'[k])
             /\ InHand' = 1 => sent[Len(hits') + 1] = pending'
  <2> DEFINE p == [x |-> pending.x, y |-> pending.y, label |-> l]
  <2>1. hits' = Append(hits, p)
    BY <1>9 DEF Stored
  <2>2. p.x = pending.x /\ p.y = pending.y
    OBVIOUS
  <2> HIDE DEF p
  <2>3. /\ Len(hits') = Len(hits) + 1 /\ hits'[Len(hits) + 1] = p
        /\ \A k \in 1..Len(hits) : hits'[k] = hits[k]
    BY <1>1, <2>1
  <2>4. Position(p) = pending
    <3>1. pending = [x |-> pending.x, y |-> pending.y]
      BY <1>1 DEF Points
    <3>2. QED
      BY <2>2, <3>1 DEF Position
  <2>5. InHand = 1 /\ InHand' = 0 /\ ~Pop
    BY <1>3, <1>9
  <2>6. Indices' = 1..(Len(hits) + 1)
    BY <1>1, <2>3
  <2>7. ASSUME NEW k \in Indices' PROVE k <= Len(sent) /\ sent[k] = Position(hits'[k])
    <3>1. CASE k \in 1..Len(hits)
      BY <1>1, <2>3, <3>1
    <3>2. CASE k = Len(hits) + 1
      BY <2>3, <2>4, <2>5, <3>2
    <3>3. QED
      BY <1>1, <2>6, <3>1, <3>2
  <2>8. QED
    BY <1>1, <2>3, <2>5, <2>7
<1>10. QED
  BY <1>5, <1>6, <1>7, <1>8, <1>9, FromStreaming

\* The order of HITs is kept by an edge of the queue.
LEMMA PlacesStep ==
  ASSUME fifo \in Seq(StreamEvents), sent \in Seq(Points), sent' \in Seq(Points),
         NEW pop \in {0, 1}, NEW push \in {0, 1}, Moved(pop, push), pop <= Len(fifo),
         NEW place \in [1..(Len(fifo) + 1) -> 0..Len(sent)], Places(place),
         Len(sent') >= Len(sent), \A k \in 1..Len(sent) : sent'[k] = sent[k],
         offer.type = "hit" => sent[Len(sent)] = Position(offer),
         push = 1 => Len(sent') = Len(sent) /\ HitIn(offer') = 0,
         push = 0 => Len(sent') = (Len(sent) + HitIn(offer')) - HitIn(offer),
         Len(hits') + InHand' = Len(hits) + InHand + (IF pop = 1 THEN HitIn(fifo[1]) ELSE 0)
  PROVE  \E q \in [1..(Len(fifo') + 1) -> 0..Len(sent')] : Places(q)'
<1> DEFINE n == Len(fifo)
           s == Len(sent)
           q == [j \in 1..(Len(fifo') + 1) |-> IF j <= (n - pop) + 1 THEN place[j + pop] ELSE s]
<1>1. /\ n \in Nat /\ s \in Nat /\ Len(sent') \in Nat /\ s <= Len(sent')
      /\ Len(fifo') = (n - pop) + push /\ n - pop \in Nat /\ Len(fifo') \in Nat
      /\ DOMAIN fifo = 1..n
      /\ \A j \in 1..(n - pop) : fifo'[j] = fifo[j + pop]
      /\ push = 1 => fifo'[Len(fifo')] = offer
  BY DEF Moved
<1>2. /\ \A j \in 1..(n + 1) : place[j] \in 0..s
      /\ place[1] = Len(hits) + InHand
      /\ place[n + 1] + HitIn(offer) = s
      /\ \A j \in 1..n : /\ place[j + 1] = place[j] + HitIn(fifo[j])
                         /\ fifo[j].type = "hit" => sent[place[j] + 1] = Position(fifo[j])
  BY <1>1 DEF Places
<1>3. DOMAIN fifo' = 1..Len(fifo')
  <2>1. fifo' \in Seq(StreamEvents)
    BY DEF Moved
  <2>2. QED
    BY <2>1
<1>4. \A j \in 1..((n - pop) + 1) : j + pop \in 1..(n + 1) /\ place[j + pop] \in 0..s
  <2> SUFFICES ASSUME NEW j \in 1..((n - pop) + 1) PROVE j + pop \in 1..(n + 1)
    BY <1>2
  <2>1. QED
    BY <1>1
<1>5. q \in [1..(Len(fifo') + 1) -> 0..Len(sent')]
  <2> SUFFICES ASSUME NEW j \in 1..(Len(fifo') + 1)
               PROVE  (IF j <= (n - pop) + 1 THEN place[j + pop] ELSE s) \in 0..Len(sent')
    OBVIOUS
  <2>1. CASE j <= (n - pop) + 1
    <3>1. j \in 1..((n - pop) + 1)
      BY <1>1, <2>1
    <3>2. QED
      BY <1>1, <1>4, <2>1, <3>1
  <2>2. CASE ~(j <= (n - pop) + 1)
    BY <1>1, <2>2
  <2>3. QED
    BY <2>1, <2>2
<1>6. /\ \A j \in 1..((n - pop) + 1) : q[j] = place[j + pop]
      /\ push = 1 => q[Len(fifo') + 1] = s
  <2>1. \A j \in 1..((n - pop) + 1) : j \in 1..(Len(fifo') + 1) /\ j <= (n - pop) + 1
    BY <1>1
  <2>2. push = 1 => /\ Len(fifo') + 1 \in 1..(Len(fifo') + 1)
                    /\ ~(Len(fifo') + 1 <= (n - pop) + 1)
    BY <1>1
  <2>3. QED
    BY <2>1, <2>2
<1> HIDE DEF q
<1>7. PICK r \in [1..(Len(fifo') + 1) -> 0..Len(sent')] : r = q
  BY <1>5
<1>8. r[1] = Len(hits') + InHand'
  <2>1. r[1] = place[1 + pop]
    <3>1. 1 \in 1..((n - pop) + 1)
      BY <1>1
    <3>2. QED
      BY <1>6, <1>7, <3>1
  <2>2. CASE pop = 1
    <3>1. 1 \in 1..n
      BY <1>1, <2>2
    <3>2. place[2] = place[1] + HitIn(fifo[1])
      BY <1>2, <3>1
    <3>3. QED
      BY <1>2, <2>1, <2>2, <3>2
  <2>3. CASE pop = 0
    BY <1>1, <1>2, <2>1, <2>3 DEF InHand
  <2>4. QED
    BY <2>2, <2>3
<1>9. HitIn(offer) \in {0, 1} /\ HitIn(offer') \in {0, 1} /\ (offer.type = "hit" <=> HitIn(offer) = 1)
  BY DEF HitIn
<1>10. r[Len(fifo') + 1] + HitIn(offer') = Len(sent')
  <2>1. CASE push = 1
    BY <1>1, <1>6, <1>7, <2>1
  <2>2. CASE push = 0
    <3>1. r[Len(fifo') + 1] = place[n + 1]
      <4>1. (n - pop) + 1 \in 1..((n - pop) + 1) /\ ((n - pop) + 1) + pop = n + 1
        BY <1>1
      <4>2. Len(fifo') + 1 = (n - pop) + 1
        BY <1>1, <2>2
      <4>3. r[(n - pop) + 1] = place[((n - pop) + 1) + pop]
        BY <1>6, <1>7, <4>1
      <4>4. QED
        BY <4>1, <4>2, <4>3
    <3>2. place[n + 1] \in 0..s
      BY <1>1, <1>2
    <3>3. QED
      BY <1>1, <1>2, <1>9, <2>2, <3>1, <3>2
  <2>3. QED
    BY <2>1, <2>2
<1>11. ASSUME NEW j \in 1..Len(fifo')
       PROVE  /\ r[j + 1] = r[j] + HitIn(fifo'[j])
              /\ fifo'[j].type = "hit" => sent'[r[j] + 1] = Position(fifo'[j])
  <2>1. CASE j \in 1..(n - pop)
    <3>1. /\ j + pop \in 1..n /\ j + 1 \in 1..((n - pop) + 1) /\ j \in 1..((n - pop) + 1)
          /\ (j + 1) + pop = (j + pop) + 1 /\ j + pop \in 1..(n + 1)
          /\ (j + pop) + 1 \in 1..(n + 1)
      BY <1>1, <2>1
    <3>2. r[j] = place[j + pop] /\ r[j + 1] = place[(j + pop) + 1] /\ fifo'[j] = fifo[j + pop]
      BY <1>1, <1>6, <1>7, <2>1, <3>1
    <3>3. /\ place[(j + pop) + 1] = place[j + pop] + HitIn(fifo[j + pop])
          /\ fifo[j + pop].type = "hit" =>
               sent[place[j + pop] + 1] = Position(fifo[j + pop])
      BY <1>2, <3>1
    <3>4. fifo[j + pop].type = "hit" => place[j + pop] + 1 \in 1..s
      <4>1. place[j + pop] \in 0..s /\ place[(j + pop) + 1] \in 0..s
        BY <1>2, <3>1
      <4>2. QED
        BY <1>1, <3>3, <4>1 DEF HitIn
    <3>5. QED
      BY <3>2, <3>3, <3>4
  <2>2. CASE push = 1 /\ j = (n - pop) + 1
    <3>1. /\ r[j] = place[n + 1] /\ r[j + 1] = s /\ fifo'[j] = offer
      <4>1. j \in 1..((n - pop) + 1) /\ j + pop = n + 1 /\ j = Len(fifo')
        BY <1>1, <2>2
      <4>2. QED
        BY <1>1, <1>6, <1>7, <2>2, <4>1
    <3>2. offer.type = "hit" => place[n + 1] + 1 = s /\ s \in 1..s
      <4>1. n + 1 \in 1..(n + 1)
        BY <1>1
      <4>2. place[n + 1] \in 0..s
        BY <1>2, <4>1
      <4>3. QED
        BY <1>1, <1>2, <1>9, <4>2
    <3>3. QED
      BY <1>2, <3>1, <3>2
  <2>3. QED
    BY <1>1, <2>1, <2>2
<1>12. Places(r)'
  BY <1>3, <1>8, <1>10, <1>11 DEF Places
<1>13. QED
  BY <1>12

\* After the last event nothing moves between the scanner and the tables.
LEMMA StreamRests ==
  ASSUME StreamInv, CclInv, NEW start \in BOOLEAN, NEW clear \in BOOLEAN,
         NEW send \in BOOLEAN, NEW last \in BOOLEAN, Clocked(start, clear, send, last),
         ~start, ~Streaming
  PROVE  /\ UNCHANGED <<sent, offer, fifo, hits>> /\ fifo = <<>> /\ offer = NoEvent
         /\ InHand = 0 /\ InHand' = 0
<1>1. ~scanning /\ fifo = <<>> /\ offer = NoEvent
  BY DEF StreamInv, ScanInv, FifoInv
<1>2. UNCHANGED <<sent, offer>> /\ ~Fire
  BY <1>1, ScannerStep DEF StreamInv, Fire, Valid
<1>3. fifo' = fifo
  BY <1>1, <1>2 DEF Clocked, Edge, StreamEdge, Fifo, Pop
<1>4. ~Streaming' /\ PhaseInv' /\ PhaseInv
  BY PhaseStep DEF StreamInv
<1>5. InHand = 0 /\ InHand' = 0
  BY <1>4 DEF InHand, PhaseInv, Streaming, Replaying, Replayed, Listing, Answering, Idling
<1>6. hits' = hits
  <2>1. CASE Replaying
    BY <2>1, FromReplaying, Zenon
  <2>2. QED
    BY <1>4, <2>1, FromIdling, FromReplayed, FromListing, FromAnswering DEF PhaseInv
<1>7. QED
  BY <1>1, <1>2, <1>3, <1>5, <1>6

\* While the events come in the order of the HITs is kept.
LEMMA SentStep ==
  ASSUME StreamInv, CclInv, NEW start \in BOOLEAN, NEW clear \in BOOLEAN,
         NEW send \in BOOLEAN, NEW last \in BOOLEAN, Clocked(start, clear, send, last),
         ~start, Streaming, Lossless', SentInv
  PROVE  SentInv'
<1>1. /\ sent \in Seq(Points) /\ ScanInv /\ FifoInv /\ fifo \in Seq(StreamEvents)
      /\ hits \in Seq(Hit) /\ Indices = 1..Len(hits) /\ DOMAIN fifo = 1..Len(fifo)
  BY DEF StreamInv, DataInv, FifoInv, Points, CclInv, CclTypeOK, Indices
<1>2. PICK place \in [1..(Len(fifo) + 1) -> 0..Len(sent)] : Places(place)
  BY DEF SentInv
<1>3. /\ \A k \in Indices : k <= Len(sent) /\ sent[k] = Position(hits[k])
      /\ InHand = 1 => sent[Len(hits) + 1] = pending
      /\ offer.type = "hit" => sent[Len(sent)] = Position(offer)
  BY DEF SentInv
<1>4. /\ place[1] = Len(hits) + InHand /\ place[1] \in 0..Len(sent)
      /\ Len(hits) \in Nat /\ Len(sent) \in Nat
      /\ \A j \in 1..(Len(fifo) + 1) : place[j] \in 0..Len(sent)
      /\ \A j \in 1..Len(fifo) :
           /\ place[j + 1] = place[j] + HitIn(fifo[j])
           /\ fifo[j].type = "hit" => sent[place[j] + 1] = Position(fifo[j])
  <2>1. Len(hits) \in Nat /\ Len(sent) \in Nat /\ Len(fifo) \in Nat
    BY <1>1
  <2>2. \A j \in 1..(Len(fifo) + 1) : place[j] \in 0..Len(sent)
    BY <1>2
  <2>3. 1 \in 1..(Len(fifo) + 1)
    BY <2>1
  <2>4. QED
    BY <1>1, <1>2, <2>1, <2>2, <2>3 DEF Places
<1>5. InHand = 1 => Len(hits) + 1 <= Len(sent)
  BY <1>4
<1>6. fifo # <<>> /\ ccl = "WAIT" /\ fifo[1].type = "hit" =>
        Len(hits) + 1 <= Len(sent) /\ sent[Len(hits) + 1] = Position(fifo[1])
  <2> SUFFICES ASSUME fifo # <<>>, ccl = "WAIT", fifo[1].type = "hit"
               PROVE  Len(hits) + 1 <= Len(sent) /\ sent[Len(hits) + 1] = Position(fifo[1])
    OBVIOUS
  <2>1. 1 \in 1..Len(fifo) /\ 2 \in 1..(Len(fifo) + 1)
    BY <1>1
  <2>2. InHand = 0 /\ HitIn(fifo[1]) = 1
    BY DEF InHand, HitIn
  <2>3. place[1] = Len(hits) /\ place[2] = Len(hits) + 1 /\ place[2] \in 0..Len(sent)
        /\ sent[place[1] + 1] = Position(fifo[1])
    BY <1>4, <2>1, <2>2
  <2>4. QED
    BY <1>4, <2>3
<1>7. /\ Len(hits') + InHand' = Len(hits) + InHand + (IF Pop THEN HitIn(fifo[1]) ELSE 0)
      /\ \A k \in Indices' : k <= Len(sent) /\ sent[k] = Position(hits'[k])
      /\ InHand' = 1 => sent[Len(hits') + 1] = pending'
  BY <1>1, <1>3, <1>5, <1>6, Consumed
<1>8. /\ sent' \in Seq(Points) /\ Len(sent') >= Len(sent)
      /\ \A k \in 1..Len(sent) : sent'[k] = sent[k]
      /\ offer'.type = "hit" => sent'[Len(sent')] = Position(offer')
      /\ Fire => Len(sent') = Len(sent) /\ HitIn(offer') = 0
      /\ ~Fire => Len(sent') = (Len(sent) + HitIn(offer')) - HitIn(offer)
  BY <1>1, <1>3, Produced
<1>9. PICK pop \in {0, 1}, push \in {0, 1} : Moved(pop, push)
  BY <1>1, QueueMoves DEF Clocked, Edge, StreamEdge
<1>10. /\ pop = 1 <=> Pop
       /\ push = 1 <=> Fire
       /\ push = 0 <=> ~Fire
       /\ pop <= Len(fifo)
  <2>1. /\ pop = IF Pop THEN 1 ELSE 0
        /\ push = IF Fire THEN 1 ELSE 0
    BY <1>9 DEF Moved
  <2>2. Pop => Len(fifo) >= 1
    BY <1>1 DEF Pop
  <2>3. Len(fifo) \in Nat
    BY <1>1
  <2>4. QED
    BY <2>1, <2>2, <2>3
<1>11. \E q \in [1..(Len(fifo') + 1) -> 0..Len(sent')] : Places(q)'
  <2>1. Len(hits') + InHand' = Len(hits) + InHand + (IF pop = 1 THEN HitIn(fifo[1]) ELSE 0)
    BY <1>7, <1>10
  <2>2. QED
    BY <1>1, <1>2, <1>3, <1>8, <1>9, <1>10, <2>1, PlacesStep
<1>12. InHand' = 1 => Len(hits') + 1 <= Len(sent)
  <2>1. PICK q \in [1..(Len(fifo') + 1) -> 0..Len(sent')] : Places(q)'
    BY <1>11
  <2> SUFFICES ASSUME InHand' = 1 PROVE Len(hits') + 1 <= Len(sent)
    OBVIOUS
  <2>2. CASE ~Pop
    BY <1>4, <1>7, <2>2
  <2>3. CASE Pop
    <3>1. ccl = "WAIT" /\ fifo # <<>> /\ InHand = 0 /\ 1 \in 1..Len(fifo)
      BY <1>1, <2>3 DEF Pop, EventReady, InHand
    <3>2. HitIn(fifo[1]) = 1 => fifo[1].type = "hit"
      BY DEF HitIn
    <3>3. HitIn(fifo[1]) \in {0, 1}
      BY DEF HitIn
    <3>4. QED
      BY <1>4, <1>6, <1>7, <2>3, <3>1, <3>2, <3>3
  <2>4. QED
    BY <2>2, <2>3
<1>13. \A k \in Indices' : k <= Len(sent') /\ sent'[k] = Position(hits'[k])
  <2> SUFFICES ASSUME NEW k \in Indices'
               PROVE  k <= Len(sent') /\ sent'[k] = Position(hits'[k])
    OBVIOUS
  <2>1. k <= Len(sent) /\ sent[k] = Position(hits'[k])
    BY <1>7
  <2>2. k \in Nat \ {0}
    <3>1. k \in 1..Len(hits')
      BY DEF Indices
    <3>2. QED
      BY <3>1
  <2>3. k \in 1..Len(sent) /\ Len(sent') \in Nat
    BY <1>4, <1>8, <2>1, <2>2
  <2>4. QED
    BY <1>4, <1>8, <2>1, <2>2, <2>3
<1>14. InHand' = 1 => sent'[Len(hits') + 1] = pending'
  <2>1. Len(hits') \in Nat
    <3>1. CclInv'
      BY CclAlone DEF Clocked, Edge, StreamInv
    <3>2. hits' \in Seq(Hit')
      BY <3>1 DEF CclInv, CclTypeOK
    <3>3. QED
      BY <3>2
  <2>2. InHand' = 1 => Len(hits') + 1 \in 1..Len(sent)
    BY <1>4, <1>12, <2>1
  <2>3. QED
    BY <1>7, <1>8, <2>2
<1>15. QED
  BY <1>8, <1>11, <1>13, <1>14 DEF SentInv, Position

\* The data of a frame.
LEMMA DataStep ==
  ASSUME StreamInv, CclInv, NEW start \in BOOLEAN, NEW clear \in BOOLEAN,
         NEW send \in BOOLEAN, NEW last \in BOOLEAN, Clocked(start, clear, send, last)
  PROVE  DataInv'
<1>1. /\ sent \in Seq(Points) /\ ScanInv /\ PhaseInv
      /\ builder = "COLLECT" /\ Lossless => SentInv
      /\ Result /\ packet.errors = {} => Len(sent) = Len(hits) /\ SentInv
  BY DEF StreamInv, DataInv, Points
<1>2. CASE start
  <2>1. Idling /\ ~Streaming
    BY <1>2, PhaseStep DEF Idling, Streaming
  <2>2. hits' = <<>> /\ ccl' = "WAIT" /\ builder' = "COLLECT"
    BY <1>2, <2>1, FromIdling
  <2>3. sent' = <<>> /\ offer' = NoEvent /\ ~Fire
    BY <1>1, <1>2, ScannerStep
  <2>4. fifo = <<>>
    BY <2>1 DEF StreamInv, FifoInv
  <2>5. fifo' = <<>>
    BY <2>3, <2>4 DEF Clocked, Edge, StreamEdge, Fifo, Pop
  <2>6. Len(fifo') = 0 /\ Len(hits') = 0 /\ Len(sent') = 0 /\ DOMAIN fifo' = {}
    BY <2>2, <2>3, <2>5
  <2>7. InHand' = 0
    BY <2>2 DEF InHand
  <2>8. HitIn(offer') = 0 /\ offer'.type # "hit"
    BY <2>3 DEF HitIn, NoEvent
  <2>9. \E place \in [1..(Len(fifo') + 1) -> 0..Len(sent')] : Places(place)'
    <3>1. [j \in 1..1 |-> 0] \in [1..(Len(fifo') + 1) -> 0..Len(sent')]
      BY <2>6
    <3>2. PICK place \in [1..(Len(fifo') + 1) -> 0..Len(sent')] : place = [j \in 1..1 |-> 0]
      BY <3>1
    <3>3. place[1] = 0
      BY <3>2
    <3>4. Places(place)'
      BY <2>6, <2>7, <2>8, <3>3 DEF Places
    <3>5. QED
      BY <3>4
  <2>10. SentInv'
    <3>1. Indices' = {}
      BY <2>6 DEF Indices
    <3>2. QED
      BY <2>7, <2>8, <2>9, <3>1 DEF SentInv
  <2>11. sent' \in Seq(Points')
    BY <2>3
  <2>12. QED
    BY <2>2, <2>10, <2>11 DEF DataInv, Result, Points
<1>3. CASE ~start /\ Streaming
  <2>1. /\ builder = "COLLECT" /\ builder' = "COLLECT"
    BY <1>3, FromStreaming DEF Streaming
  <2>2. Lossless' => SentInv'
    BY <1>1, <1>3, <2>1, LosslessBefore, SentStep
  <2>3. sent' \in Seq(Points)
    BY <1>1, <1>3, Produced
  <2>4. QED
    BY <2>1, <2>2, <2>3 DEF DataInv, Result, Points
<1>4. CASE ~start /\ ~Streaming
  <2>1. /\ UNCHANGED <<sent, offer, fifo, hits>> /\ fifo = <<>> /\ offer = NoEvent
        /\ InHand = 0 /\ InHand' = 0
    BY <1>4, StreamRests
  <2>2. SentInv => SentInv' /\ Len(sent) = Len(hits)
    <3> SUFFICES ASSUME SentInv PROVE SentInv' /\ Len(sent) = Len(hits)
      OBVIOUS
    <3>1. PICK place \in [1..(Len(fifo) + 1) -> 0..Len(sent)] : Places(place)
      BY DEF SentInv
    <3>2. Places(place)'
      BY <2>1, <3>1 DEF Places, HitIn, Position
    <3>3. Indices' = Indices
      BY <2>1 DEF Indices
    <3>4. \E q \in [1..(Len(fifo') + 1) -> 0..Len(sent')] : Places(q)'
      BY <2>1, <3>2
    <3>5. SentInv'
      BY <2>1, <3>3, <3>4 DEF SentInv, Position
    <3>6. Len(fifo) = 0 /\ Len(hits) \in Nat /\ Len(sent) \in Nat /\ HitIn(offer) = 0
      BY <1>1, <2>1 DEF CclInv, CclTypeOK, HitIn, NoEvent
    <3>7. place[1] = Len(hits) /\ place[1] = Len(sent)
      <4>1. place[1] = Len(hits) + 0 /\ place[0 + 1] + 0 = Len(sent)
        BY <2>1, <3>1, <3>6 DEF Places
      <4>2. QED
        BY <3>6, <4>1, CclAssumption
    <3>8. QED
      BY <3>5, <3>7
  <2>3. builder' = "COLLECT" => builder = "COLLECT"
    <3>1. CASE Replaying
      BY <3>1 DEF Replaying
    <3>2. QED
      BY <1>1, <1>4, <3>1, FromIdling, FromReplayed, FromListing, FromAnswering
      DEF PhaseInv, Idling, Answering, Replayed, Listing
  <2>4. Result' /\ packet'.errors = {} => SentInv
    <3> SUFFICES ASSUME Result', packet'.errors = {} PROVE SentInv
      OBVIOUS
    <3>1. builder' \in {"READY", "SEND"}
      BY DEF Result
    <3>2. ~Idling /\ ~Replayed
      BY <1>4, <3>1, FromIdling, FromReplayed DEF Idling, Replayed
    <3>3. ~Replaying
      <4> SUFFICES ASSUME Replaying PROVE builder' = "COLLECT"
        BY <3>1
      <4>1. builder' = builder
        BY FromReplaying, Zenon
      <4>2. QED
        BY <4>1 DEF Replaying
    <3>4. CASE Listing
      <4>1. packet'.errors = ErrorsAtDone(start, send)
        BY <3>1, <3>4, FromListing DEF Listing
      <4>2. Lossless
        BY <4>1 DEF ErrorsAtDone, AllErrors, Lossless
      <4>3. QED
        BY <1>1, <3>4, <4>2 DEF Listing
    <3>5. CASE Answering
      <4>1. builder \in {"READY", "SEND"} /\ packet' = packet
        BY <3>1, <3>5, FromAnswering DEF Answering
      <4>2. QED
        BY <1>1, <4>1 DEF Result
    <3>6. QED
      BY <1>1, <1>4, <3>2, <3>3, <3>4, <3>5 DEF PhaseInv
  <2>5. builder' = "COLLECT" /\ Lossless' => SentInv'
    BY <1>1, <2>2, <2>3, LosslessBefore
  <2>6. sent' \in Seq(Points)
    BY <1>1, <2>1
  <2>7. Result' /\ packet'.errors = {} => Len(sent') = Len(hits') /\ SentInv'
    BY <2>1, <2>2, <2>4
  <2>8. QED
    BY <2>5, <2>6, <2>7 DEF DataInv, Points
<1>5. QED
  BY <1>2, <1>3, <1>4

\* A frame comes from nothing.
LEMMA StreamInvInit == Init => StreamInv
<1> SUFFICES ASSUME Init PROVE StreamInv
  OBVIOUS
<1>1. /\ ccl = "IDLE" /\ hits = <<>> /\ cclErrors = {} /\ outputIndex = 1
      /\ builder = "IDLE" /\ packet = NoResult /\ builderErrors = {}
      /\ op = "IDLE" /\ table = [l \in Labels |-> Props!NoRow] /\ accumulated = 0
      /\ sawLast = FALSE /\ opErrors = {}
  BY DEF Init, CclInit, Props!OpInit, Props!Rows, Labels
<1>2. /\ scanning = FALSE /\ offer = NoEvent /\ nextRow = 0 /\ sent = <<>>
      /\ packing = FALSE /\ packDone = FALSE /\ packBlocked = NoEvent /\ packErrors = {}
      /\ ingress = FALSE /\ ip2Done = FALSE /\ blocked = NoEvent /\ ingressErrors = {}
      /\ fifo = <<>>
  BY DEF Init, StreamInit, Source!Init, Source!NoEvent, NoEvent
<1> USE DEF Streaming, Replaying, Replayed, Listing, Answering, Idling
<1>3. PhaseInv
  BY <1>1 DEF PhaseInv
<1>4. ScanInv
  <2>1. offer.type = "none" /\ offer \in StreamEvents \cup {NoEvent}
    BY <1>2 DEF NoEvent
  <2>2. nextRow \in 0..Height
    BY <1>2, CclAssumption
  <2>3. QED
    BY <1>2, <2>1, <2>2 DEF ScanInv
<1>5. EndInv /\ FifoInv /\ ErrorInv
  <2>1. EndInv
    BY <1>1, <1>2 DEF EndInv
  <2>2. fifo \in Seq(StreamEvents) /\ DOMAIN fifo = {}
    BY <1>2
  <2>3. FifoInv
    BY <1>1, <1>2, <2>2 DEF FifoInv
  <2>4. ErrorInv
    BY <1>1, <1>2 DEF ErrorInv
  <2>5. QED
    BY <2>1, <2>3, <2>4
<1>6. TableInv
  <2>1. \A l \in Labels : table[l].n = 0 /\ table[l].sumX = 0 /\ table[l].sumY = 0
    BY <1>1 DEF Props!NoRow
  <2>2. 0 \in 0..(accumulated * Width) /\ 0 \in 0..(accumulated * Height) /\ 0 \in 0..accumulated
    BY <1>1, CclAssumption
  <2>3. DOMAIN table = Labels
    BY <1>1
  <2>4. QED
    BY <1>1, <2>1, <2>2, <2>3 DEF TableInv
<1>7. DataInv
  BY <1>1, <1>2 DEF DataInv, Result
<1>8. QED
  BY <1>3, <1>4, <1>5, <1>6, <1>7 DEF StreamInv

\* No edge breaks it, whatever the scanner offers and whoever waits.
LEMMA StreamInvStep == CclInv /\ StreamInv /\ [Next]_postVars => CclInv' /\ StreamInv'
<1> SUFFICES ASSUME CclInv, StreamInv, [Next]_postVars PROVE CclInv' /\ StreamInv'
  OBVIOUS
<1>1. ASSUME NEW start \in BOOLEAN, NEW clear \in BOOLEAN, NEW send \in BOOLEAN,
             NEW last \in BOOLEAN, Clocked(start, clear, send, last)
      PROVE  CclInv' /\ StreamInv'
  <2>1. CclInv'
    BY <1>1, CclAlone DEF Clocked, Edge, StreamInv
  <2>2. PhaseInv' /\ ScanInv' /\ EndInv' /\ FifoInv'
    BY <1>1, PhaseStep, ScanStep, EndStep, QueueStep
  <2>3. TableInv' /\ ErrorInv' /\ DataInv'
    BY <1>1, TableStep, ErrorStep, DataStep
  <2>4. QED
    BY <2>1, <2>2, <2>3 DEF StreamInv
<1>2. CASE UNCHANGED postVars
  <2> USE <1>2 DEF postVars, builderVars, cclVars, streamVars, packVars, ingressVars,
                   Source!eventVars, Props!opVars
  <2>1. CclInv'
    <3>1. [CclNext]_cclVars
      OBVIOUS
    <3>2. QED
      BY <3>1, CclInvStep
  <2>2. /\ Streaming' = Streaming /\ Replaying' = Replaying /\ Replayed' = Replayed
        /\ PhaseInv' = PhaseInv
    BY DEF PhaseInv, Streaming, Replaying, Replayed, Listing, Answering, Idling
  <2>3. StreamEvents' = StreamEvents
    BY DEF StreamEvents, Source!RowDone, Source!Hits, Source!FrameDone
  <2>4. ScanInv'
    BY <2>2, <2>3 DEF StreamInv, ScanInv, Source!RowDone
  <2>5. EndInv' /\ FifoInv'
    BY <2>2, <2>3 DEF StreamInv, EndInv, FifoInv
  <2>6. TableInv' /\ ErrorInv'
    BY <2>2 DEF StreamInv, TableInv, ErrorInv, Labels
  <2>7. DataInv'
    <3>1. Lossless' = Lossless /\ InHand' = InHand /\ Indices' = Indices /\ Result' = Result
      BY DEF Lossless, InHand, Indices, Result
    <3>2. ASSUME NEW place, Places(place) PROVE Places(place)'
      BY <3>1, <3>2 DEF Places, HitIn, Position
    <3>3. SentInv => SentInv'
      BY <3>1, <3>2 DEF SentInv, Position
    <3>4. QED
      BY <3>1, <3>3 DEF StreamInv, DataInv
  <2>8. QED
    BY <2>1, <2>2, <2>4, <2>5, <2>6, <2>7 DEF StreamInv
<1>3. QED
  BY <1>1, <1>2, StepIsEdge

\* The labeling keeps its invariant in its surroundings, so that labels are components
\* there too, and the phases, the queue and the errors of the stream are as StreamInv
\* says, in every reachable state.
THEOREM StreamInvariant == Spec => [](CclInv /\ StreamInv)
<1>1. Init => CclInv /\ StreamInv
  BY StreamInvInit, CclInvInit DEF Init
<1>2. QED
  BY <1>1, StreamInvStep, PTL DEF Spec

\* NothingLostSilently, for the whole path in qr_postprocess_axis_qrp1_core.v: a packet
\* without error bits is about exactly the HITs the scanner found, in their order, and
\* no stage ever raises a protocol, order, stability or sum error, for every depth of
\* the FIFO, size of the tables and interleaving with the scanner and the processor.
THEOREM NothingLostSilentlyHolds == Spec => []NothingLostSilently
<1>1. CclInv /\ StreamInv => NothingLostSilently
  <2> SUFFICES ASSUME CclInv, StreamInv PROVE NothingLostSilently
    OBVIOUS
  <2>1. AllErrors \subseteq {"hitOverflow", "labelOverflow", "recordOverflow"}
    BY DEF StreamInv, ErrorInv, AllErrors
  <2>2. ASSUME Result, packet.errors = {}
        PROVE  sent = [k \in Indices |-> [x |-> hits[k].x, y |-> hits[k].y]]
    <3>1. /\ sent \in Seq(Points) /\ Len(sent) = Len(hits) /\ Indices = 1..Len(hits)
          /\ \A k \in Indices : sent[k] = Position(hits[k])
      BY <2>2 DEF StreamInv, DataInv, SentInv, Points, Indices
    <3>2. sent = [k \in 1..Len(sent) |-> sent[k]]
      BY <3>1
    <3>3. QED
      BY <3>1, <3>2 DEF Position
  <2>3. QED
    BY <2>1, <2>2 DEF NothingLostSilently
<1>2. QED
  BY <1>1, StreamInvariant, PTL

-----------------------------------------------------------------------------
(* The rows of the table and the records of the packet.                     *)

\* The HITs of one final label among the first m.
Members(l, m) == {k \in 1..m : Root(k) = l}

\* s is the sum of v[k] over those.
Adds(s, v, l, m) ==
  \E g \in [0..m -> Nat] :
    /\ g[0] = 0 /\ g[m] = s
    /\ \A k \in 1..m : g[k] = g[k - 1] + (IF k \in Members(l, m) THEN v[k] ELSE 0)

XOf == [k \in Indices |-> hits[k].x]
YOf == [k \in Indices |-> hits[k].y]

\* The row r says what there is to say about them.
RowOf(r, l, m) ==
  /\ r \in [n : Nat, minX : Nat, maxX : Nat, minY : Nat, maxY : Nat, sumX : Nat, sumY : Nat]
  /\ r.n = Cardinality(Members(l, m))
  /\ Members(l, m) # {} => /\ \E k \in Members(l, m) : hits[k].x = r.minX
                           /\ \E k \in Members(l, m) : hits[k].x = r.maxX
                           /\ \E k \in Members(l, m) : hits[k].y = r.minY
                           /\ \E k \in Members(l, m) : hits[k].y = r.maxY
  /\ \A k \in Members(l, m) : /\ r.minX <= hits[k].x /\ hits[k].x <= r.maxX
                              /\ r.minY <= hits[k].y /\ hits[k].y <= r.maxY
  /\ Adds(r.sumX, XOf, l, m) /\ Adds(r.sumY, YOf, l, m)

\* Every row describes the HITs of its label among those accumulated so far; after the
\* replay these are all.
RowInv ==
  /\ accumulated \in 0..Len(hits)
  /\ Replayed \/ Listing \/ Answering => accumulated = Len(hits)
  /\ builder # "IDLE" => \A l \in Labels : RowOf(table[l], l, accumulated)

\* recs are the rows of the table T for the labels in L that have enough HITs, or the
\* first of them.
Enough(T, l) == T[l].n >= MinRecordHits
RecordOf(T, l) == [label |-> l, row |-> T[l]]
Listable(T, L) == {RecordOf(T, l) : l \in {m \in L : Enough(T, m)}}
Lists(T, recs, errors, L) ==
  /\ recs \in Seq(Listable(T, L))
  /\ Len(recs) <= MaxRecords
  /\ \A i, j \in DOMAIN recs : i < j => recs[i].label < recs[j].label
  /\ \A l \in L : Enough(T, l) =>
       \/ \E i \in DOMAIN recs : recs[i].label = l
       \/ /\ "recordOverflow" \in errors /\ Len(recs) = MaxRecords
          /\ \A i \in DOMAIN recs : recs[i].label < l

\* The labels gone through.
Done == IF op = "DONE" THEN Labels ELSE 0..(scanLabel - 1)
\* The records are those of the labels gone through, and so is the packet at the end.
ListInv ==
  /\ Streaming \/ Replaying \/ Replayed => records = <<>>
  /\ builder = "COLLECT" => frameErrors \cap Fatal = {}
  /\ Listing => /\ scanLabel \in Labels
                /\ Lists(table, records, frameErrors, Done)
                /\ op = "OUTPUT" => /\ record = RecordOf(table, scanLabel)
                                    /\ Enough(table, scanLabel)
  /\ Result => Lists(table, packet.records, packet.errors, Labels)

\* Total adds up: any function of partial sums ends with it.
LEMMA TotalIs ==
  ASSUME hits \in Seq(Hit), NEW v, NEW C, NEW g \in [0..Len(hits) -> Nat], g[0] = 0,
         \A k \in 1..Len(hits) : g[k] = g[k - 1] + (IF k \in C THEN v[k] ELSE 0)
  PROVE  Total(v, C) = g[Len(hits)]
<1> DEFINE u == CHOOSE u : u = [k \in 0..Len(hits) |-> IF k = 0 THEN 0
                                  ELSE u[k - 1] + (IF k \in C THEN v[k] ELSE 0)]
<1>1. Len(hits) \in Nat
  OBVIOUS
<1>2. g = [k \in 0..Len(hits) |-> IF k = 0 THEN 0
                                  ELSE g[k - 1] + (IF k \in C THEN v[k] ELSE 0)]
  <2>1. \A k \in 0..Len(hits) : g[k] = IF k = 0 THEN 0
                                       ELSE g[k - 1] + (IF k \in C THEN v[k] ELSE 0)
    BY <1>1
  <2>2. QED
    BY <2>1
<1>3. u = [k \in 0..Len(hits) |-> IF k = 0 THEN 0
                                  ELSE u[k - 1] + (IF k \in C THEN v[k] ELSE 0)]
  BY <1>2
<1>4. Total(v, C) = u[Len(hits)]
  BY DEF Total
<1> HIDE DEF u
<1>5. /\ u[0] = 0
      /\ \A k \in 1..Len(hits) : u[k] = u[k - 1] + (IF k \in C THEN v[k] ELSE 0)
  <2>1. \A k \in 0..Len(hits) : u[k] = IF k = 0 THEN 0
                                       ELSE u[k - 1] + (IF k \in C THEN v[k] ELSE 0)
    BY <1>3
  <2>2. QED
    BY <1>1, <2>1
<1> DEFINE Wrong == {k \in 0..Len(hits) : u[k] # g[k]}
<1>6. Wrong = {}
  <2> SUFFICES ASSUME Wrong # {} PROVE FALSE
    OBVIOUS
  <2>1. PICK k \in Wrong : \A m \in Wrong : k <= m
    <3>1. Wrong \in SUBSET Nat
      BY <1>1
    <3>2. QED
      BY <3>1, SmallestLabel
  <2>2. k \in 1..Len(hits) /\ u[k] # g[k]
    BY <1>1, <1>5, <2>1
  <2>3. k - 1 \in 0..Len(hits) /\ k - 1 \notin Wrong
    BY <1>1, <2>1, <2>2
  <2>4. u[k - 1] = g[k - 1]
    BY <2>3
  <2>5. QED
    BY <1>5, <2>2, <2>4
<1>7. QED
  BY <1>1, <1>4, <1>6

\* The HITs of a label among the first m + 1.
LEMMA MembersNext ==
  ASSUME NEW m \in Nat, NEW l
  PROVE  /\ Members(l, m + 1) = IF Root(m + 1) = l THEN Members(l, m) \cup {m + 1}
                                ELSE Members(l, m)
         /\ m + 1 \notin Members(l, m) /\ Members(l, m) \subseteq 1..m
         /\ Members(l, 0) = {}
         /\ IsFiniteSet(Members(l, m)) /\ Cardinality(Members(l, m)) \in Nat
<1>1. /\ Members(l, m + 1) = IF Root(m + 1) = l THEN Members(l, m) \cup {m + 1}
                             ELSE Members(l, m)
      /\ m + 1 \notin Members(l, m) /\ Members(l, m) \subseteq 1..m
      /\ Members(l, 0) = {}
  BY DEF Members
<1>2. IsFiniteSet(1..m)
  BY FS_Interval
<1>3. IsFiniteSet(Members(l, m))
  BY <1>1, <1>2, FS_Subset
<1>4. QED
  BY <1>1, <1>3, FS_CardinalityType

\* A sum goes on with the next HIT.
LEMMA AddsNext ==
  ASSUME NEW m \in Nat, NEW l, NEW v, NEW s \in Nat, Adds(s, v, l, m),
         Root(m + 1) = l => v[m + 1] \in Nat
  PROVE  Adds(IF Root(m + 1) = l THEN s + v[m + 1] ELSE s, v, l, m + 1)
<1> DEFINE t == IF Root(m + 1) = l THEN s + v[m + 1] ELSE s
<1>1. PICK g \in [0..m -> Nat] :
        /\ g[0] = 0 /\ g[m] = s
        /\ \A k \in 1..m : g[k] = g[k - 1] + (IF k \in Members(l, m) THEN v[k] ELSE 0)
  BY DEF Adds
<1>2. t \in Nat
  OBVIOUS
<1> HIDE DEF t
<1> DEFINE f == [k \in 0..(m + 1) |-> IF k = m + 1 THEN t ELSE g[k]]
<1>3. f \in [0..(m + 1) -> Nat]
  BY <1>1, <1>2
<1>4. f[0] = 0 /\ f[m + 1] = t /\ \A k \in 0..m : f[k] = g[k]
  BY <1>1
<1> HIDE DEF f
<1>5. ASSUME NEW k \in 1..(m + 1)
      PROVE  f[k] = f[k - 1] + (IF k \in Members(l, m + 1) THEN v[k] ELSE 0)
  <2>1. CASE k = m + 1
    <3>1. k - 1 = m /\ f[k - 1] = s /\ m \in 0..m
      BY <1>1, <1>4, <2>1
    <3>2. k \in Members(l, m + 1) <=> Root(m + 1) = l
      BY <2>1 DEF Members
    <3>3. QED
      BY <1>4, <2>1, <3>1, <3>2 DEF t
  <2>2. CASE k \in 1..m
    <3>1. k - 1 \in 0..m /\ k \in 0..m
      BY <2>2
    <3>2. k \in Members(l, m + 1) <=> k \in Members(l, m)
      BY <2>2 DEF Members
    <3>3. QED
      BY <1>1, <1>4, <2>2, <3>1, <3>2
  <2>3. QED
    BY <2>1, <2>2
<1>6. Adds(t, v, l, m + 1)
  BY <1>3, <1>4, <1>5 DEF Adds
<1>7. QED
  BY <1>6 DEF t

\* Before the first HIT.
LEMMA RowStart ==
  ASSUME NEW l
  PROVE  RowOf(Props!NoRow, l, 0)
<1>1. Members(l, 0) = {} /\ Cardinality(Members(l, 0)) = 0
  BY MembersNext, FS_EmptySet
<1>2. ASSUME NEW v PROVE Adds(0, v, l, 0)
  <2> DEFINE g == [k \in 0..0 |-> 0]
  <2>1. g \in [0..0 -> Nat] /\ g[0] = 0
    OBVIOUS
  <2> HIDE DEF g
  <2>2. \A k \in 1..0 : g[k] = g[k - 1] + (IF k \in Members(l, 0) THEN v[k] ELSE 0)
    OBVIOUS
  <2>3. QED
    BY <2>1, <2>2 DEF Adds
<1>3. QED
  BY <1>1, <1>2 DEF RowOf, Props!NoRow

\* A box only grows.
LEMMA LesserGreater ==
  ASSUME NEW a \in Nat, NEW b \in Nat
  PROVE  /\ Props!Lesser(a, b) <= a /\ Props!Lesser(a, b) <= b
         /\ a <= Props!Greater(a, b) /\ b <= Props!Greater(a, b)
BY DEF Props!Lesser, Props!Greater

\* The next HIT of its label.
LEMMA RowGrows ==
  ASSUME CclInv, NEW m \in Nat, m + 1 \in Indices, NEW r, NEW h, NEW l, l = Root(m + 1),
         RowOf(r, l, m), h.x = hits[m + 1].x, h.y = hits[m + 1].y,
         r.n # CountMax, ~Props!Saturated(r.sumX, h.x), ~Props!Saturated(r.sumY, h.y)
  PROVE  RowOf(Props!Extended(r, h), l, m + 1)
<1>1. /\ h.x \in Nat /\ h.y \in Nat /\ Indices = 1..Len(hits) /\ Len(hits) \in Nat
      /\ \A k \in Indices : hits[k].x \in Nat /\ hits[k].y \in Nat
  <2>1. hits \in Seq(Hit) /\ Indices = 1..Len(hits)
    BY DEF CclInv, CclTypeOK, Indices
  <2>2. \A k \in Indices : hits[k].x \in Nat /\ hits[k].y \in Nat
    <3>1. \A k \in Indices : hits[k] \in Hit
      BY <2>1
    <3>2. \A p \in Hit : p.x \in 0..(Width - 1) /\ p.y \in 0..(Height - 1)
      BY DEF Hit
    <3>3. 0..(Width - 1) \subseteq Nat /\ 0..(Height - 1) \subseteq Nat
      BY CclAssumption
    <3>4. QED
      BY <3>1, <3>2, <3>3
  <2>3. h.x \in Nat /\ h.y \in Nat /\ Len(hits) \in Nat
    BY <2>1, <2>2
  <2>4. QED
    BY <2>1, <2>2, <2>3
<1>2. /\ r.n \in Nat /\ r.minX \in Nat /\ r.maxX \in Nat /\ r.minY \in Nat /\ r.maxY \in Nat
      /\ r.sumX \in Nat /\ r.sumY \in Nat /\ r.n = Cardinality(Members(l, m))
  BY DEF RowOf
<1> DEFINE M == Members(l, m)
           N == Members(l, m + 1)
           e == Props!Extended(r, h)
<1>3. /\ N = M \cup {m + 1} /\ m + 1 \notin M /\ M \subseteq 1..m
      /\ IsFiniteSet(M) /\ Cardinality(M) \in Nat
  BY MembersNext
<1>4. Cardinality(N) = r.n + 1
  BY <1>2, <1>3, FS_AddElement
<1>5. r.n = 0 <=> M = {}
  BY <1>2, <1>3, FS_EmptySet
<1>6. Props!Plus(r.sumX, h.x) = r.sumX + h.x /\ Props!Plus(r.sumY, h.y) = r.sumY + h.y
  BY DEF Props!Plus
<1>7. e = [n |-> r.n + 1,
           minX |-> IF r.n = 0 THEN h.x ELSE Props!Lesser(h.x, r.minX),
           maxX |-> IF r.n = 0 THEN h.x ELSE Props!Greater(h.x, r.maxX),
           minY |-> IF r.n = 0 THEN h.y ELSE Props!Lesser(h.y, r.minY),
           maxY |-> IF r.n = 0 THEN h.y ELSE Props!Greater(h.y, r.maxY),
           sumX |-> r.sumX + h.x, sumY |-> r.sumY + h.y]
  BY <1>6 DEF Props!Extended
<1> HIDE DEF e
<1>8. /\ e \in [n : Nat, minX : Nat, maxX : Nat, minY : Nat, maxY : Nat, sumX : Nat, sumY : Nat]
      /\ e.n = r.n + 1 /\ e.sumX = r.sumX + h.x /\ e.sumY = r.sumY + h.y
      /\ e.minX = IF r.n = 0 THEN h.x ELSE Props!Lesser(h.x, r.minX)
      /\ e.maxX = IF r.n = 0 THEN h.x ELSE Props!Greater(h.x, r.maxX)
      /\ e.minY = IF r.n = 0 THEN h.y ELSE Props!Lesser(h.y, r.minY)
      /\ e.maxY = IF r.n = 0 THEN h.y ELSE Props!Greater(h.y, r.maxY)
  BY <1>1, <1>2, <1>7 DEF Props!Lesser, Props!Greater
<1>9. \A k \in M : k \in Indices
  BY <1>1, <1>3
<1>10. /\ M # {} => /\ \E k \in M : hits[k].x = r.minX
                    /\ \E k \in M : hits[k].x = r.maxX
                    /\ \E k \in M : hits[k].y = r.minY
                    /\ \E k \in M : hits[k].y = r.maxY
       /\ \A k \in M : /\ r.minX <= hits[k].x /\ hits[k].x <= r.maxX
                       /\ r.minY <= hits[k].y /\ hits[k].y <= r.maxY
  BY DEF RowOf
<1> HIDE DEF M, N
<1>11. /\ \E k \in N : hits[k].x = e.minX
       /\ \E k \in N : hits[k].x = e.maxX
       /\ \E k \in N : hits[k].y = e.minY
       /\ \E k \in N : hits[k].y = e.maxY
  <2>1. CASE M = {}
    BY <1>3, <1>5, <1>8, <2>1
  <2>2. CASE M # {}
    <3>1. /\ e.minX = h.x \/ e.minX = r.minX
          /\ e.maxX = h.x \/ e.maxX = r.maxX
          /\ e.minY = h.y \/ e.minY = r.minY
          /\ e.maxY = h.y \/ e.maxY = r.maxY
      BY <1>8 DEF Props!Lesser, Props!Greater
    <3>2. QED
      BY <1>3, <1>10, <2>2, <3>1
  <2>3. QED
    BY <2>1, <2>2
<1>12. ASSUME NEW k \in N
       PROVE  /\ e.minX <= hits[k].x /\ hits[k].x <= e.maxX
              /\ e.minY <= hits[k].y /\ hits[k].y <= e.maxY
  <2>1. CASE k = m + 1
    <3>1. /\ e.minX <= h.x /\ h.x <= e.maxX /\ e.minY <= h.y /\ h.y <= e.maxY
      <4>1. /\ Props!Lesser(h.x, r.minX) <= h.x /\ h.x <= Props!Greater(h.x, r.maxX)
            /\ Props!Lesser(h.y, r.minY) <= h.y /\ h.y <= Props!Greater(h.y, r.maxY)
        BY <1>1, <1>2, LesserGreater
      <4>2. h.x <= h.x /\ h.y <= h.y
        BY <1>1
      <4>3. QED
        BY <1>8, <4>1, <4>2
    <3>2. hits[k].x = h.x /\ hits[k].y = h.y
      BY <2>1
    <3>3. QED
      BY <3>1, <3>2
  <2>2. CASE k \in M
    <3>1. /\ r.n # 0 /\ hits[k].x \in Nat /\ hits[k].y \in Nat
          /\ r.minX <= hits[k].x /\ hits[k].x <= r.maxX
          /\ r.minY <= hits[k].y /\ hits[k].y <= r.maxY
      BY <1>1, <1>5, <1>9, <1>10, <2>2
    <3>2. QED
      <4>1. /\ e.minX <= r.minX /\ r.maxX <= e.maxX /\ e.minY <= r.minY /\ r.maxY <= e.maxY
        BY <1>1, <1>2, <1>8, <3>1, LesserGreater
      <4>2. e.minX \in Nat /\ e.maxX \in Nat /\ e.minY \in Nat /\ e.maxY \in Nat
        BY <1>8
      <4>3. QED
        BY <1>2, <3>1, <4>1, <4>2
  <2>3. QED
    BY <1>3, <2>1, <2>2
<1>13. Adds(e.sumX, XOf, l, m + 1) /\ Adds(e.sumY, YOf, l, m + 1)
  <2>1. Adds(r.sumX, XOf, l, m) /\ Adds(r.sumY, YOf, l, m)
    BY DEF RowOf
  <2>2. XOf[m + 1] = h.x /\ YOf[m + 1] = h.y
    BY DEF XOf, YOf
  <2>3. Adds(r.sumX + h.x, XOf, l, m + 1)
    BY <1>1, <1>2, <2>1, <2>2, AddsNext
  <2>4. Adds(r.sumY + h.y, YOf, l, m + 1)
    BY <1>1, <1>2, <2>1, <2>2, AddsNext
  <2>5. QED
    BY <1>8, <2>3, <2>4
<1>14. RowOf(e, l, m + 1)
  BY <1>4, <1>8, <1>11, <1>12, <1>13 DEF RowOf, N
<1>15. QED
  BY <1>14 DEF e

\* The next HIT of another label.
LEMMA RowStays ==
  ASSUME NEW m \in Nat, NEW r, NEW l, l # Root(m + 1), RowOf(r, l, m)
  PROVE  RowOf(r, l, m + 1)
<1>1. Members(l, m + 1) = Members(l, m)
  BY MembersNext
<1>2. Adds(r.sumX, XOf, l, m + 1) /\ Adds(r.sumY, YOf, l, m + 1)
  BY AddsNext DEF RowOf
<1>3. QED
  BY <1>1, <1>2 DEF RowOf

\* After the last event the labels rest.
LEMMA ParentRests ==
  ASSUME PhaseInv, ~Streaming, NEW start \in BOOLEAN, NEW clear \in BOOLEAN,
         NEW send \in BOOLEAN, NEW last \in BOOLEAN, Clocked(start, clear, send, last)
  PROVE  parent' = parent
<1> DEFINE c == CclIn(start, clear)
<1>1. CclEdge(c) /\ ccl \notin {"WAIT", "SCAN", "CLASSIFY"}
  BY DEF Clocked, Edge, PhaseInv, Streaming, Replaying, Replayed, Listing, Answering, Idling
<1> HIDE DEF c
<1>2. \/ CclStart(c) \/ TakeHit(c) \/ TakeFrameDone(c) \/ Scan \/ Classify
      \/ Replay(c) \/ CclDone(c) \/ CclHold(c)
  BY <1>1 DEF CclEdge
<1>3. ~TakeHit(c) /\ ~TakeFrameDone(c) /\ ~Scan /\ ~Classify
  BY <1>1 DEF TakeHit, TakeFrameDone, Scan, Classify, Join, NewLabel, NoLabelLeft
<1>4. QED
  BY <1>2, <1>3 DEF CclStart, Replay, CclDone, CclHold

\* What is said of a row depends on the HITs and their labels alone, and on none at first.
LEMMA RowKept ==
  ASSUME NEW l, NEW r, NEW m, RowOf(r, l, m), (hits' = hits /\ parent' = parent) \/ m = 0
  PROVE  RowOf(r, l, m)'
<1>1. CASE m = 0
  <2>1. Members(l, m) = {} /\ Members(l, m)' = {} /\ 1..m = {}
    BY <1>1 DEF Members
  <2>2. Adds(r.sumX, XOf, l, m)' /\ Adds(r.sumY, YOf, l, m)'
    <3>1. Adds(r.sumX, XOf, l, m) /\ Adds(r.sumY, YOf, l, m)
      BY DEF RowOf
    <3>2. QED
      BY <1>1, <2>1, <3>1 DEF Adds
  <2>3. QED
    BY <2>1, <2>2 DEF RowOf
<1>2. CASE hits' = hits /\ parent' = parent
  <2>1. Members(l, m)' = Members(l, m)
    BY <1>2 DEF Members, Root
  <2>2. XOf' = XOf /\ YOf' = YOf
    BY <1>2 DEF XOf, YOf, Indices
  <2>3. Adds(r.sumX, XOf, l, m)' /\ Adds(r.sumY, YOf, l, m)'
    <3>1. Adds(r.sumX, XOf, l, m) /\ Adds(r.sumY, YOf, l, m)
      BY DEF RowOf
    <3>2. QED
      BY <2>1, <2>2, <3>1 DEF Adds
  <2>4. QED
    BY <1>2, <2>1, <2>3 DEF RowOf
<1>3. QED
  BY <1>1, <1>2

\* The rows and the count of the next state, by name.
LEMMA RowNamed ==
  ASSUME NEW l, NEW r, NEW m, RowOf(r, l, m)', r = table'[l], m = accumulated'
  PROVE  RowOf(table[l], l, accumulated)'
BY DEF RowOf, Adds

\* All rows, when neither table nor HITs move.
LEMMA RowsKept ==
  ASSUME \A l \in Labels : RowOf(table[l], l, accumulated), UNCHANGED <<table, accumulated>>,
         (hits' = hits /\ parent' = parent) \/ accumulated = 0
  PROVE  \A l \in Labels : RowOf(table[l], l, accumulated)'
<1> SUFFICES ASSUME NEW l \in Labels PROVE RowOf(table[l], l, accumulated)'
  OBVIOUS
<1>1. PICK r : r = table[l]
  OBVIOUS
<1>2. PICK m : m = accumulated
  OBVIOUS
<1>3. RowOf(r, l, m)'
  BY <1>1, <1>2, RowKept
<1>4. r = table'[l] /\ m = accumulated'
  BY <1>1, <1>2
<1>5. QED
  BY <1>3, <1>4, RowNamed

\* The rows of the table, as the HITs are replayed.
LEMMA RowStep ==
  ASSUME StreamInv, CclInv, RowInv, NEW start \in BOOLEAN, NEW clear \in BOOLEAN,
         NEW send \in BOOLEAN, NEW last \in BOOLEAN, Clocked(start, clear, send, last)
  PROVE  RowInv'
<1> USE DEF Streaming, Replaying, Replayed, Listing, Answering, Idling
<1>1. /\ accumulated \in 0..Len(hits) /\ Len(hits) \in Nat /\ PhaseInv
      /\ Replayed \/ Listing \/ Answering => accumulated = Len(hits)
      /\ builder # "IDLE" => \A l \in Labels : RowOf(table[l], l, accumulated)
      /\ Labels' = Labels
  BY DEF RowInv, StreamInv, CclInv, CclTypeOK, Labels
<1>2. Len(hits') \in Nat
  <2>1. CclInv'
    BY CclAlone DEF Clocked, Edge, StreamInv
  <2>2. hits' \in Seq(Hit')
    BY <2>1 DEF CclInv, CclTypeOK
  <2>3. QED
    BY <2>2
<1>3. CASE start
  <2>1. Idling
    BY <1>3, PhaseStep
  <2>2. /\ hits' = <<>> /\ builder' = "COLLECT" /\ ccl' = "WAIT"
        /\ accumulated' = 0 /\ table' = [l \in Labels |-> Props!NoRow]
    BY <1>3, <2>1, FromIdling
  <2>3. ASSUME NEW l \in Labels PROVE RowOf(table[l], l, accumulated)'
    <3>1. RowOf(Props!NoRow, l, 0)'
      BY RowStart, RowKept
    <3>2. table'[l] = Props!NoRow /\ accumulated' = 0
      BY <2>2
    <3>3. QED
      BY <3>1, <3>2 DEF RowOf, Adds
  <2>4. QED
    BY <1>1, <2>2, <2>3 DEF RowInv
<1>4. CASE ~start /\ Idling
  <2>1. UNCHANGED <<ccl, hits, op, table, accumulated, builder>>
    BY <1>4, FromIdling
  <2>2. QED
    BY <1>1, <1>4, <2>1 DEF RowInv
<1>5. CASE Streaming
  <2>1. /\ UNCHANGED <<op, table, accumulated, builder>>
        /\ ccl' = "DONE" => hits' = hits /\ hits = <<>>
        /\ ccl' # "IDLE"
    BY <1>5, FromStreaming
  <2>2. accumulated = 0
    BY <1>5 DEF StreamInv, TableInv
  <2>3. \A l \in Labels : RowOf(table[l], l, accumulated)'
    BY <1>1, <1>5, <2>1, <2>2, RowsKept
  <2>4. QED
    BY <1>1, <1>2, <1>5, <2>1, <2>2, <2>3 DEF RowInv
<1>6. CASE Replaying
  <2> DEFINE h == OpIn(start, clear).hit
  <2>1. /\ UNCHANGED <<op, hits, builder>> /\ accumulated' = accumulated + 1
        /\ table' = [table EXCEPT ![h.label] = Props!Extended(@, h)]
        /\ IF outputIndex = Len(hits) THEN ccl' = "DONE" ELSE ccl' = "OUTPUT"
    BY <1>6, FromReplaying, Zenon
  <2>2. /\ h.label \in Labels /\ h.x \in 0..(Width - 1) /\ h.y \in 0..(Height - 1)
        /\ accumulated \in Nat /\ accumulated < MaxHits
        /\ h.label = Root(outputIndex)
        /\ h.x = hits[outputIndex].x /\ h.y = hits[outputIndex].y
    BY <1>6, ReplayedFits, Zenon
  <2> HIDE DEF h
  <2>3. parent' = parent
    BY <1>1, <1>6, ParentRests
  <2>4. /\ DOMAIN table = Labels /\ outputIndex = accumulated + 1 /\ outputIndex \in Indices
        /\ Indices = 1..Len(hits)
    BY <1>6 DEF StreamInv, TableInv, CclInv, CclTypeOK, RoomLeft, Indices
  <2>5. ASSUME NEW l \in Labels PROVE RowOf(table[l], l, accumulated)'
    <3>1. PICK m : m = accumulated
      OBVIOUS
    <3>2. PICK r : r = table[l]
      OBVIOUS
    <3>3. RowOf(r, l, m) /\ m \in Nat /\ m + 1 = outputIndex
      BY <1>1, <1>6, <2>2, <2>4, <3>1, <3>2
    <3>4. PICK q : q = table'[l]
      OBVIOUS
    <3>5. RowOf(q, l, m + 1)
      <4>1. CASE l = h.label
        <5>1. q = Props!Extended(r, h)
          BY <2>1, <2>4, <3>2, <3>4, <4>1
        <5>2. r.n \in 0..m /\ r.sumX \in 0..(m * Width) /\ r.sumY \in 0..(m * Height)
          BY <3>1, <3>2 DEF StreamInv, TableInv
        <5>3. /\ r.n # CountMax /\ ~Props!Saturated(r.sumX, h.x) /\ ~Props!Saturated(r.sumY, h.y)
          BY <2>2, <3>1, <3>3, <5>2, RowFits
        <5>4. QED
          BY <2>2, <2>4, <3>3, <4>1, <5>1, <5>3, RowGrows
      <4>2. CASE l # h.label
        <5>1. q = r
          BY <2>1, <2>4, <3>2, <3>4, <4>2
        <5>2. QED
          BY <2>2, <3>3, <4>2, <5>1, RowStays
      <4>3. QED
        BY <4>1, <4>2
    <3>6. PICK k : k = m + 1
      OBVIOUS
    <3>7. RowOf(q, l, k)'
      BY <2>1, <2>3, <3>5, <3>6, RowKept
    <3>8. q = table'[l] /\ k = accumulated'
      BY <2>1, <3>1, <3>4, <3>6
    <3>9. QED
      BY <3>7, <3>8, RowNamed
  <2>6. accumulated' \in 0..Len(hits')
    BY <1>1, <2>1, <2>4
  <2>7. accumulated' = Len(hits') \/ ccl' = "OUTPUT"
    BY <1>1, <2>1, <2>4
  <2>8. QED
    BY <1>1, <1>6, <2>1, <2>5, <2>6, <2>7 DEF RowInv
<1>7. CASE ~start /\ (Replayed \/ Listing \/ Answering)
  <2>1. UNCHANGED <<table, accumulated, hits>>
    BY <1>7, FromReplayed, FromListing, FromAnswering
  <2>2. parent' = parent
    BY <1>1, <1>7, ParentRests
  <2>3. \A l \in Labels : RowOf(table[l], l, accumulated)'
    BY <1>1, <1>7, <2>1, <2>2, RowsKept
  <2>4. QED
    BY <1>1, <1>7, <2>1, <2>3 DEF RowInv
<1>8. QED
  BY <1>1, <1>3, <1>4, <1>5, <1>6, <1>7 DEF PhaseInv

\* A list stays good when more errors are known.
LEMMA ListsErrors ==
  ASSUME NEW T, NEW recs, NEW e, NEW f, NEW L, Lists(T, recs, e, L), e \subseteq f
  PROVE  Lists(T, recs, f, L)
BY DEF Lists

\* Before the first row.
LEMMA ListsStart ==
  ASSUME NEW T, NEW e
  PROVE  Lists(T, <<>>, e, 0..(0 - 1))
<1>1. 0..(0 - 1) = {} /\ Len(<<>>) = 0 /\ DOMAIN <<>> = {}
  OBVIOUS
<1>2. <<>> \in Seq(Listable(T, {}))
  OBVIOUS
<1>3. QED
  BY <1>1, <1>2, PostAssumption DEF Lists

\* Records of fewer labels are records of more.
LEMMA ListsGrow ==
  ASSUME NEW T, NEW recs, NEW l \in Nat,
         recs \in Seq(Listable(T, 0..(l - 1)))
  PROVE  /\ recs \in Seq(Listable(T, 0..l))
         /\ \A i \in DOMAIN recs : recs[i].label \in 0..(l - 1)
         /\ \A m \in 0..l : m \in 0..(l - 1) \/ m = l
         /\ Len(recs) \in Nat /\ DOMAIN recs = 1..Len(recs)
<1> DEFINE A == Listable(T, 0..(l - 1))
           B == Listable(T, 0..l)
<1>1. A \subseteq B
  BY DEF Listable
<1>2. \A r \in A : r.label \in 0..(l - 1)
  BY DEF Listable, RecordOf
<1> HIDE DEF A, B
<1>3. recs \in Seq(A)
  BY DEF A
<1>4. recs \in Seq(B) /\ \A i \in DOMAIN recs : recs[i].label \in 0..(l - 1)
  BY <1>1, <1>2, <1>3
<1>5. QED
  BY <1>3, <1>4 DEF B

\* A row without enough HITs is passed over.
LEMMA ListsSkip ==
  ASSUME NEW T, NEW recs, NEW e, NEW l \in Nat, Lists(T, recs, e, 0..(l - 1)), ~Enough(T, l)
  PROVE  Lists(T, recs, e, 0..l)
<1>1. recs \in Seq(Listable(T, 0..(l - 1)))
  BY DEF Lists
<1>2. /\ recs \in Seq(Listable(T, 0..l))
      /\ \A m \in 0..l : m \in 0..(l - 1) \/ m = l
  BY <1>1, ListsGrow
<1>3. QED
  BY <1>2 DEF Lists

\* A row with enough HITs is appended while there is room,
LEMMA ListsAppend ==
  ASSUME NEW T, NEW recs, NEW e, NEW l \in Nat, Lists(T, recs, e, 0..(l - 1)), Enough(T, l),
         Len(recs) < MaxRecords
  PROVE  Lists(T, Append(recs, RecordOf(T, l)), e, 0..l)
<1> DEFINE B == Listable(T, 0..l)
           r == RecordOf(T, l)
           s == Append(recs, r)
<1>1. recs \in Seq(Listable(T, 0..(l - 1)))
  BY DEF Lists
<1>2. /\ recs \in Seq(B)
      /\ \A i \in DOMAIN recs : recs[i].label \in 0..(l - 1)
      /\ \A m \in 0..l : m \in 0..(l - 1) \/ m = l
      /\ Len(recs) \in Nat /\ DOMAIN recs = 1..Len(recs)
  BY <1>1, ListsGrow
<1>3. r \in B /\ r.label = l
  BY DEF Listable, RecordOf
<1> HIDE DEF B, r
<1>4. /\ s \in Seq(B) /\ Len(s) = Len(recs) + 1 /\ DOMAIN s = 1..(Len(recs) + 1)
      /\ \A i \in 1..Len(recs) : s[i] = recs[i]
      /\ s[Len(recs) + 1] = r
  BY <1>2, <1>3
<1> HIDE DEF s
<1>5. /\ \A i, j \in DOMAIN recs : i < j => recs[i].label < recs[j].label
      /\ \A m \in 0..(l - 1) : Enough(T, m) => \E i \in DOMAIN recs : recs[i].label = m
  BY <1>2 DEF Lists
<1>6. ASSUME NEW i \in DOMAIN s, NEW j \in DOMAIN s, i < j
      PROVE  s[i].label < s[j].label
  <2>1. i \in 1..Len(recs)
    BY <1>2, <1>4, <1>6
  <2>2. CASE j \in 1..Len(recs)
    BY <1>2, <1>4, <1>5, <1>6, <2>1, <2>2
  <2>3. CASE j = Len(recs) + 1
    BY <1>2, <1>3, <1>4, <2>1, <2>3
  <2>4. QED
    BY <1>2, <1>4, <2>2, <2>3
<1>7. ASSUME NEW m \in 0..l, Enough(T, m)
      PROVE  \E i \in DOMAIN s : s[i].label = m
  <2>1. CASE m = l
    BY <1>2, <1>3, <1>4, <2>1
  <2>2. CASE m \in 0..(l - 1)
    <3>1. PICK i \in DOMAIN recs : recs[i].label = m
      BY <1>5, <1>7, <2>2
    <3>2. QED
      BY <1>2, <1>4, <3>1
  <2>3. QED
    BY <1>2, <2>1, <2>2
<1>8. Len(s) <= MaxRecords
  BY <1>2, <1>4, PostAssumption
<1>9. Lists(T, s, e, 0..l)
  BY <1>4, <1>6, <1>7, <1>8 DEF Lists, B
<1>10. QED
  BY <1>9 DEF s, r

\* and dropped and reported when there is none.
LEMMA ListsDrop ==
  ASSUME NEW T, NEW recs, NEW e, NEW l \in Nat, Lists(T, recs, e, 0..(l - 1)),
         Len(recs) >= MaxRecords, "recordOverflow" \in e
  PROVE  Lists(T, recs, e, 0..l)
<1>1. recs \in Seq(Listable(T, 0..(l - 1)))
  BY DEF Lists
<1>2. /\ recs \in Seq(Listable(T, 0..l))
      /\ \A i \in DOMAIN recs : recs[i].label \in 0..(l - 1)
      /\ \A m \in 0..l : m \in 0..(l - 1) \/ m = l
      /\ Len(recs) \in Nat
  BY <1>1, ListsGrow
<1>3. Len(recs) = MaxRecords
  BY <1>2, PostAssumption DEF Lists
<1>4. \A m \in 0..l : Enough(T, m) =>
        \/ \E i \in DOMAIN recs : recs[i].label = m
        \/ /\ "recordOverflow" \in e /\ Len(recs) = MaxRecords
           /\ \A i \in DOMAIN recs : recs[i].label < m
  BY <1>2, <1>3 DEF Lists
<1>5. QED
  BY <1>2, <1>4 DEF Lists

\* While the builder collects no error costs the packet its records, and none is forgotten.
LEMMA ErrorsCollected ==
  ASSUME StreamInv, builder = "COLLECT", frameErrors \cap Fatal = {},
         NEW start \in BOOLEAN, NEW clear \in BOOLEAN, NEW send \in BOOLEAN,
         NEW last \in BOOLEAN, Clocked(start, clear, send, last)
  PROVE  /\ frameErrors' = ErrorsAtDone(start, send)
         /\ frameErrors \subseteq ErrorsAtDone(start, send)
         /\ ErrorsAtDone(start, send) \cap Fatal = {}
         /\ Overflow => "recordOverflow" \in ErrorsAtDone(start, send)
<1>1. frameErrors' = ErrorsAtDone(start, send)
  BY DEF Clocked, Edge, Builder
<1>2. BuilderRaised(start, send) \subseteq {"recordOverflow"}
  BY BuilderQuiet DEF StreamInv, Clocked
<1>3. AllErrors \subseteq {"hitOverflow", "labelOverflow", "recordOverflow"}
  BY DEF StreamInv, ErrorInv, AllErrors
<1>4. {"hitOverflow", "labelOverflow", "recordOverflow"} \cap Fatal = {}
  BY DEF Fatal, PackError, IngressError
<1>5. Overflow => "recordOverflow" \in BuilderRaised(start, send)
  BY DEF BuilderRaised
<1>6. QED
  BY <1>1, <1>2, <1>3, <1>4, <1>5 DEF ErrorsAtDone

\* A step of the listing: a row is passed over, offered, or taken by the builder.
LEMMA RowListed ==
  ASSUME StreamInv, CclInv, Listing, op # "DONE",
         NEW start \in BOOLEAN, NEW clear \in BOOLEAN, NEW send \in BOOLEAN,
         NEW last \in BOOLEAN, Clocked(start, clear, send, last)
  PROVE  \/ /\ op = "SCAN" /\ ~Enough(table, scanLabel) /\ Props!AfterRow /\ records' = records
         \/ /\ op = "SCAN" /\ Enough(table, scanLabel) /\ op' = "OUTPUT"
            /\ scanLabel' = scanLabel /\ record' = RecordOf(table, scanLabel)
            /\ records' = records
         \/ /\ op = "OUTPUT" /\ Props!AfterRow
            /\ IF Overflow THEN records' = records ELSE records' = Append(records, record)
<1> DEFINE o == OpIn(start, clear)
<1>1. /\ Props!OpEdge(o) /\ Builder(start, clear, send, last)
      /\ op \in {"SCAN", "OUTPUT"} /\ builder = "COLLECT" /\ ccl = "IDLE"
  BY DEF Clocked, Edge, Listing
<1>a. /\ o.start = start /\ o.cclDone = (ccl = "DONE") /\ o.hit.valid = (ccl = "OUTPUT")
      /\ o.propertyReady = (builder = "COLLECT")
  BY InputsAre, Zenon
<1> HIDE DEF o
<1>2. records' = IF Collected THEN Append(records, record) ELSE records
  BY <1>1 DEF Builder
<1>3. Props!ScanRow \/ Props!EmitRow(o)
  BY <1>1, <1>a DEF Props!OpEdge, Props!OpStart, Props!Accumulate, Props!EndOfHits,
       Props!OpDone, Props!OpHold, Props!DoneReady
<1>4. CASE Props!ScanRow
  BY <1>2, <1>4 DEF Props!ScanRow, Collected, Enough, RecordOf
<1>5. CASE Props!EmitRow(o)
  BY <1>1, <1>2, <1>5 DEF Props!EmitRow, Collected, Overflow
<1>6. QED
  BY <1>3, <1>4, <1>5

\* What is listed, in the next state.
LEMMA ListNamed ==
  ASSUME NEW T, NEW recs, NEW e, NEW L, Lists(T, recs, e, L),
         T = table', recs = records', e = frameErrors', L = Done'
  PROVE  Lists(table, records, frameErrors, Done)'
BY DEF Lists, Listable, RecordOf, Enough

\* What the packet lists, in the next state.
LEMMA PacketNamed ==
  ASSUME NEW T, NEW recs, NEW e, Lists(T, recs, e, Labels),
         T = table', recs = packet'.records, e = packet'.errors
  PROVE  Lists(table, packet.records, packet.errors, Labels)'
BY DEF Lists, Listable, RecordOf, Enough, Labels

\* After a row come the rows up to the next label, or all of them.
LEMMA DoneGrows ==
  ASSUME scanLabel \in Labels, Props!AfterRow
  PROVE  /\ Done' = 0..scanLabel /\ scanLabel' \in Labels
         /\ op' \in {"SCAN", "DONE"}
<1>1. CASE scanLabel = MaxLabels - 1
  BY <1>1 DEF Props!AfterRow, Done, Labels
<1>2. CASE scanLabel # MaxLabels - 1
  <2>1. op' = "SCAN" /\ scanLabel' = scanLabel + 1
    BY <1>2 DEF Props!AfterRow
  <2>2. scanLabel' \in Labels /\ scanLabel' - 1 = scanLabel
    BY <1>2, <2>1, CclAssumption DEF Labels
  <2>3. QED
    BY <2>1, <2>2 DEF Done
<1>3. QED
  BY <1>1, <1>2

\* The records, as the labels are gone through.
LEMMA ListStep ==
  ASSUME StreamInv, CclInv, RowInv, ListInv, NEW start \in BOOLEAN, NEW clear \in BOOLEAN,
         NEW send \in BOOLEAN, NEW last \in BOOLEAN, Clocked(start, clear, send, last)
  PROVE  ListInv'
<1> USE DEF Streaming, Replaying, Replayed, Listing, Answering, Idling, Result
<1>1. PhaseInv /\ PhaseInv'
  BY PhaseStep DEF StreamInv
<1>2. /\ Builder(start, clear, send, last) /\ Props!OpEdge(OpIn(start, clear))
      /\ AllErrors \cap Fatal = {}
  BY DEF Clocked, Edge, StreamInv, ErrorInv, AllErrors, Fatal, PackError, IngressError
<1>3. CASE start
  <2>1. Idling
    BY <1>3, PhaseStep
  <2>2. ccl' = "WAIT" /\ builder' = "COLLECT" /\ op' = "ACCUM"
    BY <1>3, <2>1, FromIdling
  <2>3. records' = <<>> /\ frameErrors' = AllErrors
    <3>1. builder = "IDLE" /\ start
      BY <1>3, <2>1
    <3>2. records' = <<>>
      BY <1>2, <3>1 DEF Builder, Collected
    <3>3. frameErrors' = CASE builder = "IDLE" /\ start -> AllErrors
                           [] builder = "COLLECT"       -> ErrorsAtDone(start, send)
                           [] OTHER                     -> frameErrors
      BY <1>2, Zenon DEF Builder
    <3>4. frameErrors' = AllErrors
      BY <3>1, <3>3
    <3>5. QED
      BY <3>2, <3>4
  <2>4. (frameErrors \cap Fatal)' = {}
    BY <1>2, <2>3 DEF Fatal
  <2>5. QED
    BY <2>2, <2>3, <2>4 DEF ListInv
<1>4. CASE ~start /\ Idling
  <2>1. UNCHANGED <<ccl, op, builder>>
    BY <1>4, FromIdling
  <2>2. QED
    BY <1>4, <2>1 DEF ListInv
<1>5. ASSUME builder = "COLLECT"
      PROVE  /\ frameErrors' = ErrorsAtDone(start, send)
             /\ frameErrors \subseteq frameErrors' /\ frameErrors' \cap Fatal = {}
             /\ Overflow => "recordOverflow" \in frameErrors'
             /\ (frameErrors \cap Fatal)' = {}
  <2>1. frameErrors \cap Fatal = {}
    BY <1>5 DEF ListInv
  <2>2. QED
    BY <1>5, <2>1, ErrorsCollected DEF Fatal
<1>6. CASE Streaming \/ Replaying
  <2>1. /\ builder' = builder /\ ~start /\ op' = "ACCUM" /\ op = "ACCUM"
        /\ builder = "COLLECT"
    BY <1>6, FromStreaming, FromReplaying, Zenon
  <2>2. records' = records /\ records = <<>>
    BY <1>2, <1>6, <2>1 DEF Builder, Collected, ListInv
  <2>3. QED
    BY <1>5, <2>1, <2>2 DEF ListInv
<1>7. CASE Replayed
  <2>1. builder' = builder /\ ~start /\ ccl' = "IDLE" /\ op' = "SCAN" /\ builder = "COLLECT"
    BY <1>7, FromReplayed
  <2>2. records' = <<>>
    BY <1>2, <1>7, <2>1 DEF Builder, Collected, ListInv
  <2>3. scanLabel' = 0
    BY <1>2, <1>7, <2>1 DEF Props!OpEdge, Props!OpStart, Props!Accumulate, Props!EndOfHits,
       Props!ScanRow, Props!EmitRow, Props!OpDone, Props!OpHold
  <2>4. PICK T, e : T = table' /\ e = frameErrors'
    OBVIOUS
  <2>5. Lists(T, <<>>, e, 0..(0 - 1))
    BY ListsStart
  <2>6. Done' = 0..(0 - 1)
    BY <2>1, <2>3 DEF Done
  <2>7. Lists(table, records, frameErrors, Done)'
    BY <2>2, <2>4, <2>5, <2>6, ListNamed
  <2>8. scanLabel' \in Labels
    BY <2>3, CclAssumption DEF Labels
  <2>9. QED
    BY <1>5, <2>1, <2>7, <2>8 DEF ListInv, Labels
<1>8. CASE Listing /\ op = "DONE"
  <2> DEFINE E == ErrorsAtDone(start, send)
  <2>1. /\ builder' = "READY" /\ op' = "IDLE" /\ ~start /\ table' = table
        /\ builder = "COLLECT"
    BY <1>8, FromListing
  <2>2. Lists(table, records, frameErrors, Labels) /\ E \cap Fatal = {} /\ frameErrors \subseteq E
    BY <1>5, <1>8 DEF ListInv, Done
  <2>3. packet' = [errors |-> E, records |-> IF E \cap Fatal = {} THEN records ELSE <<>>]
    BY <1>2, <1>8, <2>1 DEF Builder, Props!PropertiesDone
  <2> HIDE DEF E
  <2>4. packet'.errors = E /\ packet'.records = records
    BY <2>2, <2>3
  <2>5. PICK T, recs, e : T = table /\ recs = records /\ e = E
    OBVIOUS
  <2>6. Lists(T, recs, e, Labels)
    <3>1. Lists(T, recs, frameErrors, Labels)
      BY <2>2, <2>5
    <3>2. QED
      BY <2>2, <2>5, <3>1, ListsErrors
  <2>7. Lists(table, packet.records, packet.errors, Labels)'
    BY <2>1, <2>4, <2>5, <2>6, PacketNamed
  <2>8. QED
    BY <2>1, <2>7 DEF ListInv
<1>9. CASE Listing /\ op # "DONE"
  <2>1. /\ builder' = builder /\ ~start /\ table' = table /\ ccl' = ccl
        /\ op' \in {"SCAN", "OUTPUT", "DONE"} /\ builder = "COLLECT" /\ ccl = "IDLE"
    BY <1>9, FromListing
  <2>2. PICK T, e, f, l : T = table /\ e = frameErrors /\ f = frameErrors' /\ l = scanLabel
    OBVIOUS
  <2>3. /\ scanLabel \in Labels /\ Lists(T, records, f, Done)
        /\ op = "OUTPUT" => record = RecordOf(table, scanLabel) /\ Enough(table, scanLabel)
    <3>1. /\ scanLabel \in Labels /\ Lists(T, records, e, Done) /\ e \subseteq f
          /\ op = "OUTPUT" => record = RecordOf(table, scanLabel) /\ Enough(table, scanLabel)
      BY <1>5, <1>9, <2>2 DEF ListInv
    <3>2. QED
      BY <3>1, ListsErrors
  <2>4. Done = 0..(l - 1) /\ l \in Nat
    BY <1>9, <2>2, <2>3 DEF Done, Labels
  <2>5. ASSUME NEW recs, Lists(T, recs, f, 0..l), recs = records', Props!AfterRow PROVE ListInv'
    <3>1. Done' = 0..scanLabel /\ scanLabel' \in Labels /\ op' \in {"SCAN", "DONE"}
      BY <2>3, <2>5, DoneGrows
    <3>2. Lists(table, records, frameErrors, Done)'
      BY <2>1, <2>2, <2>5, <3>1, ListNamed
    <3>3. QED
      BY <1>5, <2>1, <3>1, <3>2 DEF ListInv, Labels
  <2>6. CASE op = "SCAN" /\ ~Enough(table, scanLabel) /\ Props!AfterRow /\ records' = records
    <3>1. PICK recs : recs = records
      OBVIOUS
    <3>2. Lists(T, recs, f, 0..l)
      BY <2>2, <2>3, <2>4, <2>6, <3>1, ListsSkip
    <3>3. QED
      BY <2>5, <2>6, <3>1, <3>2
  <2>7. CASE /\ op = "SCAN" /\ Enough(table, scanLabel) /\ op' = "OUTPUT"
             /\ scanLabel' = scanLabel /\ record' = RecordOf(table, scanLabel)
             /\ records' = records
    <3>1. PICK recs : recs = records
      OBVIOUS
    <3>2. Lists(T, recs, f, 0..(l - 1))
      BY <2>3, <2>4, <3>1
    <3>3. Done' = 0..(l - 1)
      BY <2>2, <2>7 DEF Done
    <3>4. Lists(table, records, frameErrors, Done)'
      BY <2>1, <2>2, <2>7, <3>1, <3>2, <3>3, ListNamed
    <3>5. /\ record' = RecordOf(table, scanLabel)' /\ Enough(table, scanLabel)'
      BY <2>1, <2>7 DEF RecordOf, Enough
    <3>6. scanLabel' \in Labels'
      BY <2>3, <2>7 DEF Labels
    <3>7. QED
      BY <1>5, <2>1, <3>4, <3>5, <3>6 DEF ListInv
  <2>8. CASE /\ op = "OUTPUT" /\ Props!AfterRow
             /\ IF Overflow THEN records' = records ELSE records' = Append(records, record)
    <3>1. PICK recs : recs = records
      OBVIOUS
    <3>2. Len(recs) \in Nat
      BY <2>3, <3>1 DEF Lists
    <3>3. CASE Overflow
      <4>1. Len(recs) >= MaxRecords /\ "recordOverflow" \in f
        BY <1>5, <2>1, <2>2, <3>1, <3>3 DEF Overflow
      <4>2. Lists(T, recs, f, 0..l)
        BY <2>3, <2>4, <3>1, <4>1, ListsDrop
      <4>3. QED
        BY <2>5, <2>8, <3>1, <3>3, <4>2
    <3>4. CASE ~Overflow
      <4>1. Len(recs) < MaxRecords
        BY <2>1, <2>8, <3>1, <3>2, <3>4, PostAssumption DEF Overflow
      <4>2. PICK longer : longer = Append(recs, RecordOf(T, l))
        OBVIOUS
      <4>3. Lists(T, longer, f, 0..l)
        BY <2>2, <2>3, <2>4, <2>8, <3>1, <4>1, <4>2, ListsAppend
      <4>4. longer = records'
        BY <2>2, <2>3, <2>8, <3>1, <3>4, <4>2
      <4>5. QED
        BY <2>5, <2>8, <4>3, <4>4
    <3>5. QED
      BY <3>3, <3>4
  <2>9. QED
    BY <1>9, <2>6, <2>7, <2>8, RowListed
<1>10. CASE Answering
  <2>1. /\ table' = table /\ packet' = packet /\ op' = op
        /\ builder' \in IF builder = "DONE" THEN {"IDLE"} ELSE {"READY", "SEND", "DONE"}
    BY <1>10, FromAnswering
  <2>2. CASE ~Result'
    BY <1>10, <2>1, <2>2 DEF ListInv
  <2>3. CASE Result'
    <3>1. Lists(table, packet.records, packet.errors, Labels)
      BY <1>10, <2>1, <2>3 DEF ListInv
    <3>2. PICK T, recs, e : T = table /\ recs = packet.records /\ e = packet.errors
      OBVIOUS
    <3>3. Lists(T, recs, e, Labels)
      BY <3>1, <3>2
    <3>4. Lists(table, packet.records, packet.errors, Labels)'
      BY <2>1, <3>2, <3>3, PacketNamed
    <3>5. QED
      BY <1>10, <2>1, <2>3, <3>4 DEF ListInv
  <2>4. QED
    BY <2>2, <2>3
<1>11. QED
  BY <1>1, <1>3, <1>4, <1>6, <1>7, <1>8, <1>9, <1>10 DEF PhaseInv

\* What is known of a frame on its way into a packet.
ListingInv == StreamInv /\ CclInv /\ RowInv /\ ListInv

\* Before the first frame there are neither rows nor records to speak of.
LEMMA ListingInvInit == Init => RowInv /\ ListInv
<1> SUFFICES ASSUME Init PROVE RowInv /\ ListInv
  OBVIOUS
<1>1. /\ hits = <<>> /\ ccl = "IDLE" /\ builder = "IDLE" /\ op = "IDLE" /\ accumulated = 0
  BY DEF Init, CclInit, Props!OpInit
<1>2. Len(<<>>) = 0
  OBVIOUS
<1>3. QED
  BY <1>1, <1>2 DEF RowInv, ListInv, Streaming, Replaying, Replayed, Listing, Answering, Result

\* The rows and the records are kept through every step.
LEMMA ListingInvStep == ListingInv /\ [Next]_postVars => ListingInv'
<1> SUFFICES ASSUME ListingInv, [Next]_postVars PROVE RowInv' /\ ListInv'
  BY StreamInvStep DEF ListingInv
<1> USE DEF ListingInv
<1>1. ASSUME NEW start \in BOOLEAN, NEW clear \in BOOLEAN, NEW send \in BOOLEAN,
             NEW last \in BOOLEAN, Clocked(start, clear, send, last)
      PROVE  RowInv' /\ ListInv'
  BY <1>1, RowStep, ListStep
<1>2. CASE UNCHANGED postVars
  <2>1. /\ UNCHANGED <<hits, parent, ccl, op, table, scanLabel, record, accumulated>>
        /\ UNCHANGED <<builder, records, frameErrors, packet>>
    BY <1>2 DEF postVars, builderVars, cclVars, Props!opVars
  <2>2. /\ Streaming' = Streaming /\ Replaying' = Replaying /\ Replayed' = Replayed
        /\ Listing' = Listing /\ Answering' = Answering /\ Result' = Result
        /\ Done' = Done /\ Labels' = Labels
    BY <2>1 DEF Streaming, Replaying, Replayed, Listing, Answering, Result, Done, Labels
  <2>3. RowInv'
    <3>1. builder # "IDLE" => \A l \in Labels : RowOf(table[l], l, accumulated)'
      BY <2>1, RowsKept DEF RowInv
    <3>2. QED
      BY <2>1, <2>2, <3>1 DEF RowInv
  <2>4. ListInv'
    <3>1. PICK T, recs, e, L :
            T = table /\ recs = records /\ e = frameErrors /\ L = Done
      OBVIOUS
    <3>2. Listing => Lists(table, records, frameErrors, Done)'
      <4>1. Listing => Lists(T, recs, e, L)
        BY <3>1 DEF ListInv
      <4>2. QED
        BY <2>1, <2>2, <3>1, <4>1, ListNamed
    <3>3. PICK c, f : c = packet.records /\ f = packet.errors
      OBVIOUS
    <3>4. Result => Lists(table, packet.records, packet.errors, Labels)'
      <4>1. Result => Lists(T, c, f, Labels)
        BY <3>1, <3>3 DEF ListInv
      <4>2. QED
        BY <2>1, <3>1, <3>3, <4>1, PacketNamed
    <3>5. /\ RecordOf(table, scanLabel)' = RecordOf(table, scanLabel)
          /\ Enough(table, scanLabel)' = Enough(table, scanLabel)
          /\ (frameErrors \cap Fatal)' = frameErrors \cap Fatal
      BY <2>1 DEF RecordOf, Enough, Fatal
    <3>6. QED
      BY <2>1, <2>2, <3>2, <3>4, <3>5 DEF ListInv
  <2>5. QED
    BY <2>3, <2>4
<1>3. QED
  BY <1>1, <1>2, StepIsEdge

\* The HITs of a label that has any are a component, and its row describes them.
LEMMA RowDescribes ==
  ASSUME CclInv, NEW l \in Labels, NEW r, RowOf(r, l, Len(hits)),
         Members(l, Len(hits)) # {}
  PROVE  /\ Component(Members(l, Len(hits))) /\ Members(l, Len(hits)) \subseteq Indices
         /\ Described(Members(l, Len(hits))) = [label |-> l, row |-> r]
<1> DEFINE C == Members(l, Len(hits))
           X == {hits[k].x : k \in C}
           Y == {hits[k].y : k \in C}
<1>1. hits \in Seq(Hit) /\ Len(hits) \in Nat
  BY DEF CclInv, CclTypeOK
<1>2. C = {k \in Indices : Root(k) = l} /\ C \subseteq Indices
  BY DEF Members, Indices
<1>3. Component(C)
  <2>1. PICK k \in C : TRUE
    OBVIOUS
  <2>2. C = SameLabel(k) /\ k \in Indices
    BY <1>2, <2>1 DEF SameLabel
  <2>3. QED
    BY <2>2 DEF CclInv, LabelsAreComponents
<1>4. /\ r \in [n : Nat, minX : Nat, maxX : Nat, minY : Nat, maxY : Nat, sumX : Nat, sumY : Nat]
      /\ r.n = Cardinality(C)
      /\ \E k \in C : hits[k].x = r.minX
      /\ \E k \in C : hits[k].x = r.maxX
      /\ \E k \in C : hits[k].y = r.minY
      /\ \E k \in C : hits[k].y = r.maxY
      /\ \A k \in C : /\ r.minX <= hits[k].x /\ hits[k].x <= r.maxX
                      /\ r.minY <= hits[k].y /\ hits[k].y <= r.maxY
      /\ Adds(r.sumX, XOf, l, Len(hits)) /\ Adds(r.sumY, YOf, l, Len(hits))
  BY DEF RowOf
<1> HIDE DEF C
<1>5. /\ r.minX \in X /\ r.maxX \in X /\ \A x \in X : r.minX <= x /\ x <= r.maxX
      /\ r.minY \in Y /\ r.maxY \in Y /\ \A y \in Y : r.minY <= y /\ y <= r.maxY
  BY <1>4
<1>6. X \subseteq Nat /\ Y \subseteq Nat
  <2>1. \A k \in Indices : hits[k] \in Hit
    BY <1>1 DEF Indices
  <2>2. \A p \in Hit : p.x \in Nat /\ p.y \in Nat
    BY CclAssumption DEF Hit
  <2>3. QED
    BY <1>2, <2>1, <2>2
<1> HIDE DEF X, Y
<1>7. /\ F!Min(X) = r.minX /\ F!Max(X) = r.maxX
      /\ F!Min(Y) = r.minY /\ F!Max(Y) = r.maxY
  <2>1. ASSUME NEW S \in SUBSET Nat, NEW m \in S, \A x \in S : m <= x
        PROVE  F!Min(S) = m
    <3>1. /\ F!Min(S) \in S /\ \A x \in S : F!Min(S) <= x
      <4>1. \E x \in S : \A y \in S : x <= y
        BY <2>1
      <4>2. QED
        BY <4>1, Zenon DEF F!Min
    <3>2. /\ F!Min(S) \in Nat /\ m \in Nat
          /\ F!Min(S) <= m /\ m <= F!Min(S)
      BY <2>1, <3>1
    <3>3. QED
      BY <3>2
  <2>2. ASSUME NEW S \in SUBSET Nat, NEW m \in S, \A x \in S : x <= m
        PROVE  F!Max(S) = m
    <3>1. /\ F!Max(S) \in S /\ \A x \in S : F!Max(S) >= x
      <4>1. \E x \in S : \A y \in S : x >= y
        BY <2>2
      <4>2. QED
        BY <4>1, Zenon DEF F!Max
    <3>2. /\ F!Max(S) \in Nat /\ m \in Nat
          /\ F!Max(S) >= m /\ m >= F!Max(S)
      BY <2>2, <3>1
    <3>3. QED
      BY <3>2
  <2>3. QED
    BY <1>5, <1>6, <2>1, <2>2
<1>8. ASSUME NEW s, NEW v, Adds(s, v, l, Len(hits)) PROVE Total(v, C) = s
  <2>1. PICK g \in [0..Len(hits) -> Nat] :
          /\ g[0] = 0 /\ g[Len(hits)] = s
          /\ \A k \in 1..Len(hits) :
               g[k] = g[k - 1] + (IF k \in Members(l, Len(hits)) THEN v[k] ELSE 0)
    BY <1>8 DEF Adds
  <2>2. Total(v, C) = g[Len(hits)]
    BY <1>1, <2>1, TotalIs DEF C
  <2>3. QED
    BY <2>1, <2>2
<1>9. Total(XOf, C) = r.sumX /\ Total(YOf, C) = r.sumY
  BY <1>4, <1>8
<1>10. Root(CHOOSE k \in C : TRUE) = l
  <2>1. (CHOOSE k \in C : TRUE) \in C
    BY DEF C
  <2>2. QED
    BY <1>2, <2>1
<1>11. r = [n |-> r.n, minX |-> r.minX, maxX |-> r.maxX, minY |-> r.minY, maxY |-> r.maxY,
            sumX |-> r.sumX, sumY |-> r.sumY]
  BY <1>4
<1>12. Described(C) = [label |-> Root(CHOOSE k \in C : TRUE),
                       row |-> [n |-> Cardinality(C),
                                minX |-> F!Min(X), maxX |-> F!Max(X),
                                minY |-> F!Min(Y), maxY |-> F!Max(Y),
                                sumX |-> Total(XOf, C), sumY |-> Total(YOf, C)]]
  BY Zenon DEF Described, X, Y, XOf, YOf
<1>13. Described(C) = [label |-> l, row |-> r]
  BY <1>4, <1>7, <1>9, <1>10, <1>11, <1>12
<1>14. QED
  BY <1>2, <1>3, <1>13 DEF C

\* There are no other components.
LEMMA ComponentHasLabel ==
  ASSUME CclInv, NEW C \in SUBSET Indices, C # {}, Component(C)
  PROVE  \E l \in Labels : C = Members(l, Len(hits))
<1>1. PICK i \in C : TRUE
  OBVIOUS
<1>2. i \in Indices /\ Root(i) \in Labels
  BY <1>1, RootType DEF CclInv
<1>3. SameLabel(i) = Members(Root(i), Len(hits)) /\ i \in SameLabel(i)
  BY <1>2 DEF SameLabel, Members, Indices
<1>4. Component(SameLabel(i))
  BY <1>2 DEF CclInv, LabelsAreComponents
<1> DEFINE S == C \cap SameLabel(i)
<1>5. S # {} /\ S \in SUBSET C /\ S \in SUBSET SameLabel(i)
  BY <1>1, <1>3
<1>6. Closed(S)
  BY <1>4 DEF Component, Closed
<1> HIDE DEF S
<1>7. S = C /\ S = SameLabel(i)
  BY <1>4, <1>5, <1>6 DEF Component
<1>8. QED
  BY <1>2, <1>3, <1>7

\* A component of some size has a member.
LEMMA LargeHasMembers ==
  ASSUME NEW C, Cardinality(C) >= MinRecordHits
  PROVE  C # {}
BY FS_EmptySet, PostAssumption

\* What the packet should list are the rows with enough HITs.
LEMMA WantedAre ==
  ASSUME CclInv, \A l \in Labels : RowOf(table[l], l, Len(hits))
  PROVE  {Described(C) : C \in Large} = Listable(table, Labels)
<1>1. Len(hits) \in Nat
  BY DEF CclInv, CclTypeOK
<1>2. ASSUME NEW C \in Large
      PROVE  Described(C) \in Listable(table, Labels)
  <2>1. C \in SUBSET Indices /\ Cardinality(C) >= MinRecordHits /\ Component(C)
    BY DEF Large
  <2>2. C # {}
    BY <2>1, LargeHasMembers
  <2>3. PICK l \in Labels : C = Members(l, Len(hits))
    BY <2>1, <2>2, ComponentHasLabel
  <2>4. Described(C) = [label |-> l, row |-> table[l]]
    BY <2>2, <2>3, RowDescribes
  <2>5. Enough(table, l)
    BY <2>1, <2>3 DEF Enough, RowOf
  <2>6. QED
    BY <2>4, <2>5 DEF Listable, RecordOf
<1>3. ASSUME NEW w \in Listable(table, Labels)
      PROVE  \E C \in Large : w = Described(C)
  <2>1. PICK l \in Labels : Enough(table, l) /\ w = [label |-> l, row |-> table[l]]
    BY DEF Listable, RecordOf
  <2> DEFINE C == Members(l, Len(hits))
  <2>2. Cardinality(C) >= MinRecordHits
    BY <2>1 DEF Enough, RowOf
  <2>3. C # {}
    BY <2>2, LargeHasMembers
  <2>4. Component(C) /\ C \subseteq Indices /\ w = Described(C)
    BY <2>1, <2>3, RowDescribes
  <2>5. C \in Large
    BY <2>2, <2>4 DEF Large
  <2>6. QED
    BY <2>4, <2>5
<1>4. QED
  BY <1>2, <1>3

\* The packet lists them, or the first of them.
LEMMA PacketListsComponents == ListingInv => RecordsAreComponents
<1> SUFFICES ASSUME ListingInv, Result PROVE RecordsAreComponents
  BY DEF RecordsAreComponents
<1> DEFINE recs == packet.records
           n == Len(recs)
           listed == {recs[k] : k \in 1..n}
           wanted == {Described(C) : C \in Large}
<1>1. accumulated = Len(hits) /\ \A l \in Labels : RowOf(table[l], l, Len(hits))
  <2>1. Answering /\ builder # "IDLE"
    BY DEF ListingInv, StreamInv, PhaseInv, Streaming, Replaying, Replayed, Listing, Answering,
           Idling, Result
  <2>2. accumulated = Len(hits) /\ \A l \in Labels : RowOf(table[l], l, accumulated)
    BY <2>1 DEF ListingInv, RowInv
  <2>3. QED
    BY <2>2
<1>2. wanted = Listable(table, Labels)
  BY <1>1, WantedAre DEF ListingInv
<1>3. Lists(table, recs, packet.errors, Labels)
  BY DEF ListingInv, ListInv
<1> HIDE DEF recs, wanted
<1>4. /\ recs \in Seq(wanted) /\ DOMAIN recs = 1..n /\ n \in Nat
      /\ \A i, j \in 1..n : i < j => recs[i].label < recs[j].label
  BY <1>2, <1>3 DEF Lists
<1>5. listed \subseteq wanted
  BY <1>4
<1>6. ASSUME NEW w \in wanted, w \notin listed
      PROVE  /\ "recordOverflow" \in packet.errors /\ n = MaxRecords
             /\ \A r \in listed : r.label < w.label
  <2>1. PICK m \in Labels : Enough(table, m) /\ w = RecordOf(table, m)
    BY <1>2 DEF Listable
  <2>2. \A i \in 1..n : recs[i].label # m
    <3> SUFFICES ASSUME NEW i \in 1..n, recs[i].label = m PROVE FALSE
      OBVIOUS
    <3>1. recs[i] \in Listable(table, Labels)
      BY <1>2, <1>4
    <3>2. PICK l \in Labels : recs[i] = RecordOf(table, l)
      BY <3>1 DEF Listable
    <3>3. l = m
      BY <3>2 DEF RecordOf
    <3>4. QED
      BY <1>6, <2>1, <3>2, <3>3
  <2>3. /\ "recordOverflow" \in packet.errors /\ n = MaxRecords
        /\ \A i \in 1..n : recs[i].label < m
    BY <1>3, <1>4, <2>1, <2>2 DEF Lists
  <2>4. w.label = m
    BY <2>1 DEF RecordOf
  <2>5. QED
    BY <2>3, <2>4
<1>7. listed = wanted \/ \E w \in wanted : w \notin listed
  BY <1>5
<1>8. \/ listed = wanted
      \/ /\ "recordOverflow" \in packet.errors
         /\ n = MaxRecords /\ listed \subseteq wanted
         /\ \A r \in listed, w \in wanted \ listed : r.label < w.label
  BY <1>5, <1>6, <1>7
<1>9. QED
  BY <1>4, <1>8 DEF RecordsAreComponents, recs, wanted

\* RecordsAreComponents: the records of qr_result_packet_builder_qrp1.v are the connected
\* components of the stored HITs with enough members, each with its exact count, box
\* and sums, ordered by label; all of them, or the first MaxRecords and the overflow bit.
THEOREM RecordsAreComponentsHolds == Spec => []RecordsAreComponents
<1>1. Init => ListingInv
  BY StreamInvInit, CclInvInit, ListingInvInit DEF Init, ListingInv
<1>2. QED
  BY <1>1, ListingInvStep, PacketListsComponents, PTL DEF Spec
=============================================================================
