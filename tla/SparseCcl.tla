------------------------------ MODULE SparseCcl ------------------------------
(***************************************************************************)
(* qr_sparse_ccl.v: connected components of the sparse HIT points of one   *)
(* frame.  A HIT is compared, one per clock, with the HITs stored before;  *)
(* the labels it touches are merged in a flat parent table, and after      *)
(* FRAME_DONE the stored HITs are replayed with their final label.         *)
(*                                                                         *)
(* CclEdge(in) is one clock edge, "in" the inputs at that edge.  hits holds*)
(* the entries below hit_count; what the memories hold beyond it is never  *)
(* read.  The parent table is not cleared at a start: it keeps the entries *)
(* of the frame before.                                                    *)
(***************************************************************************)
EXTENDS Integers, Sequences

CONSTANTS Width, Height,      \* 640 x 480
          XLink, YLink,       \* X_LINK_THRESHOLD, Y_LINK_THRESHOLD
          MaxHits, MaxLabels  \* sizes of the two tables

ASSUME CclAssumption ==
  /\ Width \in Nat \ {0} /\ Height \in Nat \ {0}
  /\ XLink \in Nat /\ YLink \in Nat
  /\ MaxHits \in Nat \ {0} /\ MaxLabels \in Nat \ {0}

VARIABLES
  ccl,          \* state
  hits,         \* hit_x_mem, hit_y_mem, hit_label_mem; Len(hits) is hit_count
  parent, labelCount,
  pending,      \* the HIT being classified
  scanIndex, mergeMask, outputIndex,
  cclErrors     \* raised sticky errors

cclVars == <<ccl, hits, parent, labelCount, pending, scanIndex, mergeMask, outputIndex,
             cclErrors>>

CclState == {"IDLE", "WAIT", "SCAN", "CLASSIFY", "OUTPUT", "DONE"}
CclError == {"hitOverflow", "labelOverflow", "cclProtocol"}
Labels == 0..(MaxLabels - 1)
Points == [x : 0..(Width - 1), y : 0..(Height - 1)]
Hit == [x : 0..(Width - 1), y : 0..(Height - 1), label : Labels]

\* An event of the 21-bit stream; Width and Height stand for all coordinates
\* outside the frame.
Events ==
  [type : {"hit"}, x : 0..Width, y : 0..Height]
    \cup [type : {"row", "frame", "reserved"}, x : {0, 1}, y : 0..(Height - 1)]
NoEvent == [type |-> "none", x |-> 0, y |-> 0]

\* What the neighbours may do at an edge; an input nobody reads is fixed.
CclInputs ==
  [start : BOOLEAN, clear : BOOLEAN,
   event : IF ccl \in {"IDLE", "WAIT"} THEN Events \cup {NoEvent} ELSE {NoEvent},
   hitReady : IF ccl = "OUTPUT" THEN BOOLEAN ELSE {FALSE},
   doneReady : IF ccl = "DONE" THEN BOOLEAN ELSE {FALSE}]

CclInit ==
  /\ ccl = "IDLE" /\ hits = <<>> /\ labelCount = 0
  /\ parent = [l \in Labels |-> l]
  /\ pending = [x |-> 0, y |-> 0]
  /\ scanIndex = 1 /\ mergeMask = {} /\ outputIndex = 1
  /\ cclErrors = {}
-----------------------------------------------------------------------------
EventReady == ccl = "WAIT"
Distance(a, b) == IF a >= b THEN a - b ELSE b - a

Near(p, q) == Distance(p.x, q.x) <= XLink /\ Distance(p.y, q.y) <= YLink

Root(k) == parent[hits[k].label]

InFrame(e) == e.x < Width /\ e.y < Height

Malformed(e) ==
  \/ e.type = "hit" /\ ~InFrame(e)
  \/ e.type = "row" /\ e.x # 0
  \/ e.type = "frame" /\ (e.x # 0 \/ e.y # Height - 1)
  \/ e.type = "reserved"

\* The lowest numbered matching root.
Selected == CHOOSE l \in mergeMask : \A m \in mergeMask : l <= m

CclRaised(in) ==
  {err \in CclError :
     \/ err = "cclProtocol" /\ \/ ccl # "IDLE" /\ in.start
                               \/ ccl = "IDLE" /\ in.event # NoEvent
                               \/ ccl = "WAIT" /\ Malformed(in.event)
     \/ err = "hitOverflow" /\ ccl = "WAIT" /\ in.event.type = "hit"
                            /\ InFrame(in.event) /\ Len(hits) = MaxHits
     \/ err = "labelOverflow" /\ ccl = "CLASSIFY" /\ mergeMask = {}
                              /\ labelCount = MaxLabels}

CclStart(in) ==
  /\ ccl = "IDLE" /\ in.start
  /\ ccl' = "WAIT" /\ hits' = <<>> /\ labelCount' = 0
  /\ mergeMask' = {} /\ scanIndex' = 1 /\ outputIndex' = 1
  /\ UNCHANGED <<parent, pending>>

\* Excess HITs are consumed, so that the frame can still reach FRAME_DONE.
TakeHit(in) ==
  /\ ccl = "WAIT" /\ in.event.type = "hit"
  /\ InFrame(in.event) /\ Len(hits) # MaxHits
  /\ pending' = [x |-> in.event.x, y |-> in.event.y]
  /\ scanIndex' = 1 /\ mergeMask' = {}
  /\ ccl' = IF hits = <<>> THEN "CLASSIFY" ELSE "SCAN"
  /\ UNCHANGED <<hits, parent, labelCount, outputIndex>>

TakeFrameDone(in) ==
  /\ ccl = "WAIT" /\ in.event.type = "frame"
  /\ outputIndex' = 1
  /\ ccl' = IF hits = <<>> THEN "DONE" ELSE "OUTPUT"
  /\ UNCHANGED <<hits, parent, labelCount, pending, scanIndex, mergeMask>>

Scan ==
  /\ ccl = "SCAN"
  /\ mergeMask' = IF Near(pending, hits[scanIndex])
                  THEN mergeMask \cup {Root(scanIndex)} ELSE mergeMask
  /\ IF scanIndex = Len(hits)
     THEN ccl' = "CLASSIFY" /\ scanIndex' = scanIndex
     ELSE ccl' = ccl /\ scanIndex' = scanIndex + 1
  /\ UNCHANGED <<hits, parent, labelCount, pending, outputIndex>>

Stored(label) == Append(hits, [x |-> pending.x, y |-> pending.y, label |-> label])

\* Every label whose root takes part is redirected to the smallest root.
Merged ==
  [l \in Labels |-> IF l < labelCount /\ parent[l] \in mergeMask
                    THEN Selected ELSE parent[l]]

Join ==
  /\ ccl = "CLASSIFY" /\ mergeMask # {}
  /\ hits' = Stored(Selected)
  /\ parent' = Merged
  /\ UNCHANGED labelCount

NewLabel ==
  /\ ccl = "CLASSIFY" /\ mergeMask = {} /\ labelCount # MaxLabels
  /\ hits' = Stored(labelCount)
  /\ parent' = [parent EXCEPT ![labelCount] = labelCount]
  /\ labelCount' = labelCount + 1

\* An isolated HIT that cannot be given a label is consumed and not stored.
NoLabelLeft ==
  /\ ccl = "CLASSIFY" /\ mergeMask = {} /\ labelCount = MaxLabels
  /\ UNCHANGED <<hits, parent, labelCount>>

Classify ==
  /\ Join \/ NewLabel \/ NoLabelLeft
  /\ ccl' = "WAIT"
  /\ UNCHANGED <<pending, scanIndex, mergeMask, outputIndex>>

LabeledHit ==
  [x |-> hits[outputIndex].x, y |-> hits[outputIndex].y, label |-> Root(outputIndex),
   last |-> outputIndex = Len(hits)]

Replay(in) ==
  /\ ccl = "OUTPUT" /\ in.hitReady
  /\ IF outputIndex = Len(hits)
     THEN ccl' = "DONE" /\ outputIndex' = outputIndex
     ELSE ccl' = ccl /\ outputIndex' = outputIndex + 1
  /\ UNCHANGED <<hits, parent, labelCount, pending, scanIndex, mergeMask>>

CclDone(in) ==
  /\ ccl = "DONE" /\ in.doneReady
  /\ ccl' = "IDLE"
  /\ UNCHANGED <<hits, parent, labelCount, pending, scanIndex, mergeMask, outputIndex>>

\* Edges at which the machine waits or only consumes the event.
CclHold(in) ==
  /\ \/ ccl = "IDLE" /\ ~in.start
     \/ ccl = "WAIT" /\ in.event.type # "frame"
                     /\ (in.event.type = "hit" => ~InFrame(in.event) \/ Len(hits) = MaxHits)
     \/ ccl = "OUTPUT" /\ ~in.hitReady
     \/ ccl = "DONE" /\ ~in.doneReady
  /\ UNCHANGED <<ccl, hits, parent, labelCount, pending, scanIndex, mergeMask, outputIndex>>

CclEdge(in) ==
  /\ \/ CclStart(in) \/ TakeHit(in) \/ TakeFrameDone(in) \/ Scan \/ Classify
     \/ Replay(in) \/ CclDone(in) \/ CclHold(in)
  /\ cclErrors' = (IF in.clear THEN {} ELSE cclErrors) \cup CclRaised(in)

CclNext == \E in \in CclInputs : CclEdge(in)

CclSpec == CclInit /\ [][CclNext]_cclVars
-----------------------------------------------------------------------------
Indices == 1..Len(hits)

CclTypeOK ==
  /\ ccl \in CclState /\ hits \in Seq(Hit) /\ Len(hits) <= MaxHits
  /\ parent \in [Labels -> Labels] /\ labelCount \in 0..MaxLabels
  /\ pending \in Points
  /\ scanIndex \in 1..MaxHits /\ outputIndex \in 1..MaxHits
  /\ mergeMask \subseteq Labels /\ cclErrors \subseteq CclError

\* A component is a smallest non-empty set of stored HITs that holds every
\* neighbour of its members.
Closed(S) == \A i \in S, j \in Indices : Near(hits[i], hits[j]) => j \in S
Component(C) == Closed(C) /\ \A S \in SUBSET C : S # {} /\ Closed(S) => S = C
SameLabel(i) == {k \in Indices : Root(k) = Root(i)}

\* At any time, the stored HITs with the same final label are a connected component,
\* whatever the order in which they came, whatever merges took place and whatever
\* the parent table held from the frame before.
LabelsAreComponents == \A C \in {SameLabel(i) : i \in Indices} : Component(C)

\* The parent table is flat, a parent is never above its child, and every label in
\* use names a stored HIT: a merge leaves no label behind that a lookup of one
\* step would miss.
FlatForest ==
  /\ \A l \in 0..(labelCount - 1) : parent[l] <= l /\ parent[parent[l]] = parent[l]
  /\ {hits[k].label : k \in Indices} \subseteq 0..(labelCount - 1)
  /\ \A l \in 0..(labelCount - 1) : \E k \in Indices : hits[k].label = l

\* When a HIT is classified the mask holds the final label of every earlier HIT
\* it touches, and no other label.
Touched(n) == {Root(k) : k \in {j \in Indices : j <= n /\ Near(pending, hits[j])}}
MaskComplete ==
  /\ ccl = "SCAN" => scanIndex <= Len(hits) /\ mergeMask = Touched(scanIndex - 1)
  /\ ccl = "CLASSIFY" => mergeMask = Touched(Len(hits))
=============================================================================
