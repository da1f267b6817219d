--------------------------- MODULE ObjectProperties ---------------------------
(***************************************************************************)
(* qr_object_properties.v: accumulates the labeled HITs of one frame into  *)
(* one row per label (count, bounding box, coordinate sums), then offers   *)
(* the rows with enough HITs in the order of their labels.  OpEdge(in) is  *)
(* one clock edge.                                                         *)
(***************************************************************************)
EXTENDS Integers

CONSTANTS Columns, Lines,          \* 640, 480
          MaxAccumulated,          \* MAX_HITS
          MaxRows,                 \* MAX_LABELS
          CountMax, SumMax,        \* largest values of the count and sum registers
          MinRecordHits

VARIABLES
  op,                \* state
  table,             \* the property memories
  scanLabel, sawLast,
  record,            \* the output registers
  accumulated,       \* accumulated_hit_count
  qualified,         \* qualified_property_count
  opErrors

opVars == <<op, table, scanLabel, sawLast, record, accumulated, qualified, opErrors>>

OpState == {"IDLE", "ACCUM", "SCAN", "OUTPUT", "DONE"}
OpError == {"sumOverflow", "opProtocol"}
Rows == 0..(MaxRows - 1)
NoRow == [n |-> 0, minX |-> 0, maxX |-> 0, minY |-> 0, maxY |-> 0, sumX |-> 0, sumY |-> 0]
NoRecord == [label |-> 0, row |-> NoRow]
NoLabeledHit == [x |-> 0, y |-> 0, label |-> 0, last |-> FALSE, valid |-> FALSE]

OpInit ==
  /\ op = "IDLE" /\ table = [l \in Rows |-> NoRow]
  /\ scanLabel = 0 /\ sawLast = FALSE
  /\ record = NoRecord /\ accumulated = 0 /\ qualified = 0
  /\ opErrors = {}
-----------------------------------------------------------------------------
(* The inputs: start, hit (the labeled HIT on offer), cclDone, propertyReady, *)
(* doneReady, clear.                                                        *)

HitReady == op = "ACCUM"
\* Mutant of DoneReady: an empty frame has no last HIT.
DoneReadyAfterLast(hitValid) == op = "ACCUM" /\ ~hitValid /\ sawLast
DoneReady(hitValid) == op = "ACCUM" /\ ~hitValid
PropertyValid == op = "OUTPUT"
PropertiesDone == op = "DONE"

Lesser(a, b) == IF a < b THEN a ELSE b
Greater(a, b) == IF a > b THEN a ELSE b

\* Counts and sums stop at their largest value and do not wrap.
Saturated(sum, v) == sum > SumMax - v
Plus(sum, v) == IF Saturated(sum, v) THEN SumMax ELSE sum + v

\* Mutant of Extended: the first HIT does not initialise the bounding box.
ExtendedFromZero(r, h) ==
  [n |-> IF r.n = CountMax THEN r.n ELSE r.n + 1,
   minX |-> Lesser(h.x, r.minX), maxX |-> Greater(h.x, r.maxX),
   minY |-> Lesser(h.y, r.minY), maxY |-> Greater(h.y, r.maxY),
   sumX |-> Plus(r.sumX, h.x), sumY |-> Plus(r.sumY, h.y)]

Extended(r, h) ==
  LET first == r.n = 0
  IN [n |-> IF r.n = CountMax THEN r.n ELSE r.n + 1,
      minX |-> IF first THEN h.x ELSE Lesser(h.x, r.minX),
      maxX |-> IF first THEN h.x ELSE Greater(h.x, r.maxX),
      minY |-> IF first THEN h.y ELSE Lesser(h.y, r.minY),
      maxY |-> IF first THEN h.y ELSE Greater(h.y, r.maxY),
      sumX |-> Plus(r.sumX, h.x), sumY |-> Plus(r.sumY, h.y)]

Sound(h) == h.label \in Rows /\ h.x < Columns /\ h.y < Lines
Room == accumulated < MaxAccumulated
\* The HIT at this edge enters the table.
Counted(in) == op = "ACCUM" /\ in.hit.valid /\ ~sawLast /\ Sound(in.hit) /\ Room

OpRaised(in) ==
  {err \in OpError :
     \/ err = "opProtocol" /\
          \/ op # "IDLE" /\ in.start
          \/ op # "ACCUM" /\ (in.hit.valid \/ in.cclDone)
          \/ op = "ACCUM" /\ in.hit.valid /\ (sawLast \/ ~Sound(in.hit))
          \/ in.cclDone /\ DoneReady(in.hit.valid) /\ accumulated # 0 /\ ~sawLast
     \/ err = "sumOverflow" /\
          \/ /\ op = "ACCUM" /\ in.hit.valid /\ ~sawLast
             /\ Sound(in.hit) /\ ~Room
          \/ /\ Counted(in)
             /\ \/ table[in.hit.label].n = CountMax
                \/ Saturated(table[in.hit.label].sumX, in.hit.x)
                \/ Saturated(table[in.hit.label].sumY, in.hit.y)}

OpStart(in) ==
  /\ op = "IDLE" /\ in.start
  /\ op' = "ACCUM" /\ scanLabel' = 0 /\ sawLast' = FALSE
  /\ record' = NoRecord /\ accumulated' = 0 /\ qualified' = 0
  /\ table' = [l \in Rows |-> NoRow]

\* Once the last HIT was seen further ones are consumed and ignored.
Accumulate(in) ==
  /\ op = "ACCUM" /\ in.hit.valid
  /\ sawLast' = (sawLast \/ in.hit.last)
  /\ IF Counted(in)
     THEN /\ accumulated' = accumulated + 1
          /\ table' = [table EXCEPT ![in.hit.label] = Extended(@, in.hit)]
     ELSE UNCHANGED <<accumulated, table>>
  /\ UNCHANGED <<op, scanLabel, record, qualified>>

EndOfHits(in) ==
  /\ in.cclDone /\ DoneReady(in.hit.valid)
  /\ op' = "SCAN" /\ scanLabel' = 0
  /\ UNCHANGED <<table, sawLast, record, accumulated, qualified>>

AfterRow == IF scanLabel = MaxRows - 1 THEN op' = "DONE" /\ scanLabel' = scanLabel
            ELSE op' = "SCAN" /\ scanLabel' = scanLabel + 1

ScanRow ==
  /\ op = "SCAN"
  /\ IF table[scanLabel].n >= MinRecordHits
     THEN /\ record' = [label |-> scanLabel, row |-> table[scanLabel]]
          /\ op' = "OUTPUT" /\ scanLabel' = scanLabel
     ELSE AfterRow /\ record' = record
  /\ UNCHANGED <<table, sawLast, accumulated, qualified>>

EmitRow(in) ==
  /\ op = "OUTPUT" /\ in.propertyReady
  /\ AfterRow
  /\ qualified' = qualified + 1
  /\ UNCHANGED <<table, sawLast, record, accumulated>>

OpDone(in) ==
  /\ op = "DONE" /\ in.doneReady
  /\ op' = "IDLE"
  /\ UNCHANGED <<table, scanLabel, sawLast, record, accumulated, qualified>>

OpHold(in) ==
  /\ \/ op = "IDLE" /\ ~in.start
     \/ op = "ACCUM" /\ ~in.hit.valid /\ ~(in.cclDone /\ DoneReady(in.hit.valid))
     \/ op = "OUTPUT" /\ ~in.propertyReady
     \/ op = "DONE" /\ ~in.doneReady
  /\ UNCHANGED <<op, table, scanLabel, sawLast, record, accumulated, qualified>>

OpEdge(in) ==
  /\ \/ OpStart(in) \/ Accumulate(in) \/ EndOfHits(in) \/ ScanRow \/ EmitRow(in)
     \/ OpDone(in) \/ OpHold(in)
  /\ opErrors' = (IF in.clear THEN {} ELSE opErrors) \cup OpRaised(in)
=============================================================================
