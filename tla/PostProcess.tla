----------------------------- MODULE PostProcess -----------------------------
(***************************************************************************)
(* The path of a frame's features: event stream, labeling, object          *)
(* properties and the collection of records by the packet builder          *)
(* (qr_result_packet_builder_qrp1.v), wired as in                          *)
(* qr_postprocess_axis_qrp1_core.v.  All stages share one clock: Tick is   *)
(* one edge, and what the stages say to each other at that edge is decided *)
(* from their registers before it.  A frame is started when the controller *)
(* of RuntimeCtrl says so, which waits for StartReady; the processor lets  *)
(* the packet leave when it has been told that it is ready.                *)
(***************************************************************************)
EXTENDS EventStream, FiniteSets

F == INSTANCE FiniteSetsExt

CONSTANTS CountMax, SumMax, MinRecordHits, MaxRecords

\* A count and a sum over all HITs the memories hold fit into their registers, and the
\* smallest component that gets a record has a HIT.
ASSUME PostAssumption ==
  /\ CountMax \in Nat /\ MaxHits <= CountMax
  /\ SumMax \in Nat /\ MaxHits * Width <= SumMax /\ MaxHits * Height <= SumMax
  /\ MinRecordHits \in Nat \ {0} /\ MaxRecords \in Nat

VARIABLES op, table, scanLabel, sawLast, record, accumulated, qualified, opErrors
Props == INSTANCE ObjectProperties WITH
  Columns <- Width, Lines <- Height, MaxAccumulated <- MaxHits, MaxRows <- MaxLabels

VARIABLES
  builder,         \* IDLE, COLLECT, READY, SEND (header and records), DONE
  records,         \* the record memories
  resultSeen,      \* result_ready_d
  frameErrors,     \* upstream_errors_latched and frame_overflow, this frame
  builderErrors,   \* the two sticky bits of the builder
  packet           \* what the packet declares and carries

builderVars == <<builder, records, resultSeen, frameErrors, builderErrors, packet>>
postVars == <<cclVars, streamVars, Props!opVars, builderVars>>

NoResult == [errors |-> {}, records |-> <<>>]

Init ==
  /\ CclInit /\ StreamInit /\ Props!OpInit
  /\ builder = "IDLE" /\ records = <<>> /\ resultSeen = FALSE
  /\ frameErrors = {} /\ builderErrors = {} /\ packet = NoResult
-----------------------------------------------------------------------------
AllErrors == cclErrors \cup opErrors \cup packErrors \cup ingressErrors \cup builderErrors

\* Errors that cost the packet its records (those of the scanner are elsewhere).
Fatal == PackError \cup IngressError

StartReady ==
  /\ ~scanning /\ ~packing
  /\ ~ingress /\ fifo = <<>> /\ ccl = "IDLE" /\ op = "IDLE" /\ builder = "IDLE"

CclIn(start, clear) ==
  [start |-> start, clear |-> clear, event |-> HeadEvent,
   hitReady |-> Props!HitReady, doneReady |-> Props!DoneReady(ccl = "OUTPUT")]

OpIn(start, clear) ==
  [start |-> start, clear |-> clear,
   hit |-> IF ccl = "OUTPUT"
           THEN [x |-> LabeledHit.x, y |-> LabeledHit.y, label |-> LabeledHit.label,
                 last |-> LabeledHit.last, valid |-> TRUE]
           ELSE Props!NoLabeledHit,
   cclDone |-> ccl = "DONE",
   propertyReady |-> builder = "COLLECT", doneReady |-> builder = "COLLECT"]

\* A record beyond the last memory cell is dropped and reported.
Overflow == op = "OUTPUT" /\ builder = "COLLECT" /\ Len(records) >= MaxRecords

BuilderRaised(start, send) ==
  {err \in {"recordOverflow", "builderProtocol"} :
     \/ err = "recordOverflow" /\ Overflow
     \/ err = "builderProtocol" /\
          \/ start /\ builder # "IDLE"
          \/ op \in {"OUTPUT", "DONE"} /\ builder # "COLLECT"
          \/ send /\ builder # "READY"}

ErrorsAtDone(start, send) == frameErrors \cup AllErrors \cup BuilderRaised(start, send)

Collected == builder = "COLLECT" /\ op = "OUTPUT" /\ ~Overflow

Builder(start, clear, send, last) ==
  /\ builder' = CASE builder = "IDLE" /\ start                -> "COLLECT"
                  [] builder = "COLLECT" /\ Props!PropertiesDone -> "READY"
                  [] builder = "READY" /\ send                -> "SEND"
                  [] builder = "SEND" /\ last                 -> "DONE"
                  [] builder = "DONE"                         -> "IDLE"
                  [] OTHER                                    -> builder
  /\ records' = CASE builder = "IDLE" /\ start -> <<>>
                  [] Collected                 -> Append(records, record)
                  [] OTHER                     -> records
  /\ frameErrors' = CASE builder = "IDLE" /\ start -> AllErrors
                      [] builder = "COLLECT"       -> ErrorsAtDone(start, send)
                      [] OTHER                     -> frameErrors
  /\ packet' = CASE builder = "IDLE" /\ start -> NoResult
                 [] builder = "COLLECT" /\ Props!PropertiesDone ->
                      [errors |-> ErrorsAtDone(start, send),
                       records |-> IF ErrorsAtDone(start, send) \cap Fatal = {}
                                   THEN records ELSE <<>>]
                 [] OTHER -> packet
  /\ builderErrors' = (IF clear THEN {} ELSE builderErrors) \cup BuilderRaised(start, send)
  /\ resultSeen' = (builder = "READY")

\* One edge: a start only when all stages are ready, an error clear at any time, the
\* stream command only for a packet that is ready.
Edge(start, clear, send, last) ==
  /\ CclEdge(CclIn(start, clear))
  /\ Props!OpEdge(OpIn(start, clear))
  /\ StreamEdge(start, clear, builder = "READY" /\ ~resultSeen, builder = "DONE")
  /\ Builder(start, clear, send, last)

Start == StartReady /\ Edge(TRUE, FALSE, FALSE, FALSE)
Run == Edge(FALSE, FALSE, FALSE, FALSE)
ErrorClear == Edge(FALSE, TRUE, FALSE, FALSE)
Send == builder = "READY" /\ Edge(FALSE, FALSE, TRUE, FALSE)
LastBeat == builder = "SEND" /\ Edge(FALSE, FALSE, FALSE, TRUE)

Next == Start \/ Run \/ ErrorClear \/ Send \/ LastBeat

Spec == Init /\ [][Next]_postVars

\* The clock runs, and the scanner gets on with its frame: an edge that can change
\* something is taken in the end.
Fairness == WF_postVars(Run)
-----------------------------------------------------------------------------
Result == builder \in {"READY", "SEND"}

\* The sum of v[k] over the stored HITs in C.
Total(v, C) ==
  LET upTo[k \in 0..Len(hits)] ==
        IF k = 0 THEN 0 ELSE upTo[k - 1] + (IF k \in C THEN v[k] ELSE 0)
  IN  upTo[Len(hits)]

\* What a record has to say about a component.
Described(C) ==
  LET X == {hits[k].x : k \in C}
      Y == {hits[k].y : k \in C}
  IN [label |-> Root(CHOOSE k \in C : TRUE),
      row |-> [n |-> Cardinality(C),
               minX |-> F!Min(X), maxX |-> F!Max(X), minY |-> F!Min(Y), maxY |-> F!Max(Y),
               sumX |-> Total([k \in Indices |-> hits[k].x], C),
               sumY |-> Total([k \in Indices |-> hits[k].y], C)]]
Large == {C \in SUBSET Indices : Cardinality(C) >= MinRecordHits /\ Component(C)}

\* The records of a packet describe the connected components of the frame's stored
\* HITs that have enough members, in the order of their labels, each with its exact
\* count, box and sums; all of them, or the first MaxRecords and the overflow bit.
RecordsAreComponents ==
  Result =>
    LET n == Len(packet.records)
        listed == {packet.records[k] : k \in 1..n}
        wanted == {Described(C) : C \in Large}
    IN /\ \A i, j \in 1..n : i < j => packet.records[i].label < packet.records[j].label
       /\ \/ listed = wanted
          \/ /\ "recordOverflow" \in packet.errors
             /\ n = MaxRecords /\ listed \subseteq wanted
             /\ \A r \in listed, w \in wanted \ listed : r.label < w.label

\* A packet without error bits is about every HIT the scanner found: none was lost,
\* invented or reordered in the packer, the FIFO under backpressure, the tables or
\* the replay.  And full tables are the only thing that can go wrong between the
\* stages: none ever sees an event, a start, a completion or a result it does not expect.
NothingLostSilently ==
  /\ Result /\ packet.errors = {} =>
       sent = [k \in Indices |-> [x |-> hits[k].x, y |-> hits[k].y]]
  /\ AllErrors \subseteq {"hitOverflow", "labelOverflow", "recordOverflow"}

\* A frame that was started yields a packet, however full tables and FIFO get.
PacketComes == builder = "COLLECT" ~> builder = "READY"
=============================================================================
