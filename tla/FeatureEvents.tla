---------------------------- MODULE FeatureEvents ----------------------------
(***************************************************************************)
(* What the scanner of the binary frame (qr_runlength_vcc_top) promises    *)
(* its consumer: one event is on offer at a time and is held until it is   *)
(* taken.  Of a frame it offers any HITs, a ROW_DONE for each row in order *)
(* and, when all rows are done, the end of the scan.                       *)
(***************************************************************************)
EXTENDS Integers, Sequences

CONSTANTS Width, Height,  \* 640 x 480
          MaxOffered      \* bound of the model: HITs of one frame

VARIABLES scanning, offer, nextRow,
          sent            \* history: the HITs offered in this frame

eventVars == <<scanning, offer, nextRow, sent>>

NoEvent == [type |-> "none", x |-> 0, y |-> 0]
RowDone(y) == [type |-> "row", x |-> 0, y |-> y]
FrameDone == [type |-> "frame", x |-> 0, y |-> Height - 1]
Hits == [type : {"hit"}, x : 0..(Width - 1), y : 0..(Height - 1)]

Init == scanning = FALSE /\ offer = NoEvent /\ nextRow = 0 /\ sent = <<>>

\* What may come next.
Offers ==
  {e \in Hits : nextRow < Height /\ Len(sent) < MaxOffered}
    \cup {IF nextRow < Height THEN RowDone(nextRow) ELSE FrameDone}

\* One edge; fire tells that the consumer takes the event on offer.
Scanner(start, fire) ==
  \/ /\ start
     /\ scanning' = TRUE /\ nextRow' = 0 /\ sent' = <<>> /\ offer' = NoEvent
  \/ /\ ~start /\ scanning /\ offer = NoEvent
     /\ offer' \in Offers
     /\ sent' = IF offer'.type = "hit" THEN Append(sent, [x |-> offer'.x, y |-> offer'.y])
                ELSE sent
     /\ UNCHANGED <<scanning, nextRow>>
  \/ /\ ~start /\ fire
     /\ offer' = NoEvent
     /\ nextRow' = IF offer.type = "row" THEN nextRow + 1 ELSE nextRow
     /\ scanning' = (offer.type # "frame")
     /\ UNCHANGED sent
  \/ ~start /\ ~fire /\ UNCHANGED eventVars

\* A frame is started when the one before has been scanned.
Next ==
  \/ ~scanning /\ Scanner(TRUE, FALSE)
  \/ \E fire \in BOOLEAN : (fire => offer # NoEvent) /\ Scanner(FALSE, fire)

Spec == Init /\ [][Next]_eventVars
=============================================================================
