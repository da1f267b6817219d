----------------------------- MODULE EventStream -----------------------------
(***************************************************************************)
(* The way of the feature events from the scanner to the labeling stage:   *)
(* the packer qr_vcc_event_axis_packer.v, the AXI stream, the ingress      *)
(* monitor of qr_postprocess_axis_qrp1_core.v and qr_event_fifo.v.         *)
(*                                                                         *)
(* The scanner is what FeatureEvents says of it.                           *)
(***************************************************************************)
EXTENDS SparseCcl

CONSTANTS EventDepth,  \* EVENT_FIFO_DEPTH
          MaxOffered   \* bound of the model: HITs of one frame

ASSUME StreamAssumption == EventDepth \in Nat \ {0} /\ MaxOffered \in Nat

VARIABLES
  scanning, offer, nextRow,                \* the scanner
  sent,                                    \* history: the HITs offered in this frame
  packing, packRow, packLast, packDone, packBlocked, packErrors,
  ingress, frameDone, row, lastRow, ip2Done, blocked, ingressErrors,
  fifo

Source == INSTANCE FeatureEvents

packVars == <<packing, packRow, packLast, packDone, packBlocked, packErrors>>
ingressVars == <<ingress, frameDone, row, lastRow, ip2Done, blocked, ingressErrors>>
streamVars == <<Source!eventVars, packVars, ingressVars, fifo>>

PackError == {"packStability", "packRowOrder", "packProtocol"}
IngressError == {"ingressProtocol", "ingressRowOrder", "completionProtocol"}

StreamInit ==
  /\ Source!Init
  /\ packing = FALSE /\ packRow = 0 /\ packLast = FALSE /\ packDone = FALSE
  /\ packBlocked = NoEvent /\ packErrors = {}
  /\ ingress = FALSE /\ frameDone = FALSE /\ row = 0 /\ lastRow = FALSE
  /\ ip2Done = FALSE /\ blocked = NoEvent /\ ingressErrors = {}
  /\ fifo = <<>>
-----------------------------------------------------------------------------
\* m_axis_tvalid: a FRAME_DONE waits for the last ROW_DONE.
Valid == packing /\ offer # NoEvent /\ (offer.type = "frame" => packLast)

Room == Len(fifo) < EventDepth

Ready == ingress /\ ~frameDone /\ Room
Fire  == Valid /\ Ready

\* The head of the FIFO, valid while the FIFO is not empty.
HeadEvent == IF fifo = <<>> THEN NoEvent ELSE Head(fifo)

\* Mutant of Pop: the FIFO advances although the head is not consumed.
PopUnread == fifo # <<>>
Pop == fifo # <<>> /\ EventReady

Fifo ==
  LET kept == IF Pop THEN Tail(fifo) ELSE fifo
  IN  fifo' = IF Fire THEN Append(kept, offer) ELSE kept

\* The 10-bit register has room for more than Height rows; it wraps here after twice
\* as many.
RowAfter(y, expected) == IF y = Height - 1 THEN Height ELSE (expected + 1) % (2 * Height)

PackRaised(start) ==
  {err \in PackError :
     \/ err = "packProtocol" /\
          \/ ~packing /\ offer # NoEvent
          \/ packing /\ start
          \/ packing /\ offer.type = "frame" /\ ~packLast
          \/ Fire /\ offer.type = "hit" /\ ~InFrame(offer)
     \/ err = "packStability" /\ packing /\ packBlocked # NoEvent
                              /\ (~Valid \/ packBlocked # offer)
     \/ err = "packRowOrder" /\ Fire /\ offer.type = "row" /\ offer.y # packRow}

Packer(start, clear) ==
  /\ packing' = ((packing \/ start) /\ ~(Fire /\ offer.type = "frame"))
  /\ packDone' = (Fire /\ offer.type = "frame")
  /\ packBlocked' = IF packing /\ Valid /\ ~Fire /\ packBlocked \in {NoEvent, offer}
                    THEN offer ELSE NoEvent
  /\ packRow' = CASE start /\ ~packing          -> 0
                  [] Fire /\ offer.type = "row" -> RowAfter(offer.y, packRow)
                  [] OTHER                      -> packRow
  /\ packLast' = CASE start /\ ~packing -> FALSE
                   [] OTHER -> packLast \/ (Fire /\ offer = Source!RowDone(Height - 1))
  /\ packErrors' = (IF clear THEN {} ELSE packErrors) \cup PackRaised(start)

\* resultReady is the packet builder's, txDone the end of the packet's transmission.
IngressRaised(resultRise) ==
  {err \in IngressError :
     \/ err = "ingressProtocol" /\
          \/ blocked # NoEvent /\ (~Valid \/ blocked # offer)
          \/ Valid /\ (~ingress \/ frameDone)
          \/ Fire /\ Malformed(offer)
     \/ err = "ingressRowOrder" /\
          \/ Fire /\ offer.type = "row" /\ offer.y # row
          \/ Fire /\ offer.type = "frame" /\ ~lastRow
     \/ err = "completionProtocol" /\
          \/ packDone /\ (~ingress \/ ip2Done)
          \/ resultRise /\ ~ip2Done}

CompletionSeen(start) == ~start /\ (ip2Done \/ (packDone /\ ingress))

Ingress(start, clear, resultRise, txDone) ==
  /\ ingress' = ((ingress \/ start) /\ ~txDone)
  /\ frameDone' = (~start /\ ~txDone /\ (frameDone \/ (Fire /\ offer.type = "frame")))
  /\ ip2Done' = CompletionSeen(start)
  /\ blocked' = IF ~start /\ ~txDone /\ Valid /\ ~Ready /\ ingress /\ ~frameDone
                   /\ blocked \in {NoEvent, offer}
                THEN offer ELSE NoEvent
  /\ row' = IF start THEN 0
            ELSE IF Fire /\ offer.type = "row" THEN RowAfter(offer.y, row) ELSE row
  /\ lastRow' = (~start /\ (lastRow \/ (Fire /\ offer.type = "row" /\ offer.y = Height - 1)))
  /\ ingressErrors' = (IF clear THEN {} ELSE ingressErrors) \cup IngressRaised(resultRise)

StreamEdge(start, clear, resultRise, txDone) ==
  /\ Source!Scanner(start, Fire) /\ Packer(start, clear)
  /\ Ingress(start, clear, resultRise, txDone) /\ Fifo
=============================================================================
