----------------------------- MODULE RuntimeCtrl -----------------------------
(***************************************************************************)
(* The control plane of the qr_runtime block, the single consumer of the   *)
(* frame memory: qr_frame_completion_ctrl.v (a frame is complete when its  *)
(* image and its result packet are sent and the PS has acknowledged),      *)
(* qr_frame_ctrl_runtime.v (one start per presented frame, release at      *)
(* completion), qr_frame_id_control.v (the id of the active frame) and the *)
(* state machine of qr_result_packet_builder_qrp1.v (the QRP1 packet).     *)
(*                                                                         *)
(* As in FrameBuffer one action is one clock edge.  The feature pipeline   *)
(* between "start" and the packet builder (VCC scan, event FIFO, sparse    *)
(* CCL, object properties) is two inputs, the error classes "errs" it may  *)
(* raise while it works on a frame and "collected", its last record; the   *)
(* watchdog counter is the input "expired".                                *)
(***************************************************************************)
EXTENDS Word32

VARIABLES
  frameActive, imageDoneSeen, resultDoneSeen, completePending, frameComplete,
  completionError,                                   \* completion controller
  launched, armed, start, frontendRelease, manualPending, stuck, controlError,
                                                     \* frame controller
  nextFrameId, activeFrameId, activeValid, frameIdError,  \* id controller
  builder,        \* packet builder state
  sticky,         \* sticky error classes of the pipeline and of the builder
  latched,        \* error classes latched for the frame being collected
  packet          \* header of the packet: frame id, error flags, records kept?

complVars == <<frameActive, imageDoneSeen, resultDoneSeen, completePending,
               frameComplete, completionError>>
ctrlVars  == <<launched, armed, start, frontendRelease, manualPending, stuck, controlError>>
fidVars   == <<nextFrameId, activeFrameId, activeValid, frameIdError>>
pktVars   == <<builder, sticky, latched, packet>>
rcVars    == <<complVars, ctrlVars, fidVars, pktVars>>

\* "overflow": hits, labels or records beyond the tables (the frame goes on);
\* "fatal": events lost or out of order (the packet carries no record);
\* "protocol": a request the builder's state does not admit.
ErrorClass == {"overflow", "fatal", "protocol"}
BuilderState == {"IDLE", "COLLECT", "READY", "SEND", "DONE"}
NoPacket == [id |-> 0, flags |-> {}, records |-> TRUE]

\* Everything the block waits for at an edge, all quiet: pulses from the CSR
\* (ack, streamStart, errorClear, manualStart, seedWrite), from the frame buffer
\* (sof, imageDone, the level feReady), from the feature pipeline (collected,
\* errs), from the watchdog, and the acceptance of the packet's last beat by the
\* result DMA (lastBeat).
Quiet == [sof |-> FALSE, imageDone |-> FALSE, feReady |-> FALSE,
          ack |-> FALSE, streamStart |-> FALSE, errorClear |-> FALSE,
          enable |-> TRUE, auto |-> TRUE, manualStart |-> FALSE,
          seedWrite |-> FALSE, seed |-> 0,
          collected |-> FALSE, errs |-> {}, lastBeat |-> FALSE, expired |-> FALSE]

RCInit ==
  /\ frameActive = FALSE /\ imageDoneSeen = FALSE /\ resultDoneSeen = FALSE
  /\ completePending = FALSE /\ frameComplete = FALSE /\ completionError = FALSE
  /\ launched = FALSE /\ armed = TRUE /\ start = FALSE /\ frontendRelease = FALSE
  /\ manualPending = FALSE /\ stuck = FALSE /\ controlError = FALSE
  /\ nextFrameId = 0 /\ activeFrameId = 0 /\ activeValid = FALSE /\ frameIdError = FALSE
  /\ builder = "IDLE" /\ sticky = {} /\ latched = {} /\ packet = NoPacket

-----------------------------------------------------------------------------
ResultTxDone == builder = "DONE"
ResultReady == builder = "READY"
ProcessingBusy == builder # "IDLE"
CombinedError == sticky # {} \/ completionError \/ controlError \/ frameIdError

(* qr_frame_completion_ctrl *)
\* Mutant of AckOk: an acknowledge is accepted before both streams have ended.
AckEarly(in) == in.ack /\ frameActive
AckOk(in) == in.ack /\ frameActive /\ completePending
SofOk(in) == in.sof /\ ~frameActive /\ ~completePending
ImageFresh(in) == in.imageDone /\ frameActive /\ ~imageDoneSeen
ResultFresh == ResultTxDone /\ frameActive /\ ~resultDoneSeen

BothDone(in) ==
  frameActive /\ (imageDoneSeen \/ in.imageDone) /\ (resultDoneSeen \/ ResultTxDone)

\* Mutant of PendingNext: the acknowledge does not clear the pending bit.
PendingForever(in) == completePending \/ BothDone(in)
PendingNext(in) == (completePending \/ BothDone(in)) /\ ~AckOk(in)

Completion(in) ==
  /\ frameActive' = ((frameActive \/ SofOk(in)) /\ ~AckOk(in))
  /\ imageDoneSeen' = (((imageDoneSeen /\ ~SofOk(in)) \/ ImageFresh(in)) /\ ~AckOk(in))
  /\ resultDoneSeen' = (((resultDoneSeen /\ ~SofOk(in)) \/ ResultFresh) /\ ~AckOk(in))
  /\ completePending' = PendingNext(in)
  /\ frameComplete' = AckOk(in)
  /\ completionError' =
       /\ ~in.errorClear
       /\ \/ completionError
          \/ in.sof /\ ~SofOk(in)
          \/ in.imageDone /\ ~ImageFresh(in)
          \/ ResultTxDone /\ ~ResultFresh
          \/ in.ack /\ ~AckOk(in)

(* qr_frame_ctrl_runtime *)
\* Mutants of CanStart: not re-armed by a falling frame_ready; level triggered.
StartUnarmed(in) ==
  /\ in.enable /\ in.feReady /\ activeValid /\ ~ProcessingBusy /\ ~launched
  /\ in.auto \/ manualPending
StartOnLevel(in) ==
  /\ in.enable /\ in.feReady /\ activeValid /\ ~ProcessingBusy
  /\ in.auto \/ manualPending

CanStart(in) ==
  /\ in.enable /\ in.feReady /\ activeValid /\ armed /\ ~ProcessingBusy /\ ~launched
  /\ in.auto \/ manualPending

FrameCtrl(in) ==
  /\ start' = CanStart(in)
  /\ armed' = ((armed \/ ~in.feReady) /\ ~CanStart(in))
  /\ launched' = ((launched \/ CanStart(in)) /\ ~frameComplete)
  /\ frontendRelease' = frameComplete
  /\ manualPending' = ((manualPending \/ (in.manualStart /\ ~launched)) /\ ~CanStart(in))
  /\ stuck' = ((stuck \/ (launched /\ ~frameComplete /\ in.expired)) /\ ~in.errorClear)
  /\ controlError' =
       /\ ~in.errorClear
       /\ \/ controlError
          \/ in.manualStart /\ (manualPending \/ launched)
          \/ frameComplete /\ ~launched

(* qr_frame_id_control *)
SeedOk(in) == in.seedWrite /\ ~activeValid

IdForNewFrame(in) == IF in.seedWrite THEN in.seed ELSE nextFrameId

FrameId(in) ==
  /\ nextFrameId' = CASE in.sof /\ ~activeValid -> Inc(IdForNewFrame(in))
                      [] SeedOk(in) /\ ~in.sof  -> in.seed
                      [] OTHER                  -> nextFrameId
  /\ activeFrameId' = IF in.sof /\ ~activeValid THEN IdForNewFrame(in) ELSE activeFrameId
  /\ activeValid' = ((activeValid \/ in.sof) /\ ~frontendRelease)
  /\ frameIdError' = \/ frameIdError /\ ~in.errorClear
                     \/ in.seedWrite /\ activeValid
                     \/ in.sof /\ activeValid
                     \/ start /\ ~activeValid

(* qr_result_packet_builder_qrp1: one packet per start.  The sticky flags of *)
(* the pipeline are the upstream_error_flags the builder latches.            *)
Violation(in) == \/ start /\ builder # "IDLE"
                 \/ in.streamStart /\ builder # "READY"
Arriving(in) == IF builder = "COLLECT" THEN in.errs ELSE {}

\* Mutant of FlagsAtDone: only the errors that are still set when the last record
\* arrives.
FlagsStillSet(in) == sticky \cup (Arriving(in) \cap {"overflow"})
FlagsAtDone(in) == latched \cup sticky \cup (Arriving(in) \cap {"overflow"})
                     \cup (IF Violation(in) THEN {"protocol"} ELSE {})

Packet(in) ==
  /\ builder' = CASE builder = "IDLE" /\ start            -> "COLLECT"
                  [] builder = "COLLECT" /\ in.collected  -> "READY"
                  [] builder = "READY" /\ in.streamStart  -> "SEND"
                  [] builder = "SEND" /\ in.lastBeat      -> "DONE"
                  [] builder = "DONE"                     -> "IDLE"
                  [] OTHER                                -> builder
  /\ sticky' = (IF in.errorClear THEN {} ELSE sticky) \cup Arriving(in)
                 \cup (IF Violation(in) THEN {"protocol"} ELSE {})
  /\ latched' = CASE builder = "IDLE" /\ start -> sticky
                  [] builder = "COLLECT"       -> latched \cup sticky
                  [] OTHER                     -> latched
  /\ packet' =
       CASE builder = "IDLE" /\ start -> [NoPacket EXCEPT !.id = activeFrameId]
         [] builder = "COLLECT" /\ in.collected ->
              [packet EXCEPT !.flags = FlagsAtDone(in),
                             !.records = "fatal" \notin FlagsAtDone(in)]
         [] OTHER -> packet

RCEdge(in) == Completion(in) /\ FrameCtrl(in) /\ FrameId(in) /\ Packet(in)

\* CONTROL soft_reset: every functional block returns to its reset state.
SoftReset ==
  /\ frameActive' = FALSE /\ imageDoneSeen' = FALSE /\ resultDoneSeen' = FALSE
  /\ completePending' = FALSE /\ frameComplete' = FALSE /\ completionError' = FALSE
  /\ launched' = FALSE /\ armed' = TRUE /\ start' = FALSE /\ frontendRelease' = FALSE
  /\ manualPending' = FALSE /\ stuck' = FALSE /\ controlError' = FALSE
  /\ nextFrameId' = 0 /\ activeFrameId' = 0 /\ activeValid' = FALSE /\ frameIdError' = FALSE
  /\ builder' = "IDLE" /\ sticky' = {} /\ latched' = {} /\ packet' = NoPacket
=============================================================================
