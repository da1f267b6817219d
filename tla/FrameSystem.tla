----------------------------- MODULE FrameSystem -----------------------------
(***************************************************************************)
(* The frame path of the default build (QR_FRAME_RECEIVER): camera tap,    *)
(* binary writer, image DMA, frame buffer controller and qr_runtime in the *)
(* programmable logic, frame_receiver.c and the frame loop of              *)
(* vision_runtime.c on the processor.                                      *)
(*                                                                         *)
(* The logic advances by clock edges, Hw(cmd): any set of the events that  *)
(* are possible may fall on one edge.  The processor advances one register *)
(* access at a time; an access that writes a command register is an edge   *)
(* that carries the command.                                               *)
(***************************************************************************)
EXTENDS FrameBuffer, RuntimeCtrl, GrayRing, FiniteSets

CONSTANTS
  Torn,          \* content of a memory that holds no complete frame
  Environments   \* what, besides delivering whole frames, the surroundings may do

FaultKind == {"truncate",   \* the camera restarts in the middle of a frame
              "overfull",   \* a frame overflows the feature tables or loses events
              "watchdog",   \* a frame is held longer than the watchdog counts
              "dmaError",   \* the image DMA halts with an error
              "stall",      \* the image DMA stalls until the tap's FIFO is full
              "slowDma"}    \* DDR writes may end after the frame's result is ready

ASSUME FrameSystemAssumption ==
  /\ InitialId = 0              \* both id counters leave reset equal
  /\ IdMax > 0                  \* two frames in the memory have different ids
  /\ Torn \notin Ids
  /\ Environments \subseteq SUBSET FaultKind

VARIABLES
  environment,                  \* the faults that may occur in this run of the system
  camera, selected, inflight,   \* tap: inside a frame? a selected one? reserved?
  gray, imageId, damaged,       \* tap: the Gray8 stream, its frame id, words lost?
  imageOverflow,                \* tap: sticky image_overflow_error
  fe,                           \* frontend pipeline and binary frame writer
  dmaState, dmaSlot,            \* image DMA engine and its destination
  resultDma, resultBuffer,      \* result DMA engine and the packet in DDR
  captureEnable,                \* CONTROL image_capture_enable
  ddr, bram,                    \* whose frame each image slot, each bank holds
  pc, svc,                      \* processor: frame loop, frame_receiver_service
  enabled, faults, received, taken, prepared,   \* frame_receiver.c
  candidates, candidatesValid   \* packet of the frame being decoded; usable?

envVars == <<environment, camera, selected, inflight, gray, imageId, damaged, imageOverflow, fe,
             ddr, bram>>
dmaVars == <<dmaState, dmaSlot, resultDma, resultBuffer>>
recVars == <<ringVars, enabled, faults, received, taken, prepared>>
loopVars == <<candidates, candidatesValid, captureEnable>>
vars == <<fbVars, rcVars, envVars, dmaVars, recVars, loopVars, pc, svc>>

Init ==
  /\ FBInit /\ RCInit /\ RingInit
  /\ environment \in Environments
  /\ camera = FALSE /\ selected = FALSE /\ inflight = FALSE
  /\ gray = "idle" /\ imageId = 0 /\ damaged = FALSE /\ imageOverflow = FALSE
  /\ fe = "idle"
  /\ dmaState = "idle" /\ dmaSlot = 0
  /\ resultDma = "idle" /\ resultBuffer = NoPacket
  /\ captureEnable = FALSE
  /\ ddr = [s \in Slots |-> Torn] /\ bram = [b \in Banks |-> Torn]
  /\ pc = "init" /\ svc = "errors"
  /\ enabled = TRUE /\ faults = FALSE /\ received = 0 /\ taken = 0
  /\ prepared = [s \in Slots |-> TRUE]
  /\ candidates = NoPacket /\ candidatesValid = FALSE
-----------------------------------------------------------------------------
(* Programmable logic.                                                      *)

SlotAvailable == ~inflight /\ fe # "ready"

Possible ==
  {e \in {"sof", "eof", "feDone", "grayLast", "overrun", "trouble", "collected",
        "lastBeat", "expired"} :
     \/ e = "sof" /\ (~camera \/ "truncate" \in environment)
     \/ e = "eof" /\ camera
     \/ e = "feDone" /\ fe = "closing"
     \/ e = "grayLast" /\ gray = "eof" /\ dmaState = "running"
     \/ e = "overrun" /\ gray = "open" /\ "stall" \in environment
     \/ e = "trouble" /\ builder = "COLLECT" /\ "overfull" \in environment
     \/ e = "collected" /\ builder = "COLLECT"
          /\ ("slowDma" \in environment \/ ~(dmaState = "draining" /\ imageId = activeFrameId))
     \/ e = "lastBeat" /\ builder = "SEND" /\ resultDma = "running"
     \/ e = "expired" /\ launched /\ "watchdog" \in environment}

ErrorsOf(ev) ==
  IF "trouble" \in ev THEN {{"overflow"}, {"fatal"}} ELSE {{}}

FBIn(cmd, ev, sof) ==
  [enable |-> captureEnable, sof |-> sof,
   imageDone |-> "grayLast" \in ev, imageId |-> imageId,
   feReady |-> fe = "ready", desc |-> NoDesc, release |-> frontendRelease,
   cmdCredit |-> cmd = "credit", cmdDispatch |-> cmd = "dispatch"]

RCIn(cmd, ev, errs) ==
  [Quiet EXCEPT
     !.sof = consumerSof, !.imageDone = consumerImageDone, !.feReady = consumerReady,
     !.ack = (cmd = "ack"), !.streamStart = (cmd = "stream"),
     !.collected = ("collected" \in ev), !.errs = errs,
     !.lastBeat = ("lastBeat" \in ev), !.expired = ("expired" \in ev)]

\* The tap decides a whole frame at its start of frame; the selected frame goes
\* both to the Gray8 stream and to the frontend.
\* A word that finds the FIFO full is lost; if it is the last one the stream
\* never ends.
Tap(ev, take) ==
  LET last == "eof" \in ev /\ selected
  IN  /\ camera' = IF "sof" \in ev THEN TRUE ELSE camera /\ "eof" \notin ev
      /\ selected' = IF "sof" \in ev THEN take ELSE selected /\ "eof" \notin ev
      /\ inflight' = (take \/ (inflight /\ ~captureRelease))
      /\ imageId' = IF take THEN captureNextId ELSE imageId
      /\ gray' = IF take THEN "open"
                 ELSE IF "sof" \in ev /\ gray = "open" THEN "idle"
                 ELSE IF last THEN (IF "overrun" \in ev THEN "idle" ELSE "eof")
                 ELSE IF "grayLast" \in ev THEN "idle" ELSE gray
      /\ damaged' = (("overrun" \in ev \/ damaged) /\ ~take)
      /\ imageOverflow' = ("overrun" \in ev \/ imageOverflow)
      /\ fe' = IF take THEN "open"
               ELSE IF captureRelease /\ fe = "ready" THEN "idle"
               ELSE IF last THEN "closing"
               ELSE IF "feDone" \in ev THEN "ready" ELSE fe

\* What the memories hold: a frame under way is torn until its last word is in.
Memories(ev, take) ==
  /\ ddr' = IF take /\ dmaState = "running" THEN [ddr EXCEPT ![dmaSlot] = Torn] ELSE ddr
  /\ bram' = IF take THEN [bram EXCEPT ![tail] = Torn]
             ELSE IF "feDone" \in ev THEN [bram EXCEPT ![writeBank] = id[writeBank]] ELSE bram

Engines(ev) ==
  /\ dmaState' = IF "grayLast" \in ev THEN "draining" ELSE dmaState
  /\ resultDma' = IF "lastBeat" \in ev THEN "idle" ELSE resultDma
  /\ resultBuffer' = IF "lastBeat" \in ev THEN packet ELSE resultBuffer
  /\ UNCHANGED dmaSlot

HwEdge(cmd, ev, errs) ==
  LET offer == FBIn(cmd, ev, FALSE)
      take  == "sof" \in ev /\ SlotAvailable /\ CaptureAllowed(offer)
  IN  /\ Edge(FBIn(cmd, ev, take))
      /\ RCEdge(RCIn(cmd, ev, errs))
      /\ Tap(ev, take) /\ Memories(ev, take) /\ Engines(ev)
      /\ UNCHANGED environment

HwWith(cmd, ev) ==
  /\ ~({"sof", "eof"} \subseteq ev) /\ ~({"sof", "overrun"} \subseteq ev)
  /\ ~({"trouble", "collected"} \subseteq ev)
  /\ \E errs \in ErrorsOf(ev) : HwEdge(cmd, ev, errs)

Hw(cmd) == \E ev \in SUBSET Possible : HwWith(cmd, ev)

Tick == Hw("none") /\ UNCHANGED <<recVars, loopVars, pc, svc>>

\* The image DMA reports idle once its last write to DDR has completed.
Drain ==
  /\ dmaState = "draining"
  /\ dmaState' = "idle"
  /\ ddr' = IF damaged THEN ddr ELSE [ddr EXCEPT ![dmaSlot] = imageId]
  /\ UNCHANGED <<fbVars, rcVars, environment, camera, selected, inflight, gray, imageId, damaged,
                 imageOverflow, fe, bram, dmaSlot, resultDma, resultBuffer, recVars, loopVars, pc, svc>>

DmaFault ==
  /\ "dmaError" \in environment /\ dmaState = "running"
  /\ dmaState' = "halted"
  /\ UNCHANGED <<fbVars, rcVars, envVars, dmaSlot, resultDma, resultBuffer,
                 recVars, loopVars, pc, svc>>
-----------------------------------------------------------------------------
(* frame_receiver_service, one register access at a time.                   *)

hwVars == <<fbVars, rcVars, envVars, dmaVars>>

FailReceiver == faults' = TRUE /\ enabled' = FALSE /\ svc' = "off"

\* A call returns at once when the receiver is disabled.
CallService == svc' = IF enabled THEN "errors" ELSE "off"

ServiceErrors ==
  /\ svc = "errors"
  /\ \/ errors # {} /\ FailReceiver
     \/ errors = {} /\ svc' = (IF ringDma = NoSlot THEN "reserve" ELSE "status")
                    /\ UNCHANGED <<enabled, faults>>
  /\ UNCHANGED <<hwVars, ringVars, received, taken, prepared, loopVars, pc>>

ServiceStatus ==
  /\ svc = "status"
  /\ \/ dmaState = "halted" /\ FailReceiver
     \/ dmaState # "halted" /\ svc' = "busy" /\ UNCHANGED <<enabled, faults>>
  /\ UNCHANGED <<hwVars, ringVars, received, taken, prepared, loopVars, pc>>

\* Mutant of ServiceBusy: the engine is not asked at all.
ServiceBusyUnread ==
  /\ svc = "busy"
  /\ svc' = "count"
  /\ UNCHANGED <<hwVars, ringVars, enabled, faults, received, taken, prepared, loopVars, pc>>

ServiceBusy ==
  /\ svc = "busy"
  /\ svc' = IF dmaState = "idle" THEN "count" ELSE "off"
  /\ UNCHANGED <<hwVars, ringVars, enabled, faults, received, taken, prepared, loopVars, pc>>

ServiceCount ==
  /\ svc = "count"
  /\ \/ completed # Inc(received) /\ FailReceiver
     \/ completed = Inc(received) /\ svc' = "identity" /\ UNCHANGED <<enabled, faults>>
  /\ UNCHANGED <<hwVars, ringVars, received, taken, prepared, loopVars, pc>>

ServiceIdentity ==
  /\ svc = "identity"
  /\ \/ /\ ~CanComplete(completedId)
        /\ FailReceiver
        /\ UNCHANGED <<ringVars, received>>
     \/ /\ Complete(completedId)
        /\ received' = Inc(received)
        /\ svc' = "reserve"
        /\ UNCHANGED <<enabled, faults>>
  /\ UNCHANGED <<hwVars, taken, prepared, loopVars, pc>>

ServiceReserve ==
  /\ svc = "reserve"
  /\ \/ ~CanReserve /\ svc' = "off" /\ UNCHANGED <<ringVars, enabled, faults>>
     \/ /\ Reserve(captureNextId)
        /\ \/ ~prepared[ringDma'] /\ FailReceiver
           \/ prepared[ringDma'] /\ svc' = "arm" /\ UNCHANGED <<enabled, faults>>
  /\ UNCHANGED <<hwVars, received, taken, prepared, loopVars, pc>>

ServiceArm ==
  /\ svc = "arm"
  /\ \/ /\ dmaState # "idle"
        /\ FailReceiver
        /\ UNCHANGED <<dmaState, dmaSlot>>
     \/ /\ dmaState = "idle"
        /\ dmaState' = "running" /\ dmaSlot' = ringDma
        /\ svc' = "credit"
        /\ UNCHANGED <<enabled, faults>>
  /\ UNCHANGED <<fbVars, rcVars, envVars, resultDma, resultBuffer,
                 ringVars, received, taken, prepared, loopVars, pc>>

ServiceCredit ==
  /\ svc = "credit"
  /\ Hw("credit")
  /\ prepared' = [prepared EXCEPT ![ringDma] = FALSE]
  /\ svc' = "off"
  /\ UNCHANGED <<ringVars, enabled, faults, received, taken, loopVars, pc>>

Service ==
  \/ ServiceErrors \/ ServiceStatus \/ ServiceBusy \/ ServiceCount
  \/ ServiceIdentity \/ ServiceReserve \/ ServiceArm \/ ServiceCredit
-----------------------------------------------------------------------------
(* The frame loop of vision_runtime_run.  Every step starts when the call   *)
(* of frame_receiver_service it may have made has returned.                 *)

\* STATUS bits that end a wait and disqualify the candidates.
StatusError == CombinedError \/ imageOverflow

At(label) == pc = label /\ svc = "off"
Goto(label) == pc' = label /\ svc' = "off"

\* One turn of a wait: go on when the condition is read as true, otherwise
\* service the receiver and read again.
Poll(cond, here, next) ==
  /\ IF cond THEN Goto(next) ELSE pc' = here /\ CallService
  /\ UNCHANGED <<hwVars, recVars, loopVars>>

\* runtime_wait_status_set also gives up on a receiver fault and on errors.
WaitSet(bit, here, next) ==
  /\ At(here)
  /\ \/ (faults \/ (~bit /\ StatusError)) /\ Goto("failed")
                                          /\ UNCHANGED <<hwVars, recVars, loopVars>>
     \/ ~faults /\ (bit \/ ~StatusError) /\ Poll(bit, here, next)

WaitClear(bit, here, next) == At(here) /\ Poll(~bit, here, next)

\* A wait that has lasted RUNTIME_TIMEOUT_MS ends the loop.
Waiting == {"waitResult", "waitResultDma", "waitPending", "waitCleared",
            "waitReleased", "waitNoResult"}
Timeout ==
  /\ pc \in Waiting /\ svc = "off" /\ environment # {}
  /\ Goto("failed")
  /\ UNCHANGED <<hwVars, recVars, loopVars>>

InitDispatch ==
  /\ At("init")
  /\ \/ ~enabled /\ Goto("failed") /\ UNCHANGED hwVars
     \/ enabled /\ Hw("dispatch") /\ Goto("enableCapture")
  /\ UNCHANGED <<recVars, loopVars>>

EnableCapture ==
  /\ At("enableCapture")
  /\ captureEnable' = TRUE
  /\ Goto("waitResult")
  /\ UNCHANGED <<hwVars, recVars, candidates, candidatesValid>>

WaitResult == WaitSet(ResultReady, "waitResult", "armResult")

ArmResult ==
  /\ At("armResult")
  /\ resultDma = "idle"
  /\ resultDma' = "running"
  /\ Goto("stream")
  /\ UNCHANGED <<fbVars, rcVars, envVars, dmaState, dmaSlot, resultBuffer, recVars, loopVars>>

StreamStart ==
  /\ At("stream") /\ Hw("stream") /\ Goto("waitResultDma")
  /\ UNCHANGED <<recVars, loopVars>>

\* runtime_wait_dma gives up on a receiver fault while the engine is busy.
WaitResultDma ==
  /\ At("waitResultDma")
  /\ \/ resultDma # "idle" /\ faults /\ Goto("failed")
                                      /\ UNCHANGED <<hwVars, recVars, loopVars>>
     \/ (resultDma = "idle" \/ ~faults) /\ Poll(resultDma = "idle", "waitResultDma", "takeImage")

TakeImage ==
  /\ At("takeImage")
  /\ pc' = "taking" /\ CallService
  /\ UNCHANGED <<hwVars, recVars, loopVars>>

\* frame_receiver_take of the frame the runtime reports.
Taking ==
  /\ At("taking")
  /\ \/ faults /\ Goto("failed") /\ UNCHANGED recVars
     \/ /\ ~faults /\ Take(consumerImageId)
        /\ taken' = Inc(taken)
        /\ Goto("waitPending")
        /\ UNCHANGED <<enabled, faults, received, prepared>>
     \/ /\ ~faults /\ ~CanTake(consumerImageId)
        /\ FailReceiver /\ pc' = "failed"
        /\ UNCHANGED <<ringVars, received, taken, prepared>>
  /\ UNCHANGED <<hwVars, loopVars>>

WaitPending == WaitSet(completePending, "waitPending", "identify")

\* Mutant of Identify: the error bits of STATUS are not consulted.
IdentifyOnly ==
  /\ At("identify") /\ Goto("ack")
  /\ candidates' = resultBuffer
  /\ candidatesValid' = (resultBuffer.flags = {})
  /\ UNCHANGED <<hwVars, recVars, captureEnable>>

\* Active frame, image and packet must be the same frame; the candidates are
\* used only if neither the packet nor the status reports an error.
Identify ==
  /\ At("identify")
  /\ IF activeFrameId = consumerImageId /\ resultBuffer.id = consumerImageId
     THEN /\ Goto("ack")
          /\ candidates' = resultBuffer
          /\ candidatesValid' =
               (resultBuffer.flags = {} /\ sticky = {} /\ ~StatusError /\ ~stuck)
     ELSE Goto("failed") /\ UNCHANGED <<candidates, candidatesValid>>
  /\ UNCHANGED <<hwVars, recVars, captureEnable>>

FrameAck ==
  /\ At("ack") /\ Hw("ack") /\ Goto("waitCleared")
  /\ UNCHANGED <<recVars, loopVars>>

WaitCleared  == WaitClear(completePending, "waitCleared", "waitReleased")
WaitReleased == WaitClear(consumerReady, "waitReleased", "waitNoResult")
WaitNoResult == WaitClear(ResultReady, "waitNoResult", "dispatch")

\* Mutant of Dispatch: the next frame is never asked for.
DispatchForgotten ==
  At("dispatch") /\ Goto("decode") /\ UNCHANGED <<hwVars, recVars, loopVars>>

Dispatch ==
  /\ At("dispatch")
  /\ \/ faults /\ Goto("failed") /\ UNCHANGED hwVars
     \/ ~faults /\ Hw("dispatch") /\ Goto("decode")
  /\ UNCHANGED <<recVars, loopVars>>

\* The decoder calls the preview service between rows.
DecodeProgress ==
  /\ At("decode") /\ pc' = pc /\ CallService /\ enabled
  /\ UNCHANGED <<hwVars, recVars, loopVars>>

\* Decoding ends; frame_receiver_release frees the slot, cleans its cache lines
\* and services the receiver.
DecodeDone ==
  /\ At("decode")
  /\ \/ /\ Release
        /\ prepared' = [prepared EXCEPT ![ringCpu] = TRUE]
        /\ pc' = "released" /\ CallService
        /\ UNCHANGED <<enabled, faults>>
     \/ /\ ~CanRelease
        /\ FailReceiver /\ pc' = "failed"
        /\ UNCHANGED <<ringVars, prepared>>
  /\ UNCHANGED <<hwVars, received, taken, loopVars>>

\* The frame ends with one more preview service.
FrameEnd ==
  /\ At("released")
  /\ \/ faults /\ Goto("failed")
     \/ ~faults /\ pc' = "waitResult" /\ CallService
  /\ UNCHANGED <<hwVars, recVars, loopVars>>

Loop ==
  \/ InitDispatch \/ EnableCapture \/ WaitResult \/ ArmResult \/ StreamStart
  \/ WaitResultDma \/ TakeImage \/ Taking \/ WaitPending \/ Identify \/ FrameAck
  \/ WaitCleared \/ WaitReleased \/ WaitNoResult \/ Dispatch
  \/ DecodeProgress \/ DecodeDone \/ FrameEnd

Next == Tick \/ Drain \/ DmaFault \/ Service \/ Loop \/ Timeout

Spec == Init /\ [][Next]_vars

\* The fairness, of the worlds without faults.  An event that is due does not stay due
\* for ever: the camera keeps sending whole frames, the pipelines and the engines end
\* what they begin (an event that happens is no longer due, so this is its weak
\* fairness).  The clock runs, and not every edge carries an event.  The processor runs,
\* and the decoder, however often it services the receiver, ends.
Calm == environment = {}
Due == IF Calm THEN Possible \ (IF camera THEN {"sof"} ELSE {}) ELSE {}
Events == {"sof", "eof", "feDone", "grayLast", "collected", "lastBeat"}
QuietEdge == HwWith("none", {}) /\ UNCHANGED <<recVars, loopVars, pc, svc>>

Fairness ==
  /\ \A e \in Events : []<>(e \notin Due)
  /\ WF_vars(Calm /\ QuietEdge) /\ WF_vars(Calm /\ Drain)
  /\ WF_vars(Calm /\ Service) /\ WF_vars(Calm /\ Loop) /\ SF_vars(Calm /\ DecodeDone)

FairSpec == Spec /\ Fairness
-----------------------------------------------------------------------------
DmaActive == dmaState \in {"running", "draining"}

\* The credit is never given without a destination: while a frame may still be
\* accepted, or an accepted frame's image has not left the tap, the image DMA is
\* running into the slot that is reserved under that frame's id.
CreditHasDma ==
  (credit \/ (capturing /\ ~imageSeen)) =>
    /\ dmaState = "running" \/ "dmaError" \in environment
    /\ ringDma = dmaSlot
    /\ ringId[ringDma] = IF credit THEN captureNextId ELSE id[writeBank]

\* frame_receiver_take: until it is released, the image handed to the decoder is
\* one whole frame, the one whose id the slot carries, and the DMA does not write
\* to it.  Only words lost to a full FIFO can damage it, and then the runtime has
\* been told before the decoder starts.  No credit is given without such a slot.
CpuImageIntact ==
  /\ ringCpu # NoSlot =>
       /\ ddr[ringCpu] = ringId[ringCpu] \/ (ddr[ringCpu] = Torn /\ imageOverflow)
       /\ DmaActive => dmaSlot # ringCpu
  /\ CreditHasDma

\* A damaged image is never decoded with the help of the candidates, and neither
\* are candidates that the packet itself declares incomplete.
GuidedOnlyIfSound ==
  pc = "decode" /\ candidatesValid =>
    ddr[ringCpu] = candidates.id /\ candidates.flags = {} /\ candidates.records

\* The candidates that guide the decoder were found in the very frame it decodes.
PairedDecode ==
  pc = "decode" => candidates.id = ringId[ringCpu]

\* The feature pipeline reads a bank that holds the whole binary frame of the
\* id under which its result will be sent, and between the dispatch and the release
\* the id numbered by the runtime is the id numbered by the frame buffer.
BinaryBankIntact ==
  /\ builder = "COLLECT" =>
       /\ bram[readBank] = packet.id
       /\ ~(fe \in {"open", "closing"} /\ writeBank = readBank)
  /\ activeValid => activeFrameId = consumerImageId

\* With whole frames and working DMA no block ever sees a handshake it rejects, and
\* the receiver never disables itself, so the loop never ends.
NoFault ==
  Calm => /\ errors = {} /\ sticky = {} /\ ~imageOverflow
          /\ ~completionError /\ ~controlError /\ ~frameIdError
          /\ ~faults /\ pc # "failed"

\* Every accepted frame is decoded, in the order of acceptance: the n-th image
\* taken is the n-th frame accepted.
DecodedInOrder ==
  ringCpu # NoSlot => Inc(ringId[ringCpu]) = Ahead(InitialId, taken)

\* The camera keeps being served: without faults frames are decoded again and again.
FramesFlow == Calm => []<>(pc = "decode")

\* vision_runtime.c, step O: "Clear sticky per-frame diagnostics".  When the next
\* frame has been asked for no diagnostic of an earlier one is left.
StickyCleared == pc = "decode" => sticky = {} /\ ~stuck
=============================================================================
