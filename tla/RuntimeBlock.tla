---------------------------- MODULE RuntimeBlock ----------------------------
(***************************************************************************)
(* qr_runtime behind its two neighbours: the consumer side of the frame    *)
(* buffer, which shows one frame at a time and holds it until it is        *)
(* released, and the CONTROL and FRAME_ID registers, to which the software *)
(* may write anything at any time.  The writes become pulses at the next   *)
(* edge, which is the edge this module shows.                              *)
(***************************************************************************)
EXTENDS RuntimeCtrl

VARIABLES presented,     \* "none", "sof" (accepted), "done" (image replayed), "ready"
          enable, auto,  \* persistent bits of CONTROL
          frameErrs      \* history: errors raised while the packet was collected

blockVars == <<rcVars, presented, enable, auto, frameErrs>>

Pulses == {"manualStart", "errorClear", "streamStart", "ack"}

BlockInit ==
  /\ RCInit
  /\ presented = "none"
  /\ enable = TRUE /\ auto = TRUE
  /\ frameErrs = {}

\* What the rest of the hardware does at an edge.
Surroundings ==
  {in \in [collected : BOOLEAN, errs : SUBSET {"overflow", "fatal"},
           lastBeat : BOOLEAN, expired : BOOLEAN] :
     /\ in.collected => builder = "COLLECT" /\ "fatal" \notin in.errs
     /\ in.errs # {} => builder = "COLLECT"
     /\ in.lastBeat => builder = "SEND"
     /\ in.expired => launched}

Input(wr, seed, sur) ==
  [Quiet EXCEPT
     !.sof = (presented = "sof"), !.imageDone = (presented = "done"),
     !.feReady = (presented \in {"done", "ready"}),
     !.manualStart = ("manualStart" \in wr), !.errorClear = ("errorClear" \in wr),
     !.streamStart = ("streamStart" \in wr), !.ack = ("ack" \in wr),
     !.seedWrite = (seed # {}), !.seed = IF seed = {} THEN 0 ELSE CHOOSE i \in seed : TRUE,
     !.enable = enable, !.auto = auto,
     !.collected = sur.collected, !.errs = sur.errs,
     !.lastBeat = sur.lastBeat, !.expired = sur.expired]

\* The frame buffer shows a frame (dispatch may be given at any time), replays its
\* image completion after the virtual start of frame and holds it until release.
Presenting ==
  presented' \in CASE presented = "none" -> {"none", "sof"}
                   [] presented = "sof"  -> {"done"}
                   [] OTHER              -> {IF frontendRelease THEN "none" ELSE "ready"}

Clock(wr, seed) ==
  \E sur \in Surroundings :
    /\ RCEdge(Input(wr, seed, sur))
    /\ Presenting
    /\ frameErrs' = CASE builder = "IDLE" -> {}
                      [] OTHER            -> frameErrs \cup sur.errs

Idle == Clock({}, {}) /\ UNCHANGED <<enable, auto>>

\* A write to CONTROL: any of its pulses, and new values of the persistent bits.
WriteControl ==
  /\ \E wr \in SUBSET Pulses : Clock(wr, {})
  /\ enable' \in BOOLEAN /\ auto' \in BOOLEAN

WriteFrameId == \E i \in Ids : Clock({}, {i}) /\ UNCHANGED <<enable, auto>>

\* CONTROL soft_reset resets the block and not the frame buffer, which would go on
\* showing its frame; vision_runtime.c never writes it, and here it is written
\* only while no frame is shown.
WriteSoftReset ==
  /\ presented = "none"
  /\ SoftReset
  /\ frameErrs' = {}
  /\ enable' \in BOOLEAN /\ auto' \in BOOLEAN
  /\ UNCHANGED presented

BlockNext == Idle \/ WriteControl \/ WriteFrameId \/ WriteSoftReset

BlockSpec == BlockInit /\ [][BlockNext]_blockVars
-----------------------------------------------------------------------------
\* The types of the registers of the block and of what surrounds it.
RCTypeOK ==
  /\ frameActive \in BOOLEAN /\ imageDoneSeen \in BOOLEAN /\ resultDoneSeen \in BOOLEAN
  /\ completePending \in BOOLEAN /\ frameComplete \in BOOLEAN /\ completionError \in BOOLEAN
  /\ launched \in BOOLEAN /\ armed \in BOOLEAN /\ start \in BOOLEAN
  /\ frontendRelease \in BOOLEAN /\ manualPending \in BOOLEAN /\ stuck \in BOOLEAN
  /\ controlError \in BOOLEAN /\ activeValid \in BOOLEAN /\ frameIdError \in BOOLEAN
  /\ nextFrameId \in Ids /\ activeFrameId \in Ids
  /\ builder \in BuilderState
  /\ sticky \in SUBSET ErrorClass /\ latched \in SUBSET ErrorClass
  /\ packet \in [id : Ids, flags : SUBSET ErrorClass, records : BOOLEAN]
  /\ presented \in {"none", "sof", "done", "ready"}
  /\ enable \in BOOLEAN /\ auto \in BOOLEAN
  /\ frameErrs \in SUBSET {"overflow", "fatal"}

\* Only a frame whose image and whose packet have both left may be acknowledged.
CompletionOrder == completePending => frameActive /\ imageDoneSeen /\ resultDoneSeen

\* Whatever the software writes, and whenever, the packet under construction or
\* on its way carries the id of the active frame.
PacketIdentity == builder # "IDLE" => activeValid /\ packet.id = activeFrameId

\* The frame memory is held while the feature pipeline may still read it: from
\* the start until the packet has left, no acknowledge can release the frame.
HeldWhileProcessed ==
  start \/ builder # "IDLE" => presented = "ready" /\ ~frameComplete /\ ~frontendRelease

\* A frame yields one packet: when it has left, nothing starts another one before
\* the frame is released.
OnePacketPerFrame == resultDoneSeen => launched /\ ~start /\ builder = "IDLE"

\* An error raised while a packet is collected is in the packet's flags, even if
\* the software clears the sticky bits in the meantime.
ErrorsReported == builder \in {"READY", "SEND"} => frameErrs \subseteq packet.flags
=============================================================================
