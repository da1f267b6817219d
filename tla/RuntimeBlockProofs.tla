------------------------- MODULE RuntimeBlockProofs -------------------------
(***************************************************************************)
(* The control plane of qr_runtime for ids of any width, whatever the      *)
(* software writes to its registers and whatever the feature pipeline      *)
(* does.  The three controllers and the packet builder each keep a few     *)
(* flags of the frame they are at; BlockInv says which combinations of     *)
(* them the life of one frame goes through (FrameLife), that the packet is *)
(* under way only between the start and the first sight of its end         *)
(* (OneLaunch), and that no error of the frame escapes both the sticky     *)
(* flags and the builder's latch (ErrorsHeld).                             *)
(***************************************************************************)
EXTENDS RuntimeBlock, TLAPS

USE IdMaxAssumption

\* A frame is shown, armed, launched, acknowledged and released, in that order.
FrameLife ==
  /\ presented \in {"none", "sof"} => /\ ~activeValid /\ ~frameActive /\ ~frameComplete
                                      /\ ~frontendRelease /\ ~launched
  /\ presented = "sof" => armed
  /\ presented = "done" => /\ activeValid /\ frameActive /\ ~frameComplete
                           /\ ~frontendRelease /\ ~launched /\ armed
  /\ presented = "ready" =>
       /\ activeValid
       /\ \/ /\ frameActive /\ ~frameComplete /\ ~frontendRelease
             /\ armed <=> ~launched
          \/ ~frameActive /\ frameComplete /\ ~frontendRelease /\ launched /\ ~armed
          \/ ~frameActive /\ ~frameComplete /\ frontendRelease /\ ~launched /\ ~armed

\* A launch is one start pulse, then one packet, then its end seen.
OneLaunch ==
  /\ start \/ builder # "IDLE" => frameActive /\ launched /\ ~resultDoneSeen
  /\ start => builder = "IDLE"
  /\ resultDoneSeen => frameActive /\ launched

\* While records are collected an error that is not latched yet is sticky still.
ErrorsHeld == builder = "COLLECT" => frameErrs \subseteq latched \cup sticky

BlockInv ==
  /\ RCTypeOK /\ FrameLife /\ OneLaunch /\ ErrorsHeld
  /\ CompletionOrder /\ PacketIdentity /\ ErrorsReported

-----------------------------------------------------------------------------
\* What an edge of the block may find at its inputs.
Admissible(in) ==
  /\ in.sof = (presented = "sof") /\ in.imageDone = (presented = "done")
  /\ in.feReady = (presented \in {"done", "ready"})
  /\ in.ack \in BOOLEAN /\ in.streamStart \in BOOLEAN /\ in.errorClear \in BOOLEAN
  /\ in.enable \in BOOLEAN /\ in.auto \in BOOLEAN /\ in.manualStart \in BOOLEAN
  /\ in.seedWrite \in BOOLEAN /\ in.seed \in Ids
  /\ in.collected \in BOOLEAN /\ in.lastBeat \in BOOLEAN /\ in.expired \in BOOLEAN
  /\ in.errs \in SUBSET {"overflow", "fatal"}
  /\ in.collected => builder = "COLLECT" /\ "fatal" \notin in.errs
  /\ in.errs # {} => builder = "COLLECT"

\* An edge with these inputs.
EdgeWith(in) ==
  /\ RCEdge(in) /\ Presenting
  /\ frameErrs' = CASE builder = "IDLE" -> {} [] OTHER -> frameErrs \cup in.errs
  /\ enable' \in BOOLEAN /\ auto' \in BOOLEAN

\* The inputs of a clock edge are admissible, whatever is written.
LEMMA InputAdmissible ==
  ASSUME RCTypeOK, NEW wr \in SUBSET Pulses, NEW seed,
         seed = {} \/ \E i \in Ids : seed = {i}, NEW sur \in Surroundings
  PROVE  Admissible(Input(wr, seed, sur)) /\ Input(wr, seed, sur).errs = sur.errs
<1>1. 0 \in Ids
  BY DEF Ids
<1>2. (IF seed = {} THEN 0 ELSE CHOOSE i \in seed : TRUE) \in Ids
  <2>1. CASE seed = {}
    BY <1>1, <2>1
  <2>2. CASE \E i \in Ids : seed = {i}
    <3>1. PICK i \in Ids : seed = {i}
      BY <2>2
    <3>2. (CHOOSE j \in seed : TRUE) \in seed
      BY <3>1
    <3>3. QED
      BY <3>1, <3>2
  <2>3. QED
    BY <2>1, <2>2
<1>3. PICK first : first = IF seed = {} THEN 0 ELSE CHOOSE i \in seed : TRUE
  OBVIOUS
<1>4. first \in Ids
  BY <1>2, <1>3
<1>5. PICK in : in = Input(wr, seed, sur)
  OBVIOUS
<1>6. /\ in.sof = (presented = "sof") /\ in.imageDone = (presented = "done")
      /\ in.feReady = (presented \in {"done", "ready"})
  BY <1>5 DEF Input, Quiet
<1>7. /\ in.ack = ("ack" \in wr) /\ in.streamStart = ("streamStart" \in wr)
      /\ in.errorClear = ("errorClear" \in wr) /\ in.manualStart = ("manualStart" \in wr)
  BY <1>5 DEF Input, Quiet
<1>8. in.enable = enable /\ in.auto = auto /\ in.seedWrite = (seed # {}) /\ in.seed = first
  BY <1>3, <1>5 DEF Input, Quiet
<1>9. /\ in.collected = sur.collected /\ in.errs = sur.errs
      /\ in.lastBeat = sur.lastBeat /\ in.expired = sur.expired
  BY <1>5 DEF Input, Quiet
<1>10. /\ sur.collected \in BOOLEAN /\ sur.errs \in SUBSET {"overflow", "fatal"}
       /\ sur.lastBeat \in BOOLEAN /\ sur.expired \in BOOLEAN
       /\ sur.collected => builder = "COLLECT" /\ "fatal" \notin sur.errs
       /\ sur.errs # {} => builder = "COLLECT"
  BY DEF Surroundings
<1>11. Admissible(in)
  BY <1>4, <1>6, <1>7, <1>8, <1>9, <1>10 DEF Admissible, RCTypeOK
<1>12. QED
  BY <1>5, <1>9, <1>11

\* Every step is an edge with admissible inputs or a soft reset.
LEMMA Steps ==
  ASSUME RCTypeOK, BlockNext
  PROVE  WriteSoftReset \/ \E in : Admissible(in) /\ EdgeWith(in)
<1>1. ASSUME NEW wr \in SUBSET Pulses, NEW seed, seed = {} \/ \E i \in Ids : seed = {i},
             Clock(wr, seed), enable' \in BOOLEAN, auto' \in BOOLEAN
      PROVE  \E in : Admissible(in) /\ EdgeWith(in)
  <2>1. PICK sur \in Surroundings :
          /\ RCEdge(Input(wr, seed, sur)) /\ Presenting
          /\ frameErrs' = CASE builder = "IDLE" -> {} [] OTHER -> frameErrs \cup sur.errs
    BY <1>1 DEF Clock
  <2>2. PICK in : in = Input(wr, seed, sur)
    OBVIOUS
  <2>3. Admissible(in) /\ in.errs = sur.errs
    BY <1>1, <2>2, InputAdmissible
  <2>4. EdgeWith(in)
    BY <1>1, <2>1, <2>2, <2>3 DEF EdgeWith
  <2>5. QED
    BY <2>3, <2>4
<1>2. CASE Idle
  BY <1>1, <1>2 DEF Idle, RCTypeOK
<1>3. CASE WriteControl
  <2>1. PICK wr \in SUBSET Pulses : Clock(wr, {})
    BY <1>3 DEF WriteControl
  <2>2. QED
    BY <1>1, <1>3, <2>1 DEF WriteControl
<1>4. CASE WriteFrameId
  <2>1. PICK i \in Ids : Clock({}, {i})
    BY <1>4 DEF WriteFrameId
  <2>2. QED
    BY <1>1, <1>4, <2>1 DEF WriteFrameId, RCTypeOK
<1>5. QED
  BY <1>2, <1>3, <1>4 DEF BlockNext

\* The increment of a register stays in the register.
LEMMA IncInIds == \A x \in Ids : Inc(x) \in Ids
BY DEF Inc, Ids

\* The completion controller keeps the types.
LEMMA CompletionType ==
  ASSUME RCTypeOK, NEW in, Admissible(in), Completion(in)
  PROVE  /\ frameActive' \in BOOLEAN /\ imageDoneSeen' \in BOOLEAN
         /\ resultDoneSeen' \in BOOLEAN /\ completePending' \in BOOLEAN
         /\ frameComplete' \in BOOLEAN /\ completionError' \in BOOLEAN
BY DEF Completion, PendingNext, AckOk

\* The frame controller keeps the types.
LEMMA FrameCtrlType ==
  ASSUME RCTypeOK, NEW in, Admissible(in), FrameCtrl(in)
  PROVE  /\ launched' \in BOOLEAN /\ armed' \in BOOLEAN /\ start' \in BOOLEAN
         /\ frontendRelease' \in BOOLEAN /\ manualPending' \in BOOLEAN
         /\ stuck' \in BOOLEAN /\ controlError' \in BOOLEAN
BY DEF FrameCtrl, CanStart, RCTypeOK

\* The id controller keeps the types.
LEMMA FrameIdType ==
  ASSUME RCTypeOK, NEW in, Admissible(in), FrameId(in)
  PROVE  /\ nextFrameId' \in Ids /\ activeFrameId' \in Ids
         /\ activeValid' \in BOOLEAN /\ frameIdError' \in BOOLEAN
BY IncInIds DEF FrameId, IdForNewFrame, RCTypeOK, Admissible

\* The packet builder keeps the types.
LEMMA PacketType ==
  ASSUME RCTypeOK, NEW in, Admissible(in), Packet(in)
  PROVE  /\ builder' \in BuilderState
         /\ sticky' \in SUBSET ErrorClass /\ latched' \in SUBSET ErrorClass
         /\ packet' \in [id : Ids, flags : SUBSET ErrorClass, records : BOOLEAN]
<1> USE DEF RCTypeOK, Admissible, ErrorClass
<1>1. builder' \in BuilderState
  BY DEF Packet, BuilderState
<1>2. Arriving(in) \in SUBSET ErrorClass
  BY DEF Arriving
<1>3. sticky' \in SUBSET ErrorClass
  BY <1>2 DEF Packet
<1>4. latched' \in SUBSET ErrorClass
  BY DEF Packet
<1>5. FlagsAtDone(in) \in SUBSET ErrorClass
  BY <1>2 DEF FlagsAtDone
<1>6. packet' \in [id : Ids, flags : SUBSET ErrorClass, records : BOOLEAN]
  BY <1>5 DEF Packet, NoPacket
<1>7. QED
  BY <1>1, <1>3, <1>4, <1>6

\* An edge keeps the types.
LEMMA TypeEdge ==
  ASSUME RCTypeOK, NEW in, Admissible(in), EdgeWith(in)
  PROVE  RCTypeOK'
<1>1. presented' \in {"none", "sof", "done", "ready"}
  BY DEF EdgeWith, Presenting, RCTypeOK
<1>2. frameErrs' \in SUBSET {"overflow", "fatal"}
  BY DEF EdgeWith, Admissible, RCTypeOK
<1>3. QED
  BY <1>1, <1>2, CompletionType, FrameCtrlType, FrameIdType, PacketType
     DEF EdgeWith, RCEdge, RCTypeOK

-----------------------------------------------------------------------------
\* No frame is acknowledged before its packet has left, so none is while the
\* packet is still under way.
LEMMA AckIsLast ==
  ASSUME BlockInv, NEW in, Admissible(in), AckOk(in)
  PROVE  /\ presented = "ready" /\ frameActive /\ launched /\ ~armed
         /\ imageDoneSeen /\ resultDoneSeen /\ ~start /\ builder = "IDLE"
BY DEF BlockInv, RCTypeOK, FrameLife, OneLaunch, CompletionOrder, AckOk

\* A start finds a frame that is shown, not launched yet, its packet not begun.
LEMMA StartIsFirst ==
  ASSUME BlockInv, NEW in, Admissible(in), CanStart(in)
  PROVE  /\ presented \in {"done", "ready"} /\ frameActive /\ ~launched /\ armed
         /\ ~resultDoneSeen /\ ~start /\ builder = "IDLE" /\ ~frameComplete
         /\ ~frontendRelease
BY DEF BlockInv, RCTypeOK, FrameLife, OneLaunch, CanStart, Admissible, ProcessingBusy

\* The stages of a frame follow each other.
LEMMA FrameLifeEdge ==
  ASSUME BlockInv, NEW in, Admissible(in), EdgeWith(in)
  PROVE  FrameLife'
<1> USE DEF BlockInv, RCTypeOK, FrameLife, Admissible
<1>1. /\ frameActive' = ((frameActive \/ SofOk(in)) /\ ~AckOk(in))
      /\ frameComplete' = AckOk(in)
  BY DEF EdgeWith, RCEdge, Completion
<1>2. /\ armed' = ((armed \/ ~in.feReady) /\ ~CanStart(in))
      /\ launched' = ((launched \/ CanStart(in)) /\ ~frameComplete)
      /\ frontendRelease' = frameComplete
  BY DEF EdgeWith, RCEdge, FrameCtrl
<1>3. activeValid' = ((activeValid \/ in.sof) /\ ~frontendRelease)
  BY DEF EdgeWith, RCEdge, FrameId
<1>4. CASE presented = "none"
  <2>1. presented' \in {"none", "sof"}
    BY <1>4 DEF EdgeWith, Presenting
  <2>2. ~AckOk(in) /\ ~CanStart(in) /\ ~SofOk(in)
    BY <1>4 DEF AckOk, CanStart, SofOk
  <2>3. QED
    BY <1>1, <1>2, <1>3, <1>4, <2>1, <2>2
<1>5. CASE presented = "sof"
  <2>1. presented' = "done"
    BY <1>5 DEF EdgeWith, Presenting
  <2>2. ~AckOk(in) /\ ~CanStart(in) /\ SofOk(in)
    BY <1>5 DEF AckOk, CanStart, SofOk, CompletionOrder
  <2>3. QED
    BY <1>1, <1>2, <1>3, <1>5, <2>1, <2>2
<1>6. CASE presented \in {"done", "ready"}
  <2>1. presented' = IF frontendRelease THEN "none" ELSE "ready"
    BY <1>6 DEF EdgeWith, Presenting
  <2>2. ~SofOk(in) /\ in.feReady /\ ~in.sof
    BY <1>6 DEF SofOk
  <2>3. CASE CanStart(in)
    <3>1. ~AckOk(in)
      BY <2>3, AckIsLast, StartIsFirst
    <3>2. QED
      BY <1>1, <1>2, <1>3, <2>1, <2>2, <2>3, <3>1, StartIsFirst
  <2>4. CASE ~CanStart(in) /\ AckOk(in)
    BY <1>1, <1>2, <1>3, <2>1, <2>2, <2>4, AckIsLast
  <2>5. CASE ~CanStart(in) /\ ~AckOk(in)
    BY <1>1, <1>2, <1>3, <1>6, <2>1, <2>2, <2>5
  <2>6. QED
    BY <2>3, <2>4, <2>5
<1>7. QED
  BY <1>4, <1>5, <1>6

\* One start, one packet, one end.
LEMMA OneLaunchEdge ==
  ASSUME BlockInv, NEW in, Admissible(in), EdgeWith(in)
  PROVE  OneLaunch'
<1> USE DEF BlockInv, RCTypeOK, FrameLife, OneLaunch, Admissible
<1>1. /\ frameActive' = ((frameActive \/ SofOk(in)) /\ ~AckOk(in))
      /\ resultDoneSeen' = (((resultDoneSeen /\ ~SofOk(in)) \/ ResultFresh) /\ ~AckOk(in))
  BY DEF EdgeWith, RCEdge, Completion
<1>2. start' = CanStart(in) /\ launched' = ((launched \/ CanStart(in)) /\ ~frameComplete)
  BY DEF EdgeWith, RCEdge, FrameCtrl
<1>3. /\ builder' # "IDLE" => start \/ builder \in {"COLLECT", "READY", "SEND"}
      /\ start => builder' # "IDLE"
      /\ builder \notin {"IDLE", "DONE"} => builder' # "IDLE"
  BY DEF EdgeWith, RCEdge, Packet, BuilderState
<1>4. ResultFresh = (builder = "DONE" /\ frameActive /\ ~resultDoneSeen)
  BY DEF ResultFresh, ResultTxDone
<1>5. start' => frameActive' /\ launched' /\ ~resultDoneSeen' /\ builder' = "IDLE"
  BY <1>1, <1>2, <1>3, <1>4, StartIsFirst, AckIsLast
<1>6. builder' # "IDLE" => frameActive' /\ launched' /\ ~resultDoneSeen'
  BY <1>1, <1>2, <1>3, <1>4, AckIsLast
<1>7. resultDoneSeen' => frameActive' /\ launched'
  BY <1>1, <1>2, <1>4
<1>8. QED
  BY <1>5, <1>6, <1>7

\* The two ends are remembered until the frame is acknowledged.
LEMMA CompletionOrderEdge ==
  ASSUME BlockInv, NEW in, Admissible(in), EdgeWith(in)
  PROVE  CompletionOrder'
<1> USE DEF BlockInv, RCTypeOK, CompletionOrder, Admissible
<1>1. Completion(in)
  BY DEF EdgeWith, RCEdge
<1>2. QED
  BY <1>1 DEF Completion, PendingNext, BothDone, AckOk, SofOk, ImageFresh, ResultFresh

\* The packet takes the id of the active frame, which stays while it is under way.
LEMMA PacketIdentityEdge ==
  ASSUME BlockInv, NEW in, Admissible(in), EdgeWith(in)
  PROVE  PacketIdentity'
<1> USE DEF BlockInv, RCTypeOK, FrameLife, OneLaunch, PacketIdentity, Admissible
<1>1. builder' # "IDLE" => start \/ builder \in {"COLLECT", "READY", "SEND"}
  BY DEF EdgeWith, RCEdge, Packet, BuilderState
<1>2. ASSUME builder' # "IDLE"
      PROVE  presented \in {"done", "ready"} /\ activeValid /\ ~frontendRelease
  BY <1>1, <1>2
<1>3. ASSUME builder' # "IDLE"
      PROVE  activeValid' /\ activeFrameId' = activeFrameId
  BY <1>2, <1>3 DEF EdgeWith, RCEdge, FrameId
<1>4. ASSUME builder' # "IDLE"
      PROVE  packet'.id = activeFrameId
  <2>1. CASE start
    BY <2>1, <1>4 DEF EdgeWith, RCEdge, Packet, NoPacket
  <2>2. CASE builder \in {"COLLECT", "READY", "SEND"}
    <3>1. packet.id = activeFrameId
      BY <2>2
    <3>2. QED
      BY <2>2, <3>1 DEF EdgeWith, RCEdge, Packet
  <2>3. QED
    BY <1>1, <1>4, <2>1, <2>2
<1>5. QED
  BY <1>3, <1>4

\* An error of the frame reaches the packet through the sticky flags or the latch.
LEMMA ErrorsEdge ==
  ASSUME BlockInv, NEW in, Admissible(in), EdgeWith(in)
  PROVE  ErrorsHeld' /\ ErrorsReported'
<1> USE DEF BlockInv, RCTypeOK, OneLaunch, ErrorsHeld, ErrorsReported, Admissible
<1>1. Packet(in)
  BY DEF EdgeWith, RCEdge
<1>2. frameErrs' = IF builder = "IDLE" THEN {} ELSE frameErrs \cup in.errs
  BY DEF EdgeWith
<1>3. CASE builder = "IDLE"
  BY <1>1, <1>2, <1>3 DEF Packet
<1>4. CASE builder = "COLLECT" /\ ~in.collected
  <2>1. builder' = "COLLECT" /\ latched' = latched \cup sticky /\ in.errs \subseteq sticky'
    BY <1>1, <1>4 DEF Packet, Arriving
  <2>2. QED
    BY <1>2, <1>4, <2>1
<1>5. CASE builder = "COLLECT" /\ in.collected
  <2>1. builder' = "READY" /\ packet'.flags = FlagsAtDone(in)
    BY <1>1, <1>5 DEF Packet
  <2>2. in.errs \subseteq {"overflow"}
    BY <1>5
  <2>3. frameErrs \cup in.errs \subseteq FlagsAtDone(in)
    BY <1>5, <2>2 DEF FlagsAtDone, Arriving
  <2>4. QED
    BY <1>2, <1>5, <2>1, <2>3
<1>6. CASE builder \in {"READY", "SEND", "DONE"}
  <2>1. /\ packet' = packet /\ builder' # "COLLECT" /\ in.errs = {}
        /\ builder' \in {"READY", "SEND"} => builder \in {"READY", "SEND"}
    BY <1>1, <1>6 DEF Packet
  <2>2. QED
    BY <1>2, <1>6, <2>1
<1>7. QED
  BY <1>3, <1>4, <1>5, <1>6 DEF BuilderState

LEMMA BlockInvInit == BlockInit => BlockInv
<1> SUFFICES ASSUME BlockInit PROVE BlockInv
  OBVIOUS
<1>1. 0 \in Ids
  BY DEF Ids
<1>2. RCTypeOK
  BY <1>1 DEF BlockInit, RCInit, RCTypeOK, NoPacket, BuilderState
<1>3. FrameLife /\ OneLaunch /\ ErrorsHeld
  BY DEF BlockInit, RCInit, FrameLife, OneLaunch, ErrorsHeld
<1>4. CompletionOrder /\ PacketIdentity /\ ErrorsReported
  BY DEF BlockInit, RCInit, CompletionOrder, PacketIdentity, ErrorsReported
<1>5. QED
  BY <1>2, <1>3, <1>4 DEF BlockInv

\* The soft reset is taken while no frame is shown.
LEMMA BlockInvReset ==
  ASSUME BlockInv, WriteSoftReset
  PROVE  BlockInv'
<1>1. 0 \in Ids
  BY DEF Ids
<1>2. RCTypeOK'
  BY <1>1 DEF WriteSoftReset, SoftReset, RCTypeOK, NoPacket, BuilderState, BlockInv
<1>3. FrameLife' /\ OneLaunch' /\ ErrorsHeld'
  BY DEF WriteSoftReset, SoftReset, FrameLife, OneLaunch, ErrorsHeld
<1>4. CompletionOrder' /\ PacketIdentity' /\ ErrorsReported'
  BY DEF WriteSoftReset, SoftReset, CompletionOrder, PacketIdentity, ErrorsReported
<1>5. QED
  BY <1>2, <1>3, <1>4 DEF BlockInv

LEMMA BlockInvNext == BlockInv /\ [BlockNext]_blockVars => BlockInv'
<1> SUFFICES ASSUME BlockInv, [BlockNext]_blockVars PROVE BlockInv'
  OBVIOUS
<1>1. CASE UNCHANGED blockVars
  BY <1>1 DEF blockVars, rcVars, complVars, ctrlVars, fidVars, pktVars, BlockInv, RCTypeOK,
              FrameLife, OneLaunch, ErrorsHeld, CompletionOrder, PacketIdentity, ErrorsReported
<1>2. CASE WriteSoftReset
  BY <1>2, BlockInvReset
<1>3. CASE \E in : Admissible(in) /\ EdgeWith(in)
  <2>1. PICK in : Admissible(in) /\ EdgeWith(in)
    BY <1>3
  <2>2. RCTypeOK'
    BY <2>1, TypeEdge DEF BlockInv
  <2>3. QED
    BY <2>1, <2>2, FrameLifeEdge, OneLaunchEdge, CompletionOrderEdge, PacketIdentityEdge,
       ErrorsEdge DEF BlockInv
<1>4. QED
  BY <1>1, <1>2, <1>3, Steps DEF BlockInv

\* The inductive invariant holds at every edge.
LEMMA BlockInvariant == BlockSpec => []BlockInv
BY BlockInvInit, BlockInvNext, PTL DEF BlockSpec

-----------------------------------------------------------------------------
\* The registers of the block keep their types.
THEOREM RCTypeCorrect == BlockSpec => []RCTypeOK
<1>1. BlockInv => RCTypeOK
  BY DEF BlockInv
<1>2. QED
  BY <1>1, BlockInvariant, PTL

\* Only a frame whose image and whose packet have both left may be acknowledged.
THEOREM CompletionInOrder == BlockSpec => []CompletionOrder
<1>1. BlockInv => CompletionOrder
  BY DEF BlockInv
<1>2. QED
  BY <1>1, BlockInvariant, PTL

\* The packet under construction or on its way carries the id of the active frame.
THEOREM PacketOfActiveFrame == BlockSpec => []PacketIdentity
<1>1. BlockInv => PacketIdentity
  BY DEF BlockInv
<1>2. QED
  BY <1>1, BlockInvariant, PTL

\* The frame memory is held from the start until the packet has left.
THEOREM MemoryHeld == BlockSpec => []HeldWhileProcessed
<1>1. BlockInv => HeldWhileProcessed
  BY DEF BlockInv, RCTypeOK, FrameLife, OneLaunch, HeldWhileProcessed
<1>2. QED
  BY <1>1, BlockInvariant, PTL

\* A frame yields one packet.
THEOREM OnePacket == BlockSpec => []OnePacketPerFrame
<1>1. BlockInv => OnePacketPerFrame
  BY DEF BlockInv, OneLaunch, OnePacketPerFrame
<1>2. QED
  BY <1>1, BlockInvariant, PTL

\* An error raised while a packet is collected is in the packet's flags.
THEOREM ErrorsInPacket == BlockSpec => []ErrorsReported
<1>1. BlockInv => ErrorsReported
  BY DEF BlockInv
<1>2. QED
  BY <1>1, BlockInvariant, PTL
=============================================================================
