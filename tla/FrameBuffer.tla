----------------------------- MODULE FrameBuffer -----------------------------
(***************************************************************************)
(* frame_buffer_controller.v: the layer that owns the two banks of the     *)
(* binary frame memory.  A bank is taken by the camera side at an accepted *)
(* start of frame, becomes READY when the frame's Gray8 image has left for *)
(* its DMA and the binary writer has stored its last word, is handed to    *)
(* the single consumer on a dispatch command and is freed by the           *)
(* consumer's release.                                                     *)
(*                                                                         *)
(* Every register is updated at the same clock edge from the values before *)
(* it, so one action, Edge(in), is one edge and "in" is the value of the   *)
(* inputs at that edge: several events may fall on the same edge.  The     *)
(* environment of this module is the most general one (any pulse on any    *)
(* edge), which is what "fail closed" is about; FrameSystem replaces it by *)
(* the modules the controller is really wired to.                          *)
(***************************************************************************)
EXTENDS Word32, Sequences

CONSTANTS InitialId,  \* parameter INITIAL_ID
          Descs,      \* (mode, margin) descriptors the frontend may report
          NoDesc      \* the reset value of a descriptor register

ASSUME FrameBufferAssumption ==
  /\ InitialId \in Ids
  /\ NoDesc \in Descs

VARIABLES
  state, id, desc,           \* per bank: owner, frame id, (mode, margin)
  tail, head,                \* next bank to capture into, next bank to consume
  capturing, imageSeen, feSeen, writeBank,
  credit, dispatch,          \* one-shot permissions given by the PS
  consumerActive, consumerReady, consumerSof, consumerImageDone,
  consumerImageId, consumerDesc, readBank,
  captureRelease,            \* one-cycle pulse to the tap and the writer
  captureNextId, completedId,
  accepted, completed, released,
  errors                     \* the set of error bits that are raised

capVars  == <<capturing, imageSeen, feSeen, writeBank, captureRelease>>
conVars  == <<consumerActive, consumerReady, consumerSof, consumerImageDone,
              consumerImageId, consumerDesc, readBank>>
bankVars == <<state, id, desc, tail, head>>
cntVars  == <<captureNextId, completedId, accepted, completed, released>>
fbVars   == <<capVars, conVars, bankVars, cntVars, credit, dispatch, errors>>

Banks == {0, 1}
Other(b) == 1 - b
Owner == {"FREE", "CAPTURING", "READY", "CONSUMING"}
\* A value that comes with a pulse means nothing, and is fixed, without the pulse.
Inputs ==
  {in \in [enable : BOOLEAN,     \* capture_enable
           sof : BOOLEAN,        \* capture_sof
           imageDone : BOOLEAN,  \* capture_image_done
           imageId : Ids,        \* capture_image_id
           feReady : BOOLEAN,    \* frontend_ready
           desc : Descs,         \* frontend_mode, frontend_margin
           release : BOOLEAN,    \* consumer_release
           cmdCredit : BOOLEAN,  \* a write of bit 0 to the command register
           cmdDispatch : BOOLEAN] :
     /\ ~in.sof => in.enable /\ in.desc = NoDesc
     /\ ~in.imageDone => in.imageId = 0}

FBInit ==
  /\ state = [b \in Banks |-> "FREE"]
  /\ id = [b \in Banks |-> 0]
  /\ desc = [b \in Banks |-> NoDesc]
  /\ tail = 0 /\ head = 0
  /\ capturing = FALSE /\ imageSeen = FALSE /\ feSeen = FALSE /\ writeBank = 0
  /\ credit = FALSE /\ dispatch = FALSE
  /\ consumerActive = FALSE /\ consumerReady = FALSE
  /\ consumerSof = FALSE /\ consumerImageDone = FALSE
  /\ consumerImageId = InitialId /\ consumerDesc = NoDesc /\ readBank = 0
  /\ captureRelease = FALSE
  /\ captureNextId = InitialId /\ completedId = InitialId
  /\ accepted = 0 /\ completed = 0 /\ released = 0
  /\ errors = {}

-----------------------------------------------------------------------------
(* What happens at an edge, decided from the registers before it.           *)

\* Mutants of CaptureAllowed: each forgets one of its conditions.
AllowedWhileCapturing(in) ==
  in.enable /\ credit /\ ~in.feReady /\ state[tail] = "FREE" /\ errors = {}
AllowedAfterError(in) ==
  in.enable /\ credit /\ ~capturing /\ ~in.feReady /\ state[tail] = "FREE"

CaptureAllowed(in) ==
  /\ in.enable /\ credit /\ ~capturing /\ ~in.feReady
  /\ state[tail] = "FREE" /\ errors = {}

Accept(in)  == in.sof /\ CaptureAllowed(in)

ImageOk(in) == in.imageDone /\ capturing /\ ~imageSeen /\ in.imageId = id[writeBank]
Commit      == capturing /\ imageSeen /\ feSeen

\* Mutant of Grant: the head is handed out before it is complete.
GrantAnyBank == dispatch /\ ~consumerActive /\ errors = {}
Grant       == dispatch /\ ~consumerActive /\ state[head] = "READY" /\ errors = {}
Retire(in)  == in.release /\ consumerActive /\ consumerReady /\ state[head] = "CONSUMING"

Raised(in) ==
  {e \in 0..4 :
     \/ e = 0 /\ in.cmdCredit /\ credit
     \/ e = 1 /\ in.cmdDispatch /\ (dispatch \/ consumerActive)
     \/ e = 2 /\ in.sof /\ ~CaptureAllowed(in)
     \/ e = 3 /\ in.imageDone /\ ~ImageOk(in)
     \/ e = 4 /\ in.release /\ ~Retire(in)}

\* The four assignments to state[], in source order: a later one wins.
NextState(in) ==
  LET s1 == IF Accept(in) THEN [state EXCEPT ![tail] = "CAPTURING"] ELSE state
      s2 == IF Commit THEN [s1 EXCEPT ![writeBank] = "READY"] ELSE s1
      s3 == IF Grant THEN [s2 EXCEPT ![head] = "CONSUMING"] ELSE s2
  IN  IF Retire(in) THEN [s3 EXCEPT ![head] = "FREE"] ELSE s3

CaptureSide(in) ==
  /\ capturing' = ((capturing \/ Accept(in)) /\ ~Commit)
  /\ imageSeen' = (ImageOk(in) \/ (imageSeen /\ ~Accept(in)))
  /\ feSeen' = ((capturing /\ in.feReady) \/ (feSeen /\ ~Accept(in)))
  /\ writeBank' = IF Accept(in) THEN tail ELSE writeBank
  /\ captureRelease' = Commit
  /\ credit' = ((credit \/ in.cmdCredit) /\ ~Accept(in))
  /\ captureNextId' = IF Accept(in) THEN Inc(captureNextId) ELSE captureNextId
  /\ accepted' = IF Accept(in) THEN Inc(accepted) ELSE accepted
  /\ completedId' = IF ImageOk(in) THEN in.imageId ELSE completedId
  /\ completed' = IF ImageOk(in) THEN Inc(completed) ELSE completed

ConsumerSide(in) ==
  /\ dispatch' = ((dispatch \/ (in.cmdDispatch /\ ~consumerActive)) /\ ~Grant)
  /\ consumerActive' = ((consumerActive \/ Grant) /\ ~Retire(in))
  /\ consumerSof' = Grant
  /\ consumerReady' = ((consumerReady \/ consumerSof) /\ ~Retire(in))
  /\ consumerImageDone' = consumerSof
  /\ readBank' = IF Grant THEN head ELSE readBank
  /\ consumerImageId' = IF Grant THEN id[head] ELSE consumerImageId
  /\ consumerDesc' = IF Grant THEN desc[head] ELSE consumerDesc
  /\ released' = IF Retire(in) THEN Inc(released) ELSE released

Edge(in) ==
  /\ state' = NextState(in)
  /\ id' = IF Accept(in) THEN [id EXCEPT ![tail] = captureNextId] ELSE id
  /\ desc' = IF Accept(in) THEN [desc EXCEPT ![tail] = in.desc] ELSE desc
  /\ tail' = IF Accept(in) THEN Other(tail) ELSE tail
  /\ head' = IF Retire(in) THEN Other(head) ELSE head
  /\ CaptureSide(in)
  /\ ConsumerSide(in)
  /\ errors' = errors \cup Raised(in)

FBNext == \E in \in Inputs : Edge(in)

FBSpec == FBInit /\ [][FBNext]_fbVars
-----------------------------------------------------------------------------
FBTypeOK ==
  /\ state \in [Banks -> Owner] /\ id \in [Banks -> Ids] /\ desc \in [Banks -> Descs]
  /\ tail \in Banks /\ head \in Banks /\ writeBank \in Banks /\ readBank \in Banks
  /\ capturing \in BOOLEAN /\ imageSeen \in BOOLEAN /\ feSeen \in BOOLEAN
  /\ captureRelease \in BOOLEAN /\ credit \in BOOLEAN /\ dispatch \in BOOLEAN
  /\ consumerActive \in BOOLEAN /\ consumerReady \in BOOLEAN
  /\ consumerSof \in BOOLEAN /\ consumerImageDone \in BOOLEAN
  /\ consumerImageId \in Ids /\ consumerDesc \in Descs
  /\ captureNextId \in Ids /\ completedId \in Ids
  /\ accepted \in Ids /\ completed \in Ids /\ released \in Ids
  /\ errors \in SUBSET (0..4)

\* Whatever its neighbours do, the camera side and the consumer never hold the
\* same bank: the writer's bank is CAPTURING while a capture is open, the
\* reader's bank is CONSUMING while the consumer is active, and the two differ.
BankExclusion ==
  /\ capturing => state[writeBank] = "CAPTURING"
  /\ consumerActive => state[readBank] = "CONSUMING"
  /\ capturing /\ consumerActive => writeBank # readBank

\* The state of a bank is the flag of its owner: exactly one bank is being captured
\* into while a capture is open, the one before tail, and exactly one is being
\* read while the consumer is active, the one at head.
OwnerFlags ==
  /\ capturing => writeBank = Other(tail)
  /\ \A b \in Banks : (state[b] = "CAPTURING") <=> (capturing /\ b = writeBank)
  /\ consumerActive => readBank = head
  /\ \A b \in Banks : (state[b] = "CONSUMING") <=> (consumerActive /\ b = readBank)

\* The two banks are a FIFO: the owned banks are the ones from head up to tail,
\* and the older of two owned banks is never behind the younger one in its life.
RingOrder ==
  \/ head = tail /\ \A b \in Banks : state[b] = "FREE"
  \/ head # tail /\ state[head] # "FREE" /\ state[tail] = "FREE"
  \/ /\ head = tail
     /\ state[head] \in {"READY", "CONSUMING"}
     /\ state[Other(head)] \in {"CAPTURING", "READY"}

\* Frame ids and the 32-bit counters wrap together: the frame at the head of
\* the queue is the one numbered by "released", the one the camera will get next
\* the one numbered by "accepted", and they are as far apart as banks are owned.
Accounting ==
  /\ captureNextId = Ahead(InitialId, accepted)
  /\ \A b \in Banks : state[b] # "FREE" =>
       id[b] = Ahead(InitialId, IF b = head THEN released ELSE Inc(released))
  /\ accepted = CASE head = tail /\ state[head] = "FREE" -> released
                  [] head # tail -> Inc(released)
                  [] OTHER -> Inc(Inc(released))

\* An image completion is counted once for each accepted frame: "completed"
\* trails "accepted" exactly while a capture is still waiting for its image, so
\* the PS may compare it with the number of images it received.
CompletionCount ==
  accepted = IF capturing /\ ~imageSeen THEN Inc(completed) ELSE completed

\* At one edge a bank moves at most one step along its life, although four
\* independent assignments may address it.
Lifecycle == {<<"FREE", "CAPTURING">>, <<"CAPTURING", "READY">>,
              <<"READY", "CONSUMING">>, <<"CONSUMING", "FREE">>}
OneStepPerEdge ==
  [][\A b \in Banks : state'[b] # state[b] => <<state[b], state'[b]>> \in Lifecycle]_fbVars

\* A frame keeps its id and its (mode, margin) descriptor from the accepted SOF
\* to the consumer's release, and the consumer sees exactly those.
DescriptorKept ==
  [][/\ \A b \in Banks : state[b] # "FREE" => id'[b] = id[b] /\ desc'[b] = desc[b]
     /\ consumerActive /\ consumerActive' =>
          consumerImageId' = consumerImageId /\ consumerDesc' = consumerDesc]_fbVars

\* Fail closed: an error bit is never cleared, and once one is set no start of
\* frame is accepted and no bank is handed to the consumer.
FailClosed ==
  [][errors # {} =>
       /\ errors \subseteq errors'
       /\ accepted' = accepted
       /\ ~consumerSof']_fbVars

\* The controller is a FIFO of frames: the banks that are owned, from head on.
\* Ids, descriptors and the frame shown to the consumer are those of FrameQueue,
\* whatever the neighbours do.
OwnedFrom(b) ==
  LET f(c) == [id |-> id[c], tag |-> desc[c], stage |-> state[c]]
  IN  IF state[b] = "FREE" THEN <<>>
      ELSE IF state[Other(b)] = "FREE" THEN <<f(b)>> ELSE <<f(b), f(Other(b))>>

Queue == INSTANCE FrameQueue WITH
  FirstId <- InitialId, Depth <- 2, Tags <- Descs, NoTag <- NoDesc,
  queue <- OwnedFrom(head), nextId <- captureNextId,
  shown <- [id |-> consumerImageId, tag |-> consumerDesc]

ImplementsFrameQueue == Queue!QueueSpec
=============================================================================
