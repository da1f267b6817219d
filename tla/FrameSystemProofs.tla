------------------------- MODULE FrameSystemProofs -------------------------
(***************************************************************************)
(* The frame path: its two memories, the binary banks of the frame buffer  *)
(* controller and the ring of Gray8 slots, for ids of any width, any       *)
(* descriptors and any behaviour of their neighbours; and its safety as a  *)
(* whole, for every set of faults in its surroundings, any number of       *)
(* frames, and any interleaving of the clock, the engines, the service and *)
(* the loop.                                                               *)
(*                                                                         *)
(* Banks.  The inductive invariant FBInv adds to the types and to the      *)
(* order of the banks that the state of a bank is the flag of its owner    *)
(* (OwnerFlags): the guards of the four assignments to state[] test flags, *)
(* and the invariant turns them into facts about the banks they address.   *)
(* The lemmas about one edge are stated for all Signals, more than the     *)
(* Inputs of FrameBuffer: the wires of FrameSystem carry values also on    *)
(* edges without a pulse.                                                  *)
(*                                                                         *)
(* Queue.  The ring has three shapes: no bank is owned, one is, both are.  *)
(* In each of them what an edge does to the banks is what a step of        *)
(* FrameQueue does to the frames they hold (EdgeIsQueueStep).              *)
(*                                                                         *)
(* Slots.  The ownership of the ring is inductive together with its types, *)
(* and the life of a slot follows from it.                                 *)
(*                                                                         *)
(* Steps.  Next has many actions that share one clock edge, Hw(cmd).       *)
(* Lemma Steps reduces it to two forms: an edge (EdgeOf: the inputs each   *)
(* block finds, with or without a command), and a step of the software     *)
(* between two edges (Between).  Every invariant below has one lemma for   *)
(* each form.                                                              *)
(*                                                                         *)
(* Layers.  Each conjunct of the invariant is inductive relative to the    *)
(* ones before it.                                                         *)
(*   SystemTypeOK  types of all variables.                                 *)
(*   CoreInv       the logic, whatever the software does: the banks        *)
(*                 (BankInv), tap and writer (TapInv), contents of the     *)
(*                 banks (BramInv), and what the runtime has done with the *)
(*                 frame that is shown (ConsumerInv).                      *)
(*   ReceiverInv   the service: the ring of slots, where the credit, the   *)
(*                 image DMA and the reserved slot stand (CreditInv), what *)
(*                 the slots hold (DdrInv).                                *)
(*   LoopInv       where the loop stands tells where the runtime is; from  *)
(*                 it no block rejects a handshake (NoRejections).         *)
(*   DecodeInv     the slot that is decoded, its candidates, its number.   *)
(*   QuietInv      without faults: the image of the shown frame is ready   *)
(*                 whenever the loop asks for it.                          *)
(***************************************************************************)
EXTENDS FrameSystem, SequenceTheorems, TLAPS

USE IdMaxAssumption, FrameBufferAssumption

\* Whatever the input wires of the controller may carry at an edge.
Signals ==
  [enable : BOOLEAN, sof : BOOLEAN, imageDone : BOOLEAN, imageId : Ids, feReady : BOOLEAN,
   desc : Descs, release : BOOLEAN, cmdCredit : BOOLEAN, cmdDispatch : BOOLEAN]

LEMMA InputsAreSignals == Inputs \subseteq Signals
BY DEF Inputs, Signals

\* The increment of a register stays in the register.
LEMMA IncType == \A x \in Ids : Inc(x) \in Ids
BY DEF Inc, Ids

FBInv == FBTypeOK /\ OwnerFlags /\ RingOrder

\* An edge keeps the types, whatever the inputs.
LEMMA TypeStep ==
  ASSUME FBTypeOK, NEW in \in Signals, Edge(in)
  PROVE  FBTypeOK'
<1> USE DEF FBTypeOK, Signals, Banks
<1>1. state' \in [Banks -> Owner]
  BY DEF Edge, NextState, Owner
<1>2. id' \in [Banks -> Ids] /\ desc' \in [Banks -> Descs]
  BY DEF Edge
<1>3. tail' \in Banks /\ head' \in Banks /\ writeBank' \in Banks /\ readBank' \in Banks
  BY DEF Edge, CaptureSide, ConsumerSide, Other
<1>4. /\ capturing' \in BOOLEAN /\ imageSeen' \in BOOLEAN /\ feSeen' \in BOOLEAN
      /\ captureRelease' \in BOOLEAN /\ credit' \in BOOLEAN
  BY DEF Edge, CaptureSide, Accept, CaptureAllowed, Commit, ImageOk
<1>5. /\ dispatch' \in BOOLEAN /\ consumerActive' \in BOOLEAN
      /\ consumerReady' \in BOOLEAN /\ consumerSof' \in BOOLEAN
      /\ consumerImageDone' \in BOOLEAN
  BY DEF Edge, ConsumerSide, Grant, Retire
<1>6. /\ captureNextId' \in Ids /\ completedId' \in Ids
      /\ accepted' \in Ids /\ completed' \in Ids
  BY IncType DEF Edge, CaptureSide
<1>7. consumerImageId' \in Ids /\ consumerDesc' \in Descs /\ released' \in Ids
  BY IncType DEF Edge, ConsumerSide
<1>8. errors' \in SUBSET (0..4)
  BY DEF Edge, Raised
<1>9. QED
  BY <1>1, <1>2, <1>3, <1>4, <1>5, <1>6, <1>7, <1>8

\* Under the invariant the four assignments to state[] never address one bank at
\* one edge, so the order in which the source writes them does not matter.
LEMMA NextStateAt ==
  ASSUME FBInv, NEW in \in Signals, Edge(in), NEW b \in Banks
  PROVE  state'[b] = CASE Accept(in) /\ b = tail -> "CAPTURING"
                       [] Commit /\ b = writeBank -> "READY"
                       [] Grant /\ b = head -> "CONSUMING"
                       [] Retire(in) /\ b = head -> "FREE"
                       [] OTHER -> state[b]
BY DEF FBInv, FBTypeOK, OwnerFlags, Edge, NextState, Accept, CaptureAllowed, Commit, Grant,
       Retire, Banks

LEMMA FBInvInit == FBInit => FBInv
<1> SUFFICES ASSUME FBInit PROVE FBInv
  OBVIOUS
<1>1. 0 \in Ids
  BY DEF Ids
<1>2. /\ state = [b \in Banks |-> "FREE"] /\ id = [b \in Banks |-> 0]
      /\ desc = [b \in Banks |-> NoDesc] /\ errors = {}
  BY DEF FBInit
<1>3. FBTypeOK
  <2>1. /\ state \in [Banks -> Owner] /\ id \in [Banks -> Ids] /\ desc \in [Banks -> Descs]
        /\ errors \in SUBSET (0..4)
    BY <1>1, <1>2 DEF Owner
  <2>2. QED
    BY <1>1, <2>1 DEF FBInit, FBTypeOK, Banks
<1>4. OwnerFlags /\ RingOrder
  BY DEF FBInit, OwnerFlags, RingOrder, Banks
<1>5. QED
  BY <1>3, <1>4 DEF FBInv

\* What each event finds: the bank it moves, and the other one.
LEMMA EventGuards ==
  ASSUME FBInv, NEW in \in Signals
  PROVE  /\ Accept(in) => ~capturing /\ state[tail] = "FREE"
         /\ Commit => capturing /\ state[writeBank] = "CAPTURING" /\ writeBank = Other(tail)
         /\ Grant => ~consumerActive /\ state[head] = "READY"
         /\ Retire(in) => consumerActive /\ state[head] = "CONSUMING"
BY DEF FBInv, FBTypeOK, OwnerFlags, Accept, CaptureAllowed, Commit, Grant, Retire, Banks

\* The flags of the owners follow the banks.
LEMMA OwnerFlagsStep ==
  ASSUME FBInv, NEW in \in Signals, Edge(in)
  PROVE  OwnerFlags'
<1> USE DEF FBInv, FBTypeOK, Banks
<1>1. /\ capturing' = ((capturing \/ Accept(in)) /\ ~Commit)
      /\ writeBank' = IF Accept(in) THEN tail ELSE writeBank
      /\ tail' = IF Accept(in) THEN Other(tail) ELSE tail
  BY DEF Edge, CaptureSide
<1>2. /\ consumerActive' = ((consumerActive \/ Grant) /\ ~Retire(in))
      /\ readBank' = IF Grant THEN head ELSE readBank
      /\ head' = IF Retire(in) THEN Other(head) ELSE head
  BY DEF Edge, ConsumerSide
<1>3. capturing' => writeBank' = Other(tail')
  BY <1>1, EventGuards DEF OwnerFlags, Other
<1>4. \A b \in Banks : (state'[b] = "CAPTURING") <=> (capturing' /\ b = writeBank')
  BY <1>1, EventGuards, NextStateAt DEF OwnerFlags, Other
<1>5. consumerActive' => readBank' = head'
  BY <1>2, EventGuards DEF OwnerFlags
<1>6. \A b \in Banks : (state'[b] = "CONSUMING") <=> (consumerActive' /\ b = readBank')
  BY <1>2, EventGuards, NextStateAt DEF OwnerFlags
<1>7. QED
  BY <1>3, <1>4, <1>5, <1>6 DEF OwnerFlags

\* The owned banks stay the ones from head up to tail, oldest first.
LEMMA RingOrderStep ==
  ASSUME FBInv, NEW in \in Signals, Edge(in)
  PROVE  RingOrder'
<1> USE DEF FBInv, FBTypeOK, Banks, Owner
<1>1. /\ tail' = IF Accept(in) THEN Other(tail) ELSE tail
      /\ head' = IF Retire(in) THEN Other(head) ELSE head
  BY DEF Edge
<1>2. CASE head = tail /\ \A b \in Banks : state[b] = "FREE"
  BY <1>1, <1>2, EventGuards, NextStateAt DEF RingOrder, Other, OwnerFlags
<1>3. CASE head # tail /\ state[head] # "FREE" /\ state[tail] = "FREE"
  BY <1>1, <1>3, EventGuards, NextStateAt DEF RingOrder, Other, OwnerFlags
<1>4. CASE /\ head = tail
           /\ state[head] \in {"READY", "CONSUMING"}
           /\ state[Other(head)] \in {"CAPTURING", "READY"}
  BY <1>1, <1>4, EventGuards, NextStateAt DEF RingOrder, Other, OwnerFlags
<1>5. QED
  BY <1>2, <1>3, <1>4 DEF RingOrder

LEMMA FBInvNext == FBInv /\ [FBNext]_fbVars => FBInv'
<1> SUFFICES ASSUME FBInv, [FBNext]_fbVars PROVE FBInv'
  OBVIOUS
<1>1. ASSUME NEW in \in Signals, Edge(in) PROVE FBInv'
  BY <1>1, TypeStep, OwnerFlagsStep, RingOrderStep DEF FBInv
<1>2. CASE UNCHANGED fbVars
  BY <1>2 DEF FBInv, FBTypeOK, OwnerFlags, RingOrder, fbVars, capVars, conVars, bankVars, cntVars
<1>3. QED
  BY <1>1, <1>2, InputsAreSignals DEF FBNext

LEMMA FBInvariant == FBSpec => []FBInv
BY FBInvInit, FBInvNext, PTL DEF FBSpec

\* The registers keep their types.
THEOREM FBTypeCorrect == FBSpec => []FBTypeOK
BY FBInvariant, PTL DEF FBInv

\* The camera side and the consumer never hold the same bank.
THEOREM BankExclusionHolds == FBSpec => []BankExclusion
<1>1. FBInv => BankExclusion
  BY DEF FBInv, FBTypeOK, OwnerFlags, BankExclusion, Banks
<1>2. QED
  BY <1>1, FBInvariant, PTL

\* The two banks are a FIFO.
THEOREM RingOrderHolds == FBSpec => []RingOrder
BY FBInvariant, PTL DEF FBInv

-----------------------------------------------------------------------------
(* The frame numbers.                                                       *)

\* The register that is n ahead stays in the register, and counting one more
\* frame moves it by one, also where either of them wraps.
LEMMA AheadInc ==
  \A x, n \in Ids : Ahead(x, n) \in Ids /\ Inc(Ahead(x, n)) = Ahead(x, Inc(n))
BY DEF Ahead, Inc, Ids

\* The order of the counters and of the ids: three shapes of the queue.
LEMMA AccountingStep ==
  ASSUME FBInv, Accounting, NEW in \in Signals, Edge(in)
  PROVE  Accounting'
<1> USE DEF FBInv, FBTypeOK, Banks, Owner
<1>1. /\ tail' = IF Accept(in) THEN Other(tail) ELSE tail
      /\ head' = IF Retire(in) THEN Other(head) ELSE head
      /\ id' = IF Accept(in) THEN [id EXCEPT ![tail] = captureNextId] ELSE id
      /\ captureNextId' = IF Accept(in) THEN Inc(captureNextId) ELSE captureNextId
      /\ accepted' = IF Accept(in) THEN Inc(accepted) ELSE accepted
      /\ released' = IF Retire(in) THEN Inc(released) ELSE released
  BY DEF Edge, CaptureSide, ConsumerSide
<1>2. captureNextId' = Ahead(InitialId, accepted')
  BY <1>1, AheadInc DEF Accounting
<1>3. accepted' = CASE head' = tail' /\ state'[head'] = "FREE" -> released'
                    [] head' # tail' -> Inc(released')
                    [] OTHER -> Inc(Inc(released'))
  <2>1. CASE head = tail /\ \A b \in Banks : state[b] = "FREE"
    BY <1>1, <2>1, EventGuards, NextStateAt DEF Accounting, Other
  <2>2. CASE head # tail /\ state[head] # "FREE" /\ state[tail] = "FREE"
    BY <1>1, <2>2, EventGuards, NextStateAt DEF Accounting, Other, OwnerFlags
  <2>3. CASE /\ head = tail
             /\ state[head] \in {"READY", "CONSUMING"}
             /\ state[Other(head)] \in {"CAPTURING", "READY"}
    BY <1>1, <2>3, EventGuards, NextStateAt DEF Accounting, Other, OwnerFlags
  <2>4. QED
    BY <2>1, <2>2, <2>3 DEF RingOrder
<1>4. ASSUME NEW b \in Banks, state'[b] # "FREE"
      PROVE  id'[b] = Ahead(InitialId, IF b = head' THEN released' ELSE Inc(released'))
  <2>1. CASE head = tail /\ \A c \in Banks : state[c] = "FREE"
    BY <1>1, <1>4, <2>1, EventGuards, NextStateAt DEF Accounting, Other
  <2>2. CASE head # tail /\ state[head] # "FREE" /\ state[tail] = "FREE"
    BY <1>1, <1>4, <2>2, EventGuards, NextStateAt DEF Accounting, Other, OwnerFlags
  <2>3. CASE /\ head = tail
             /\ state[head] \in {"READY", "CONSUMING"}
             /\ state[Other(head)] \in {"CAPTURING", "READY"}
    BY <1>1, <1>4, <2>3, EventGuards, NextStateAt DEF Accounting, Other, OwnerFlags
  <2>4. QED
    BY <2>1, <2>2, <2>3 DEF RingOrder
<1>5. QED
  BY <1>2, <1>3, <1>4 DEF Accounting

LEMMA AccountingInit == FBInit => Accounting
<1>1. Ahead(InitialId, 0) = InitialId
  BY DEF Ahead, Ids
<1>2. QED
  BY <1>1 DEF FBInit, Accounting, Banks

\* Ids and counters wrap together, for every width and every first id.
THEOREM AccountingHolds == FBSpec => []Accounting
<1>1. FBInit => Accounting
  BY AccountingInit
<1>2. FBInv /\ Accounting /\ [FBNext]_fbVars => Accounting'
  <2> SUFFICES ASSUME FBInv, Accounting, [FBNext]_fbVars PROVE Accounting'
    OBVIOUS
  <2>1. CASE UNCHANGED fbVars
    BY <2>1 DEF Accounting, fbVars, capVars, conVars, bankVars, cntVars
  <2>2. QED
    BY <2>1, AccountingStep, InputsAreSignals DEF FBNext
<1>3. QED
  BY <1>1, <1>2, FBInvariant, PTL DEF FBSpec

\* An accepted frame waits for its image until the completion is counted.
LEMMA CompletionCountStep ==
  ASSUME FBInv, CompletionCount, NEW in \in Signals, Edge(in)
  PROVE  CompletionCount'
BY DEF FBInv, FBTypeOK, CompletionCount, Edge, CaptureSide, Accept, CaptureAllowed, ImageOk, Commit

\* One image completion is counted for each accepted frame.
THEOREM CompletionCountHolds == FBSpec => []CompletionCount
<1>1. FBInit => CompletionCount
  BY DEF FBInit, CompletionCount
<1>2. FBInv /\ CompletionCount /\ [FBNext]_fbVars => CompletionCount'
  <2> SUFFICES ASSUME FBInv, CompletionCount, [FBNext]_fbVars PROVE CompletionCount'
    OBVIOUS
  <2>1. CASE UNCHANGED fbVars
    BY <2>1 DEF CompletionCount, fbVars, capVars, cntVars
  <2>2. QED
    BY <2>1, CompletionCountStep, InputsAreSignals DEF FBNext
<1>3. QED
  BY <1>1, <1>2, FBInvariant, PTL DEF FBSpec

-----------------------------------------------------------------------------
(* What an edge may never do.                                               *)

\* A bank moves at most one step along its life at one edge.
THEOREM OneStepPerEdgeHolds == FBSpec => OneStepPerEdge
<1> DEFINE A == \A b \in Banks : state'[b] # state[b] => <<state[b], state'[b]>> \in Lifecycle
<1>1. FBInv /\ [FBNext]_fbVars => [A]_fbVars
  <2> SUFFICES ASSUME FBInv, NEW in \in Signals, Edge(in), NEW b \in Banks, state'[b] # state[b]
               PROVE  <<state[b], state'[b]>> \in Lifecycle
    BY InputsAreSignals DEF FBNext
  <2>1. \/ state[b] = "FREE" /\ state'[b] = "CAPTURING"
        \/ state[b] = "CAPTURING" /\ state'[b] = "READY"
        \/ state[b] = "READY" /\ state'[b] = "CONSUMING"
        \/ state[b] = "CONSUMING" /\ state'[b] = "FREE"
    BY EventGuards, NextStateAt
  <2>2. QED
    BY <2>1 DEF Lifecycle
<1>2. QED
  BY <1>1, FBInvariant, PTL DEF FBSpec, OneStepPerEdge

\* A frame keeps its id and its descriptor, and so does the consumer's view of it.
THEOREM DescriptorKeptHolds == FBSpec => DescriptorKept
<1> DEFINE A == /\ \A b \in Banks : state[b] # "FREE" => id'[b] = id[b] /\ desc'[b] = desc[b]
                /\ consumerActive /\ consumerActive' =>
                     consumerImageId' = consumerImageId /\ consumerDesc' = consumerDesc
<1>1. FBInv /\ [FBNext]_fbVars => [A]_fbVars
  <2> SUFFICES ASSUME FBInv, NEW in \in Signals, Edge(in) PROVE A
    BY InputsAreSignals DEF FBNext
  <2>1. \A b \in Banks : state[b] # "FREE" => id'[b] = id[b] /\ desc'[b] = desc[b]
    BY EventGuards DEF FBInv, FBTypeOK, Edge
  <2>2. consumerActive =>
          consumerImageId' = consumerImageId /\ consumerDesc' = consumerDesc
    BY EventGuards DEF Edge, ConsumerSide
  <2>3. QED
    BY <2>1, <2>2
<1>2. QED
  BY <1>1, FBInvariant, PTL DEF FBSpec, DescriptorKept

\* Once an error is raised nothing is accepted or handed out any more.
THEOREM FailClosedHolds == FBSpec => FailClosed
<1> DEFINE A == errors # {} => /\ errors \subseteq errors'
                               /\ accepted' = accepted
                               /\ ~consumerSof'
<1>1. [FBNext]_fbVars => [A]_fbVars
  <2> SUFFICES ASSUME NEW in \in Signals, Edge(in), errors # {} PROVE A
    BY InputsAreSignals DEF FBNext
  <2>1. ~Accept(in) /\ ~Grant
    BY DEF Accept, CaptureAllowed, Grant
  <2>2. QED
    BY <2>1 DEF Edge, CaptureSide, ConsumerSide
<1>2. QED
  BY <1>1, PTL DEF FBSpec, FailClosed

-----------------------------------------------------------------------------
(* The controller implements the queue of frames.                           *)

\* A bank as a frame of the queue.
BankFrame(b) == [id |-> id[b], tag |-> desc[b], stage |-> state[b]]

\* The same bank after an edge.
After(b) == [id |-> id'[b], tag |-> desc'[b], stage |-> state'[b]]

\* The second frame of a queue.
LEMMA AppendToOne ==
  ASSUME NEW u, NEW v
  PROVE  Append(<<u>>, v) = <<u, v>>
<1>1. <<u>> \in Seq({u, v}) /\ v \in {u, v} /\ <<u, v>> \in Seq({u, v})
  OBVIOUS
<1>2. /\ Append(<<u>>, v) \in Seq({u, v}) /\ Len(Append(<<u>>, v)) = 2
      /\ Append(<<u>>, v)[1] = u /\ Append(<<u>>, v)[2] = v
  BY <1>1, AppendProperties
<1>3. Len(<<u, v>>) = 2 /\ <<u, v>>[1] = u /\ <<u, v>>[2] = v
  OBVIOUS
<1>4. \A i \in 1..2 : Append(<<u>>, v)[i] = <<u, v>>[i]
  <2>1. \A i \in 1..2 : i = 1 \/ i = 2
    OBVIOUS
  <2>2. QED
    BY <1>2, <1>3, <2>1, Zenon
<1>5. QED
  BY <1>1, <1>2, <1>3, <1>4, SeqEqual

\* What advancing does to a queue of one and of two frames.
LEMMA AdvanceOne ==
  ASSUME NEW x, NEW adv, OwnedFrom(head) = <<x>>
  PROVE  Queue!Advance(adv) = <<IF 1 \in adv THEN Queue!Advanced(x) ELSE x>>
<1>1. DOMAIN <<x>> = {1}
  OBVIOUS
<1>2. QED
  BY <1>1 DEF Queue!Advance

LEMMA AdvanceTwo ==
  ASSUME NEW x, NEW y, NEW adv, OwnedFrom(head) = <<x, y>>
  PROVE  Queue!Advance(adv) = <<IF 1 \in adv THEN Queue!Advanced(x) ELSE x,
                                IF 2 \in adv THEN Queue!Advanced(y) ELSE y>>
<1>1. DOMAIN <<x, y>> = {1, 2}
  OBVIOUS
<1>2. QED
  BY <1>1 DEF Queue!Advance

LEMMA FrameAdvanced ==
  ASSUME NEW b \in Banks
  PROVE  Queue!Advanced(BankFrame(b)) =
           [id |-> id[b], tag |-> desc[b],
            stage |-> IF state[b] = "CAPTURING" THEN "READY" ELSE "CONSUMING"]
BY DEF Queue!Advanced, BankFrame


LEMMA OwnedShapes ==
  ASSUME FBInv
  PROVE  /\ head = tail /\ state[head] = "FREE" => OwnedFrom(head) = <<>>
         /\ head # tail => OwnedFrom(head) = <<BankFrame(head)>>
         /\ head = tail /\ state[head] # "FREE" =>
              OwnedFrom(head) = <<BankFrame(head), BankFrame(Other(head))>>
<1> USE DEF FBInv, FBTypeOK, RingOrder, Banks, Other
<1>1. head = tail /\ state[head] = "FREE" => OwnedFrom(head) = <<>>
  BY Zenon DEF OwnedFrom
<1>2. head # tail => OwnedFrom(head) = <<BankFrame(head)>>
  <2>1. head # tail => state[head] # "FREE" /\ state[Other(head)] = "FREE"
    OBVIOUS
  <2>2. QED
    BY <2>1 DEF OwnedFrom, BankFrame
<1>3. head = tail /\ state[head] # "FREE" =>
        OwnedFrom(head) = <<BankFrame(head), BankFrame(Other(head))>>
  <2>1. head = tail /\ state[head] # "FREE" => state[Other(head)] # "FREE"
    OBVIOUS
  <2>2. QED
    BY <2>1 DEF OwnedFrom, BankFrame
<1>4. QED
  BY <1>1, <1>2, <1>3

\* The same, of the banks after an edge.
LEMMA OwnedShapesNext ==
  ASSUME FBInv'
  PROVE  /\ head' = tail' /\ state'[head'] = "FREE" => OwnedFrom(head)' = <<>>
         /\ head' # tail' => OwnedFrom(head)' = <<After(head')>>
         /\ head' = tail' /\ state'[head'] # "FREE" =>
              OwnedFrom(head)' = <<After(head'), After(Other(head'))>>
<1> USE DEF FBInv, FBTypeOK, RingOrder, Banks, Other
<1>1. head' = tail' /\ state'[head'] = "FREE" => OwnedFrom(head)' = <<>>
  BY Zenon DEF OwnedFrom
<1>2. head' # tail' => OwnedFrom(head)' = <<After(head')>>
  <2>1. head' # tail' => state'[head'] # "FREE" /\ state'[tail'] = "FREE"
    BY Zenon
  <2>2. head' \in {0, 1} /\ tail' \in {0, 1}
    BY Zenon
  <2>3. head' # tail' => tail' = Other(head')
    <3>1. \A h, t \in {0, 1} : h # t => t = Other(h)
      BY DEF Other
    <3>2. QED
      BY <2>2, <3>1, Zenon
  <2>4. QED
    BY <2>1, <2>3 DEF OwnedFrom, After
<1>3. head' = tail' /\ state'[head'] # "FREE" =>
        OwnedFrom(head)' = <<After(head'), After(Other(head'))>>
  <2>1. head' = tail' /\ state'[head'] # "FREE" => state'[Other(head')] # "FREE"
    OBVIOUS
  <2>2. QED
    BY <2>1 DEF OwnedFrom, After
<1>4. QED
  BY <1>1, <1>2, <1>3

\* What enters the queue at an edge, and which of its frames advance.
Entering(in) == IF Accept(in) THEN {in.desc} ELSE {}
Advancing == {i \in DOMAIN OwnedFrom(head) :
                \/ Commit /\ OwnedFrom(head)[i].stage = "CAPTURING"
                \/ Grant /\ i = 1}

\* The record of a bank after an edge: a new frame, an advanced one, or the same.
LEMMA BankFrameNext ==
  ASSUME FBInv, NEW in \in Signals, Edge(in), NEW b \in Banks
  PROVE  /\ Accept(in) /\ b = tail =>
              After(b) = Queue!Frame(captureNextId, in.desc, "CAPTURING")
         /\ (Commit /\ state[b] = "CAPTURING") \/ (Grant /\ b = head) =>
              After(b) = Queue!Advanced(BankFrame(b))
         /\ \/ Accept(in) /\ b = tail
            \/ Commit /\ state[b] = "CAPTURING"
            \/ Grant /\ b = head
            \/ Retire(in) /\ b = head
            \/ After(b) = BankFrame(b)
<1>1. /\ id' = IF Accept(in) THEN [id EXCEPT ![tail] = captureNextId] ELSE id
      /\ desc' = IF Accept(in) THEN [desc EXCEPT ![tail] = in.desc] ELSE desc
  BY DEF Edge
<1>2. /\ Accept(in) => state[tail] = "FREE"
      /\ Commit => state[writeBank] = "CAPTURING"
      /\ Grant => state[head] = "READY"
      /\ Retire(in) => state[head] = "CONSUMING"
  BY EventGuards
<1>3. state[b] = "CAPTURING" => b = writeBank
  BY DEF FBInv, OwnerFlags
<1>4. /\ tail \in Banks /\ id \in [Banks -> Ids] /\ desc \in [Banks -> Descs]
  BY DEF FBInv, FBTypeOK
<1>5. ASSUME Accept(in), b = tail
      PROVE  After(b) = Queue!Frame(captureNextId, in.desc, "CAPTURING")
  <2>1. state'[b] = "CAPTURING"
    BY <1>2, <1>5, NextStateAt
  <2>2. id'[b] = captureNextId /\ desc'[b] = in.desc
    BY <1>1, <1>4, <1>5
  <2>3. QED
    BY <2>1, <2>2 DEF After, Queue!Frame
<1>6. ASSUME (Commit /\ state[b] = "CAPTURING") \/ (Grant /\ b = head)
      PROVE  After(b) = Queue!Advanced(BankFrame(b))
  <2>1. state'[b] = IF state[b] = "CAPTURING" THEN "READY" ELSE "CONSUMING"
    BY <1>2, <1>3, <1>6, NextStateAt
  <2>2. id'[b] = id[b] /\ desc'[b] = desc[b]
    BY <1>1, <1>2, <1>4, <1>6
  <2>3. QED
    BY <2>1, <2>2, FrameAdvanced DEF After
<1>7. ASSUME ~(Accept(in) /\ b = tail), ~(Commit /\ state[b] = "CAPTURING"),
             ~(Grant /\ b = head), ~(Retire(in) /\ b = head)
      PROVE  After(b) = BankFrame(b)
  <2>1. state'[b] = state[b]
    BY <1>2, <1>3, <1>7, NextStateAt
  <2>2. id'[b] = id[b] /\ desc'[b] = desc[b]
    BY <1>1, <1>4, <1>7
  <2>3. QED
    BY <2>1, <2>2 DEF After, BankFrame
<1>8. QED
  BY <1>5, <1>6, <1>7

\* Every edge is a step of the queue: the frames that advance, the one that leaves
\* and the one that enters are those of the three shapes of the ring.
LEMMA EdgeIsQueueStep ==
  ASSUME FBInv, FBInv', NEW in \in Signals, Edge(in)
  PROVE  Queue!Step(Advancing, Retire(in), Entering(in))
<1> DEFINE q == OwnedFrom(head)
           x == BankFrame(head)
           y == BankFrame(Other(head))
           a == Queue!Advance(Advancing)
           rest == IF Retire(in) THEN Tail(a) ELSE a
           new == Queue!Frame(captureNextId, in.desc, "CAPTURING")
<1>1. /\ tail' = IF Accept(in) THEN Other(tail) ELSE tail
      /\ head' = IF Retire(in) THEN Other(head) ELSE head
      /\ captureNextId' = IF Accept(in) THEN Inc(captureNextId) ELSE captureNextId
      /\ consumerImageId' = IF Grant THEN id[head] ELSE consumerImageId
      /\ consumerDesc' = IF Grant THEN desc[head] ELSE consumerDesc
  BY DEF Edge, CaptureSide, ConsumerSide
<1>2. /\ Accept(in) => state[tail] = "FREE" /\ ~capturing
      /\ Commit => state[writeBank] = "CAPTURING" /\ writeBank = Other(tail)
      /\ Grant => state[head] = "READY"
      /\ Retire(in) => state[head] = "CONSUMING"
  BY EventGuards
<1>3. /\ head \in Banks /\ tail \in Banks /\ Other(head) \in Banks /\ Other(tail) \in Banks
      /\ Other(Other(head)) = head /\ Other(head) # head
      /\ head # tail => tail = Other(head) /\ head = Other(tail)
  BY DEF FBInv, FBTypeOK, Banks, Other
<1>4. /\ x.stage = state[head] /\ x.id = id[head] /\ x.tag = desc[head]
      /\ y.stage = state[Other(head)]
  BY DEF BankFrame
<1> HIDE DEF x, y, a, rest, new
<1> DEFINE Fits == /\ \A i \in Advancing : Queue!MayAdvance(i)
                   /\ Retire(in) => Queue!MayLeave
                   /\ Accept(in) => Queue!MayEnter
                   /\ OwnedFrom(head)' = IF Accept(in) THEN Append(rest, new) ELSE rest
                   /\ 1 \in Advancing /\ q[1].stage = "READY" <=> Grant
                   /\ Grant => q[1] = x
<1>5. ASSUME head = tail, state[head] = "FREE" PROVE Fits
  <2>1. q = <<>>
    BY <1>5, OwnedShapes
  <2>2. \A b \in Banks : state[b] = "FREE"
    BY <1>5, <1>3 DEF FBInv, RingOrder
  <2>3. ~Commit /\ ~Grant /\ ~Retire(in)
    BY <1>2, <1>3, <2>2
  <2>4. Advancing = {}
    BY <2>3 DEF Advancing
  <2>5. rest = <<>>
    BY <2>1, <2>3 DEF rest, a, Queue!Advance
  <2>6. Queue!MayEnter
    BY <2>1 DEF Queue!MayEnter
  <2>7. OwnedFrom(head)' = IF Accept(in) THEN Append(rest, new) ELSE rest
    <3>1. CASE Accept(in)
      <4>1. head' = head /\ tail' = Other(head)
        BY <1>1, <1>5, <2>3, <3>1
      <4>2. OwnedFrom(head)' = <<After(head')>>
        BY <1>3, <4>1, OwnedShapesNext
      <4>3. After(head) = new
        BY <1>3, <1>5, <3>1, BankFrameNext DEF new
      <4>4. QED
        BY <2>5, <3>1, <4>1, <4>2, <4>3
    <3>2. CASE ~Accept(in)
      <4>1. head' = head /\ tail' = tail
        BY <1>1, <2>3, <3>2
      <4>2. state'[head] = "FREE"
        BY <1>3, <1>5, <2>3, <3>2, NextStateAt
      <4>3. QED
        BY <1>5, <2>5, <3>2, <4>1, <4>2, OwnedShapesNext
    <3>3. QED
      BY <3>1, <3>2
  <2>8. QED
    BY <2>3, <2>4, <2>6, <2>7
<1>6. ASSUME head # tail PROVE Fits
  <2>1. q = <<x>> /\ DOMAIN q = {1} /\ q[1] = x /\ Len(q) = 1
    BY <1>6, OwnedShapes DEF x
  <2>2. /\ state[head] # "FREE" /\ state[tail] = "FREE" /\ tail = Other(head)
        /\ Commit => state[head] = "CAPTURING"
    BY <1>2, <1>3, <1>6 DEF FBInv, RingOrder
  <2>3. Advancing = IF Commit \/ Grant THEN {1} ELSE {}
    BY <1>2, <1>4, <2>1, <2>2 DEF Advancing
  <2>4. a = <<IF Commit \/ Grant THEN Queue!Advanced(x) ELSE x>>
    BY <2>1, <2>3, AdvanceOne DEF a
  <2>5. ~Retire(in) => a = <<After(head)>>
    BY <1>3, <2>2, <2>4, BankFrameNext DEF x
  <2>6. Accept(in) => After(tail) = new
    BY <1>3, BankFrameNext DEF new
  <2>7. OwnedFrom(head)' = IF Accept(in) THEN Append(rest, new) ELSE rest
    <3>1. CASE ~Retire(in) /\ Accept(in)
      <4>1. head' = head /\ tail' = head
        BY <1>1, <1>3, <2>2, <3>1
      <4>2. state'[head] # "FREE"
        BY <1>3, <2>2, <3>1, NextStateAt
      <4>3. OwnedFrom(head)' = <<After(head), After(tail)>>
        BY <2>2, <4>1, <4>2, OwnedShapesNext
      <4>4. rest = <<After(head)>>
        BY <2>5, <3>1 DEF rest
      <4>5. QED
        BY <2>6, <3>1, <4>3, <4>4, AppendToOne
    <3>2. CASE ~Retire(in) /\ ~Accept(in)
      <4>1. head' = head /\ tail' = tail
        BY <1>1, <3>2
      <4>2. QED
        BY <1>6, <2>5, <3>2, <4>1, OwnedShapesNext DEF rest
    <3>3. CASE Retire(in) /\ Accept(in)
      <4>1. head' = tail /\ tail' = head
        BY <1>1, <1>3, <2>2, <3>3
      <4>2. rest = <<>>
        BY <2>4, <3>3 DEF rest
      <4>3. OwnedFrom(head)' = <<After(tail)>>
        BY <1>6, <4>1, OwnedShapesNext
      <4>4. QED
        BY <2>6, <3>3, <4>2, <4>3
    <3>4. CASE Retire(in) /\ ~Accept(in)
      <4>1. head' = tail /\ tail' = tail
        BY <1>1, <2>2, <3>4
      <4>2. rest = <<>>
        BY <2>4, <3>4 DEF rest
      <4>3. state'[tail] = "FREE"
        BY <1>2, <1>3, <2>2, <3>4, NextStateAt
      <4>4. QED
        BY <3>4, <4>1, <4>2, <4>3, OwnedShapesNext
    <3>5. QED
      BY <3>1, <3>2, <3>3, <3>4
  <2>8. \A i \in Advancing : Queue!MayAdvance(i)
    BY <1>2, <1>4, <2>1, <2>2, <2>3 DEF Queue!MayAdvance
  <2>9. /\ Retire(in) => Queue!MayLeave
        /\ Accept(in) => Queue!MayEnter
    <3>1. Retire(in) => Queue!MayLeave
      BY <1>2, <1>4, <2>1 DEF Queue!MayLeave
    <3>2. Accept(in) => state[head] # "CAPTURING"
      BY <1>2, <1>3 DEF FBInv, OwnerFlags
    <3>3. Accept(in) => Queue!MayEnter
      BY <1>4, <2>1, <3>2 DEF Queue!MayEnter
    <3>4. QED
      BY <3>1, <3>3
  <2>10. /\ 1 \in Advancing /\ q[1].stage = "READY" <=> Grant
         /\ Grant => q[1] = x
    BY <1>2, <1>4, <2>1, <2>2, <2>3
  <2>11. QED
    BY <2>7, <2>8, <2>9, <2>10
<1>7. ASSUME head = tail, state[head] # "FREE" PROVE Fits
  <2>1. q = <<x, y>> /\ DOMAIN q = {1, 2} /\ q[1] = x /\ q[2] = y
    BY <1>7, OwnedShapes DEF x, y
  <2>2. /\ state[head] \in {"READY", "CONSUMING"}
        /\ state[Other(head)] \in {"CAPTURING", "READY"}
    BY <1>3, <1>7 DEF FBInv, RingOrder
  <2>3. ~Accept(in) /\ (Commit => state[Other(head)] = "CAPTURING")
    BY <1>2, <1>7
  <2>4. /\ 1 \in Advancing <=> Grant
        /\ 2 \in Advancing <=> Commit
        /\ Advancing \subseteq {1, 2}
    BY <1>2, <1>4, <2>1, <2>2, <2>3 DEF Advancing
  <2>5. a = <<IF Grant THEN Queue!Advanced(x) ELSE x, IF Commit THEN Queue!Advanced(y) ELSE y>>
    BY <2>1, <2>4, AdvanceTwo DEF a
  <2>6. After(Other(head)) = IF Commit THEN Queue!Advanced(y) ELSE y
    BY <1>3, <2>2, <2>3, BankFrameNext DEF y
  <2>7. ~Retire(in) => After(head) = IF Grant THEN Queue!Advanced(x) ELSE x
    BY <1>3, <2>2, <2>3, BankFrameNext DEF x
  <2>8. OwnedFrom(head)' = rest
    <3>1. CASE ~Retire(in)
      <4>1. head' = head /\ tail' = head
        BY <1>1, <1>7, <2>3, <3>1
      <4>2. state'[head] # "FREE"
        BY <1>3, <1>7, <2>3, <3>1, NextStateAt
      <4>3. OwnedFrom(head)' = <<After(head), After(Other(head))>>
        BY <4>1, <4>2, OwnedShapesNext
      <4>4. QED
        BY <2>5, <2>6, <2>7, <3>1, <4>3 DEF rest
    <3>2. CASE Retire(in)
      <4>1. head' = Other(head) /\ tail' = head
        BY <1>1, <1>7, <2>3, <3>2
      <4>2. OwnedFrom(head)' = <<After(Other(head))>>
        BY <1>3, <4>1, OwnedShapesNext
      <4>3. QED
        BY <2>5, <2>6, <3>2, <4>2 DEF rest
    <3>3. QED
      BY <3>1, <3>2
  <2>9. /\ \A i \in Advancing : Queue!MayAdvance(i)
        /\ Retire(in) => Queue!MayLeave
    <3>1. Grant => Queue!MayAdvance(1)
      BY <1>2, <1>4, <2>1 DEF Queue!MayAdvance
    <3>2. Commit => Queue!MayAdvance(2)
      BY <1>4, <2>1, <2>3 DEF Queue!MayAdvance
    <3>3. Retire(in) => Queue!MayLeave
      BY <1>2, <1>4, <2>1 DEF Queue!MayLeave
    <3>4. QED
      BY <2>4, <3>1, <3>2, <3>3
  <2>10. /\ 1 \in Advancing /\ q[1].stage = "READY" <=> Grant
         /\ Grant => q[1] = x
    BY <1>2, <1>4, <2>1, <2>4
  <2>11. QED
    BY <2>3, <2>8, <2>9, <2>10
<1>8. Fits
  BY <1>5, <1>6, <1>7
<1>9. [id |-> consumerImageId, tag |-> consumerDesc]' =
        IF Grant THEN [id |-> id[head], tag |-> desc[head]]
        ELSE [id |-> consumerImageId, tag |-> consumerDesc]
  BY <1>1
<1>10. \/ /\ Entering(in) = {}
          /\ OwnedFrom(head)' = rest /\ captureNextId' = captureNextId
       \/ \E t \in Entering(in) :
            /\ OwnedFrom(head)' = Append(rest, Queue!Frame(captureNextId, t, "CAPTURING"))
            /\ captureNextId' = Inc(captureNextId)
  BY <1>1, <1>8 DEF Entering, new
<1>11. IF 1 \in Advancing /\ q[1].stage = "READY"
       THEN [id |-> consumerImageId, tag |-> consumerDesc]' = [id |-> q[1].id, tag |-> q[1].tag]
       ELSE [id |-> consumerImageId, tag |-> consumerDesc]' =
              [id |-> consumerImageId, tag |-> consumerDesc]
  BY <1>4, <1>8, <1>9
<1>12. /\ \A i \in Advancing : Queue!MayAdvance(i)
       /\ Retire(in) => Queue!MayLeave
       /\ Entering(in) # {} => Queue!MayEnter
  BY <1>8 DEF Entering
<1>13. QED
  <2> USE DEF rest, a
  <2>1. \E r \in {IF Retire(in) THEN Tail(Queue!Advance(Advancing)) ELSE Queue!Advance(Advancing)} :
          \/ /\ Entering(in) = {}
             /\ OwnedFrom(head)' = r /\ captureNextId' = captureNextId
          \/ \E t \in Entering(in) :
               /\ OwnedFrom(head)' = Append(r, Queue!Frame(captureNextId, t, "CAPTURING"))
               /\ captureNextId' = Queue!Inc(captureNextId)
    BY <1>10 DEF Inc, Queue!Inc
  <2>2. QED
    BY <1>11, <1>12, <2>1, Zenon DEF Queue!Step

\* The controller implements the abstract queue of frames: no frame is lost,
\* renumbered, overtaken or shown before it is complete, whatever the neighbours do.
THEOREM ControllerImplementsQueue == FBSpec => ImplementsFrameQueue
<1>1. FBInit => Queue!QueueInit
  <2> SUFFICES ASSUME FBInit PROVE Queue!QueueInit
    OBVIOUS
  <2>1. state[head] = "FREE"
    BY DEF FBInit, Banks
  <2>2. OwnedFrom(head) = <<>>
    BY <2>1 DEF OwnedFrom
  <2>3. QED
    BY <2>2 DEF FBInit, Queue!QueueInit
<1>2. FBInv /\ FBInv' /\ [FBNext]_fbVars => [Queue!QueueNext]_(Queue!queueVars)
  <2> SUFFICES ASSUME FBInv, FBInv', [FBNext]_fbVars
               PROVE  [Queue!QueueNext]_(Queue!queueVars)
    OBVIOUS
  <2>1. ASSUME NEW in \in Signals, Edge(in) PROVE Queue!QueueNext
    <3>1. Queue!Step(Advancing, Retire(in), Entering(in))
      BY <2>1, EdgeIsQueueStep
    <3>2. Advancing \in SUBSET (DOMAIN OwnedFrom(head))
      BY DEF Advancing
    <3>3. Retire(in) \in BOOLEAN
      BY <2>1 DEF Retire, FBInv, FBTypeOK, Signals
    <3>4. Entering(in) \in {{}} \cup {{t} : t \in Descs}
      BY <2>1 DEF Entering, Signals
    <3>5. QED
      BY <3>1, <3>2, <3>3, <3>4 DEF Queue!QueueNext
  <2>2. CASE UNCHANGED fbVars
    <3>1. OwnedFrom(head)' = OwnedFrom(head)
      BY <2>2 DEF OwnedFrom, fbVars, bankVars
    <3>2. QED
      BY <2>2, <3>1 DEF Queue!queueVars, fbVars, conVars, cntVars
  <2>3. QED
    BY <2>1, <2>2, InputsAreSignals DEF FBNext
<1>3. QED
  BY <1>1, <1>2, FBInvariant, PTL DEF FBSpec, ImplementsFrameQueue, Queue!QueueSpec

-----------------------------------------------------------------------------
(* The ring of Gray8 slots.                                                 *)

\* The scan of the two slots returns a slot of the set it looks for.
LEMMA LowestIn ==
  ASSUME NEW S \in SUBSET Slots, S # {}
  PROVE  Lowest(S) \in S
<1>1. \E s \in S : \A t \in S : s <= t
  <2>1. CASE 0 \in S
    BY <2>1 DEF Slots
  <2>2. CASE 0 \notin S
    <3>1. \A t \in S : t = 1
      BY <2>2 DEF Slots
    <3>2. 1 \in S
      BY <3>1
    <3>3. QED
      BY <3>1, <3>2
  <2>3. QED
    BY <2>1, <2>2
<1>2. QED
  BY <1>1 DEF Lowest

\* A free slot is reserved from, and a ready one is taken from, the slots.
LEMMA ReservedSlot ==
  ASSUME CanReserve
  PROVE  Lowest(SlotsIn("FREE")) \in Slots /\ ringState[Lowest(SlotsIn("FREE"))] = "FREE"
<1>1. Lowest(SlotsIn("FREE")) \in SlotsIn("FREE")
  BY LowestIn DEF CanReserve, SlotsIn
<1>2. QED
  BY <1>1 DEF SlotsIn

LEMMA TakenSlot ==
  ASSUME NEW i \in Ids, CanTake(i)
  PROVE  Lowest(ReadyFor(i)) \in Slots /\ ringState[Lowest(ReadyFor(i))] = "READY"
<1>1. Lowest(ReadyFor(i)) \in ReadyFor(i)
  BY LowestIn DEF CanTake, ReadyFor, SlotsIn
<1>2. QED
  BY <1>1 DEF ReadyFor, SlotsIn

\* Every variable of the ring keeps its type, and the two owner indices stay the
\* states of the slots they name, whatever order the functions are called in.
RingInv == RingTypeOK /\ RingOwnership

LEMMA RingInvInit == RingInit => RingInv
BY IdMaxAssumption DEF RingInit, RingInv, RingTypeOK, RingOwnership, Slots, NoSlot, Ids

LEMMA RingInvNext == RingInv /\ [RingNext]_ringVars => RingInv'
<1> SUFFICES ASSUME RingInv, [RingNext]_ringVars PROVE RingInv'
  OBVIOUS
<1> USE DEF RingInv, RingTypeOK, RingOwnership
<1>1. ASSUME NEW i \in Ids, Reserve(i) PROVE RingInv'
  <2>1. ringDma' \in Slots /\ ringState[ringDma'] = "FREE" /\ ringDma = NoSlot
    BY <1>1, ReservedSlot DEF Reserve, CanReserve
  <2>2. QED
    BY <1>1, <2>1 DEF Reserve, Slots, NoSlot
<1>2. ASSUME NEW i \in Ids, Complete(i) PROVE RingInv'
  BY <1>2 DEF Complete, CanComplete, Slots, NoSlot
<1>3. ASSUME NEW i \in Ids, Take(i) PROVE RingInv'
  <2>1. ringCpu' \in Slots /\ ringState[ringCpu'] = "READY" /\ ringCpu = NoSlot
    BY <1>3, TakenSlot DEF Take, CanTake
  <2>2. QED
    BY <1>3, <2>1 DEF Take, Slots, NoSlot
<1>4. ASSUME Release PROVE RingInv'
  BY <1>4 DEF Release, CanRelease, Slots, NoSlot
<1>5. CASE UNCHANGED ringVars
  BY <1>5 DEF ringVars
<1>6. QED
  BY <1>1, <1>2, <1>3, <1>4, <1>5 DEF RingNext

\* The variables of the ring keep their types.
THEOREM RingTypeCorrect == RingSpec => []RingTypeOK
<1>1. RingInv => RingTypeOK
  BY DEF RingInv
<1>2. QED
  BY <1>1, RingInvInit, RingInvNext, PTL DEF RingSpec

\* The DMA and the CPU never share a slot: each owner index names exactly the slot
\* whose state says so.
THEOREM RingOwnershipHolds == RingSpec => []RingOwnership
<1>1. RingInv => RingOwnership
  BY DEF RingInv
<1>2. QED
  BY <1>1, RingInvInit, RingInvNext, PTL DEF RingSpec

\* One call moves one slot one step along its life and renames no image.
LEMMA SlotLifeStep ==
  ASSUME RingInv, [RingNext]_ringVars
  PROVE  /\ \A s \in Slots : ringState'[s] # ringState[s] =>
              /\ <<ringState[s], ringState'[s]>> \in RingLife
              /\ \A t \in Slots \ {s} : ringState'[t] = ringState[t]
         /\ \A s \in Slots : ringState[s] # "FREE" => ringId'[s] = ringId[s]
<1> DEFINE Good ==
      /\ \A s \in Slots : ringState'[s] # ringState[s] =>
           /\ <<ringState[s], ringState'[s]>> \in RingLife
           /\ \A t \in Slots \ {s} : ringState'[t] = ringState[t]
      /\ \A s \in Slots : ringState[s] # "FREE" => ringId'[s] = ringId[s]
<1> SUFFICES Good
  OBVIOUS
<1> USE DEF RingInv, RingTypeOK, RingOwnership, RingLife
<1>1. ASSUME NEW i \in Ids, Reserve(i) PROVE Good
  <2>1. ringDma' \in Slots /\ ringState[ringDma'] = "FREE"
    BY <1>1, ReservedSlot DEF Reserve
  <2>2. QED
    BY <1>1, <2>1 DEF Reserve
<1>2. ASSUME NEW i \in Ids, Complete(i) PROVE Good
  BY <1>2 DEF Complete, CanComplete
<1>3. ASSUME NEW i \in Ids, Take(i) PROVE Good
  <2>1. ringCpu' \in Slots /\ ringState[ringCpu'] = "READY"
    BY <1>3, TakenSlot DEF Take
  <2>2. QED
    BY <1>3, <2>1 DEF Take
<1>4. ASSUME Release PROVE Good
  BY <1>4 DEF Release, CanRelease
<1>5. CASE UNCHANGED ringVars
  BY <1>5 DEF ringVars
<1>6. QED
  BY <1>1, <1>2, <1>3, <1>4, <1>5 DEF RingNext

THEOREM SlotLifeHolds == RingSpec => SlotLife
<1>1. RingInv /\ [RingNext]_ringVars =>
        [/\ \A s \in Slots : ringState'[s] # ringState[s] =>
              /\ <<ringState[s], ringState'[s]>> \in RingLife
              /\ \A t \in Slots \ {s} : ringState'[t] = ringState[t]
         /\ \A s \in Slots : ringState[s] # "FREE" => ringId'[s] = ringId[s]]_ringVars
  BY SlotLifeStep
<1>2. QED
  BY <1>1, RingInvInit, RingInvNext, PTL DEF RingSpec, SlotLife

-----------------------------------------------------------------------------
(* The frame path as a whole.                                               *)

USE FrameSystemAssumption

-----------------------------------------------------------------------------
(* Types.                                                                   *)

LoopAt ==
  {"init", "enableCapture", "waitResult", "armResult", "stream", "waitResultDma", "takeImage",
   "taking", "waitPending", "identify", "ack", "waitCleared", "waitReleased", "waitNoResult",
   "dispatch", "decode", "released", "failed"}
ServiceAt ==
  {"off", "errors", "status", "busy", "count", "identity", "reserve", "arm", "credit"}
Packets == [id : Ids, flags : SUBSET ErrorClass, records : BOOLEAN]

RuntimeTypeOK ==
  /\ frameActive \in BOOLEAN /\ imageDoneSeen \in BOOLEAN /\ resultDoneSeen \in BOOLEAN
  /\ completePending \in BOOLEAN /\ frameComplete \in BOOLEAN /\ completionError \in BOOLEAN
  /\ launched \in BOOLEAN /\ armed \in BOOLEAN /\ start \in BOOLEAN
  /\ frontendRelease \in BOOLEAN /\ manualPending \in BOOLEAN /\ stuck \in BOOLEAN
  /\ controlError \in BOOLEAN /\ activeValid \in BOOLEAN /\ frameIdError \in BOOLEAN
  /\ nextFrameId \in Ids /\ activeFrameId \in Ids
  /\ builder \in BuilderState
  /\ sticky \in SUBSET ErrorClass /\ latched \in SUBSET ErrorClass
  /\ packet \in Packets

TapTypeOK ==
  /\ environment \in SUBSET FaultKind
  /\ camera \in BOOLEAN /\ selected \in BOOLEAN /\ inflight \in BOOLEAN
  /\ gray \in {"idle", "open", "eof"} /\ fe \in {"idle", "open", "closing", "ready"}
  /\ imageId \in Ids /\ damaged \in BOOLEAN /\ imageOverflow \in BOOLEAN
  /\ bram \in [Banks -> Ids \cup {Torn}]

CoreTypeOK == FBTypeOK /\ RuntimeTypeOK /\ TapTypeOK /\ captureEnable \in BOOLEAN

ReceiverTypeOK ==
  /\ RingTypeOK
  /\ dmaState \in {"idle", "running", "draining", "halted"}
  /\ dmaSlot \in Slots \cup {NoSlot}
  /\ ddr \in [Slots -> Ids \cup {Torn}]
  /\ enabled \in BOOLEAN /\ faults \in BOOLEAN
  /\ received \in Ids /\ taken \in Ids
  /\ prepared \in [Slots -> BOOLEAN]
  /\ pc \in LoopAt /\ svc \in ServiceAt

LoopTypeOK ==
  /\ resultDma \in {"idle", "running"}
  /\ resultBuffer \in Packets /\ candidates \in Packets
  /\ candidatesValid \in BOOLEAN

SystemTypeOK == CoreTypeOK /\ ReceiverTypeOK /\ LoopTypeOK

-----------------------------------------------------------------------------
(* The steps of the system, reduced to clock edges and to what the software *)
(* does between them.                                                       *)

\* Who may write which command register.
Commanded(cmd) ==
  \/ cmd = "none"
  \/ cmd = "credit" /\ svc = "credit"
  \/ cmd = "dispatch" /\ svc = "off" /\ pc \in {"init", "dispatch"}
  \/ cmd = "ack" /\ svc = "off" /\ pc = "ack"
  \/ cmd = "stream" /\ svc = "off" /\ pc = "stream"

\* A clock edge: what the blocks find at their inputs, and what they do.
RuntimeWires(rin, cmd, ev, errs) ==
  /\ rin.sof = consumerSof /\ rin.imageDone = consumerImageDone
  /\ rin.feReady = consumerReady
  /\ rin.ack = (cmd = "ack") /\ rin.streamStart = (cmd = "stream")
  /\ rin.collected = ("collected" \in ev) /\ rin.errs = errs
  /\ rin.lastBeat = ("lastBeat" \in ev) /\ rin.expired = ("expired" \in ev)
  /\ rin.enable /\ rin.auto
  /\ ~rin.errorClear /\ ~rin.manualStart /\ ~rin.seedWrite

Wired(cmd, ev, errs, take, in, rin) ==
  /\ take => /\ "sof" \in ev /\ ~inflight /\ fe # "ready" /\ credit /\ ~capturing
             /\ state[tail] = "FREE" /\ errors = {}
  /\ Accept(in) <=> take
  /\ in.sof => CaptureAllowed(in)
  /\ in.imageDone = ("grayLast" \in ev) /\ in.imageId = imageId
  /\ in.feReady = (fe = "ready") /\ in.release = frontendRelease
  /\ in.cmdCredit = (cmd = "credit") /\ in.cmdDispatch = (cmd = "dispatch")
  /\ RuntimeWires(rin, cmd, ev, errs)

Occurring(ev, errs) ==
  /\ "eof" \in ev => camera
  /\ "feDone" \in ev => fe = "closing"
  /\ "grayLast" \in ev => gray = "eof" /\ dmaState = "running"
  /\ "overrun" \in ev => gray = "open" /\ "stall" \in environment
  /\ "trouble" \in ev => builder = "COLLECT" /\ "overfull" \in environment
  /\ "collected" \in ev =>
       /\ builder = "COLLECT"
       /\ "slowDma" \in environment \/ ~(dmaState = "draining" /\ imageId = activeFrameId)
  /\ "lastBeat" \in ev => builder = "SEND" /\ resultDma = "running"
  /\ "expired" \in ev => launched
  /\ "sof" \in ev => "eof" \notin ev /\ "overrun" \notin ev
  /\ errs = {} \/ ("trouble" \in ev /\ errs \in {{"overflow"}, {"fatal"}})

EdgeOf(cmd, ev, errs, take, in, rin) ==
  /\ Commanded(cmd) /\ Wired(cmd, ev, errs, take, in, rin) /\ Occurring(ev, errs)
  /\ Edge(in) /\ RCEdge(rin)
  /\ Tap(ev, take) /\ Memories(ev, take) /\ Engines(ev)
  /\ UNCHANGED environment

\* The wires between the controller and its neighbours.
LEMMA WiresOfController ==
  ASSUME CoreTypeOK, NEW cmd, NEW ev, NEW take \in BOOLEAN, NEW in, in = FBIn(cmd, ev, take)
  PROVE  /\ in \in Signals
         /\ in.enable = captureEnable /\ in.sof = take
         /\ in.imageDone = ("grayLast" \in ev) /\ in.imageId = imageId
         /\ in.feReady = (fe = "ready") /\ in.release = frontendRelease
         /\ in.cmdCredit = (cmd = "credit") /\ in.cmdDispatch = (cmd = "dispatch")
<1>1. in \in Signals
  <2>1. /\ captureEnable \in BOOLEAN /\ imageId \in Ids /\ frontendRelease \in BOOLEAN
        /\ NoDesc \in Descs
        /\ ("grayLast" \in ev) \in BOOLEAN /\ (fe = "ready") \in BOOLEAN
        /\ (cmd = "credit") \in BOOLEAN /\ (cmd = "dispatch") \in BOOLEAN
    BY DEF CoreTypeOK, TapTypeOK, RuntimeTypeOK
  <2>2. QED
    BY <2>1, Zenon DEF FBIn, Signals
<1>2. in.enable = captureEnable /\ in.sof = take
  BY DEF FBIn
<1>3. in.imageDone = ("grayLast" \in ev) /\ in.imageId = imageId
  BY DEF FBIn
<1>4. in.feReady = (fe = "ready") /\ in.release = frontendRelease
  BY DEF FBIn
<1>5. in.cmdCredit = (cmd = "credit") /\ in.cmdDispatch = (cmd = "dispatch")
  BY DEF FBIn
<1>6. QED
  BY <1>1, <1>2, <1>3, <1>4, <1>5

\* The wires between the runtime block and its neighbours.
LEMMA WiresOfRuntime ==
  ASSUME NEW cmd, NEW ev, NEW errs, NEW rin, rin = RCIn(cmd, ev, errs)
  PROVE  RuntimeWires(rin, cmd, ev, errs)
<1>1. /\ rin.sof = consumerSof /\ rin.imageDone = consumerImageDone
      /\ rin.feReady = consumerReady
  BY DEF RCIn, Quiet
<1>2. rin.ack = (cmd = "ack") /\ rin.streamStart = (cmd = "stream")
  BY DEF RCIn, Quiet
<1>3. rin.collected = ("collected" \in ev) /\ rin.errs = errs
  BY DEF RCIn, Quiet
<1>4. rin.lastBeat = ("lastBeat" \in ev) /\ rin.expired = ("expired" \in ev)
  BY DEF RCIn, Quiet
<1>5. /\ rin.enable /\ rin.auto
      /\ ~rin.errorClear /\ ~rin.manualStart /\ ~rin.seedWrite
  BY DEF RCIn, Quiet
<1>6. QED
  BY <1>1, <1>2, <1>3, <1>4, <1>5 DEF RuntimeWires

\* An event that falls on an edge is one that is possible.
LEMMA EventsOccur ==
  ASSUME NEW cmd, NEW ev \in SUBSET Possible, NEW errs \in ErrorsOf(ev),
         ~({"sof", "eof"} \subseteq ev), ~({"sof", "overrun"} \subseteq ev)
  PROVE  Occurring(ev, errs)
<1>1. /\ "eof" \in ev => camera
      /\ "feDone" \in ev => fe = "closing"
      /\ "grayLast" \in ev => gray = "eof" /\ dmaState = "running"
      /\ "overrun" \in ev => gray = "open" /\ "stall" \in environment
      /\ "trouble" \in ev => builder = "COLLECT" /\ "overfull" \in environment
  BY DEF Possible
<1>2. /\ "collected" \in ev =>
           /\ builder = "COLLECT"
           /\ "slowDma" \in environment \/ ~(dmaState = "draining" /\ imageId = activeFrameId)
      /\ "lastBeat" \in ev => builder = "SEND" /\ resultDma = "running"
      /\ "expired" \in ev => launched
  BY DEF Possible
<1>3. errs = {} \/ ("trouble" \in ev /\ errs \in {{"overflow"}, {"fatal"}})
  BY DEF ErrorsOf
<1>4. QED
  BY <1>1, <1>2, <1>3 DEF Occurring

\* Every command is written on an edge of this form.
LEMMA HwIsEdge ==
  ASSUME CoreTypeOK, NEW cmd, Hw(cmd), Commanded(cmd)
  PROVE  \E ev, errs, rin : \E take \in BOOLEAN, in \in Signals :
           EdgeOf(cmd, ev, errs, take, in, rin)
<1>1. PICK ev \in SUBSET Possible : HwWith(cmd, ev)
  BY DEF Hw
<1>2. PICK errs \in ErrorsOf(ev) : HwEdge(cmd, ev, errs)
  BY <1>1 DEF HwWith
<1>3. PICK take \in BOOLEAN :
        take = ("sof" \in ev /\ SlotAvailable /\ CaptureAllowed(FBIn(cmd, ev, FALSE)))
  OBVIOUS
<1>4. PICK in : in = FBIn(cmd, ev, take)
  OBVIOUS
<1>5. PICK rin : rin = RCIn(cmd, ev, errs)
  OBVIOUS
<1>6. PICK offer : offer = FBIn(cmd, ev, FALSE)
  OBVIOUS
<1>7. /\ Edge(in) /\ RCEdge(rin) /\ Tap(ev, take) /\ Memories(ev, take) /\ Engines(ev)
      /\ UNCHANGED environment
  BY <1>2, <1>3, <1>4, <1>5 DEF HwEdge
<1>8. Occurring(ev, errs)
  BY <1>1, EventsOccur DEF HwWith
<1>9. CaptureAllowed(offer) <=>
        captureEnable /\ credit /\ ~capturing /\ fe # "ready" /\ state[tail] = "FREE" /\ errors = {}
  <2>1. offer.enable = captureEnable /\ offer.feReady = (fe = "ready")
    BY <1>6 DEF FBIn
  <2>2. QED
    BY <2>1 DEF CaptureAllowed
<1>10. CaptureAllowed(in) <=>
        captureEnable /\ credit /\ ~capturing /\ fe # "ready" /\ state[tail] = "FREE" /\ errors = {}
  <2>1. in.enable = captureEnable /\ in.feReady = (fe = "ready")
    BY <1>4, WiresOfController
  <2>2. QED
    BY <2>1 DEF CaptureAllowed
<1>11. take => "sof" \in ev /\ SlotAvailable /\ CaptureAllowed(in)
  BY <1>3, <1>6, <1>9, <1>10
<1>12. in \in Signals /\ in.sof = take
  BY <1>4, WiresOfController
<1>13. Accept(in) <=> take
  BY <1>11, <1>12 DEF Accept
<1>14. Wired(cmd, ev, errs, take, in, rin)
  <2>1. take => /\ "sof" \in ev /\ ~inflight /\ fe # "ready" /\ credit /\ ~capturing
                /\ state[tail] = "FREE" /\ errors = {}
    BY <1>10, <1>11 DEF SlotAvailable
  <2>2. in.sof => CaptureAllowed(in)
    BY <1>11, <1>12
  <2>3. /\ in.imageDone = ("grayLast" \in ev) /\ in.imageId = imageId
        /\ in.feReady = (fe = "ready") /\ in.release = frontendRelease
        /\ in.cmdCredit = (cmd = "credit") /\ in.cmdDispatch = (cmd = "dispatch")
    BY <1>4, WiresOfController
  <2>4. RuntimeWires(rin, cmd, ev, errs)
    BY <1>5, WiresOfRuntime
  <2>5. QED
    BY <1>13, <2>1, <2>2, <2>3, <2>4, Zenon DEF Wired
<1>15. EdgeOf(cmd, ev, errs, take, in, rin)
  BY <1>7, <1>8, <1>14 DEF EdgeOf
<1>16. QED
  BY <1>12, <1>15

\* What the software does on the edge that carries its command.
WithCommand(cmd) ==
  /\ UNCHANGED <<ringVars, enabled, faults, received, taken, loopVars>>
  /\ IF cmd = "credit" THEN prepared' = [prepared EXCEPT ![ringDma] = FALSE] ELSE UNCHANGED prepared
  /\ svc' = IF cmd = "none" THEN svc ELSE "off"
  /\ pc' = CASE cmd = "dispatch" /\ pc = "init"     -> "enableCapture"
             [] cmd = "dispatch" /\ pc = "dispatch" -> "decode"
             [] cmd = "stream"                      -> "waitResultDma"
             [] cmd = "ack"                         -> "waitCleared"
             [] OTHER                               -> pc

\* The loop ends for a reason: a wait that has lasted too long, a receiver that has
\* failed, an error in STATUS, frames that do not match.
GiveUp ==
  /\ svc = "off" /\ Goto("failed")
  /\ UNCHANGED <<hwVars, recVars, loopVars>>
  /\ \/ environment # {} \/ faults \/ ~enabled \/ StatusError
     \/ pc = "identify" /\ ~(activeFrameId = consumerImageId /\ resultBuffer.id = consumerImageId)

\* A condition is read, and the loop goes on or calls the service.
Turn ==
  /\ svc = "off"
  /\ UNCHANGED <<hwVars, recVars, loopVars>>
  /\ \/ pc' = pc /\ CallService
     \/ pc = "waitResult" /\ ResultReady /\ Goto("armResult")
     \/ pc = "waitResultDma" /\ resultDma = "idle" /\ Goto("takeImage")
     \/ pc = "takeImage" /\ pc' = "taking" /\ CallService
     \/ pc = "waitPending" /\ completePending /\ Goto("identify")
     \/ pc = "waitCleared" /\ ~completePending /\ Goto("waitReleased")
     \/ pc = "waitReleased" /\ ~consumerReady /\ Goto("waitNoResult")
     \/ pc = "waitNoResult" /\ ~ResultReady /\ Goto("dispatch")
     \/ pc = "released" /\ ~faults /\ pc' = "waitResult" /\ CallService

\* The calls that change the ring of slots, and the ones it refuses.
TakeSlot ==
  /\ At("taking") /\ ~faults /\ Take(consumerImageId)
  /\ taken' = Inc(taken)
  /\ Goto("waitPending")
  /\ UNCHANGED <<hwVars, enabled, faults, received, prepared, loopVars>>

FreeSlot ==
  /\ At("decode") /\ Release
  /\ prepared' = [prepared EXCEPT ![ringCpu] = TRUE]
  /\ pc' = "released" /\ CallService
  /\ UNCHANGED <<hwVars, enabled, faults, received, taken, loopVars>>

Refused ==
  /\ \/ At("taking") /\ ~CanTake(consumerImageId)
     \/ At("decode") /\ ~CanRelease
  /\ FailReceiver /\ pc' = "failed"
  /\ UNCHANGED <<hwVars, ringVars, received, taken, prepared, loopVars>>

Matched ==
  /\ At("identify") /\ Goto("ack")
  /\ activeFrameId = consumerImageId /\ resultBuffer.id = consumerImageId
  /\ candidates' = resultBuffer
  /\ candidatesValid' =
       (resultBuffer.flags = {} /\ sticky = {} /\ ~StatusError /\ ~stuck)
  /\ UNCHANGED <<hwVars, recVars, captureEnable>>

Between ==
  \/ Drain \/ DmaFault
  \/ ServiceErrors \/ ServiceStatus \/ ServiceBusy \/ ServiceCount
  \/ ServiceIdentity \/ ServiceReserve \/ ServiceArm
  \/ GiveUp \/ Turn \/ TakeSlot \/ FreeSlot \/ Refused \/ Matched
  \/ EnableCapture \/ ArmResult

\* Every step is a clock edge, with or without a command, or one of these.
LEMMA Steps ==
  ASSUME CoreTypeOK, pc \in LoopAt, Next
  PROVE  \/ \E cmd, ev, errs, rin : \E take \in BOOLEAN, in \in Signals :
              EdgeOf(cmd, ev, errs, take, in, rin) /\ WithCommand(cmd)
         \/ Between
<1> DEFINE Clocked == \E cmd, ev, errs, rin : \E take \in BOOLEAN, in \in Signals :
                        EdgeOf(cmd, ev, errs, take, in, rin) /\ WithCommand(cmd)
<1>1. ASSUME NEW cmd, Hw(cmd), Commanded(cmd), WithCommand(cmd) PROVE Clocked
  <2>1. PICK ev, errs, rin : \E take \in BOOLEAN, in \in Signals :
               EdgeOf(cmd, ev, errs, take, in, rin)
    BY <1>1, HwIsEdge
  <2>2. QED
    BY <1>1, <2>1
<1> HIDE DEF Clocked
<1> SUFFICES Clocked \/ Between
  BY DEF Clocked
<1>2. CASE Tick
  BY <1>1, <1>2 DEF Tick, Commanded, WithCommand, recVars
<1>3. CASE Drain \/ DmaFault
  BY <1>3 DEF Between
<1>4. CASE Service
  <2>1. CASE ServiceCredit
    BY <1>1, <2>1 DEF ServiceCredit, Commanded, WithCommand
  <2>2. QED
    BY <1>4, <2>1 DEF Service, Between
<1>5. CASE Timeout
  BY <1>5 DEF Timeout, GiveUp, Between
<1>6. CASE Loop
  <2>1. CASE InitDispatch
    <3>1. CASE ~enabled /\ Goto("failed") /\ UNCHANGED hwVars
      BY <2>1, <3>1 DEF InitDispatch, At, GiveUp, Between
    <3>2. CASE Hw("dispatch") /\ Goto("enableCapture")
      BY <1>1, <2>1, <3>2 DEF InitDispatch, At, Goto, Commanded, WithCommand, recVars
    <3>3. QED
      BY <2>1, <3>1, <3>2 DEF InitDispatch
  <2>2. CASE EnableCapture \/ ArmResult
    BY <2>2 DEF Between
  <2>3. CASE WaitResult
    BY <2>3 DEF WaitResult, WaitSet, Poll, At, Goto, GiveUp, Turn, Between
  <2>4. CASE StreamStart
    BY <1>1, <2>4 DEF StreamStart, At, Goto, Commanded, WithCommand, recVars
  <2>5. CASE WaitResultDma
    BY <2>5 DEF WaitResultDma, Poll, At, Goto, GiveUp, Turn, Between
  <2>6. CASE TakeImage
    BY <2>6 DEF TakeImage, At, Turn, Between
  <2>7. CASE Taking
    BY <2>7 DEF Taking, At, GiveUp, TakeSlot, Refused, Between
  <2>8. CASE WaitPending
    BY <2>8 DEF WaitPending, WaitSet, Poll, At, Goto, GiveUp, Turn, Between
  <2>9. CASE Identify
    <3>1. CASE activeFrameId = consumerImageId /\ resultBuffer.id = consumerImageId
      BY <2>9, <3>1 DEF Identify, Matched, Between
    <3>2. CASE ~(activeFrameId = consumerImageId /\ resultBuffer.id = consumerImageId)
      BY <2>9, <3>2 DEF Identify, At, GiveUp, Between, loopVars
    <3>3. QED
      BY <3>1, <3>2
  <2>10. CASE FrameAck
    BY <1>1, <2>10 DEF FrameAck, At, Goto, Commanded, WithCommand, recVars
  <2>11. CASE WaitCleared \/ WaitReleased \/ WaitNoResult
    BY <2>11 DEF WaitCleared, WaitReleased, WaitNoResult, WaitClear, Poll, At, Goto, Turn, Between
  <2>12. CASE Dispatch
    <3>1. CASE faults /\ Goto("failed") /\ UNCHANGED hwVars
      BY <2>12, <3>1 DEF Dispatch, At, GiveUp, Between
    <3>2. CASE Hw("dispatch") /\ Goto("decode")
      BY <1>1, <2>12, <3>2 DEF Dispatch, At, Goto, Commanded, WithCommand, recVars
    <3>3. QED
      BY <2>12, <3>1, <3>2 DEF Dispatch
  <2>13. CASE DecodeProgress
    BY <2>13 DEF DecodeProgress, At, Turn, Between
  <2>14. CASE DecodeDone
    BY <2>14 DEF DecodeDone, At, FreeSlot, Refused, Between
  <2>15. CASE FrameEnd
    BY <2>15 DEF FrameEnd, At, Goto, GiveUp, Turn, Between
  <2>16. QED
    BY <1>6, <2>1, <2>2, <2>3, <2>4, <2>5, <2>6, <2>7, <2>8, <2>9, <2>10, <2>11, <2>12,
       <2>13, <2>14, <2>15 DEF Loop
<1>7. QED
  BY <1>2, <1>3, <1>4, <1>5, <1>6 DEF Next

-----------------------------------------------------------------------------
(* The types are kept.                                                      *)

LEMMA CoreTypeInit == Init => CoreTypeOK
<1> SUFFICES ASSUME Init PROVE CoreTypeOK
  OBVIOUS
<1>1. 0 \in Ids
  BY DEF Ids
<1>2. FBTypeOK
  BY FBInvInit DEF Init, FBInv
<1>3. NoPacket \in Packets
  BY <1>1 DEF NoPacket, Packets
<1>4. RuntimeTypeOK
  BY <1>1, <1>3 DEF Init, RCInit, RuntimeTypeOK, BuilderState
<1>5. TapTypeOK
  <2>1. environment \in SUBSET FaultKind
    BY DEF Init
  <2>2. bram \in [Banks -> Ids \cup {Torn}]
    BY DEF Init
  <2>3. QED
    BY <1>1, <2>1, <2>2 DEF Init, TapTypeOK
<1>6. QED
  BY <1>2, <1>4, <1>5 DEF Init, CoreTypeOK

LEMMA RuntimeTypeEdge ==
  ASSUME CoreTypeOK, NEW cmd, NEW ev, NEW errs, NEW take \in BOOLEAN, NEW in \in Signals, NEW rin,
         EdgeOf(cmd, ev, errs, take, in, rin)
  PROVE  RuntimeTypeOK'
<1> USE DEF CoreTypeOK, RuntimeTypeOK
<1>1. RuntimeWires(rin, cmd, ev, errs) /\ RCEdge(rin) /\ Occurring(ev, errs)
  BY DEF EdgeOf, Wired
<1>2. ~rin.seedWrite
  BY <1>1 DEF RuntimeWires
<1>3. rin.errs \in SUBSET {"overflow", "fatal"}
  <2>1. rin.errs = errs
    BY <1>1, Zenon DEF RuntimeWires
  <2>2. errs = {} \/ errs \in {{"overflow"}, {"fatal"}}
    BY <1>1, Zenon DEF Occurring
  <2>3. QED
    BY <2>1, <2>2
<1>4. /\ frameActive' \in BOOLEAN /\ imageDoneSeen' \in BOOLEAN
      /\ resultDoneSeen' \in BOOLEAN /\ completePending' \in BOOLEAN
      /\ frameComplete' \in BOOLEAN /\ completionError' \in BOOLEAN
  BY <1>1 DEF RCEdge, Completion, PendingNext, AckOk
<1>5. /\ launched' \in BOOLEAN /\ armed' \in BOOLEAN /\ start' \in BOOLEAN
      /\ frontendRelease' \in BOOLEAN /\ manualPending' \in BOOLEAN
      /\ stuck' \in BOOLEAN /\ controlError' \in BOOLEAN
  BY <1>1 DEF RCEdge, FrameCtrl, CanStart
<1>6. /\ nextFrameId' \in Ids /\ activeFrameId' \in Ids
      /\ activeValid' \in BOOLEAN /\ frameIdError' \in BOOLEAN
  BY <1>1, <1>2, IncType DEF RCEdge, FrameId, IdForNewFrame, SeedOk
<1>7. builder' \in BuilderState
  BY <1>1 DEF RCEdge, Packet, BuilderState
<1>8. Arriving(rin) \in SUBSET ErrorClass
  BY <1>3 DEF Arriving, ErrorClass
<1>9. sticky' \in SUBSET ErrorClass /\ latched' \in SUBSET ErrorClass
  BY <1>1, <1>8 DEF RCEdge, Packet, ErrorClass
<1>10. FlagsAtDone(rin) \in SUBSET ErrorClass
  BY <1>8 DEF FlagsAtDone, ErrorClass
<1>11. packet' \in Packets
  BY <1>1, <1>10 DEF RCEdge, Packet, NoPacket, Packets
<1>12. QED
  BY <1>4, <1>5, <1>6, <1>7, <1>9, <1>11

LEMMA TapTypeEdge ==
  ASSUME CoreTypeOK, NEW cmd, NEW ev, NEW errs, NEW take \in BOOLEAN, NEW in \in Signals, NEW rin,
         EdgeOf(cmd, ev, errs, take, in, rin)
  PROVE  TapTypeOK'
<1> USE DEF CoreTypeOK, TapTypeOK
<1>1. Tap(ev, take) /\ Memories(ev, take) /\ UNCHANGED environment
  BY DEF EdgeOf
<1>2. /\ camera' \in BOOLEAN /\ selected' \in BOOLEAN /\ inflight' \in BOOLEAN
      /\ damaged' \in BOOLEAN /\ imageOverflow' \in BOOLEAN
  BY <1>1 DEF Tap
<1>3. gray' \in {"idle", "open", "eof"}
  BY <1>1 DEF Tap
<1>4. fe' \in {"idle", "open", "closing", "ready"}
  BY <1>1 DEF Tap
<1>5. imageId' \in Ids
  BY <1>1 DEF Tap, FBTypeOK
<1>6. bram' \in [Banks -> Ids \cup {Torn}]
  BY <1>1 DEF Memories, FBTypeOK
<1>7. QED
  BY <1>1, <1>2, <1>3, <1>4, <1>5, <1>6

LEMMA CoreTypeEdge ==
  ASSUME CoreTypeOK, NEW cmd, NEW ev, NEW errs, NEW take \in BOOLEAN, NEW in \in Signals, NEW rin,
         EdgeOf(cmd, ev, errs, take, in, rin)
  PROVE  FBTypeOK' /\ RuntimeTypeOK' /\ TapTypeOK'
<1>1. FBTypeOK'
  BY TypeStep DEF EdgeOf, CoreTypeOK
<1>2. QED
  BY <1>1, RuntimeTypeEdge, TapTypeEdge

\* What the software does between two edges leaves the logic alone.
coreVars ==
  <<fbVars, rcVars, environment, camera, selected, inflight, gray, imageId, damaged,
    imageOverflow, fe, bram>>

LEMMA BetweenCore ==
  ASSUME Between
  PROVE  UNCHANGED coreVars /\ (captureEnable' = captureEnable \/ captureEnable' = TRUE)
<1> USE DEF coreVars, hwVars, envVars, loopVars
<1>1. CASE Drain \/ DmaFault
  BY <1>1 DEF Drain, DmaFault
<1>2. CASE ServiceErrors \/ ServiceStatus \/ ServiceBusy \/ ServiceCount
  BY <1>2 DEF ServiceErrors, ServiceStatus, ServiceBusy, ServiceCount
<1>3. CASE ServiceIdentity \/ ServiceReserve \/ ServiceArm
  BY <1>3 DEF ServiceIdentity, ServiceReserve, ServiceArm
<1>4. CASE GiveUp \/ Turn \/ TakeSlot \/ FreeSlot \/ Refused \/ Matched
  BY <1>4 DEF GiveUp, Turn, TakeSlot, FreeSlot, Refused, Matched
<1>5. CASE EnableCapture \/ ArmResult
  BY <1>5 DEF EnableCapture, ArmResult
<1>6. QED
  BY <1>1, <1>2, <1>3, <1>4, <1>5 DEF Between

\* An edge moves the memories and the engines as their types allow.
LEMMA EngineTypeEdge ==
  ASSUME SystemTypeOK, NEW cmd, NEW ev, NEW errs, NEW take \in BOOLEAN, NEW in \in Signals,
         NEW rin, EdgeOf(cmd, ev, errs, take, in, rin), WithCommand(cmd)
  PROVE  ReceiverTypeOK' /\ LoopTypeOK' /\ captureEnable' = captureEnable
<1> USE DEF SystemTypeOK, ReceiverTypeOK, LoopTypeOK, RingTypeOK
<1>1. Memories(ev, take) /\ Engines(ev) /\ Commanded(cmd)
  BY DEF EdgeOf
<1>2. /\ dmaState' \in {"idle", "running", "draining", "halted"}
      /\ dmaSlot' \in Slots \cup {NoSlot}
      /\ resultDma' \in {"idle", "running"}
      /\ resultBuffer' \in Packets
  BY <1>1 DEF Engines, CoreTypeOK, RuntimeTypeOK
<1>3. ddr' \in [Slots -> Ids \cup {Torn}]
  BY <1>1 DEF Memories
<1>4. /\ UNCHANGED <<ringVars, enabled, faults, received, taken, candidates, candidatesValid,
                     captureEnable>>
      /\ prepared' \in [Slots -> BOOLEAN]
  BY DEF WithCommand, loopVars
<1>5. pc' \in LoopAt /\ svc' \in ServiceAt
  BY DEF WithCommand, LoopAt, ServiceAt
<1>6. QED
  BY <1>2, <1>3, <1>4, <1>5 DEF ringVars

\* So does the software.
LEMMA BetweenType ==
  ASSUME SystemTypeOK, Between
  PROVE  ReceiverTypeOK' /\ LoopTypeOK'
<1> USE DEF SystemTypeOK, ReceiverTypeOK, LoopTypeOK, RingTypeOK
<1> USE DEF hwVars, envVars, dmaVars, recVars, ringVars, loopVars, LoopAt, ServiceAt
<1>1. CASE Drain
  <2>1. ddr' \in [Slots -> Ids \cup {Torn}]
    BY <1>1 DEF Drain, CoreTypeOK, TapTypeOK
  <2>2. QED
    BY <1>1, <2>1 DEF Drain
<1>2. CASE DmaFault
  BY <1>2 DEF DmaFault
<1>3. CASE ServiceErrors
  <2>1. enabled' \in BOOLEAN /\ faults' \in BOOLEAN /\ svc' \in ServiceAt
    BY <1>3 DEF ServiceErrors, FailReceiver
  <2>2. QED
    BY <1>3, <2>1 DEF ServiceErrors
<1>4. CASE ServiceStatus
  <2>1. enabled' \in BOOLEAN /\ faults' \in BOOLEAN /\ svc' \in ServiceAt
    BY <1>4 DEF ServiceStatus, FailReceiver
  <2>2. QED
    BY <1>4, <2>1 DEF ServiceStatus
<1>5. CASE ServiceBusy
  BY <1>5 DEF ServiceBusy
<1>6. CASE ServiceCount
  <2>1. enabled' \in BOOLEAN /\ faults' \in BOOLEAN /\ svc' \in ServiceAt
    BY <1>6 DEF ServiceCount, FailReceiver
  <2>2. QED
    BY <1>6, <2>1 DEF ServiceCount
<1>7. CASE ServiceIdentity
  <2>1. CASE ~CanComplete(completedId)
    BY <1>7, <2>1 DEF ServiceIdentity, Complete, FailReceiver
  <2>2. CASE Complete(completedId) /\ received' = Inc(received)
    <3>1. received' \in Ids
      BY <2>2, IncType
    <3>2. ringState' \in [Slots -> {"FREE", "DMA", "READY", "CPU"}]
      BY <2>2 DEF Complete
    <3>3. CanComplete(completedId)
      BY <2>2 DEF Complete
    <3>4. QED
      BY <1>7, <2>2, <3>1, <3>2, <3>3 DEF ServiceIdentity, Complete
  <2>3. QED
    BY <1>7, <2>1, <2>2 DEF ServiceIdentity
<1>8. CASE ServiceReserve
  <2>1. CASE ~CanReserve
    BY <1>8, <2>1 DEF ServiceReserve, Reserve
  <2>2. CASE Reserve(captureNextId)
    <3>1. ringDma' \in Slots
      BY <2>2, ReservedSlot DEF Reserve
    <3>2. ringId' \in [Slots -> Ids]
      BY <2>2 DEF Reserve, CoreTypeOK, FBTypeOK
    <3>3. ringState' \in [Slots -> {"FREE", "DMA", "READY", "CPU"}]
      BY <2>2 DEF Reserve
    <3>4. CanReserve
      BY <2>2 DEF Reserve
    <3>5. enabled' \in BOOLEAN /\ faults' \in BOOLEAN /\ svc' \in ServiceAt
      BY <1>8, <3>4 DEF ServiceReserve, FailReceiver
    <3>6. QED
      BY <1>8, <2>2, <3>1, <3>2, <3>3, <3>5 DEF ServiceReserve, Reserve
  <2>3. QED
    BY <1>8, <2>1, <2>2 DEF ServiceReserve
<1>9. CASE ServiceArm
  BY <1>9 DEF ServiceArm, FailReceiver
<1>10. CASE GiveUp
  BY <1>10 DEF GiveUp, Goto
<1>11. CASE Turn
  BY <1>11 DEF Turn, Goto, CallService
<1>12. CASE TakeSlot
  <2>1. consumerImageId \in Ids
    BY DEF CoreTypeOK, FBTypeOK
  <2>2. ringCpu' \in Slots
    BY <1>12, <2>1, TakenSlot DEF TakeSlot, Take
  <2>3. taken' \in Ids
    BY <1>12, IncType DEF TakeSlot
  <2>4. ringState' \in [Slots -> {"FREE", "DMA", "READY", "CPU"}]
    BY <1>12 DEF TakeSlot, Take
  <2>5. QED
    BY <1>12, <2>2, <2>3, <2>4 DEF TakeSlot, Take, Goto
<1>13. CASE FreeSlot
  <2>1. ringState' \in [Slots -> {"FREE", "DMA", "READY", "CPU"}]
    BY <1>13 DEF FreeSlot, Release
  <2>2. prepared' \in [Slots -> BOOLEAN]
    BY <1>13 DEF FreeSlot
  <2>3. QED
    BY <1>13, <2>1, <2>2 DEF FreeSlot, Release, CallService
<1>14. CASE Refused
  BY <1>14 DEF Refused, FailReceiver
<1>15. CASE Matched
  <2>1. candidatesValid' \in BOOLEAN
    BY <1>15 DEF Matched
  <2>2. QED
    BY <1>15, <2>1 DEF Matched, Goto
<1>16. CASE EnableCapture
  BY <1>16 DEF EnableCapture, Goto
<1>17. CASE ArmResult
  BY <1>17 DEF ArmResult, Goto
<1>18. QED
  BY <1>1, <1>2, <1>3, <1>4, <1>5, <1>6, <1>7, <1>8, <1>9, <1>10, <1>11, <1>12, <1>13, <1>14,
     <1>15, <1>16, <1>17 DEF Between

LEMMA TypeInit == Init => SystemTypeOK
<1> SUFFICES ASSUME Init PROVE SystemTypeOK
  OBVIOUS
<1>1. 0 \in Ids
  BY DEF Ids
<1>2. RingTypeOK
  BY RingInvInit DEF Init, RingInv
<1>3. NoPacket \in Packets
  BY <1>1 DEF NoPacket, Packets
<1>4. ddr \in [Slots -> Ids \cup {Torn}] /\ prepared \in [Slots -> BOOLEAN]
  BY DEF Init
<1>5. ReceiverTypeOK
  BY <1>1, <1>2, <1>4 DEF Init, ReceiverTypeOK, Slots, LoopAt, ServiceAt
<1>6. LoopTypeOK
  BY <1>3 DEF Init, LoopTypeOK
<1>7. CoreTypeOK
  BY CoreTypeInit
<1>8. QED
  BY <1>5, <1>6, <1>7 DEF SystemTypeOK

LEMMA CoreTypeUnchanged ==
  ASSUME CoreTypeOK, UNCHANGED coreVars, captureEnable' \in BOOLEAN
  PROVE  CoreTypeOK'
BY DEF CoreTypeOK, FBTypeOK, RuntimeTypeOK, TapTypeOK, coreVars, fbVars, capVars, conVars, bankVars,
       cntVars, rcVars, complVars, ctrlVars, fidVars, pktVars

LEMMA TypeNext == SystemTypeOK /\ [Next]_vars => SystemTypeOK'
<1> SUFFICES ASSUME SystemTypeOK, [Next]_vars PROVE SystemTypeOK'
  OBVIOUS
<1>1. CASE Next
  <2>1. ASSUME NEW cmd, NEW ev, NEW errs, NEW rin, NEW take \in BOOLEAN, NEW in \in Signals,
               EdgeOf(cmd, ev, errs, take, in, rin), WithCommand(cmd)
        PROVE  SystemTypeOK'
    BY <2>1, CoreTypeEdge, EngineTypeEdge DEF SystemTypeOK, CoreTypeOK
  <2>2. CASE Between
    <3>1. UNCHANGED coreVars /\ captureEnable' \in BOOLEAN
      BY <2>2, BetweenCore DEF SystemTypeOK, CoreTypeOK
    <3>2. QED
      BY <2>2, <3>1, CoreTypeUnchanged, BetweenType DEF SystemTypeOK
  <2>3. QED
    BY <1>1, <2>1, <2>2, Steps DEF SystemTypeOK, ReceiverTypeOK
<1>2. CASE UNCHANGED vars
  <2>1. UNCHANGED coreVars /\ UNCHANGED captureEnable
    BY <1>2 DEF vars, coreVars, envVars, loopVars
  <2>2. ReceiverTypeOK' /\ LoopTypeOK'
    BY <1>2 DEF SystemTypeOK, ReceiverTypeOK, LoopTypeOK, RingTypeOK, vars, envVars, dmaVars, recVars,
                ringVars, loopVars
  <2>3. QED
    BY <2>1, <2>2, CoreTypeUnchanged DEF SystemTypeOK, CoreTypeOK
<1>3. QED
  BY <1>1, <1>2

\* Every variable of the frame path keeps its type.
THEOREM SystemTypeCorrect == Spec => []SystemTypeOK
BY TypeInit, TypeNext, PTL DEF Spec

-----------------------------------------------------------------------------
(* The camera side.                                                         *)

\* The banks and the frame numbers, as in the controller alone.
BankInv == FBInv /\ Accounting /\ CompletionCount

\* The tap, the writer and the controller agree on the frame under way.
TapInv ==
  /\ inflight <=> capturing \/ captureRelease
  /\ ~(capturing /\ captureRelease)
  /\ fe # "idle" <=> inflight
  /\ selected <=> gray = "open"
  /\ selected => fe = "open"
  /\ gray # "idle" => capturing /\ ~imageSeen
  /\ (capturing /\ feSeen) \/ captureRelease => fe = "ready"
  /\ imageId = id[writeBank]
  /\ damaged => imageOverflow

\* A bank that has left the camera side holds the whole frame of its id.
BramInv ==
  /\ fe = "ready" => bram[writeBank] = id[writeBank]
  /\ \A b \in Banks : state[b] \in {"READY", "CONSUMING"} => bram[b] = id[b]

LEMMA BankInit == Init => BankInv /\ TapInv /\ BramInv
<1> SUFFICES ASSUME Init PROVE BankInv /\ TapInv /\ BramInv
  OBVIOUS
<1>1. BankInv
  BY FBInvInit, AccountingInit DEF Init, BankInv, CompletionCount, FBInit
<1>2. TapInv
  BY DEF Init, FBInit, TapInv, Banks
<1>3. BramInv
  BY DEF Init, FBInit, BramInv, Banks
<1>4. QED
  BY <1>1, <1>2, <1>3

LEMMA BankEdge ==
  ASSUME CoreTypeOK, BankInv, NEW cmd, NEW ev, NEW errs, NEW take \in BOOLEAN,
         NEW in \in Signals, NEW rin, EdgeOf(cmd, ev, errs, take, in, rin)
  PROVE  BankInv'
BY TypeStep, OwnerFlagsStep, RingOrderStep, AccountingStep, CompletionCountStep
   DEF EdgeOf, BankInv, FBInv

\* The registers of the camera side after an edge.
LEMMA CaptureRegisters ==
  ASSUME CoreTypeOK, BankInv, TapInv, NEW cmd, NEW ev, NEW errs, NEW take \in BOOLEAN,
         NEW in \in Signals, NEW rin, EdgeOf(cmd, ev, errs, take, in, rin)
  PROVE  /\ capturing' = ((capturing \/ take) /\ ~Commit) /\ captureRelease' = Commit
         /\ imageSeen' = ("grayLast" \in ev \/ (imageSeen /\ ~take))
         /\ feSeen' = ((capturing /\ fe = "ready") \/ (feSeen /\ ~take))
         /\ writeBank' = (IF take THEN tail ELSE writeBank)
         /\ id' = IF take THEN [id EXCEPT ![tail] = captureNextId] ELSE id
         /\ "grayLast" \in ev <=> ImageOk(in)
         /\ take => ~capturing /\ ~captureRelease /\ fe = "idle" /\ ~Commit
<1> USE DEF CoreTypeOK, FBTypeOK, TapTypeOK
<1>1. Wired(cmd, ev, errs, take, in, rin) /\ Occurring(ev, errs) /\ CaptureSide(in)
  BY DEF EdgeOf, Edge
<1>2. Accept(in) <=> take
  BY <1>1 DEF Wired
<1>3. "grayLast" \in ev <=> ImageOk(in)
  <2>1. /\ in.imageDone = ("grayLast" \in ev) /\ in.imageId = imageId
    BY <1>1 DEF Wired
  <2>2. "grayLast" \in ev => capturing /\ ~imageSeen /\ imageId = id[writeBank]
    BY <1>1 DEF Occurring, TapInv
  <2>3. QED
    BY <2>1, <2>2 DEF ImageOk
<1>4. in.feReady <=> fe = "ready"
  BY <1>1 DEF Wired
<1>5. take => ~capturing /\ ~captureRelease /\ fe = "idle" /\ ~Commit
  BY <1>1 DEF Wired, TapInv, Commit
<1>6. capturing' = ((capturing \/ take) /\ ~Commit) /\ captureRelease' = Commit
  BY <1>1, <1>2 DEF CaptureSide
<1>7. imageSeen' = ("grayLast" \in ev \/ (imageSeen /\ ~take))
  BY <1>1, <1>2, <1>3 DEF CaptureSide
<1>8. feSeen' = ((capturing /\ fe = "ready") \/ (feSeen /\ ~take))
  BY <1>1, <1>2, <1>4 DEF CaptureSide
<1>9. writeBank' = IF take THEN tail ELSE writeBank
  BY <1>1, <1>2 DEF CaptureSide
<1>10. id' = IF take THEN [id EXCEPT ![tail] = captureNextId] ELSE id
  BY <1>2 DEF EdgeOf, Edge
<1>11. QED
  BY <1>3, <1>5, <1>6, <1>7, <1>8, <1>9, <1>10

LEMMA TapEdge ==
  ASSUME CoreTypeOK, BankInv, TapInv, NEW cmd, NEW ev, NEW errs, NEW take \in BOOLEAN,
         NEW in \in Signals, NEW rin, EdgeOf(cmd, ev, errs, take, in, rin)
  PROVE  TapInv'
<1> USE DEF CoreTypeOK, FBTypeOK, TapTypeOK, TapInv
<1>1. Tap(ev, take) /\ Occurring(ev, errs)
  BY DEF EdgeOf
<1>2. take => "sof" \in ev
  BY DEF EdgeOf, Wired
<1>3. inflight' = (take \/ (inflight /\ ~captureRelease))
  BY <1>1 DEF Tap
<1>4. (inflight' <=> capturing' \/ captureRelease') /\ ~(capturing' /\ captureRelease')
  BY <1>3, CaptureRegisters DEF Commit
<1>5. fe' # "idle" <=> inflight'
  BY <1>1, <1>3, CaptureRegisters DEF Tap, Occurring
<1>6. (selected' <=> gray' = "open") /\ (selected' => fe' = "open")
  BY <1>1, <1>2, CaptureRegisters DEF Tap, Occurring
<1>7. gray' # "idle" => capturing' /\ ~imageSeen'
  BY <1>1, <1>2, CaptureRegisters DEF Tap, Occurring, Commit
<1>8. (capturing' /\ feSeen') \/ captureRelease' => fe' = "ready"
  BY <1>1, CaptureRegisters DEF Tap, Occurring, Commit
<1>9. imageId' = id'[writeBank']
  BY <1>1, CaptureRegisters DEF Tap
<1>10. damaged' => imageOverflow'
  BY <1>1 DEF Tap
<1>11. QED
  BY <1>4, <1>5, <1>6, <1>7, <1>8, <1>9, <1>10

LEMMA BramEdge ==
  ASSUME CoreTypeOK, BankInv, TapInv, BramInv, NEW cmd, NEW ev, NEW errs, NEW take \in BOOLEAN,
         NEW in \in Signals, NEW rin, EdgeOf(cmd, ev, errs, take, in, rin)
  PROVE  BramInv'
<1> USE DEF CoreTypeOK, FBTypeOK, TapTypeOK, TapInv, BramInv, Banks
<1>1. Tap(ev, take) /\ Memories(ev, take) /\ Occurring(ev, errs)
  BY DEF EdgeOf
<1>2. FBInv /\ Edge(in) /\ (Accept(in) <=> take)
  BY DEF EdgeOf, Wired, BankInv
<1>3. fe' = "ready" => bram'[writeBank'] = id'[writeBank']
  BY <1>1, CaptureRegisters DEF Tap, Memories, Occurring
<1>4. ASSUME NEW b \in Banks, state'[b] \in {"READY", "CONSUMING"}
      PROVE  bram'[b] = id'[b]
  <2>1. CASE Commit /\ b = writeBank
    <3>1. fe = "ready" /\ ~take
      BY <2>1, CaptureRegisters DEF Commit
    <3>2. bram'[b] = bram[b] /\ id'[b] = id[b]
      BY <1>1, <3>1, CaptureRegisters DEF Memories, Occurring
    <3>3. QED
      BY <2>1, <3>1, <3>2
  <2>2. CASE ~(Commit /\ b = writeBank)
    <3>1. state[b] \in {"READY", "CONSUMING"}
      BY <1>2, <1>4, <2>2, NextStateAt DEF Grant
    <3>2. b # tail \/ ~take
      BY <1>2, <3>1, EventGuards
    <3>3. fe = "closing" => b # writeBank
      BY <3>1 DEF BankInv, FBInv, OwnerFlags
    <3>4. bram'[b] = bram[b] /\ id'[b] = id[b]
      BY <1>1, <3>2, <3>3, CaptureRegisters DEF Memories, Occurring
    <3>5. QED
      BY <3>1, <3>4
  <2>3. QED
    BY <2>1, <2>2
<1>5. QED
  BY <1>3, <1>4

-----------------------------------------------------------------------------
(* The consumer side: the controller shows a frame, the runtime handles it. *)

\* A frame is shown, its start and its image replayed, and held until its release.
ConsumerPhase ==
  /\ consumerActive <=> consumerSof \/ consumerReady
  /\ ~(consumerSof /\ consumerReady)
  /\ consumerImageDone => consumerReady
  /\ consumerActive => ~dispatch

\* A frame is armed, launched, acknowledged and released, in that order, while shown.
FrameLife ==
  /\ ~consumerReady => /\ ~activeValid /\ ~frameActive /\ ~frameComplete
                       /\ ~frontendRelease /\ ~launched
  /\ consumerSof => armed
  /\ consumerImageDone => /\ activeValid /\ frameActive /\ ~frameComplete
                          /\ ~frontendRelease /\ ~launched /\ armed /\ ~imageDoneSeen
  /\ consumerReady /\ ~consumerImageDone =>
       /\ activeValid
       /\ \/ frameActive /\ ~frameComplete /\ ~frontendRelease /\ (armed <=> ~launched)
          \/ ~frameActive /\ frameComplete /\ ~frontendRelease /\ launched /\ ~armed
          \/ ~frameActive /\ ~frameComplete /\ frontendRelease /\ ~launched /\ ~armed

\* A launch is one start pulse, then one packet, then its end seen; the frame is
\* complete when the ends of the image and of the packet have been seen.
OneLaunch ==
  /\ start \/ builder # "IDLE" => frameActive /\ launched /\ ~resultDoneSeen
  /\ start => builder = "IDLE"
  /\ resultDoneSeen => frameActive /\ launched
  /\ imageDoneSeen => frameActive
  /\ completePending => frameActive /\ imageDoneSeen /\ resultDoneSeen

\* Both numberings count the frames released; the packet carries the active id.
IdentityInv ==
  /\ nextFrameId = IF activeValid THEN Inc(released) ELSE released
  /\ activeValid => activeFrameId = released
  /\ consumerActive => consumerImageId = released

PacketInv ==
  /\ builder # "IDLE" \/ resultDoneSeen => packet.id = activeFrameId
  /\ packet.flags = {} => packet.records

ConsumerInv == ConsumerPhase /\ FrameLife /\ OneLaunch /\ IdentityInv /\ PacketInv

LEMMA ConsumerInit == Init => ConsumerInv
<1> SUFFICES ASSUME Init PROVE ConsumerInv
  OBVIOUS
<1>1. ConsumerPhase /\ FrameLife /\ OneLaunch
  BY DEF Init, FBInit, RCInit, ConsumerPhase, FrameLife, OneLaunch
<1>2. IdentityInv
  BY DEF Init, FBInit, RCInit, IdentityInv
<1>3. PacketInv
  BY DEF Init, RCInit, PacketInv, NoPacket
<1>4. QED
  BY <1>1, <1>2, <1>3 DEF ConsumerInv

\* The registers of the consumer side after an edge.
LEMMA ConsumerRegisters ==
  ASSUME CoreTypeOK, BankInv, ConsumerInv, NEW cmd, NEW ev, NEW errs, NEW take \in BOOLEAN,
         NEW in \in Signals, NEW rin, EdgeOf(cmd, ev, errs, take, in, rin)
  PROVE  /\ dispatch' = ((dispatch \/ (cmd = "dispatch" /\ ~consumerActive)) /\ ~Grant)
         /\ consumerActive' = ((consumerActive \/ Grant) /\ ~frontendRelease)
         /\ consumerReady' = ((consumerReady \/ consumerSof) /\ ~frontendRelease)
         /\ consumerSof' = Grant /\ consumerImageDone' = consumerSof
         /\ consumerImageId' = (IF Grant THEN released ELSE consumerImageId)
         /\ released' = (IF frontendRelease THEN Inc(released) ELSE released)
         /\ Grant => ~consumerActive /\ ~frontendRelease
         /\ Retire(in) <=> frontendRelease
<1> USE DEF CoreTypeOK, FBTypeOK, RuntimeTypeOK
<1>1. Wired(cmd, ev, errs, take, in, rin) /\ ConsumerSide(in)
  BY DEF EdgeOf, Edge
<1>2. in.release = frontendRelease /\ in.cmdDispatch = (cmd = "dispatch")
  BY <1>1 DEF Wired
<1>3. frontendRelease => consumerReady /\ consumerActive
  BY DEF ConsumerInv, ConsumerPhase, FrameLife
<1>4. consumerActive => state[head] = "CONSUMING"
  BY DEF BankInv, FBInv, OwnerFlags, Banks
<1>5. Retire(in) <=> frontendRelease
  BY <1>2, <1>3, <1>4 DEF Retire
<1>6. Grant => ~consumerActive /\ state[head] = "READY"
  BY DEF Grant
<1>7. Grant => id[head] = released
  <2>1. state[head] = "READY" => id[head] = Ahead(InitialId, released)
    BY DEF BankInv, Accounting
  <2>2. Ahead(InitialId, released) = released
    BY DEF Ahead, Ids
  <2>3. QED
    BY <1>6, <2>1, <2>2
<1>8. dispatch' = ((dispatch \/ (cmd = "dispatch" /\ ~consumerActive)) /\ ~Grant)
  BY <1>1, <1>2 DEF ConsumerSide
<1>9. /\ consumerActive' = ((consumerActive \/ Grant) /\ ~frontendRelease)
      /\ consumerReady' = ((consumerReady \/ consumerSof) /\ ~frontendRelease)
  BY <1>1, <1>5 DEF ConsumerSide
<1>10. consumerSof' = Grant /\ consumerImageDone' = consumerSof
  BY <1>1 DEF ConsumerSide
<1>11. /\ consumerImageId' = IF Grant THEN released ELSE consumerImageId
       /\ released' = IF frontendRelease THEN Inc(released) ELSE released
  BY <1>1, <1>5, <1>7 DEF ConsumerSide
<1>12. QED
  BY <1>3, <1>5, <1>6, <1>8, <1>9, <1>10, <1>11

\* What the runtime block finds at its inputs.
LEMMA RuntimeInputs ==
  ASSUME CoreTypeOK, NEW cmd, NEW ev, NEW errs, NEW take \in BOOLEAN,
         NEW in \in Signals, NEW rin, EdgeOf(cmd, ev, errs, take, in, rin)
  PROVE  /\ Completion(rin) /\ FrameCtrl(rin) /\ FrameId(rin) /\ Packet(rin)
         /\ (rin.sof <=> consumerSof) /\ (rin.imageDone <=> consumerImageDone)
         /\ (rin.feReady <=> consumerReady)
         /\ (rin.ack <=> cmd = "ack") /\ (rin.streamStart <=> cmd = "stream")
         /\ (rin.collected <=> "collected" \in ev) /\ rin.errs = errs
         /\ (rin.lastBeat <=> "lastBeat" \in ev)
         /\ rin.enable /\ rin.auto
         /\ ~rin.errorClear /\ ~rin.manualStart /\ ~rin.seedWrite
BY DEF EdgeOf, Wired, RuntimeWires, RCEdge

LEMMA ConsumerPhaseEdge ==
  ASSUME CoreTypeOK, BankInv, ConsumerInv, NEW cmd, NEW ev, NEW errs, NEW take \in BOOLEAN,
         NEW in \in Signals, NEW rin, EdgeOf(cmd, ev, errs, take, in, rin)
  PROVE  ConsumerPhase'
<1>1. ConsumerPhase /\ FrameLife
  BY DEF ConsumerInv
<1>2. /\ dispatch' = ((dispatch \/ (cmd = "dispatch" /\ ~consumerActive)) /\ ~Grant)
      /\ consumerActive' = ((consumerActive \/ Grant) /\ ~frontendRelease)
      /\ consumerReady' = ((consumerReady \/ consumerSof) /\ ~frontendRelease)
      /\ consumerSof' = Grant /\ consumerImageDone' = consumerSof
      /\ Grant => ~consumerActive /\ ~frontendRelease
  BY ConsumerRegisters
<1>3. QED
  BY <1>1, <1>2 DEF ConsumerPhase, FrameLife

\* An acknowledge that is accepted finds the packet gone; a start finds none yet.
LEMMA AckLast ==
  ASSUME ConsumerInv, NEW rin, AckOk(rin)
  PROVE  /\ consumerReady /\ ~consumerImageDone /\ frameActive /\ launched /\ ~armed
         /\ ~start /\ builder = "IDLE" /\ activeValid /\ ~frameComplete /\ ~frontendRelease
BY DEF ConsumerInv, ConsumerPhase, FrameLife, OneLaunch, AckOk

LEMMA StartFirst ==
  ASSUME ConsumerInv, NEW rin, CanStart(rin), rin.feReady <=> consumerReady
  PROVE  /\ consumerReady /\ frameActive /\ ~launched /\ armed /\ activeValid
         /\ ~resultDoneSeen /\ ~start /\ builder = "IDLE" /\ ~frameComplete /\ ~frontendRelease
BY DEF ConsumerInv, ConsumerPhase, FrameLife, OneLaunch, CanStart, ProcessingBusy

LEMMA FrameLifeEdge ==
  ASSUME CoreTypeOK, BankInv, ConsumerInv, NEW cmd, NEW ev, NEW errs, NEW take \in BOOLEAN,
         NEW in \in Signals, NEW rin, EdgeOf(cmd, ev, errs, take, in, rin)
  PROVE  FrameLife'
<1>0. /\ Completion(rin) /\ FrameCtrl(rin) /\ FrameId(rin) /\ Packet(rin)
      /\ (rin.sof <=> consumerSof) /\ (rin.feReady <=> consumerReady) /\ ~rin.manualStart
      /\ ~rin.seedWrite
  BY RuntimeInputs
<1>00. /\ consumerActive' = ((consumerActive \/ Grant) /\ ~frontendRelease)
       /\ consumerReady' = ((consumerReady \/ consumerSof) /\ ~frontendRelease)
       /\ consumerSof' = Grant /\ consumerImageDone' = consumerSof
       /\ Grant => ~consumerActive /\ ~frontendRelease
  BY ConsumerRegisters
<1>1. ConsumerPhase /\ FrameLife /\ OneLaunch
  BY DEF ConsumerInv
<1>2. /\ frameActive' = ((frameActive \/ SofOk(rin)) /\ ~AckOk(rin))
      /\ frameComplete' = AckOk(rin)
      /\ imageDoneSeen' = (((imageDoneSeen /\ ~SofOk(rin)) \/ ImageFresh(rin)) /\ ~AckOk(rin))
  BY <1>0 DEF Completion
<1>3. /\ armed' = ((armed \/ ~consumerReady) /\ ~CanStart(rin))
      /\ launched' = ((launched \/ CanStart(rin)) /\ ~frameComplete)
      /\ frontendRelease' = frameComplete
  BY <1>0 DEF FrameCtrl
<1>4. activeValid' = ((activeValid \/ consumerSof) /\ ~frontendRelease)
  BY <1>0 DEF FrameId
<1>5. CanStart(rin) => /\ consumerReady /\ frameActive /\ ~launched /\ armed /\ activeValid
                       /\ ~frameComplete /\ ~frontendRelease
  BY StartFirst, RuntimeInputs
<1>6. AckOk(rin) => /\ consumerReady /\ ~consumerImageDone /\ frameActive /\ launched /\ ~armed
                    /\ activeValid /\ ~frameComplete /\ ~frontendRelease
  BY AckLast
<1>7. SofOk(rin) <=> consumerSof
  BY <1>1, RuntimeInputs DEF SofOk, ConsumerPhase, FrameLife, OneLaunch
<1>8. ImageFresh(rin) <=> consumerImageDone
  BY <1>1, RuntimeInputs DEF ImageFresh, FrameLife
<1>9. CASE ~consumerActive
  BY <1>1, <1>2, <1>3, <1>4, <1>5, <1>6, <1>7, <1>8, <1>9, <1>00
     DEF ConsumerPhase, FrameLife, OneLaunch
<1>10. CASE consumerSof
  BY <1>1, <1>2, <1>3, <1>4, <1>5, <1>6, <1>7, <1>8, <1>10, <1>00
     DEF ConsumerPhase, FrameLife, OneLaunch
<1>11. CASE consumerReady
  BY <1>1, <1>2, <1>3, <1>4, <1>5, <1>6, <1>7, <1>8, <1>11, <1>00
     DEF ConsumerPhase, FrameLife, OneLaunch
<1>12. QED
  BY <1>1, <1>9, <1>10, <1>11 DEF ConsumerPhase

LEMMA OneLaunchEdge ==
  ASSUME CoreTypeOK, BankInv, ConsumerInv, NEW cmd, NEW ev, NEW errs, NEW take \in BOOLEAN,
         NEW in \in Signals, NEW rin, EdgeOf(cmd, ev, errs, take, in, rin)
  PROVE  OneLaunch'
<1>0. /\ Completion(rin) /\ FrameCtrl(rin) /\ FrameId(rin) /\ Packet(rin)
      /\ (rin.sof <=> consumerSof) /\ (rin.feReady <=> consumerReady) /\ ~rin.manualStart
      /\ ~rin.seedWrite
  BY RuntimeInputs
<1>1. ConsumerPhase /\ FrameLife /\ OneLaunch
  BY DEF ConsumerInv
<1>2. builder \in BuilderState
  BY DEF CoreTypeOK, RuntimeTypeOK
<1>3. /\ frameActive' = ((frameActive \/ SofOk(rin)) /\ ~AckOk(rin))
      /\ imageDoneSeen' = (((imageDoneSeen /\ ~SofOk(rin)) \/ ImageFresh(rin)) /\ ~AckOk(rin))
      /\ resultDoneSeen' = (((resultDoneSeen /\ ~SofOk(rin)) \/ ResultFresh) /\ ~AckOk(rin))
      /\ completePending' = ((completePending \/ BothDone(rin)) /\ ~AckOk(rin))
  BY <1>0 DEF Completion, PendingNext
<1>4. start' = CanStart(rin) /\ launched' = ((launched \/ CanStart(rin)) /\ ~frameComplete)
  BY <1>0 DEF FrameCtrl
<1>5. /\ builder' # "IDLE" => start \/ builder \in {"COLLECT", "READY", "SEND"}
      /\ start => builder' # "IDLE"
      /\ builder = "DONE" => builder' = "IDLE"
  BY <1>0, <1>1, <1>2 DEF Packet, BuilderState, OneLaunch
<1>6. CanStart(rin) => /\ frameActive /\ ~launched /\ ~resultDoneSeen /\ ~start
                       /\ builder = "IDLE" /\ ~frameComplete
  BY StartFirst, RuntimeInputs
<1>7. AckOk(rin) => launched /\ ~start /\ builder = "IDLE"
  BY AckLast
<1>8. frameActive => ~frameComplete /\ ~SofOk(rin)
  BY <1>1 DEF FrameLife, SofOk, ConsumerPhase
<1>9. ResultFresh <=> builder = "DONE"
  BY <1>1 DEF ResultFresh, ResultTxDone, OneLaunch
<1>10. /\ BothDone(rin) => /\ frameActive
                           /\ imageDoneSeen \/ ImageFresh(rin)
                           /\ resultDoneSeen \/ ResultFresh
       /\ ImageFresh(rin) => frameActive
  BY <1>1 DEF BothDone, ImageFresh, ResultFresh
<1>11. start' => frameActive' /\ launched' /\ ~resultDoneSeen' /\ builder' = "IDLE"
  BY <1>3, <1>4, <1>5, <1>6, <1>7, <1>8, <1>9
<1>12. builder' # "IDLE" => frameActive' /\ launched' /\ ~resultDoneSeen'
  BY <1>1, <1>3, <1>4, <1>5, <1>7, <1>8, <1>9 DEF OneLaunch
<1>13. resultDoneSeen' => frameActive' /\ launched'
  BY <1>1, <1>3, <1>4, <1>8, <1>9 DEF OneLaunch
<1>14. /\ imageDoneSeen' => frameActive'
       /\ completePending' => frameActive' /\ imageDoneSeen' /\ resultDoneSeen'
  BY <1>1, <1>3, <1>8, <1>10 DEF OneLaunch
<1>15. QED
  BY <1>11, <1>12, <1>13, <1>14 DEF OneLaunch

LEMMA IdentityEdge ==
  ASSUME CoreTypeOK, BankInv, ConsumerInv, NEW cmd, NEW ev, NEW errs, NEW take \in BOOLEAN,
         NEW in \in Signals, NEW rin, EdgeOf(cmd, ev, errs, take, in, rin)
  PROVE  IdentityInv' /\ (activeValid /\ activeValid' => activeFrameId' = activeFrameId)
<1>0. /\ Completion(rin) /\ FrameCtrl(rin) /\ FrameId(rin) /\ Packet(rin)
      /\ (rin.sof <=> consumerSof) /\ (rin.feReady <=> consumerReady) /\ ~rin.manualStart
      /\ ~rin.seedWrite
  BY RuntimeInputs
<1>1. ConsumerPhase /\ FrameLife /\ IdentityInv
  BY DEF ConsumerInv
<1>2. /\ nextFrameId' = IF consumerSof /\ ~activeValid THEN Inc(nextFrameId) ELSE nextFrameId
      /\ activeFrameId' = IF consumerSof /\ ~activeValid THEN nextFrameId ELSE activeFrameId
      /\ activeValid' = ((activeValid \/ consumerSof) /\ ~frontendRelease)
  BY <1>0 DEF FrameId, SeedOk, IdForNewFrame
<1>3. QED
  BY <1>1, <1>2, ConsumerRegisters DEF ConsumerPhase, FrameLife, IdentityInv

LEMMA PacketEdge ==
  ASSUME CoreTypeOK, BankInv, ConsumerInv, NEW cmd, NEW ev, NEW errs, NEW take \in BOOLEAN,
         NEW in \in Signals, NEW rin, EdgeOf(cmd, ev, errs, take, in, rin)
  PROVE  PacketInv'
<1>0. /\ Completion(rin) /\ FrameCtrl(rin) /\ FrameId(rin) /\ Packet(rin)
      /\ (rin.sof <=> consumerSof) /\ (rin.feReady <=> consumerReady) /\ ~rin.manualStart
      /\ ~rin.seedWrite
  BY RuntimeInputs
<1>1. FrameLife /\ OneLaunch /\ PacketInv
  BY DEF ConsumerInv
<1>2. builder \in BuilderState /\ packet \in Packets
  BY DEF CoreTypeOK, RuntimeTypeOK
<1>3. /\ builder' # "IDLE" => start \/ builder \in {"COLLECT", "READY", "SEND"}
      /\ resultDoneSeen' => resultDoneSeen \/ builder = "DONE"
  BY <1>0, <1>1, <1>2
     DEF Packet, BuilderState, OneLaunch, Completion, ResultFresh, ResultTxDone
<1>4. ASSUME builder' # "IDLE" \/ resultDoneSeen'
      PROVE  activeFrameId' = activeFrameId
  <2>1. frameActive
    BY <1>1, <1>3, <1>4 DEF OneLaunch
  <2>2. activeValid /\ ~consumerSof
    BY <1>1, <2>1 DEF FrameLife, ConsumerInv, ConsumerPhase
  <2>3. QED
    BY <1>0, <2>2 DEF FrameId
<1>5. ASSUME builder' # "IDLE" \/ resultDoneSeen'
      PROVE  packet'.id = activeFrameId
  <2>1. CASE start
    <3>1. packet' = [NoPacket EXCEPT !.id = activeFrameId]
      BY <1>0, <1>1, <2>1 DEF Packet, OneLaunch
    <3>2. QED
      BY <3>1 DEF NoPacket
  <2>2. CASE ~start
    <3>1. packet.id = activeFrameId
      BY <1>1, <1>3, <1>5, <2>2 DEF PacketInv
    <3>2. packet'.id = packet.id
      BY <1>0, <1>2, <2>2 DEF Packet, Packets
    <3>3. QED
      BY <3>1, <3>2
  <2>3. QED
    BY <2>1, <2>2
<1>6. packet'.flags = {} => packet'.records
  <2>1. CASE builder = "IDLE" /\ start
    <3>1. packet' = [NoPacket EXCEPT !.id = activeFrameId]
      BY <1>0, <2>1 DEF Packet
    <3>2. QED
      BY <3>1 DEF NoPacket
  <2>2. CASE builder = "COLLECT" /\ rin.collected
    <3>1. packet' = [packet EXCEPT !.flags = FlagsAtDone(rin),
                                   !.records = "fatal" \notin FlagsAtDone(rin)]
      BY <1>0, <2>2 DEF Packet
    <3>2. packet'.flags = FlagsAtDone(rin) /\ packet'.records = ("fatal" \notin FlagsAtDone(rin))
      BY <1>2, <3>1 DEF Packets
    <3>3. QED
      BY <3>2
  <2>3. CASE ~(builder = "IDLE" /\ start) /\ ~(builder = "COLLECT" /\ rin.collected)
    <3>1. packet' = packet
      BY <1>0, <2>3 DEF Packet
    <3>2. QED
      BY <1>1, <3>1 DEF PacketInv
  <2>4. QED
    BY <2>1, <2>2, <2>3
<1>7. QED
  BY <1>4, <1>5, <1>6 DEF PacketInv

LEMMA ConsumerEdge ==
  ASSUME CoreTypeOK, BankInv, ConsumerInv, NEW cmd, NEW ev, NEW errs, NEW take \in BOOLEAN,
         NEW in \in Signals, NEW rin, EdgeOf(cmd, ev, errs, take, in, rin)
  PROVE  ConsumerInv'
BY ConsumerPhaseEdge, FrameLifeEdge, OneLaunchEdge, IdentityEdge, PacketEdge DEF ConsumerInv

-----------------------------------------------------------------------------
(* The logic, whatever the software commands and when.                      *)

CoreInv == BankInv /\ TapInv /\ BramInv /\ ConsumerInv

LEMMA CoreEdge ==
  ASSUME CoreTypeOK, CoreInv, NEW cmd, NEW ev, NEW errs, NEW take \in BOOLEAN,
         NEW in \in Signals, NEW rin, EdgeOf(cmd, ev, errs, take, in, rin)
  PROVE  CoreInv'
BY BankEdge, TapEdge, BramEdge, ConsumerEdge DEF CoreInv

LEMMA CoreUnchanged ==
  ASSUME CoreInv, UNCHANGED coreVars
  PROVE  CoreInv'
<1> USE DEF coreVars, fbVars, capVars, conVars, bankVars, cntVars, rcVars, complVars, ctrlVars,
            fidVars, pktVars
<1>1. FBInv'
  BY DEF CoreInv, BankInv, FBInv, FBTypeOK, OwnerFlags, RingOrder
<1>2. Accounting' /\ CompletionCount'
  BY DEF CoreInv, BankInv, Accounting, CompletionCount
<1>3. TapInv'
  BY DEF CoreInv, TapInv
<1>4. BramInv'
  BY DEF CoreInv, BramInv
<1>5. ConsumerInv'
  BY DEF CoreInv, ConsumerInv, ConsumerPhase, FrameLife, OneLaunch, IdentityInv, PacketInv
<1>6. QED
  BY <1>1, <1>2, <1>3, <1>4, <1>5 DEF CoreInv, BankInv

LEMMA CoreNext == SystemTypeOK /\ CoreInv /\ [Next]_vars => CoreInv'
<1> SUFFICES ASSUME SystemTypeOK, CoreInv, [Next]_vars PROVE CoreInv'
  OBVIOUS
<1>1. CASE Next
  <2>1. ASSUME NEW cmd, NEW ev, NEW errs, NEW rin, NEW take \in BOOLEAN, NEW in \in Signals,
               EdgeOf(cmd, ev, errs, take, in, rin)
        PROVE  CoreInv'
    BY <2>1, CoreEdge DEF SystemTypeOK
  <2>2. CASE Between
    BY <2>2, BetweenCore, CoreUnchanged
  <2>3. QED
    BY <1>1, <2>1, <2>2, Steps DEF SystemTypeOK, ReceiverTypeOK
<1>2. CASE UNCHANGED vars
  BY <1>2, CoreUnchanged DEF vars, coreVars, envVars
<1>3. QED
  BY <1>1, <1>2

LEMMA CoreInvariant == Spec => [](SystemTypeOK /\ CoreInv)
<1>1. Init => SystemTypeOK /\ CoreInv
  BY TypeInit, BankInit, ConsumerInit DEF CoreInv
<1>2. SystemTypeOK /\ CoreInv /\ [Next]_vars => SystemTypeOK' /\ CoreInv'
  BY TypeNext, CoreNext
<1>3. QED
  BY <1>1, <1>2, PTL DEF Spec

\* The frame that is shown, its ids and its bank.
LEMMA ShownFrame ==
  ASSUME SystemTypeOK, CoreInv, consumerActive
  PROVE  /\ consumerImageId = released /\ id[readBank] = released
         /\ readBank = head /\ state[readBank] = "CONSUMING"
         /\ capturing => writeBank # readBank
<1> USE DEF SystemTypeOK, CoreTypeOK, FBTypeOK, CoreInv, BankInv, FBInv
<1>1. consumerImageId = released
  BY DEF ConsumerInv, IdentityInv
<1>2. readBank = head /\ state[readBank] = "CONSUMING"
  BY DEF OwnerFlags
<1>3. id[readBank] = Ahead(InitialId, released)
  BY <1>2 DEF Accounting
<1>4. capturing => writeBank # readBank
  BY <1>2 DEF OwnerFlags
<1>5. QED
  BY <1>1, <1>2, <1>3, <1>4 DEF Ahead, Ids

\* The feature pipeline reads a bank that holds the whole binary frame of the id of
\* its packet, and the two numberings agree, whatever the camera, the memories and the
\* processor do.
THEOREM BinaryBankIntactHolds == Spec => []BinaryBankIntact
<1>1. SystemTypeOK /\ CoreInv => BinaryBankIntact
  <2> SUFFICES ASSUME SystemTypeOK, CoreInv PROVE BinaryBankIntact
    OBVIOUS
  <2>1. activeValid => consumerActive /\ activeFrameId = released
    BY DEF CoreInv, ConsumerInv, ConsumerPhase, FrameLife, IdentityInv
  <2>2. builder = "COLLECT" => activeValid /\ packet.id = activeFrameId
    BY DEF CoreInv, ConsumerInv, FrameLife, OneLaunch, PacketInv, ConsumerPhase
  <2>3. fe \in {"open", "closing"} => capturing
    BY DEF CoreInv, TapInv
  <2>4. consumerActive => bram[readBank] = released
    BY ShownFrame DEF CoreInv, BramInv, SystemTypeOK, CoreTypeOK, FBTypeOK
  <2>5. QED
    BY <2>1, <2>2, <2>3, <2>4, ShownFrame DEF BinaryBankIntact
<1>2. QED
  BY <1>1, CoreInvariant, PTL

-----------------------------------------------------------------------------
(* The receiver: slots, the image DMA and the credit.                       *)

\* The ring is called with the ids of the controller only, so it is the ring of any
\* caller, and its ownership invariant holds.
LEMMA RingStep ==
  ASSUME CoreTypeOK, Between
  PROVE  [RingNext]_ringVars
<1> USE DEF recVars
<1>1. captureNextId \in Ids /\ completedId \in Ids /\ consumerImageId \in Ids
  BY DEF CoreTypeOK, FBTypeOK
<1>2. CASE Drain \/ DmaFault
  BY <1>2 DEF Drain, DmaFault
<1>3. CASE ServiceErrors \/ ServiceStatus \/ ServiceBusy \/ ServiceCount \/ ServiceArm
  BY <1>3 DEF ServiceErrors, ServiceStatus, ServiceBusy, ServiceCount, ServiceArm
<1>4. CASE ServiceIdentity
  BY <1>1, <1>4 DEF ServiceIdentity, RingNext
<1>5. CASE ServiceReserve
  BY <1>1, <1>5 DEF ServiceReserve, RingNext
<1>6. CASE TakeSlot
  BY <1>1, <1>6 DEF TakeSlot, RingNext
<1>7. CASE FreeSlot
  BY <1>7 DEF FreeSlot, RingNext
<1>8. CASE GiveUp \/ Turn \/ Refused \/ Matched \/ EnableCapture \/ ArmResult
  BY <1>8 DEF GiveUp, Turn, Refused, Matched, EnableCapture, ArmResult
<1>9. QED
  BY <1>2, <1>3, <1>4, <1>5, <1>6, <1>7, <1>8 DEF Between

LEMMA RingNextStep == SystemTypeOK /\ RingInv /\ [Next]_vars => RingInv'
<1> SUFFICES ASSUME SystemTypeOK, RingInv, [Next]_vars PROVE [RingNext]_ringVars
  BY RingInvNext
<1>1. CASE Next
  <2>1. ASSUME NEW cmd, WithCommand(cmd) PROVE UNCHANGED ringVars
    BY <2>1 DEF WithCommand
  <2>2. QED
    BY <1>1, <2>1, RingStep, Steps DEF SystemTypeOK, ReceiverTypeOK
<1>2. CASE UNCHANGED vars
  BY <1>2 DEF vars, recVars
<1>3. QED
  BY <1>1, <1>2

\* A credit is outstanding, or its frame has not delivered its image yet; the service is
\* on its way to the next credit; the image has ended.
AwaitingImage == capturing /\ ~imageSeen
CreditDue == credit \/ AwaitingImage
Arming == svc \in {"arm", "credit"}
Arrived == ringDma # NoSlot /\ ~CreditDue /\ ~Arming

\* Where the reserved slot stands tells what the DMA engine does and what the
\* controller will number next.
DmaInv ==
  /\ ~(credit /\ AwaitingImage)
  /\ ringDma = NoSlot => dmaState = "idle" /\ ~CreditDue
  /\ Arming => ringDma # NoSlot /\ ~CreditDue /\ ringId[ringDma] = captureNextId
  /\ svc = "arm" => dmaState = "idle"
  /\ svc = "credit" => dmaState \in {"running", "halted"}
  /\ CreditDue => /\ dmaState \in {"running", "halted"}
                  /\ ringId[ringDma] = IF credit THEN captureNextId ELSE id[writeBank]
  /\ Arrived => dmaState \in {"draining", "idle"} /\ imageId = ringId[ringDma]
  /\ dmaState # "idle" => dmaSlot = ringDma
  /\ dmaState = "halted" => "dmaError" \in environment

\* The place in the service.
ServiceInv ==
  /\ svc = "reserve" => ringDma = NoSlot
  /\ svc \in {"status", "busy", "count", "identity"} => ringDma # NoSlot
  /\ svc \in {"count", "identity"} => dmaState = "idle"

\* The controller is one image ahead of the receiver while one has arrived.
CountInv ==
  /\ completed = IF Arrived THEN Inc(received) ELSE received
  /\ Arrived => completedId = imageId

\* The cache lines of a free slot are clean.
PreparedInv == \A s \in Slots : ringState[s] = "FREE" => prepared[s]

CreditInv == DmaInv /\ ServiceInv /\ CountInv /\ PreparedInv

LEMMA CreditInit == Init => RingInv /\ CreditInv
<1> SUFFICES ASSUME Init PROVE RingInv /\ CreditInv
  OBVIOUS
<1>1. RingInv
  BY RingInvInit DEF Init
<1>2. ~credit /\ ~capturing /\ ringDma = NoSlot /\ dmaState = "idle" /\ svc = "errors"
      /\ completed = 0 /\ received = 0
  BY DEF Init, FBInit, RingInit
<1>3. DmaInv /\ ServiceInv /\ CountInv
  BY <1>2 DEF DmaInv, ServiceInv, CountInv, CreditDue, AwaitingImage, Arming, Arrived
<1>4. PreparedInv
  BY DEF Init, PreparedInv
<1>5. QED
  BY <1>1, <1>3, <1>4 DEF CreditInv

\* The registers of the credit and of the image counter after an edge.
LEMMA CreditRegisters ==
  ASSUME CoreTypeOK, CoreInv, NEW cmd, NEW ev, NEW errs, NEW take \in BOOLEAN,
         NEW in \in Signals, NEW rin, EdgeOf(cmd, ev, errs, take, in, rin)
  PROVE  /\ credit' = ((credit \/ cmd = "credit") /\ ~take)
         /\ captureNextId' = (IF take THEN Inc(captureNextId) ELSE captureNextId)
         /\ completed' = (IF "grayLast" \in ev THEN Inc(completed) ELSE completed)
         /\ completedId' = (IF "grayLast" \in ev THEN imageId ELSE completedId)
         /\ take => credit /\ ~capturing /\ state[tail] = "FREE"
         /\ "grayLast" \in ev => capturing /\ ~imageSeen /\ ~take /\ dmaState = "running"
<1>1. Wired(cmd, ev, errs, take, in, rin) /\ Occurring(ev, errs) /\ CaptureSide(in)
  BY DEF EdgeOf, Edge
<1>2. /\ Accept(in) <=> take
      /\ take => credit /\ ~capturing /\ state[tail] = "FREE"
      /\ in.cmdCredit = (cmd = "credit") /\ in.imageId = imageId
  BY <1>1 DEF Wired
<1>3. "grayLast" \in ev <=> ImageOk(in)
  BY CaptureRegisters DEF CoreInv
<1>4. "grayLast" \in ev => capturing /\ ~imageSeen /\ ~take /\ dmaState = "running"
  BY <1>1, <1>2 DEF CoreInv, TapInv, Occurring
<1>5. credit' = ((credit \/ cmd = "credit") /\ ~take)
  BY <1>1, <1>2 DEF CaptureSide
<1>6. captureNextId' = IF take THEN Inc(captureNextId) ELSE captureNextId
  BY <1>1, <1>2 DEF CaptureSide
<1>7. /\ completed' = IF "grayLast" \in ev THEN Inc(completed) ELSE completed
      /\ completedId' = IF "grayLast" \in ev THEN imageId ELSE completedId
  BY <1>1, <1>2, <1>3 DEF CaptureSide
<1>8. QED
  BY <1>2, <1>4, <1>5, <1>6, <1>7

\* How an edge moves the credit.
LEMMA CreditEdge ==
  ASSUME SystemTypeOK, CoreInv, CreditInv, NEW cmd, NEW ev, NEW errs, NEW take \in BOOLEAN,
         NEW in \in Signals, NEW rin, EdgeOf(cmd, ev, errs, take, in, rin), WithCommand(cmd)
  PROVE  /\ credit' = ((credit \/ cmd = "credit") /\ ~take)
         /\ AwaitingImage' <=> take \/ (AwaitingImage /\ "grayLast" \notin ev)
         /\ take => credit /\ ~AwaitingImage /\ id'[writeBank'] = captureNextId
         /\ ~take => /\ id'[writeBank'] = id[writeBank] /\ captureNextId' = captureNextId
                     /\ imageId' = imageId
         /\ "grayLast" \in ev => AwaitingImage /\ ~take /\ dmaState = "running"
         /\ dmaState' = (IF "grayLast" \in ev THEN "draining" ELSE dmaState)
         /\ cmd = "credit" => svc = "credit"
         /\ cmd \in {"none", "credit"} \/ svc = "off"
         /\ svc' = (IF cmd = "none" THEN svc ELSE "off")
         /\ UNCHANGED <<ringVars, dmaSlot, environment, received>>
<1> USE DEF SystemTypeOK, CoreTypeOK, FBTypeOK, TapTypeOK, AwaitingImage
<1>1. /\ capturing' = ((capturing \/ take) /\ ~Commit)
      /\ imageSeen' = ("grayLast" \in ev \/ (imageSeen /\ ~take))
      /\ writeBank' = (IF take THEN tail ELSE writeBank)
      /\ id' = (IF take THEN [id EXCEPT ![tail] = captureNextId] ELSE id)
      /\ take => ~capturing /\ ~Commit
  BY CaptureRegisters DEF CoreInv
<1>2. /\ credit' = ((credit \/ cmd = "credit") /\ ~take)
      /\ captureNextId' = (IF take THEN Inc(captureNextId) ELSE captureNextId)
      /\ take => credit /\ ~capturing
      /\ "grayLast" \in ev => capturing /\ ~imageSeen /\ ~take /\ dmaState = "running"
  BY CreditRegisters
<1>3. imageId' = (IF take THEN captureNextId ELSE imageId)
  BY DEF EdgeOf, Tap
<1>4. /\ dmaState' = (IF "grayLast" \in ev THEN "draining" ELSE dmaState)
      /\ UNCHANGED <<dmaSlot, environment>> /\ Commanded(cmd)
  BY DEF EdgeOf, Engines
<1>5. AwaitingImage' <=> take \/ (AwaitingImage /\ "grayLast" \notin ev)
  BY <1>1, <1>2 DEF Commit
<1>6. take => id'[writeBank'] = captureNextId
  BY <1>1
<1>7. UNCHANGED <<ringVars, received>> /\ svc' = IF cmd = "none" THEN svc ELSE "off"
  BY DEF WithCommand
<1>8. QED
  BY <1>1, <1>2, <1>3, <1>4, <1>5, <1>6, <1>7 DEF Commanded

LEMMA DmaEdge ==
  ASSUME SystemTypeOK, CoreInv, CreditInv, NEW cmd, NEW ev, NEW errs, NEW take \in BOOLEAN,
         NEW in \in Signals, NEW rin, EdgeOf(cmd, ev, errs, take, in, rin), WithCommand(cmd)
  PROVE  DmaInv' /\ ServiceInv'
<1> USE DEF CreditInv, DmaInv, CreditDue, Arming, Arrived, ringVars
<1>1. imageId = id[writeBank]
  BY DEF CoreInv, TapInv
<1>2. /\ credit' = ((credit \/ cmd = "credit") /\ ~take)
      /\ AwaitingImage' <=> take \/ (AwaitingImage /\ "grayLast" \notin ev)
      /\ take => credit /\ ~AwaitingImage /\ id'[writeBank'] = captureNextId
      /\ ~take => /\ id'[writeBank'] = id[writeBank] /\ captureNextId' = captureNextId
                  /\ imageId' = imageId
      /\ "grayLast" \in ev => AwaitingImage /\ ~take /\ dmaState = "running"
      /\ dmaState' = (IF "grayLast" \in ev THEN "draining" ELSE dmaState)
  BY CreditEdge
<1>3. /\ cmd = "credit" => svc = "credit"
      /\ cmd \in {"none", "credit"} \/ svc = "off"
      /\ svc' = (IF cmd = "none" THEN svc ELSE "off")
      /\ ringDma' = ringDma /\ ringId' = ringId /\ dmaSlot' = dmaSlot
      /\ environment' = environment
  BY CreditEdge
<1>4. ~(credit' /\ AwaitingImage')
  BY <1>2, <1>3
<1>5. ringDma' = NoSlot => dmaState' = "idle" /\ ~CreditDue'
  BY <1>2, <1>3
<1>6. Arming' => /\ ringDma' # NoSlot /\ ~CreditDue' /\ ringId'[ringDma'] = captureNextId'
                 /\ svc' = svc /\ dmaState' = dmaState
  BY <1>2, <1>3
<1>7. CreditDue' => /\ dmaState' \in {"running", "halted"}
                    /\ ringId'[ringDma'] = IF credit' THEN captureNextId' ELSE id'[writeBank']
  BY <1>2, <1>3
<1>8. Arrived' => dmaState' \in {"draining", "idle"} /\ imageId' = ringId'[ringDma']
  BY <1>1, <1>2, <1>3
<1>9. /\ dmaState' # "idle" => dmaSlot' = ringDma'
      /\ dmaState' = "halted" => "dmaError" \in environment'
  BY <1>2, <1>3
<1>10. DmaInv'
  BY <1>4, <1>5, <1>6, <1>7, <1>8, <1>9
<1>11. ServiceInv'
  BY <1>2, <1>3 DEF ServiceInv
<1>12. QED
  BY <1>10, <1>11

\* An image has arrived when its last word has left the tap.
LEMMA ArrivedEdge ==
  ASSUME SystemTypeOK, CoreInv, CreditInv, NEW cmd, NEW ev, NEW errs, NEW take \in BOOLEAN,
         NEW in \in Signals, NEW rin, EdgeOf(cmd, ev, errs, take, in, rin), WithCommand(cmd)
  PROVE  /\ Arrived' <=> Arrived \/ "grayLast" \in ev
         /\ Arrived => ~take /\ "grayLast" \notin ev
<1> USE DEF CreditInv, DmaInv, CreditDue, Arming, Arrived, ringVars
<1>1. /\ credit' = ((credit \/ cmd = "credit") /\ ~take)
      /\ AwaitingImage' <=> take \/ (AwaitingImage /\ "grayLast" \notin ev)
      /\ take => credit /\ ~AwaitingImage
      /\ "grayLast" \in ev => AwaitingImage /\ ~take /\ dmaState = "running"
  BY CreditEdge
<1>2. /\ cmd = "credit" => svc = "credit"
      /\ cmd \in {"none", "credit"} \/ svc = "off"
      /\ svc' = (IF cmd = "none" THEN svc ELSE "off")
      /\ ringDma' = ringDma
  BY CreditEdge
<1>3. QED
  BY <1>1, <1>2

LEMMA CountEdge ==
  ASSUME SystemTypeOK, CoreInv, CreditInv, NEW cmd, NEW ev, NEW errs, NEW take \in BOOLEAN,
         NEW in \in Signals, NEW rin, EdgeOf(cmd, ev, errs, take, in, rin), WithCommand(cmd)
  PROVE  CountInv'
<1>1. /\ completed' = (IF "grayLast" \in ev THEN Inc(completed) ELSE completed)
      /\ completedId' = (IF "grayLast" \in ev THEN imageId ELSE completedId)
  BY CreditRegisters DEF SystemTypeOK
<1>2. /\ ~take => imageId' = imageId
      /\ "grayLast" \in ev => ~take
      /\ received' = received
  BY CreditEdge
<1>3. /\ Arrived' <=> Arrived \/ "grayLast" \in ev
      /\ Arrived => ~take /\ "grayLast" \notin ev
  BY ArrivedEdge
<1>4. QED
  BY <1>1, <1>2, <1>3 DEF CreditInv, CountInv

LEMMA PreparedEdge ==
  ASSUME SystemTypeOK, RingInv, CreditInv, NEW cmd, Commanded(cmd), WithCommand(cmd)
  PROVE  PreparedInv'
<1>1. cmd = "credit" => ringDma \in Slots /\ ringState[ringDma] = "DMA"
  BY DEF Commanded, CreditInv, DmaInv, Arming, RingInv, RingTypeOK, RingOwnership
<1>2. UNCHANGED ringState
  BY DEF WithCommand, ringVars
<1>3. QED
  BY <1>1, <1>2 DEF WithCommand, PreparedInv, CreditInv, SystemTypeOK, ReceiverTypeOK

\* The software does not touch what the controller knows of the credit.
LEMMA CreditBetween ==
  ASSUME SystemTypeOK, CoreInv, RingInv, CreditInv, Between
  PROVE  CreditInv'
<1> USE DEF SystemTypeOK, CoreTypeOK, FBTypeOK, TapTypeOK, ReceiverTypeOK, RingInv, RingTypeOK,
            RingOwnership, Slots, NoSlot
<1>1. UNCHANGED <<credit, capturing, imageSeen, captureNextId, id, writeBank, imageId, environment,
                  completed, completedId>>
  BY BetweenCore DEF coreVars, fbVars, capVars, bankVars, cntVars
<1>2. DmaInv /\ ServiceInv /\ CountInv /\ PreparedInv
  BY DEF CreditInv
<1>3. (CreditDue' <=> CreditDue) /\ (AwaitingImage' <=> AwaitingImage)
  BY <1>1 DEF CreditDue, AwaitingImage
<1>4. CASE Drain
  <2>1. dmaState = "draining" /\ dmaState' = "idle"
        /\ UNCHANGED <<dmaSlot, ringVars, svc, received, prepared>>
    BY <1>4 DEF Drain, recVars
  <2>2. QED
    BY <1>1, <1>2, <1>3, <2>1
       DEF DmaInv, ServiceInv, CountInv, PreparedInv, CreditInv, Arming, Arrived, ringVars
<1>5. CASE DmaFault
  <2>1. "dmaError" \in environment /\ dmaState = "running" /\ dmaState' = "halted"
        /\ UNCHANGED <<dmaSlot, ringVars, svc, received, prepared>>
    BY <1>5 DEF DmaFault, recVars
  <2>2. QED
    BY <1>1, <1>2, <1>3, <2>1
       DEF DmaInv, ServiceInv, CountInv, PreparedInv, CreditInv, Arming, Arrived, ringVars
<1>6. ASSUME UNCHANGED <<dmaState, dmaSlot, ringState, ringId, ringDma, received>>,
             svc' = svc \/ (svc \notin {"arm", "credit"} /\ svc' \in {"off", "errors", "status", "busy",
               "count", "identity", "reserve"}),
             svc' = svc \/ svc' \in {"off", "errors"} \/ ServiceInv',
             PreparedInv'
      PROVE  CreditInv'
  <2>1. Arming' <=> Arming
    BY <1>6 DEF Arming
  <2>2. Arrived' <=> Arrived
    BY <1>3, <1>6, <2>1 DEF Arrived
  <2>3. DmaInv'
    BY <1>1, <1>2, <1>3, <1>6, <2>1, <2>2 DEF DmaInv, Arming
  <2>4. ServiceInv'
    BY <1>2, <1>6 DEF ServiceInv
  <2>5. CountInv'
    BY <1>1, <1>2, <1>6, <2>2 DEF CountInv
  <2>6. QED
    BY <1>6, <2>3, <2>4, <2>5 DEF CreditInv
<1>7. ASSUME UNCHANGED <<ringVars, prepared>> PROVE PreparedInv'
  BY <1>2, <1>7 DEF PreparedInv, ringVars
<1>8. CASE ServiceErrors \/ ServiceStatus \/ ServiceBusy
  BY <1>2, <1>6, <1>7, <1>8
     DEF ServiceErrors, ServiceStatus, ServiceBusy, FailReceiver, ServiceInv, hwVars, dmaVars, ringVars
<1>9. CASE ServiceCount
  BY <1>2, <1>6, <1>7, <1>9
     DEF ServiceCount, FailReceiver, ServiceInv, hwVars, dmaVars, ringVars
<1>10. CASE GiveUp \/ Turn \/ Refused \/ Matched \/ EnableCapture
  <2>1. /\ UNCHANGED <<dmaState, dmaSlot, ringVars, received, prepared>>
        /\ svc = "off" /\ svc' \in {"off", "errors"}
    BY <1>10 DEF GiveUp, Turn, Refused, Matched, EnableCapture, At, Goto, CallService, FailReceiver,
                 hwVars, dmaVars, recVars
  <2>2. QED
    BY <1>6, <1>7, <2>1 DEF ringVars
<1>11. CASE ArmResult
  <2>1. /\ UNCHANGED <<dmaState, dmaSlot, ringVars, received, prepared>>
        /\ svc = "off" /\ svc' = "off"
    BY <1>11 DEF ArmResult, At, Goto, recVars
  <2>2. QED
    BY <1>6, <1>7, <2>1 DEF ringVars
<1>12. CASE ServiceIdentity
  <2>1. Arrived /\ dmaState = "idle"
    BY <1>2, <1>12 DEF ServiceIdentity, DmaInv, ServiceInv, Arming, Arrived
  <2>2. CanComplete(completedId)
    BY <1>2, <2>1 DEF CanComplete, DmaInv, CountInv, Arrived
  <2>3. /\ Complete(completedId) /\ received' = Inc(received) /\ svc' = "reserve"
        /\ UNCHANGED <<dmaState, dmaSlot, prepared>>
    BY <1>12, <2>2 DEF ServiceIdentity, hwVars, dmaVars
  <2>4. /\ ringDma' = NoSlot /\ UNCHANGED ringId
        /\ \A s \in Slots : ringState'[s] = "FREE" => ringState[s] = "FREE"
    BY <2>3 DEF Complete
  <2>5. ~Arming' /\ ~Arrived' /\ ~CreditDue'
    BY <1>3, <2>1, <2>3, <2>4 DEF Arming, Arrived
  <2>6. DmaInv' /\ ServiceInv'
    BY <1>1, <1>2, <2>1, <2>3, <2>4, <2>5 DEF DmaInv, ServiceInv, CreditDue
  <2>7. CountInv' /\ PreparedInv'
    BY <1>1, <1>2, <2>1, <2>3, <2>4, <2>5 DEF CountInv, PreparedInv
  <2>8. QED
    BY <2>6, <2>7 DEF CreditInv
<1>13. CASE ServiceReserve
  <2>1. ringDma = NoSlot /\ ~CreditDue /\ dmaState = "idle" /\ svc = "reserve"
    BY <1>2, <1>13 DEF ServiceReserve, DmaInv, ServiceInv
  <2>2. CASE ~CanReserve
    BY <1>6, <1>7, <1>13, <2>1, <2>2 DEF ServiceReserve, Reserve, hwVars, dmaVars, ringVars
  <2>3. CASE Reserve(captureNextId)
    <3>1. CanReserve /\ ringDma' \in Slots /\ ringState[ringDma'] = "FREE"
      BY <2>3, ReservedSlot DEF Reserve
    <3>2. svc' = "arm" /\ UNCHANGED <<dmaState, dmaSlot, prepared, received>>
      BY <1>2, <1>13, <3>1 DEF ServiceReserve, PreparedInv, hwVars, dmaVars
    <3>3. /\ ringId'[ringDma'] = captureNextId
          /\ \A s \in Slots : ringState'[s] = "FREE" => ringState[s] = "FREE"
      BY <2>3, <3>1 DEF Reserve
    <3>4. Arming' /\ ~CreditDue' /\ ~Arrived' /\ ~Arrived
      BY <1>3, <2>1, <3>2 DEF Arming, Arrived
    <3>5. DmaInv' /\ ServiceInv'
      BY <1>1, <1>2, <2>1, <3>1, <3>2, <3>3, <3>4 DEF DmaInv, ServiceInv, CreditDue
    <3>6. CountInv' /\ PreparedInv'
      BY <1>1, <1>2, <3>2, <3>3, <3>4 DEF CountInv, PreparedInv
    <3>7. QED
      BY <3>5, <3>6 DEF CreditInv
  <2>4. QED
    BY <1>13, <2>2, <2>3 DEF ServiceReserve
<1>14. CASE ServiceArm
  <2>1. svc = "arm" /\ dmaState = "idle"
    BY <1>2, <1>14 DEF ServiceArm, DmaInv
  <2>2. /\ dmaState' = "running" /\ dmaSlot' = ringDma /\ svc' = "credit"
        /\ UNCHANGED <<ringVars, received, prepared>>
    BY <1>14, <2>1 DEF ServiceArm
  <2>3. Arming /\ Arming' /\ ~CreditDue' /\ ~Arrived' /\ ~Arrived
    BY <1>2, <1>3, <2>1, <2>2 DEF Arming, Arrived, DmaInv
  <2>4. DmaInv' /\ ServiceInv'
    BY <1>1, <1>2, <2>1, <2>2, <2>3 DEF DmaInv, ServiceInv, CreditDue, ringVars
  <2>5. CountInv'
    BY <1>1, <1>2, <2>2, <2>3 DEF CountInv
  <2>6. QED
    BY <1>7, <2>2, <2>4, <2>5 DEF CreditInv
<1>15. CASE TakeSlot
  <2>1. /\ UNCHANGED <<dmaState, dmaSlot, ringId, ringDma, received, prepared>>
        /\ svc = "off" /\ svc' = "off"
        /\ \A s \in Slots : ringState'[s] = "FREE" => ringState[s] = "FREE"
    BY <1>15 DEF TakeSlot, Take, At, Goto, hwVars, dmaVars
  <2>2. (Arming' <=> Arming) /\ (Arrived' <=> Arrived)
    BY <1>3, <2>1 DEF Arming, Arrived
  <2>3. DmaInv' /\ ServiceInv'
    BY <1>1, <1>2, <2>1, <2>2, <1>3 DEF DmaInv, ServiceInv
  <2>4. CountInv' /\ PreparedInv'
    BY <1>1, <1>2, <2>1, <2>2 DEF CountInv, PreparedInv
  <2>5. QED
    BY <2>3, <2>4 DEF CreditInv
<1>16. CASE FreeSlot
  <2>1. /\ UNCHANGED <<dmaState, dmaSlot, ringId, ringDma, received>>
        /\ svc = "off" /\ svc' \in {"off", "errors"}
        /\ \A s \in Slots : ringState'[s] = "FREE" => ringState[s] = "FREE" \/ s = ringCpu
        /\ prepared' = [prepared EXCEPT ![ringCpu] = TRUE]
    BY <1>16 DEF FreeSlot, Release, At, CallService, hwVars, dmaVars
  <2>2. (Arming' <=> Arming) /\ (Arrived' <=> Arrived)
    BY <1>3, <2>1 DEF Arming, Arrived
  <2>3. DmaInv' /\ ServiceInv'
    BY <1>1, <1>2, <2>1, <2>2, <1>3 DEF DmaInv, ServiceInv
  <2>4. CountInv' /\ PreparedInv'
    BY <1>1, <1>2, <2>1, <2>2 DEF CountInv, PreparedInv
  <2>5. QED
    BY <2>3, <2>4 DEF CreditInv
<1>17. QED
  BY <1>4, <1>5, <1>8, <1>9, <1>10, <1>11, <1>12, <1>13, <1>14, <1>15, <1>16 DEF Between

LEMMA CreditUnchanged ==
  ASSUME CreditInv, UNCHANGED vars
  PROVE  CreditInv'
BY DEF CreditInv, DmaInv, ServiceInv, CountInv, PreparedInv, CreditDue, AwaitingImage, Arming, Arrived,
       vars, fbVars, capVars, bankVars, cntVars, envVars, dmaVars, recVars, ringVars

-----------------------------------------------------------------------------
(* What the image slots hold.                                               *)

\* A slot holds the whole image of its id, or words of it were lost and the tap has
\* reported that.
Sound(s) == ddr[s] = ringId[s] \/ (ddr[s] = Torn /\ imageOverflow)

DdrInv ==
  /\ AwaitingImage /\ dmaState = "running" => ddr[ringDma] = Torn
  /\ dmaState = "draining" => ddr[ringDma] = Torn
  /\ Arrived /\ dmaState = "idle" => Sound(ringDma)
  /\ \A s \in Slots : ringState[s] \in {"READY", "CPU"} => Sound(s)

ReceiverInv == RingInv /\ CreditInv /\ DdrInv

LEMMA ReceiverInit == Init => ReceiverInv
<1> SUFFICES ASSUME Init PROVE ReceiverInv
  OBVIOUS
<1>1. DdrInv
  BY DEF Init, FBInit, RingInit, DdrInv, AwaitingImage, Arrived
<1>2. QED
  BY <1>1, CreditInit DEF ReceiverInv

LEMMA DdrEdge ==
  ASSUME SystemTypeOK, CoreInv, ReceiverInv, NEW cmd, NEW ev, NEW errs, NEW take \in BOOLEAN,
         NEW in \in Signals, NEW rin, EdgeOf(cmd, ev, errs, take, in, rin), WithCommand(cmd)
  PROVE  DdrInv'
<1> USE DEF ReceiverInv, SystemTypeOK, ReceiverTypeOK
<1>1. /\ AwaitingImage' <=> take \/ (AwaitingImage /\ "grayLast" \notin ev)
      /\ take => credit /\ ~AwaitingImage
      /\ "grayLast" \in ev => AwaitingImage /\ ~take /\ dmaState = "running"
      /\ dmaState' = (IF "grayLast" \in ev THEN "draining" ELSE dmaState)
      /\ UNCHANGED <<ringVars, dmaSlot, environment, received>>
  BY CreditEdge
<1>2. /\ Arrived' <=> Arrived \/ "grayLast" \in ev
      /\ Arrived => ~take /\ "grayLast" \notin ev
  BY ArrivedEdge
<1>3. ddr' = IF take /\ dmaState = "running" THEN [ddr EXCEPT ![dmaSlot] = Torn] ELSE ddr
  BY DEF EdgeOf, Memories
<1>4. imageOverflow => imageOverflow'
  BY DEF EdgeOf, Tap
<1>5. /\ UNCHANGED <<ringState, ringId, ringDma>>
      /\ dmaState \in {"running", "draining"} => dmaSlot = ringDma /\ ringDma \in Slots
                                                 /\ ringState[ringDma] = "DMA"
      /\ take => dmaState # "draining"
  BY <1>1 DEF CreditInv, DmaInv, CreditDue, RingInv, RingTypeOK, RingOwnership, ringVars
<1>6. AwaitingImage' /\ dmaState' = "running" => ddr'[ringDma'] = Torn
  BY <1>1, <1>3, <1>5 DEF DdrInv
<1>7. dmaState' = "draining" => ddr'[ringDma'] = Torn
  BY <1>1, <1>3, <1>5 DEF DdrInv
<1>8. Arrived' /\ dmaState' = "idle" => Sound(ringDma)'
  BY <1>1, <1>2, <1>3, <1>4, <1>5 DEF DdrInv, Sound
<1>9. \A s \in Slots : ringState'[s] \in {"READY", "CPU"} => Sound(s)'
  BY <1>3, <1>4, <1>5 DEF DdrInv, Sound
<1>10. QED
  BY <1>6, <1>7, <1>8, <1>9 DEF DdrInv

LEMMA DdrBetween ==
  ASSUME SystemTypeOK, CoreInv, ReceiverInv, Between
  PROVE  DdrInv'
<1> USE DEF ReceiverInv, SystemTypeOK, CoreTypeOK, FBTypeOK, TapTypeOK, ReceiverTypeOK, RingInv,
            RingTypeOK, RingOwnership, Slots, NoSlot
<1>1. UNCHANGED <<credit, capturing, imageSeen, imageId, damaged, imageOverflow>>
  BY BetweenCore DEF coreVars, fbVars, capVars
<1>2. (CreditDue' <=> CreditDue) /\ (AwaitingImage' <=> AwaitingImage)
  BY <1>1 DEF CreditDue, AwaitingImage
<1>3. DmaInv /\ ServiceInv
  BY DEF CreditInv
<1>4. ASSUME UNCHANGED <<dmaState, ddr, ringState, ringId, ringDma>>, Arming' <=> Arming
      PROVE  DdrInv'
  <2>1. Arrived' <=> Arrived
    BY <1>2, <1>4 DEF Arrived
  <2>2. \A s : Sound(s)' <=> Sound(s)
    BY <1>1, <1>4 DEF Sound
  <2>3. QED
    BY <1>2, <1>4, <2>1, <2>2 DEF DdrInv
<1>5. CASE Drain
  <2>1. /\ dmaState = "draining" /\ dmaState' = "idle"
        /\ ddr' = (IF damaged THEN ddr ELSE [ddr EXCEPT ![dmaSlot] = imageId])
        /\ UNCHANGED <<ringState, ringId, ringDma>>
    BY <1>5 DEF Drain, recVars, ringVars
  <2>2. Arrived /\ dmaSlot = ringDma /\ ringDma \in Slots /\ imageId = ringId[ringDma]
    BY <1>3, <2>1 DEF DmaInv, Arming, Arrived, CreditDue
  <2>3. damaged => imageOverflow
    BY DEF CoreInv, TapInv
  <2>4. Sound(ringDma)'
    BY <1>1, <2>1, <2>2, <2>3 DEF DdrInv, Sound
  <2>5. \A s \in Slots : ringState'[s] \in {"READY", "CPU"} => Sound(s)'
    BY <1>1, <2>1, <2>2 DEF DdrInv, Sound
  <2>6. QED
    BY <2>1, <2>4, <2>5 DEF DdrInv
<1>6. CASE DmaFault
  BY <1>1, <1>2, <1>6 DEF DmaFault, envVars, recVars, ringVars, DdrInv, Sound
<1>7. CASE ServiceErrors \/ ServiceStatus \/ ServiceBusy \/ ServiceCount
  BY <1>3, <1>4, <1>7
     DEF ServiceErrors, ServiceStatus, ServiceBusy, ServiceCount, FailReceiver, Arming, hwVars, envVars,
         dmaVars, ringVars
<1>8. CASE GiveUp \/ Turn \/ Refused \/ Matched \/ EnableCapture \/ ArmResult
  <2>1. /\ UNCHANGED <<dmaState, ddr, ringVars>>
        /\ svc = "off" /\ svc' \in {"off", "errors"}
    BY <1>8 DEF GiveUp, Turn, Refused, Matched, EnableCapture, ArmResult, At, Goto, CallService,
                FailReceiver, hwVars, envVars, dmaVars, recVars
  <2>2. QED
    BY <1>4, <2>1 DEF Arming, ringVars
<1>9. CASE ServiceIdentity
  <2>1. UNCHANGED <<dmaState, ddr, ringId>> /\ dmaState = "idle" /\ Arrived
    BY <1>3, <1>9 DEF ServiceIdentity, Complete, DmaInv, ServiceInv, Arming, Arrived, hwVars, envVars,
                      dmaVars, ringVars
  <2>2. \A s \in Slots : ringState'[s] \in {"READY", "CPU"} =>
          ringState[s] \in {"READY", "CPU"} \/ s = ringDma
    BY <1>9 DEF ServiceIdentity, Complete, ringVars
  <2>3. \A s \in Slots : ringState'[s] \in {"READY", "CPU"} => Sound(s)'
    BY <1>1, <2>1, <2>2 DEF DdrInv, Sound
  <2>4. (svc' = "off" /\ UNCHANGED ringDma) \/ ringDma' = NoSlot
    BY <1>9 DEF ServiceIdentity, Complete, FailReceiver, ringVars
  <2>5. Arrived' => UNCHANGED ringDma
    BY <2>4 DEF Arrived
  <2>6. QED
    BY <1>1, <1>2, <2>1, <2>3, <2>5 DEF DdrInv, Sound, Arrived, CreditDue
<1>10. CASE ServiceReserve
  <2>1. CASE ~CanReserve
    BY <1>4, <1>10, <2>1 DEF ServiceReserve, Reserve, Arming, hwVars, envVars, dmaVars, ringVars
  <2>2. CASE Reserve(captureNextId)
    <3>1. ringDma' \in Slots /\ ringState[ringDma'] = "FREE"
      BY <2>2, ReservedSlot DEF Reserve
    <3>2. svc' = "arm" /\ UNCHANGED <<dmaState, ddr>> /\ dmaState = "idle" /\ ~CreditDue
      BY <1>3, <1>10, <2>2, <3>1
         DEF ServiceReserve, Reserve, CreditInv, PreparedInv, DmaInv, ServiceInv, hwVars, envVars, dmaVars
    <3>3. \A s \in Slots : ringState'[s] \in {"READY", "CPU"} =>
            ringState[s] \in {"READY", "CPU"} /\ ringId'[s] = ringId[s]
      BY <2>2, <3>1 DEF Reserve
    <3>4. QED
      BY <1>1, <1>2, <3>2, <3>3 DEF DdrInv, Sound, Arrived, Arming, CreditDue
  <2>3. QED
    BY <1>10, <2>1, <2>2 DEF ServiceReserve
<1>11. CASE ServiceArm
  <2>1. svc' = "credit" /\ UNCHANGED <<ddr, ringVars>> /\ dmaState' = "running" /\ ~CreditDue
    BY <1>3, <1>11 DEF ServiceArm, DmaInv, Arming, envVars
  <2>2. QED
    BY <1>1, <1>2, <2>1 DEF DdrInv, Sound, Arrived, Arming, CreditDue, ringVars
<1>12. CASE TakeSlot
  <2>1. /\ UNCHANGED <<dmaState, ddr, ringId, ringDma>> /\ svc = "off" /\ svc' = "off"
        /\ consumerImageId \in Ids
    BY <1>12 DEF TakeSlot, Take, At, Goto, hwVars, envVars, dmaVars
  <2>2. \A s \in Slots : ringState'[s] \in {"READY", "CPU"} => ringState[s] \in {"READY", "CPU"}
    BY <1>12, <2>1, TakenSlot DEF TakeSlot, Take
  <2>3. QED
    BY <1>1, <1>2, <2>1, <2>2 DEF DdrInv, Sound, Arrived, Arming, CreditDue
<1>13. CASE FreeSlot
  <2>1. /\ UNCHANGED <<dmaState, ddr, ringId, ringDma>> /\ svc = "off" /\ svc' \in {"off", "errors"}
        /\ \A s \in Slots : ringState'[s] \in {"READY", "CPU"} => ringState[s] \in {"READY", "CPU"}
    BY <1>13 DEF FreeSlot, Release, At, CallService, hwVars, envVars, dmaVars
  <2>2. QED
    BY <1>1, <1>2, <2>1 DEF DdrInv, Sound, Arrived, Arming, CreditDue
<1>14. QED
  BY <1>5, <1>6, <1>7, <1>8, <1>9, <1>10, <1>11, <1>12, <1>13 DEF Between

LEMMA ReceiverNext == SystemTypeOK /\ CoreInv /\ ReceiverInv /\ [Next]_vars => ReceiverInv'
<1> SUFFICES ASSUME SystemTypeOK, CoreInv, ReceiverInv, [Next]_vars PROVE ReceiverInv'
  OBVIOUS
<1>1. RingInv'
  BY RingNextStep DEF ReceiverInv
<1>2. CASE Next
  <2>1. ASSUME NEW cmd, NEW ev, NEW errs, NEW rin, NEW take \in BOOLEAN, NEW in \in Signals,
               EdgeOf(cmd, ev, errs, take, in, rin), WithCommand(cmd)
        PROVE  CreditInv' /\ DdrInv'
    <3>1. Commanded(cmd)
      BY <2>1 DEF EdgeOf
    <3>2. DmaInv' /\ ServiceInv' /\ CountInv'
      BY <2>1, DmaEdge, CountEdge DEF ReceiverInv
    <3>3. PreparedInv'
      BY <2>1, <3>1, PreparedEdge DEF ReceiverInv
    <3>4. QED
      BY <2>1, <3>2, <3>3, DdrEdge DEF CreditInv
  <2>2. ASSUME Between PROVE CreditInv' /\ DdrInv'
    BY <2>2, CreditBetween, DdrBetween DEF ReceiverInv
  <2>3. CreditInv' /\ DdrInv'
    BY <1>2, <2>1, <2>2, Steps DEF SystemTypeOK, ReceiverTypeOK
  <2>4. QED
    BY <1>1, <2>3 DEF ReceiverInv
<1>3. CASE UNCHANGED vars
  <2>1. DdrInv'
    BY <1>3 DEF ReceiverInv, DdrInv, Sound, AwaitingImage, Arrived, CreditDue, Arming, vars, fbVars,
                capVars, envVars, dmaVars, recVars, ringVars
  <2>2. QED
    BY <1>1, <1>3, <2>1, CreditUnchanged DEF ReceiverInv
<1>4. QED
  BY <1>2, <1>3

LEMMA ReceiverInvariant == Spec => [](SystemTypeOK /\ CoreInv /\ ReceiverInv)
BY ReceiverInit, ReceiverNext, CoreInvariant, PTL DEF Spec

\* Until it is released, the image handed to the decoder is the whole frame of the slot's
\* id, unless the tap has reported that words were lost, and the image DMA does not write
\* to it; and no credit is given without a slot and a running DMA for its frame.
THEOREM CpuImageIntactHolds == Spec => []CpuImageIntact
<1>1. SystemTypeOK /\ CoreInv /\ ReceiverInv => CpuImageIntact
  <2> SUFFICES ASSUME SystemTypeOK, CoreInv, ReceiverInv PROVE CpuImageIntact
    OBVIOUS
  <2> USE DEF ReceiverInv, RingInv, RingTypeOK, RingOwnership
  <2>1. ringCpu # NoSlot => Sound(ringCpu)
    BY DEF DdrInv
  <2>2. DmaActive => dmaSlot = ringDma /\ ringDma \in Slots
    BY DEF DmaActive, CreditInv, DmaInv
  <2>3. ringCpu # NoSlot => (DmaActive => dmaSlot # ringCpu)
    BY <2>2
  <2>4. CreditHasDma
    BY DEF CreditHasDma, CreditInv, DmaInv, CreditDue, AwaitingImage
  <2>5. QED
    BY <2>1, <2>3, <2>4 DEF CpuImageIntact, Sound
<1>2. QED
  BY <1>1, ReceiverInvariant, PTL

-----------------------------------------------------------------------------
(* The frame loop: where it stands tells where the runtime is with the frame. *)

ResultSent == builder = "DONE" \/ resultDoneSeen
Handling == {"takeImage", "taking", "waitPending", "identify", "ack"}

\* No frame is shown when the next one is asked for.
NoneShown ==
  pc \in {"init", "waitNoResult", "dispatch"} => ~consumerActive /\ ~dispatch

\* The frame's packet is not under way before the loop has armed its DMA.
BeforeResult ==
  pc \in {"init", "enableCapture", "waitResult", "armResult", "stream", "waitNoResult", "dispatch",
          "decode", "released"} =>
    ~frameComplete /\ ~frontendRelease /\ ~ResultSent /\ builder # "SEND"

\* The packet goes to the buffer that the loop reads.
ResultPath ==
  /\ pc \in {"armResult", "stream"} => builder = "READY"
  /\ pc = "stream" => resultDma = "running"
  /\ pc \notin {"stream", "waitResultDma", "failed"} => resultDma = "idle"
  /\ pc = "waitResultDma" =>
       \/ builder = "SEND" /\ resultDma = "running"
       \/ resultDma = "idle" /\ ResultSent /\ resultBuffer = packet
  /\ pc \in Handling => ResultSent /\ resultBuffer = packet

\* The acknowledge comes once the frame is complete, and nothing is shown until the
\* next dispatch.
Acknowledging ==
  /\ pc \in {"identify", "ack"} => completePending
  /\ pc \in {"waitCleared", "waitReleased"} => ~frameActive /\ ~consumerSof /\ ~dispatch

LoopInv == NoneShown /\ BeforeResult /\ ResultPath /\ Acknowledging

\* A packet on its way, or sent, belongs to the frame that is shown.
LEMMA ResultOfFrame ==
  ASSUME CoreTypeOK, ConsumerInv
  PROVE  /\ ResultSent \/ builder \in {"READY", "SEND"} \/ completePending \/ frameActive =>
              frameActive /\ consumerReady /\ consumerActive /\ activeValid /\ ~frontendRelease
              /\ ~frameComplete /\ ~consumerSof /\ ~dispatch
         /\ ResultSent => ~start /\ builder \in {"IDLE", "DONE"}
         /\ ~consumerReady => ~frameActive /\ ~frameComplete /\ ~frontendRelease /\ builder = "IDLE"
                              /\ ~resultDoneSeen /\ ~completePending
         /\ frontendRelease => consumerActive
<1>1. ConsumerPhase /\ FrameLife /\ OneLaunch
  BY DEF ConsumerInv
<1>2. builder # "IDLE" \/ resultDoneSeen \/ completePending => frameActive
  BY <1>1 DEF OneLaunch
<1>3. frameActive => consumerReady /\ activeValid /\ ~frontendRelease /\ ~frameComplete
  BY <1>1 DEF FrameLife
<1>4. consumerReady => consumerActive /\ ~consumerSof /\ ~dispatch
  BY <1>1 DEF ConsumerPhase
<1>5. ResultSent => ~start /\ builder \in {"IDLE", "DONE"}
  BY <1>1 DEF OneLaunch, ResultSent
<1>6. ~consumerReady => ~frameComplete /\ ~frontendRelease
  BY <1>1 DEF FrameLife
<1>7. QED
  BY <1>2, <1>3, <1>4, <1>5, <1>6 DEF ResultSent

\* The registers of the packet after an edge.
LEMMA PacketRegisters ==
  ASSUME CoreTypeOK, ConsumerInv, NEW cmd, NEW ev, NEW errs, NEW take \in BOOLEAN,
         NEW in \in Signals, NEW rin, EdgeOf(cmd, ev, errs, take, in, rin)
  PROVE  /\ builder = "READY" => builder' = IF cmd = "stream" THEN "SEND" ELSE "READY"
         /\ builder = "SEND" => builder' = IF "lastBeat" \in ev THEN "DONE" ELSE "SEND"
         /\ builder' = "SEND" => builder = "SEND" \/ cmd = "stream"
         /\ ResultSent' => ResultSent \/ (builder = "SEND" /\ "lastBeat" \in ev)
         /\ ResultSent /\ cmd # "ack" => ResultSent'
         /\ ResultSent \/ builder = "SEND" => packet' = packet
<1>1. Completion(rin) /\ Packet(rin) /\ (rin.streamStart <=> cmd = "stream")
      /\ (rin.lastBeat <=> "lastBeat" \in ev) /\ (rin.ack <=> cmd = "ack")
      /\ (rin.sof <=> consumerSof)
  BY RuntimeInputs
<1>2. builder \in BuilderState
  BY DEF CoreTypeOK, RuntimeTypeOK
<1>3. ResultSent => ~start /\ builder \in {"IDLE", "DONE"} /\ frameActive
  BY ResultOfFrame
<1>4. resultDoneSeen' = (((resultDoneSeen /\ ~SofOk(rin)) \/ ResultFresh) /\ ~AckOk(rin))
  BY <1>1 DEF Completion
<1>5. /\ builder = "READY" => builder' = IF cmd = "stream" THEN "SEND" ELSE "READY"
      /\ builder = "SEND" => builder' = IF "lastBeat" \in ev THEN "DONE" ELSE "SEND"
      /\ builder' = "SEND" => builder = "SEND" \/ cmd = "stream"
      /\ builder' = "DONE" => builder = "SEND" /\ "lastBeat" \in ev
  BY <1>1, <1>2 DEF Packet, BuilderState
<1>6. ResultSent' => ResultSent \/ (builder = "SEND" /\ "lastBeat" \in ev)
  BY <1>4, <1>5 DEF ResultSent, ResultFresh, ResultTxDone
<1>7. ResultSent /\ cmd # "ack" => ResultSent'
  BY <1>1, <1>3, <1>4 DEF ResultSent, ResultFresh, ResultTxDone, AckOk, SofOk
<1>8. ResultSent \/ builder = "SEND" => packet' = packet
  BY <1>1, <1>3 DEF Packet
<1>9. QED
  BY <1>5, <1>6, <1>7, <1>8

\* Where the loop is when it writes a command, and where it goes.
LEMMA LoopCommands ==
  ASSUME NEW cmd, Commanded(cmd), WithCommand(cmd)
  PROVE  \/ cmd \in {"none", "credit"} /\ pc' = pc
         \/ cmd = "dispatch" /\ pc = "init" /\ pc' = "enableCapture"
         \/ cmd = "dispatch" /\ pc = "dispatch" /\ pc' = "decode"
         \/ cmd = "ack" /\ pc = "ack" /\ pc' = "waitCleared"
         \/ cmd = "stream" /\ pc = "stream" /\ pc' = "waitResultDma"
BY DEF Commanded, WithCommand

LEMMA LoopEdge ==
  ASSUME SystemTypeOK, CoreInv, LoopInv, NEW cmd, NEW ev, NEW errs, NEW take \in BOOLEAN,
         NEW in \in Signals, NEW rin, EdgeOf(cmd, ev, errs, take, in, rin), WithCommand(cmd)
  PROVE  LoopInv'
<1> USE DEF SystemTypeOK
<1>0. /\ Completion(rin) /\ FrameCtrl(rin) /\ (rin.ack <=> cmd = "ack") /\ (rin.sof <=> consumerSof)
  BY RuntimeInputs
<1>1. BankInv /\ ConsumerInv
  BY DEF CoreInv
<1>2. /\ NoneShown /\ BeforeResult /\ ResultPath /\ Acknowledging
      /\ pc \in LoopAt
  BY DEF LoopInv, ReceiverTypeOK
<1>3. /\ dispatch' = ((dispatch \/ (cmd = "dispatch" /\ ~consumerActive)) /\ ~Grant)
      /\ consumerActive' = ((consumerActive \/ Grant) /\ ~frontendRelease)
      /\ consumerSof' = Grant /\ (Grant => dispatch /\ ~consumerActive)
  BY <1>1, ConsumerRegisters DEF Grant
<1>4. /\ frameActive' = ((frameActive \/ SofOk(rin)) /\ ~AckOk(rin))
      /\ completePending' = PendingNext(rin)
      /\ frameComplete' = AckOk(rin) /\ frontendRelease' = frameComplete
      /\ AckOk(rin) <=> cmd = "ack" /\ frameActive /\ completePending
      /\ SofOk(rin) => consumerSof
  BY <1>0 DEF Completion, FrameCtrl, AckOk, SofOk
<1>5. /\ builder = "READY" => builder' = IF cmd = "stream" THEN "SEND" ELSE "READY"
      /\ builder = "SEND" => builder' = IF "lastBeat" \in ev THEN "DONE" ELSE "SEND"
      /\ builder' = "SEND" => builder = "SEND" \/ cmd = "stream"
      /\ ResultSent' => ResultSent \/ (builder = "SEND" /\ "lastBeat" \in ev)
      /\ ResultSent /\ cmd # "ack" => ResultSent'
      /\ ResultSent \/ builder = "SEND" => packet' = packet
  BY <1>1, PacketRegisters
<1>6. /\ ResultSent \/ builder \in {"READY", "SEND"} \/ completePending \/ frameActive =>
           frameActive /\ consumerActive /\ ~frontendRelease /\ ~frameComplete /\ ~consumerSof
           /\ ~dispatch
      /\ ResultSent => builder \in {"IDLE", "DONE"}
  BY <1>1, ResultOfFrame
<1>7. /\ resultDma' = (IF "lastBeat" \in ev THEN "idle" ELSE resultDma)
      /\ resultBuffer' = (IF "lastBeat" \in ev THEN packet ELSE resultBuffer)
      /\ "lastBeat" \in ev => builder = "SEND" /\ resultDma = "running"
  BY DEF EdgeOf, Engines, Occurring
<1>8. \/ cmd \in {"none", "credit"} /\ pc' = pc
      \/ cmd = "dispatch" /\ pc = "init" /\ pc' = "enableCapture"
      \/ cmd = "dispatch" /\ pc = "dispatch" /\ pc' = "decode"
      \/ cmd = "ack" /\ pc = "ack" /\ pc' = "waitCleared"
      \/ cmd = "stream" /\ pc = "stream" /\ pc' = "waitResultDma"
  BY LoopCommands DEF EdgeOf
<1>9. builder' = "DONE" => ResultSent'
  BY DEF ResultSent
<1>10. NoneShown'
  BY <1>2, <1>3, <1>8 DEF NoneShown
<1>11. BeforeResult'
  BY <1>2, <1>4, <1>5, <1>8 DEF BeforeResult
<1>12. ResultPath'
  <2>1. /\ pc' \in {"armResult", "stream"} => builder' = "READY"
        /\ pc' = "stream" => resultDma' = "running"
    BY <1>2, <1>5, <1>7, <1>8 DEF ResultPath
  <2>2. pc' \notin {"stream", "waitResultDma", "failed"} => resultDma' = "idle"
    BY <1>2, <1>7, <1>8 DEF ResultPath, Handling
  <2>3. pc' = "waitResultDma" =>
          \/ builder' = "SEND" /\ resultDma' = "running"
          \/ resultDma' = "idle" /\ ResultSent' /\ resultBuffer' = packet'
    BY <1>2, <1>5, <1>6, <1>7, <1>8, <1>9 DEF ResultPath
  <2>4. pc' \in Handling => ResultSent' /\ resultBuffer' = packet'
    BY <1>2, <1>5, <1>6, <1>7, <1>8 DEF ResultPath, Handling
  <2>5. QED
    BY <2>1, <2>2, <2>3, <2>4 DEF ResultPath
<1>13. Acknowledging'
  BY <1>2, <1>3, <1>4, <1>6, <1>8 DEF Acknowledging, PendingNext
<1>14. QED
  BY <1>10, <1>11, <1>12, <1>13 DEF LoopInv

LEMMA LoopBetween ==
  ASSUME SystemTypeOK, CoreInv, LoopInv, Between
  PROVE  LoopInv'
<1>1. UNCHANGED <<consumerActive, consumerReady, consumerSof, dispatch, frameActive, frameComplete,
                  frontendRelease, completePending, resultDoneSeen, builder, packet>>
  BY BetweenCore DEF coreVars, fbVars, conVars, rcVars, complVars, ctrlVars, pktVars
<1>2. NoneShown /\ BeforeResult /\ ResultPath /\ Acknowledging
  BY DEF LoopInv
<1>3. ResultSent' <=> ResultSent
  BY <1>1 DEF ResultSent
<1>4. CASE UNCHANGED <<pc, resultDma, resultBuffer>>
  BY <1>1, <1>2, <1>3, <1>4 DEF LoopInv, NoneShown, BeforeResult, ResultPath, Acknowledging
<1>5. CASE pc' = "failed"
  BY <1>5 DEF LoopInv, NoneShown, BeforeResult, ResultPath, Acknowledging, Handling
<1>6. CASE Drain \/ DmaFault
  BY <1>4, <1>6 DEF Drain, DmaFault
<1>7. CASE ServiceErrors \/ ServiceStatus \/ ServiceBusy \/ ServiceCount
  BY <1>4, <1>7 DEF ServiceErrors, ServiceStatus, ServiceBusy, ServiceCount, hwVars, dmaVars
<1>8. CASE ServiceIdentity \/ ServiceReserve \/ ServiceArm
  BY <1>4, <1>8 DEF ServiceIdentity, ServiceReserve, ServiceArm, hwVars, dmaVars
<1>9. CASE GiveUp \/ Refused
  BY <1>5, <1>9 DEF GiveUp, Refused, Goto
<1>10. CASE Turn
  <2>1. UNCHANGED <<resultDma, resultBuffer>>
    BY <1>10 DEF Turn, hwVars, dmaVars
  <2>2. CASE pc' = pc
    BY <1>4, <2>1, <2>2
  <2>3. CASE pc = "waitReleased" /\ ~consumerReady /\ pc' = "waitNoResult"
    <3>1. /\ ~frameComplete /\ ~frontendRelease /\ builder = "IDLE" /\ ~resultDoneSeen
      BY <2>3, ResultOfFrame DEF SystemTypeOK, CoreInv
    <3>2. ~consumerActive /\ ~dispatch
      BY <1>2, <2>3 DEF Acknowledging, CoreInv, ConsumerInv, ConsumerPhase
    <3>3. QED
      BY <1>1, <1>2, <1>3, <2>1, <2>3, <3>1, <3>2
         DEF LoopInv, NoneShown, BeforeResult, ResultPath, Acknowledging, Handling, ResultSent
  <2>4. CASE \/ pc = "waitResult" /\ ResultReady /\ pc' = "armResult"
             \/ pc = "waitResultDma" /\ resultDma = "idle" /\ pc' = "takeImage"
             \/ pc = "takeImage" /\ pc' = "taking"
             \/ pc = "waitPending" /\ completePending /\ pc' = "identify"
    BY <1>1, <1>2, <1>3, <2>1, <2>4
       DEF LoopInv, NoneShown, BeforeResult, ResultPath, Acknowledging, Handling, ResultReady
  <2>5. CASE \/ pc = "waitCleared" /\ pc' = "waitReleased"
             \/ pc = "waitNoResult" /\ pc' = "dispatch"
             \/ pc = "released" /\ pc' = "waitResult"
    BY <1>1, <1>2, <1>3, <2>1, <2>5
       DEF LoopInv, NoneShown, BeforeResult, ResultPath, Acknowledging, Handling
  <2>6. QED
    BY <1>10, <2>2, <2>3, <2>4, <2>5 DEF Turn, Goto
<1>11. CASE TakeSlot \/ FreeSlot \/ Matched
  <2>1. /\ UNCHANGED <<resultDma, resultBuffer>>
        /\ \/ pc = "taking" /\ pc' = "waitPending"
           \/ pc = "decode" /\ pc' = "released"
           \/ pc = "identify" /\ pc' = "ack"
    BY <1>11 DEF TakeSlot, FreeSlot, Matched, At, Goto, hwVars, dmaVars
  <2>2. QED
    BY <1>1, <1>2, <1>3, <2>1
       DEF LoopInv, NoneShown, BeforeResult, ResultPath, Acknowledging, Handling
<1>12. CASE EnableCapture
  <2>1. UNCHANGED <<resultDma, resultBuffer>> /\ pc = "enableCapture" /\ pc' = "waitResult"
    BY <1>12 DEF EnableCapture, At, Goto, hwVars, dmaVars
  <2>2. QED
    BY <1>1, <1>2, <1>3, <2>1
       DEF LoopInv, NoneShown, BeforeResult, ResultPath, Acknowledging, Handling
<1>13. CASE ArmResult
  <2>1. pc = "armResult" /\ pc' = "stream" /\ resultDma' = "running" /\ UNCHANGED resultBuffer
    BY <1>13 DEF ArmResult, At, Goto
  <2>2. QED
    BY <1>1, <1>2, <1>3, <2>1
       DEF LoopInv, NoneShown, BeforeResult, ResultPath, Acknowledging, Handling
<1>14. QED
  BY <1>6, <1>7, <1>8, <1>9, <1>10, <1>11, <1>12, <1>13 DEF Between

-----------------------------------------------------------------------------
(* No block rejects what its neighbours ask of it, in any world.            *)

NoRejections == errors = {} /\ ~completionError /\ ~controlError /\ ~frameIdError

\* The other errors have their cause in the surroundings.
ErrorsExplained ==
  /\ sticky \subseteq {"overflow", "fatal"}
  /\ sticky # {} => "overfull" \in environment
  /\ imageOverflow => "stall" \in environment

LEMMA NoErrorsInit == Init => LoopInv /\ NoRejections /\ ErrorsExplained
<1> SUFFICES ASSUME Init PROVE LoopInv /\ NoRejections /\ ErrorsExplained
  OBVIOUS
<1>1. LoopInv
  BY DEF Init, FBInit, RCInit, LoopInv, NoneShown, BeforeResult, ResultPath, Acknowledging, Handling,
         ResultSent
<1>2. NoRejections /\ ErrorsExplained
  BY DEF Init, FBInit, RCInit, NoRejections, ErrorsExplained
<1>3. QED
  BY <1>1, <1>2

LEMMA NoRejectionsEdge ==
  ASSUME SystemTypeOK, CoreInv, CreditInv, LoopInv, NoRejections, NEW cmd, NEW ev, NEW errs,
         NEW take \in BOOLEAN, NEW in \in Signals, NEW rin, EdgeOf(cmd, ev, errs, take, in, rin)
  PROVE  NoRejections' /\ ~Violation(rin)
<1> USE DEF SystemTypeOK
<1>1. BankInv /\ TapInv /\ ConsumerInv
  BY DEF CoreInv
<1>2. Wired(cmd, ev, errs, take, in, rin) /\ Commanded(cmd) /\ errors' = errors \cup Raised(in)
  BY DEF EdgeOf, Edge
<1>3. cmd = "credit" => ~credit
  BY <1>2 DEF Commanded, CreditInv, DmaInv, Arming, CreditDue
<1>4. /\ cmd = "dispatch" => ~dispatch /\ ~consumerActive
      /\ cmd = "ack" => completePending
      /\ cmd = "stream" => builder = "READY"
  BY <1>2 DEF Commanded, LoopInv, NoneShown, Acknowledging, ResultPath
<1>5. "grayLast" \in ev => ImageOk(in)
  BY <1>1, CaptureRegisters
<1>6. Retire(in) <=> frontendRelease
  BY <1>1, ConsumerRegisters
<1>7. /\ in.cmdCredit <=> cmd = "credit"
      /\ in.cmdDispatch <=> cmd = "dispatch"
      /\ in.sof => CaptureAllowed(in)
      /\ in.imageDone <=> "grayLast" \in ev
      /\ in.release <=> frontendRelease
  BY <1>2 DEF Wired
<1>8. Raised(in) = {}
  BY <1>3, <1>4, <1>5, <1>6, <1>7 DEF Raised
<1>9. /\ Completion(rin) /\ FrameCtrl(rin) /\ FrameId(rin)
      /\ (rin.sof <=> consumerSof) /\ (rin.imageDone <=> consumerImageDone)
      /\ (rin.ack <=> cmd = "ack") /\ (rin.streamStart <=> cmd = "stream")
      /\ ~rin.errorClear /\ ~rin.manualStart /\ ~rin.seedWrite
  BY RuntimeInputs
<1>10. ConsumerPhase /\ FrameLife /\ OneLaunch
  BY <1>1 DEF ConsumerInv
<1>11. /\ consumerSof => ~frameActive /\ ~completePending /\ ~activeValid
       /\ consumerImageDone => frameActive /\ ~imageDoneSeen
       /\ builder = "DONE" => frameActive /\ ~resultDoneSeen
       /\ completePending => frameActive
       /\ start => activeValid /\ builder = "IDLE"
       /\ frameComplete => launched
  BY <1>10 DEF ConsumerPhase, FrameLife, OneLaunch
<1>12. ~completionError'
  BY <1>4, <1>9, <1>11 DEF Completion, NoRejections, SofOk, ImageFresh, ResultFresh, ResultTxDone, AckOk
<1>13. ~controlError' /\ ~frameIdError'
  BY <1>9, <1>11 DEF FrameCtrl, FrameId, NoRejections
<1>14. ~Violation(rin)
  BY <1>4, <1>9, <1>11 DEF Violation
<1>15. QED
  BY <1>2, <1>8, <1>12, <1>13, <1>14 DEF NoRejections

LEMMA ErrorsExplainedEdge ==
  ASSUME SystemTypeOK, ErrorsExplained, NEW cmd, NEW ev, NEW errs,
         NEW take \in BOOLEAN, NEW in \in Signals, NEW rin, EdgeOf(cmd, ev, errs, take, in, rin),
         ~Violation(rin)
  PROVE  ErrorsExplained'
<1>1. Packet(rin) /\ rin.errs = errs /\ ~rin.errorClear
  BY RuntimeInputs DEF SystemTypeOK
<1>2. Occurring(ev, errs) /\ Tap(ev, take) /\ UNCHANGED environment
  BY DEF EdgeOf
<1>3. sticky' = sticky \cup Arriving(rin)
  BY <1>1 DEF Packet
<1>4. /\ Arriving(rin) \subseteq {"overflow", "fatal"}
      /\ Arriving(rin) # {} => "overfull" \in environment
  BY <1>1, <1>2 DEF Arriving, Occurring
<1>5. imageOverflow' => imageOverflow \/ "stall" \in environment
  BY <1>2 DEF Tap, Occurring
<1>6. QED
  BY <1>2, <1>3, <1>4, <1>5 DEF ErrorsExplained

-----------------------------------------------------------------------------
(* The image that is taken, and the candidates found in it.                 *)

Holding == {"waitPending", "identify", "ack", "waitCleared", "waitReleased", "waitNoResult",
            "dispatch", "decode"}

\* The loop holds a slot from the take to the end of the decoding, the one of the frame
\* that is shown.
SlotHeld ==
  /\ pc \in Holding => ringCpu # NoSlot
  /\ pc \notin Holding \cup {"failed"} => ringCpu = NoSlot
  /\ pc \in {"waitPending", "identify"} => ringId[ringCpu] = consumerImageId

\* Its candidates are those of the frame in the slot; they count only for a whole image.
CandidatesMatch ==
  /\ resultBuffer.flags = {} => resultBuffer.records
  /\ pc \in Holding \ {"waitPending", "identify"} =>
       /\ candidates.id = ringId[ringCpu]
       /\ candidatesValid => /\ ddr[ringCpu] = candidates.id
                             /\ candidates.flags = {} /\ candidates.records

\* One image is taken for each frame released, in the order of their numbers.
TakenAt == {"waitPending", "identify", "ack", "waitCleared", "waitReleased"}
TakenInv ==
  /\ pc # "failed" =>
       taken = IF pc \in TakenAt /\ consumerActive THEN Inc(released) ELSE released
  /\ ringCpu # NoSlot => Inc(ringId[ringCpu]) = taken

DecodeInv == SlotHeld /\ CandidatesMatch /\ TakenInv

LEMMA DecodeInit == Init => DecodeInv
<1> SUFFICES ASSUME Init PROVE DecodeInv
  OBVIOUS
<1>1. pc = "init" /\ ringCpu = NoSlot /\ resultBuffer.records /\ taken = 0 /\ released = 0
  BY DEF Init, FBInit, RingInit, NoPacket
<1>2. QED
  BY <1>1 DEF DecodeInv, SlotHeld, CandidatesMatch, TakenInv, Holding, TakenAt

LEMMA DecodeEdge ==
  ASSUME SystemTypeOK, CoreInv, ReceiverInv, LoopInv, DecodeInv, NEW cmd, NEW ev, NEW errs,
         NEW take \in BOOLEAN, NEW in \in Signals, NEW rin, EdgeOf(cmd, ev, errs, take, in, rin),
         WithCommand(cmd)
  PROVE  DecodeInv'
<1> USE DEF SystemTypeOK, ReceiverTypeOK
<1>1. /\ BankInv /\ ConsumerInv /\ RingInv /\ CreditInv /\ pc \in LoopAt
      /\ SlotHeld /\ CandidatesMatch /\ TakenInv
  BY DEF CoreInv, ReceiverInv, DecodeInv
<1>2. /\ UNCHANGED <<ringState, ringId, ringDma, ringCpu, taken, candidates, candidatesValid>>
      /\ Commanded(cmd)
  BY DEF EdgeOf, WithCommand, ringVars, loopVars
<1>3. \/ cmd \in {"none", "credit"} /\ pc' = pc
      \/ cmd = "dispatch" /\ pc = "init" /\ pc' = "enableCapture"
      \/ cmd = "dispatch" /\ pc = "dispatch" /\ pc' = "decode"
      \/ cmd = "ack" /\ pc = "ack" /\ pc' = "waitCleared"
      \/ cmd = "stream" /\ pc = "stream" /\ pc' = "waitResultDma"
  BY <1>2, LoopCommands
<1>4. /\ consumerActive' = ((consumerActive \/ Grant) /\ ~frontendRelease)
      /\ consumerImageId' = (IF Grant THEN released ELSE consumerImageId)
      /\ released' = (IF frontendRelease THEN Inc(released) ELSE released)
      /\ Grant => ~consumerActive /\ ~frontendRelease /\ dispatch
  BY <1>1, ConsumerRegisters DEF Grant
<1>5. /\ ResultSent \/ builder \in {"READY", "SEND"} \/ completePending \/ frameActive =>
           consumerActive /\ ~frontendRelease
      /\ ~consumerReady => ~frontendRelease
      /\ frontendRelease => consumerActive
  BY <1>1, ResultOfFrame
<1>6. /\ NoneShown /\ BeforeResult /\ ResultPath /\ Acknowledging
  BY DEF LoopInv
<1>7. ringCpu # NoSlot => ddr'[ringCpu] = ddr[ringCpu]
  <2>1. dmaState = "running" => dmaSlot = ringDma
    BY <1>1 DEF CreditInv, DmaInv
  <2>2. ringCpu # NoSlot => ringDma # ringCpu
    BY <1>1 DEF RingInv, RingTypeOK, RingOwnership
  <2>3. ddr' = IF take /\ dmaState = "running" THEN [ddr EXCEPT ![dmaSlot] = Torn] ELSE ddr
    BY DEF EdgeOf, Memories
  <2>4. QED
    BY <1>1, <2>1, <2>2, <2>3 DEF RingInv, RingTypeOK
<1>8. pc \in {"waitPending", "identify"} => consumerActive
  BY <1>5, <1>6 DEF ResultPath, Handling
<1>9. SlotHeld'
  BY <1>1, <1>2, <1>3, <1>4, <1>8 DEF SlotHeld, Holding
<1>10. CandidatesMatch'
  <2>1. resultBuffer'.flags = {} => resultBuffer'.records
    BY <1>1 DEF EdgeOf, Engines, CandidatesMatch, ConsumerInv, PacketInv
  <2>2. QED
    BY <1>1, <1>2, <1>3, <1>7, <2>1 DEF SlotHeld, CandidatesMatch, Holding
<1>11. TakenInv'
  <2>1. pc \in {"waitPending", "identify", "ack"} => consumerActive /\ ~frontendRelease
    BY <1>5, <1>6 DEF ResultPath, Handling
  <2>2. pc \in {"waitCleared", "waitReleased"} => ~Grant
    BY <1>4, <1>6 DEF Acknowledging
  <2>3. pc \notin TakenAt \cup {"failed"} => ~frontendRelease
    BY <1>1, <1>5, <1>6 DEF BeforeResult, ResultPath, Handling, TakenAt, LoopAt
  <2>4. QED
    BY <1>1, <1>2, <1>3, <1>4, <1>5, <2>1, <2>2, <2>3 DEF TakenInv, TakenAt
<1>12. QED
  BY <1>9, <1>10, <1>11 DEF DecodeInv

LEMMA DecodeBetween ==
  ASSUME SystemTypeOK, CoreInv, ReceiverInv, LoopInv, DecodeInv, Between
  PROVE  DecodeInv'
<1> USE DEF SystemTypeOK, ReceiverTypeOK
<1>1. /\ RingInv /\ CreditInv /\ SlotHeld /\ CandidatesMatch /\ TakenInv /\ pc \in LoopAt
      /\ ConsumerInv
  BY DEF CoreInv, ReceiverInv, DecodeInv
<1>2. UNCHANGED <<consumerActive, consumerImageId, released, imageOverflow>>
  BY BetweenCore DEF coreVars, fbVars, conVars, cntVars
<1>3. NoneShown /\ BeforeResult /\ ResultPath /\ Acknowledging
  BY DEF LoopInv
<1>4. ringCpu # NoSlot => ringCpu \in Slots /\ ringState[ringCpu] = "CPU" /\ ringDma # ringCpu
  BY <1>1 DEF RingInv, RingTypeOK, RingOwnership
<1>5. ASSUME ringCpu # NoSlot => ringId'[ringCpu] = ringId[ringCpu] /\ ddr'[ringCpu] = ddr[ringCpu],
             UNCHANGED <<ringCpu, resultBuffer, candidates, candidatesValid, taken>>,
             \/ pc' = pc \/ pc' = "failed"
             \/ pc' \notin Holding \cup TakenAt /\ pc \notin Holding \cup TakenAt \cup {"failed"}
             \/ /\ pc \in {"waitPending", "identify", "waitCleared", "waitReleased", "waitNoResult"}
                /\ pc' \in Holding /\ pc' # "ack"
                /\ pc' \in {"waitPending", "identify"} <=> pc \in {"waitPending", "identify"}
                /\ pc' \in TakenAt \/ ~consumerActive
                /\ pc \in TakenAt \/ ~consumerActive
      PROVE  DecodeInv'
  <2>1. SlotHeld'
    BY <1>1, <1>2, <1>5 DEF SlotHeld, Holding, LoopAt
  <2>2. CandidatesMatch'
    BY <1>1, <1>2, <1>5 DEF SlotHeld, CandidatesMatch, Holding
  <2>3. TakenInv'
    BY <1>1, <1>2, <1>5 DEF TakenInv, TakenAt, Holding
  <2>4. QED
    BY <2>1, <2>2, <2>3 DEF DecodeInv
<1>6. CASE Drain
  <2>1. /\ UNCHANGED <<ringId, ringCpu, resultBuffer, candidates, candidatesValid, taken, pc>>
        /\ dmaState = "draining"
        /\ ddr' = (IF damaged THEN ddr ELSE [ddr EXCEPT ![dmaSlot] = imageId])
    BY <1>6 DEF Drain, recVars, ringVars, loopVars
  <2>2. dmaSlot = ringDma
    BY <1>1, <2>1 DEF CreditInv, DmaInv
  <2>3. QED
    BY <1>4, <1>5, <2>1, <2>2
<1>7. CASE DmaFault
  BY <1>5, <1>7 DEF DmaFault, recVars, ringVars, loopVars, envVars
<1>8. CASE ServiceErrors \/ ServiceStatus \/ ServiceBusy \/ ServiceCount
  BY <1>5, <1>8 DEF ServiceErrors, ServiceStatus, ServiceBusy, ServiceCount, hwVars, envVars, dmaVars,
                    ringVars, loopVars
<1>9. CASE ServiceArm
  BY <1>5, <1>9 DEF ServiceArm, envVars, ringVars, loopVars
<1>10. CASE ServiceIdentity
  BY <1>5, <1>10 DEF ServiceIdentity, Complete, hwVars, envVars, dmaVars, ringVars, loopVars
<1>11. CASE ServiceReserve
  <2>1. ringCpu # NoSlot => ringId'[ringCpu] = ringId[ringCpu]
    <3>1. CASE Reserve(captureNextId)
      BY <1>1, <1>4, <3>1, ReservedSlot DEF Reserve, RingInv, RingTypeOK
    <3>2. CASE UNCHANGED ringVars
      BY <3>2 DEF ringVars
    <3>3. QED
      BY <1>11, <3>1, <3>2 DEF ServiceReserve
  <2>2. UNCHANGED <<ringCpu, ddr, resultBuffer, candidates, candidatesValid, taken, pc>>
    BY <1>11 DEF ServiceReserve, Reserve, hwVars, envVars, dmaVars, ringVars, loopVars
  <2>3. QED
    BY <1>5, <2>1, <2>2
<1>12. CASE GiveUp \/ Refused
  BY <1>5, <1>12 DEF GiveUp, Refused, Goto, hwVars, envVars, dmaVars, recVars, ringVars, loopVars
<1>13. CASE Turn \/ EnableCapture \/ ArmResult
  <2>1. UNCHANGED <<ringId, ringCpu, ddr, resultBuffer, candidates, candidatesValid, taken>>
    BY <1>13 DEF Turn, EnableCapture, ArmResult, hwVars, envVars, dmaVars, recVars, ringVars, loopVars
  <2>2. pc = "waitReleased" /\ ~consumerReady => ~consumerActive
    BY <1>1, <1>3 DEF Acknowledging, ConsumerInv, ConsumerPhase
  <2>3. pc = "waitNoResult" => ~consumerActive
    BY <1>3 DEF NoneShown
  <2>4. QED
    BY <1>5, <1>13, <2>1, <2>2, <2>3 DEF Turn, EnableCapture, ArmResult, At, Goto, Holding, TakenAt
<1>14. CASE TakeSlot
  <2>1. /\ pc = "taking" /\ pc' = "waitPending" /\ taken' = Inc(taken)
        /\ UNCHANGED <<ringId, ddr, resultBuffer, candidates, candidatesValid>>
    BY <1>14 DEF TakeSlot, Take, At, Goto, hwVars, envVars, dmaVars, loopVars
  <2>2. consumerActive /\ consumerImageId = released
    BY <1>1, <1>3, <2>1, ResultOfFrame DEF ResultPath, Handling, ConsumerInv, IdentityInv
  <2>3. ringCpu' \in ReadyFor(consumerImageId)
    BY <1>14, LowestIn DEF TakeSlot, Take, CanTake, ReadyFor, SlotsIn
  <2>4. ringCpu' \in Slots /\ ringCpu' # NoSlot /\ ringId[ringCpu'] = consumerImageId
    BY <2>3 DEF ReadyFor, SlotsIn, Slots, NoSlot
  <2>5. taken = released
    BY <1>1, <2>1 DEF TakenInv, TakenAt
  <2>6. QED
    BY <1>1, <1>2, <2>1, <2>2, <2>4, <2>5
       DEF DecodeInv, SlotHeld, CandidatesMatch, TakenInv, Holding, TakenAt
<1>15. CASE FreeSlot
  <2>1. /\ pc = "decode" /\ pc' = "released" /\ ringCpu' = NoSlot
        /\ UNCHANGED <<taken, resultBuffer, candidates, candidatesValid>>
    BY <1>15 DEF FreeSlot, Release, At, hwVars, dmaVars, loopVars
  <2>2. QED
    BY <1>1, <1>2, <2>1 DEF DecodeInv, SlotHeld, CandidatesMatch, TakenInv, Holding, TakenAt
<1>16. CASE Matched
  <2>1. /\ pc = "identify" /\ pc' = "ack" /\ resultBuffer.id = consumerImageId
        /\ candidates' = resultBuffer
        /\ candidatesValid' => resultBuffer.flags = {} /\ ~imageOverflow
        /\ UNCHANGED <<ringId, ringCpu, ddr, resultBuffer, taken>>
    BY <1>16 DEF Matched, At, Goto, StatusError, hwVars, envVars, dmaVars, recVars, ringVars
  <2>2. /\ ringCpu # NoSlot /\ ringId[ringCpu] = consumerImageId
    BY <1>1, <2>1 DEF SlotHeld, Holding
  <2>3. ddr[ringCpu] = ringId[ringCpu] \/ imageOverflow
    BY <1>4, <2>2 DEF ReceiverInv, DdrInv, Sound
  <2>4. QED
    BY <1>1, <1>2, <2>1, <2>2, <2>3
       DEF DecodeInv, SlotHeld, CandidatesMatch, TakenInv, Holding, TakenAt
<1>17. QED
  BY <1>6, <1>7, <1>8, <1>9, <1>10, <1>11, <1>12, <1>13, <1>14, <1>15, <1>16 DEF Between

\* All of the invariant that holds whatever the surroundings do.
FaultyInv == CoreInv /\ ReceiverInv /\ LoopInv /\ NoRejections /\ ErrorsExplained /\ DecodeInv

LEMMA FaultyUnchanged ==
  ASSUME LoopInv, NoRejections, ErrorsExplained, DecodeInv, UNCHANGED vars
  PROVE  LoopInv' /\ NoRejections' /\ ErrorsExplained' /\ DecodeInv'
<1> USE DEF vars, fbVars, capVars, conVars, bankVars, cntVars, rcVars, complVars, ctrlVars, fidVars,
            pktVars, envVars, dmaVars, recVars, ringVars, loopVars
<1>1. LoopInv'
  BY DEF LoopInv, NoneShown, BeforeResult, ResultPath, Acknowledging, ResultSent
<1>2. NoRejections' /\ ErrorsExplained'
  BY DEF NoRejections, ErrorsExplained
<1>3. DecodeInv'
  BY DEF DecodeInv, SlotHeld, CandidatesMatch, TakenInv
<1>4. QED
  BY <1>1, <1>2, <1>3

LEMMA FaultyNext == SystemTypeOK /\ FaultyInv /\ [Next]_vars => FaultyInv'
<1> SUFFICES ASSUME SystemTypeOK, FaultyInv, [Next]_vars PROVE FaultyInv'
  OBVIOUS
<1> DEFINE Kept == LoopInv' /\ NoRejections' /\ ErrorsExplained' /\ DecodeInv'
<1>1. CoreInv' /\ ReceiverInv'
  BY CoreNext, ReceiverNext DEF FaultyInv
<1>2. ASSUME NEW cmd, NEW ev, NEW errs, NEW rin, NEW take \in BOOLEAN, NEW in \in Signals,
             EdgeOf(cmd, ev, errs, take, in, rin), WithCommand(cmd)
      PROVE  Kept
  <2>1. CoreInv /\ CreditInv /\ ReceiverInv /\ LoopInv /\ NoRejections /\ ErrorsExplained /\ DecodeInv
    BY DEF FaultyInv, ReceiverInv
  <2>2. LoopInv'
    BY <1>2, <2>1, LoopEdge
  <2>3. NoRejections' /\ ~Violation(rin)
    BY <1>2, <2>1, NoRejectionsEdge
  <2>4. ErrorsExplained'
    BY <1>2, <2>1, <2>3, ErrorsExplainedEdge
  <2>5. DecodeInv'
    BY <1>2, <2>1, DecodeEdge
  <2>6. QED
    BY <2>2, <2>3, <2>4, <2>5
<1>3. ASSUME Between PROVE Kept
  <2>1. LoopInv' /\ DecodeInv'
    BY <1>3, LoopBetween, DecodeBetween DEF FaultyInv
  <2>2. UNCHANGED <<errors, completionError, controlError, frameIdError, sticky, environment,
                    imageOverflow>>
    BY <1>3, BetweenCore DEF coreVars, fbVars, rcVars, complVars, ctrlVars, fidVars, pktVars
  <2>3. NoRejections' /\ ErrorsExplained'
    BY <2>2 DEF FaultyInv, NoRejections, ErrorsExplained
  <2>4. QED
    BY <2>1, <2>3
<1>4. ASSUME UNCHANGED vars PROVE Kept
  BY <1>4, FaultyUnchanged DEF FaultyInv
<1> HIDE DEF Kept
<1>5. CoreTypeOK /\ pc \in LoopAt
  BY DEF SystemTypeOK, ReceiverTypeOK
<1>6. Kept
  BY <1>2, <1>3, <1>4, <1>5, Steps
<1>7. QED
  BY <1>1, <1>6 DEF Kept, FaultyInv

LEMMA FaultyInvariant == Spec => [](SystemTypeOK /\ FaultyInv)
<1>1. Init => SystemTypeOK /\ FaultyInv
  BY TypeInit, BankInit, ConsumerInit, ReceiverInit, NoErrorsInit, DecodeInit
     DEF FaultyInv, CoreInv
<1>2. SystemTypeOK /\ FaultyInv /\ [Next]_vars => SystemTypeOK' /\ FaultyInv'
  BY TypeNext, FaultyNext
<1>3. QED
  BY <1>1, <1>2, PTL DEF Spec

\* The candidates that guide the decoder were found in the very frame it decodes.
THEOREM PairedDecodeHolds == Spec => []PairedDecode
<1>1. FaultyInv => PairedDecode
  BY DEF FaultyInv, DecodeInv, CandidatesMatch, PairedDecode, Holding
<1>2. QED
  BY <1>1, FaultyInvariant, PTL

\* A damaged image, or a packet that declares itself incomplete, never guides the
\* decoder.
THEOREM GuidedOnlyIfSoundHolds == Spec => []GuidedOnlyIfSound
<1>1. FaultyInv => GuidedOnlyIfSound
  BY DEF FaultyInv, DecodeInv, CandidatesMatch, GuidedOnlyIfSound, Holding
<1>2. QED
  BY <1>1, FaultyInvariant, PTL

\* Every accepted frame is decoded, in the order of acceptance.
THEOREM DecodedInOrderHolds == Spec => []DecodedInOrder
<1>1. SystemTypeOK /\ FaultyInv => DecodedInOrder
  BY DEF SystemTypeOK, ReceiverTypeOK, FaultyInv, DecodeInv, TakenInv, DecodedInOrder, Ahead, Ids
<1>2. QED
  BY <1>1, FaultyInvariant, PTL

-----------------------------------------------------------------------------
(* Without faults: the image of the frame that is shown is there when the   *)
(* loop asks for it, so the receiver and the loop never give up.            *)

\* The frame in a bank has an image that the processor has not taken yet.
HasImage(b) ==
  \/ state[b] = "READY"
  \/ state[b] = "CAPTURING" /\ imageSeen
  \/ state[b] = "CONSUMING" /\ pc \notin TakenAt

InRing(i) == \E s \in Slots : ringState[s] = "READY" /\ ringId[s] = i

\* Such an image is ready, or it is the one that the service is about to complete.
ImageInv ==
  pc # "failed" =>
    \A b \in Banks : HasImage(b) => InRing(id[b]) \/ (Arrived /\ ringId[ringDma] = id[b])

\* The image of a frame is in DDR before the frame's packet is built.
Collected == builder \in {"READY", "SEND", "DONE"} \/ resultDoneSeen
DrainedInv ==
  "slowDma" \notin environment /\ Collected =>
    ~(dmaState = "draining" /\ imageId = consumerImageId)

\* When the call that precedes the take has looked at the engine, the image is ready.
CalmInv ==
  Calm =>
    /\ enabled /\ ~faults /\ pc # "failed"
    /\ pc = "taking" /\ svc \in {"off", "reserve", "arm", "credit"} => InRing(consumerImageId)

\* The frame behind the one that is shown has another id.
LEMMA OtherId ==
  ASSUME SystemTypeOK, CoreInv, consumerActive, NEW b \in Banks, state[b] \in {"CAPTURING", "READY"}
  PROVE  id[b] # consumerImageId
<1> USE DEF SystemTypeOK, CoreTypeOK, FBTypeOK
<1>1. consumerImageId = released /\ readBank = head /\ state[readBank] = "CONSUMING"
  BY ShownFrame
<1>2. id[b] = Ahead(InitialId, Inc(released))
  BY <1>1 DEF CoreInv, BankInv, Accounting
<1>3. Ahead(InitialId, Inc(released)) # released
  BY DEF Ahead, Inc, Ids
<1>4. QED
  BY <1>1, <1>2, <1>3

\* Only the take makes a ready image go away.
LEMMA RingKeeps ==
  ASSUME CoreTypeOK, RingInv, NEW i, InRing(i), Between, ~TakeSlot
  PROVE  InRing(i)'
<1> USE DEF RingInv, RingTypeOK, RingOwnership
<1>1. PICK s \in Slots : ringState[s] = "READY" /\ ringId[s] = i
  BY DEF InRing
<1>2. SUFFICES ringState'[s] = "READY" /\ ringId'[s] = i
  BY DEF InRing
<1>3. CASE UNCHANGED <<ringState, ringId>>
  BY <1>1, <1>3
<1>4. CASE ServiceIdentity
  BY <1>1, <1>3, <1>4 DEF ServiceIdentity, Complete, CanComplete, ringVars
<1>5. CASE ServiceReserve
  <2>1. CASE Reserve(captureNextId)
    BY <1>1, <2>1, ReservedSlot DEF Reserve
  <2>2. QED
    BY <1>3, <1>5, <2>1 DEF ServiceReserve, ringVars
<1>6. CASE FreeSlot
  BY <1>1, <1>6 DEF FreeSlot, Release, CanRelease
<1>7. CASE Drain \/ DmaFault
  BY <1>3, <1>7 DEF Drain, DmaFault, recVars, ringVars
<1>8. CASE ServiceErrors \/ ServiceStatus \/ ServiceBusy \/ ServiceCount \/ ServiceArm
  BY <1>3, <1>8 DEF ServiceErrors, ServiceStatus, ServiceBusy, ServiceCount, ServiceArm, ringVars
<1>9. CASE GiveUp \/ Turn \/ Refused \/ Matched \/ EnableCapture \/ ArmResult
  BY <1>3, <1>9 DEF GiveUp, Turn, Refused, Matched, EnableCapture, ArmResult, recVars, ringVars
<1>10. QED
  BY <1>4, <1>5, <1>6, <1>7, <1>8, <1>9 DEF Between

LEMMA ImageEdge ==
  ASSUME SystemTypeOK, FaultyInv, ImageInv, NEW cmd, NEW ev, NEW errs, NEW take \in BOOLEAN,
         NEW in \in Signals, NEW rin, EdgeOf(cmd, ev, errs, take, in, rin), WithCommand(cmd)
  PROVE  ImageInv'
<1> USE DEF SystemTypeOK, CoreTypeOK, FBTypeOK
<1>1. CoreInv /\ CreditInv /\ BankInv /\ FBInv /\ TapInv
  BY DEF FaultyInv, ReceiverInv, CoreInv, BankInv
<1>2. SUFFICES ASSUME pc' # "failed", NEW b \in Banks, HasImage(b)'
               PROVE  InRing(id[b])' \/ (Arrived /\ ringId[ringDma] = id[b])'
  BY DEF ImageInv
<1>3. UNCHANGED <<ringState, ringId, ringDma>>
  BY DEF WithCommand, ringVars
<1>4. /\ pc' \notin TakenAt => pc \notin TakenAt
      /\ pc # "failed"
  BY <1>2, LoopCommands DEF EdgeOf, TakenAt
<1>5. /\ Arrived' <=> Arrived \/ "grayLast" \in ev
      /\ Arrived => ~take /\ "grayLast" \notin ev
  BY <1>1, ArrivedEdge
<1>6. /\ imageSeen' = ("grayLast" \in ev \/ (imageSeen /\ ~take))
      /\ writeBank' = (IF take THEN tail ELSE writeBank)
      /\ id' = (IF take THEN [id EXCEPT ![tail] = captureNextId] ELSE id)
  BY <1>1, CaptureRegisters
<1>7. /\ "grayLast" \in ev => AwaitingImage /\ ~take
  BY <1>1, CreditEdge
<1>8. Edge(in) /\ (Accept(in) <=> take)
  BY DEF EdgeOf, Wired
<1>9. \/ HasImage(b) /\ id'[b] = id[b]
      \/ "grayLast" \in ev /\ b = writeBank /\ id'[b] = id[b]
  <2>1. CASE state'[b] = "READY"
    <3>1. state[b] = "READY" \/ (state[b] = "CAPTURING" /\ imageSeen)
      BY <1>1, <1>8, <2>1, NextStateAt, EventGuards DEF Commit
    <3>2. id'[b] = id[b]
      BY <1>1, <1>6, <1>8, <3>1, EventGuards
    <3>3. QED
      BY <3>1, <3>2 DEF HasImage
  <2>2. CASE state'[b] = "CAPTURING" /\ imageSeen'
    <3>1. ~(take /\ b = tail)
      BY <1>6, <1>7, <2>2
    <3>2. state[b] = "CAPTURING" /\ id'[b] = id[b]
      BY <1>1, <1>6, <1>8, <2>2, <3>1, NextStateAt, EventGuards
    <3>3. b = writeBank
      BY <1>1, <3>2 DEF FBInv, OwnerFlags
    <3>4. QED
      BY <1>6, <2>2, <3>2, <3>3 DEF HasImage
  <2>3. CASE state'[b] = "CONSUMING" /\ pc' \notin TakenAt
    <3>1. state[b] \in {"READY", "CONSUMING"}
      BY <1>1, <1>8, <2>3, NextStateAt, EventGuards
    <3>2. id'[b] = id[b]
      BY <1>1, <1>6, <1>8, <3>1, EventGuards
    <3>3. QED
      BY <1>4, <2>3, <3>1, <3>2 DEF HasImage
  <2>4. QED
    BY <1>2, <2>1, <2>2, <2>3 DEF HasImage
<1>10. CASE HasImage(b) /\ id'[b] = id[b]
  BY <1>3, <1>4, <1>5, <1>10 DEF ImageInv, InRing
<1>11. CASE "grayLast" \in ev /\ b = writeBank /\ id'[b] = id[b]
  <2>1. ringId[ringDma] = id[writeBank]
    BY <1>1, <1>7, <1>11 DEF CreditInv, DmaInv, CreditDue
  <2>2. QED
    BY <1>3, <1>5, <1>11, <2>1
<1>12. QED
  BY <1>9, <1>10, <1>11

LEMMA ImageBetween ==
  ASSUME SystemTypeOK, FaultyInv, ImageInv, Between
  PROVE  ImageInv'
<1> USE DEF SystemTypeOK, CoreTypeOK, FBTypeOK, ReceiverTypeOK
<1>1. CoreInv /\ CreditInv /\ RingInv /\ FBInv /\ LoopInv /\ DecodeInv
  BY DEF FaultyInv, ReceiverInv, CoreInv, BankInv
<1>2. SUFFICES ASSUME pc' # "failed", NEW b \in Banks, HasImage(b)'
               PROVE  InRing(id[b])' \/ (Arrived /\ ringId[ringDma] = id[b])'
  BY DEF ImageInv
<1>3. UNCHANGED <<state, id, imageSeen, credit, capturing, consumerActive, consumerImageId>>
  BY BetweenCore DEF coreVars, fbVars, bankVars, capVars, conVars
<1>4. CreditDue' <=> CreditDue
  BY <1>3 DEF CreditDue, AwaitingImage
<1>5. TakeSlot => pc = "taking" /\ pc' = "waitPending"
  BY DEF TakeSlot, At, Goto
<1>6. ASSUME HasImage(b), pc # "failed", pc # "taking" \/ pc' # "waitPending",
             Arrived => Arrived' /\ UNCHANGED <<ringId, ringDma>>
      PROVE  InRing(id[b])' \/ (Arrived /\ ringId[ringDma] = id[b])'
  <2>1. InRing(id[b]) \/ (Arrived /\ ringId[ringDma] = id[b])
    BY <1>6 DEF ImageInv
  <2>2. CASE InRing(id[b])
    <3>1. InRing(id[b])'
      BY <1>1, <1>3, <1>5, <1>6, <2>2, RingKeeps DEF InRing
    <3>2. QED
      BY <3>1
  <2>3. CASE Arrived /\ ringId[ringDma] = id[b]
    BY <1>3, <1>6, <2>3
  <2>4. QED
    BY <2>1, <2>2, <2>3
<1>7. ASSUME UNCHANGED <<pc, ringId, ringDma>>, Arming' => Arming
      PROVE  InRing(id[b])' \/ (Arrived /\ ringId[ringDma] = id[b])'
  BY <1>2, <1>3, <1>4, <1>6, <1>7 DEF HasImage, Arrived
<1>8. CASE Drain \/ DmaFault
  BY <1>7, <1>8 DEF Drain, DmaFault, recVars, ringVars, Arming
<1>9. CASE ServiceErrors \/ ServiceStatus \/ ServiceBusy \/ ServiceCount
  BY <1>7, <1>9 DEF ServiceErrors, ServiceStatus, ServiceBusy, ServiceCount, FailReceiver, ringVars, Arming
<1>10. CASE ServiceIdentity
  <2>1. /\ UNCHANGED <<pc, ringId>>
        /\ (svc' = "off" /\ UNCHANGED ringDma) \/ Complete(completedId)
    BY <1>10 DEF ServiceIdentity, FailReceiver, Complete, ringVars
  <2>2. CASE svc' = "off" /\ UNCHANGED ringDma
    BY <1>7, <2>1, <2>2 DEF Arming
  <2>3. CASE Complete(completedId)
    <3>1. HasImage(b) /\ pc # "failed"
      BY <1>2, <1>3, <2>1 DEF HasImage
    <3>2. InRing(id[b]) \/ ringId[ringDma] = id[b]
      BY <3>1 DEF ImageInv
    <3>3. InRing(id[b]) => InRing(id[b])'
      BY <1>1, <1>3, <1>5, <2>1, RingKeeps DEF InRing
    <3>4. ringId[ringDma] = id[b] => InRing(id[b])'
      BY <1>1, <1>3, <2>1, <2>3 DEF Complete, CanComplete, InRing, RingInv, RingTypeOK
    <3>5. QED
      BY <3>2, <3>3, <3>4
  <2>4. QED
    BY <2>1, <2>2, <2>3
<1>11. CASE ServiceReserve
  <2>1. svc = "reserve" /\ UNCHANGED pc
    BY <1>11 DEF ServiceReserve
  <2>2. ~Arrived
    BY <1>1, <2>1 DEF Arrived, CreditInv, ServiceInv
  <2>3. QED
    BY <1>2, <1>3, <1>6, <2>1, <2>2 DEF HasImage
<1>12. CASE ServiceArm
  <2>1. svc = "arm" /\ UNCHANGED pc
    BY <1>12 DEF ServiceArm
  <2>2. ~Arrived
    BY <2>1 DEF Arrived, Arming
  <2>3. QED
    BY <1>2, <1>3, <1>6, <2>1, <2>2 DEF HasImage
<1>13. CASE GiveUp \/ Refused
  BY <1>2, <1>13 DEF GiveUp, Refused, Goto
<1>14. CASE Turn \/ Matched \/ EnableCapture \/ ArmResult \/ FreeSlot
  <2>1. /\ UNCHANGED <<ringId, ringDma>> /\ svc' \in {"off", "errors"}
        /\ pc # "failed" \/ pc' = pc
        /\ pc # "taking" \/ pc' # "waitPending"
    BY <1>14 DEF Turn, Matched, EnableCapture, ArmResult, FreeSlot, Release, At, Goto, CallService,
                 recVars, ringVars
  <2>2. pc' \notin TakenAt => pc \notin TakenAt \/ (pc = "waitReleased" /\ ~consumerReady)
    BY <1>14 DEF Turn, Matched, EnableCapture, ArmResult, FreeSlot, At, Goto, TakenAt
  <2>3. pc = "waitReleased" /\ ~consumerReady => state[b] # "CONSUMING"
    BY <1>1 DEF LoopInv, Acknowledging, CoreInv, ConsumerInv, ConsumerPhase, FBInv, OwnerFlags
  <2>4. HasImage(b)
    BY <1>2, <1>3, <2>2, <2>3 DEF HasImage
  <2>5. QED
    BY <1>2, <1>4, <1>6, <2>1, <2>4 DEF Arrived, Arming
<1>15. CASE TakeSlot
  <2>1. pc = "taking" /\ pc' = "waitPending" /\ svc' = "off" /\ Take(consumerImageId)
    BY <1>15 DEF TakeSlot, At, Goto
  <2>2. consumerActive
    BY <1>1, <2>1, ResultOfFrame DEF LoopInv, ResultPath, Handling, CoreInv
  <2>3. state[b] \in {"CAPTURING", "READY"} /\ HasImage(b)
    BY <1>2, <1>3, <2>1 DEF HasImage, TakenAt
  <2>4. id[b] # consumerImageId
    BY <1>1, <2>2, <2>3, OtherId
  <2>5. InRing(id[b]) => InRing(id[b])'
    <3>1. ringCpu' \in ReadyFor(consumerImageId)
      BY <2>1, LowestIn DEF Take, CanTake, ReadyFor, SlotsIn
    <3>2. ringId[ringCpu'] = consumerImageId
      BY <3>1 DEF ReadyFor
    <3>3. QED
      BY <1>1, <1>3, <2>1, <2>4, <3>2 DEF Take, InRing, RingInv, RingTypeOK
  <2>6. Arrived' <=> Arrived
    BY <1>4, <1>15 DEF TakeSlot, Take, At, Goto, Arrived, Arming
  <2>7. QED
    BY <1>3, <2>1, <2>3, <2>5, <2>6 DEF ImageInv, Take
<1>16. QED
  BY <1>8, <1>9, <1>10, <1>11, <1>12, <1>13, <1>14, <1>15 DEF Between

LEMMA DrainedEdge ==
  ASSUME SystemTypeOK, FaultyInv, DrainedInv, NEW cmd, NEW ev, NEW errs, NEW take \in BOOLEAN,
         NEW in \in Signals, NEW rin, EdgeOf(cmd, ev, errs, take, in, rin), WithCommand(cmd)
  PROVE  DrainedInv'
<1> USE DEF SystemTypeOK
<1>1. CoreInv /\ CreditInv /\ BankInv /\ ConsumerInv /\ TapInv /\ FBInv
  BY DEF FaultyInv, ReceiverInv, CoreInv, BankInv
<1>2. SUFFICES ASSUME "slowDma" \notin environment', Collected', dmaState' = "draining"
               PROVE  imageId' # consumerImageId'
  BY DEF DrainedInv
<1>3. /\ (rin.collected <=> "collected" \in ev) /\ Packet(rin) /\ Completion(rin)
      /\ (rin.streamStart <=> cmd = "stream") /\ (rin.lastBeat <=> "lastBeat" \in ev)
  BY RuntimeInputs
<1>4. Occurring(ev, errs) /\ UNCHANGED environment
  BY DEF EdgeOf
<1>5. builder \in BuilderState
  BY DEF CoreTypeOK, RuntimeTypeOK
<1>6. Collected \/ (builder = "COLLECT" /\ "collected" \in ev)
  BY <1>2, <1>3, <1>5 DEF Packet, Completion, Collected, BuilderState, ResultFresh, ResultTxDone
<1>7. consumerActive /\ activeFrameId = consumerImageId /\ consumerImageId' = consumerImageId
  <2>1. builder # "IDLE" \/ resultDoneSeen
    BY <1>6 DEF Collected
  <2>2. consumerActive /\ activeValid
    BY <1>1, <2>1 DEF ConsumerInv, ConsumerPhase, FrameLife, OneLaunch
  <2>3. QED
    BY <1>1, <2>2, ConsumerRegisters DEF ConsumerInv, IdentityInv
<1>8. /\ dmaState' = (IF "grayLast" \in ev THEN "draining" ELSE dmaState)
      /\ "grayLast" \in ev => AwaitingImage /\ ~take
      /\ take => credit
      /\ ~take => imageId' = imageId
  BY <1>1, CreditEdge
<1>9. ~take /\ imageId' = imageId
  BY <1>1, <1>2, <1>8 DEF CreditInv, DmaInv, CreditDue
<1>10. CASE "grayLast" \in ev
  <2>1. capturing
    BY <1>8, <1>10 DEF AwaitingImage
  <2>2. state[writeBank] = "CAPTURING" /\ writeBank \in Banks /\ imageId = id[writeBank]
    BY <1>1, <2>1 DEF FBInv, FBTypeOK, OwnerFlags, TapInv
  <2>3. id[writeBank] # consumerImageId
    BY <1>1, <1>7, <2>2, OtherId
  <2>4. QED
    BY <1>7, <1>9, <2>2, <2>3
<1>11. CASE "grayLast" \notin ev
  <2>1. dmaState = "draining"
    BY <1>2, <1>8, <1>11
  <2>2. imageId # consumerImageId
    BY <1>2, <1>4, <1>6, <1>7, <2>1 DEF DrainedInv, Occurring
  <2>3. QED
    BY <1>7, <1>9, <2>2
<1>12. QED
  BY <1>10, <1>11

LEMMA DrainedBetween ==
  ASSUME DrainedInv, Between
  PROVE  DrainedInv'
<1>1. UNCHANGED <<environment, builder, resultDoneSeen, imageId, consumerImageId>>
  BY BetweenCore DEF coreVars, rcVars, complVars, pktVars, fbVars, conVars
<1>2. dmaState' = "draining" => dmaState = "draining"
  <2>1. CASE Drain \/ DmaFault \/ ServiceArm
    BY <2>1 DEF Drain, DmaFault, ServiceArm
  <2>2. CASE ServiceErrors \/ ServiceStatus \/ ServiceBusy \/ ServiceCount
    BY <2>2 DEF ServiceErrors, ServiceStatus, ServiceBusy, ServiceCount, hwVars, dmaVars
  <2>3. CASE ServiceIdentity \/ ServiceReserve
    BY <2>3 DEF ServiceIdentity, ServiceReserve, hwVars, dmaVars
  <2>4. CASE GiveUp \/ Turn \/ TakeSlot \/ FreeSlot \/ Refused \/ Matched \/ EnableCapture
    BY <2>4 DEF GiveUp, Turn, TakeSlot, FreeSlot, Refused, Matched, EnableCapture, hwVars, dmaVars
  <2>5. CASE ArmResult
    BY <2>5 DEF ArmResult
  <2>6. QED
    BY <2>1, <2>2, <2>3, <2>4, <2>5 DEF Between
<1>3. QED
  BY <1>1, <1>2 DEF DrainedInv, Collected

LEMMA CalmEdge ==
  ASSUME SystemTypeOK, FaultyInv, CalmInv, NEW cmd, NEW ev, NEW errs, NEW take \in BOOLEAN,
         NEW in \in Signals, NEW rin, EdgeOf(cmd, ev, errs, take, in, rin), WithCommand(cmd)
  PROVE  CalmInv'
<1> USE DEF SystemTypeOK
<1>1. CoreInv /\ BankInv /\ ConsumerInv /\ LoopInv
  BY DEF FaultyInv, CoreInv
<1>2. /\ UNCHANGED <<ringState, ringId, enabled, faults, environment>>
      /\ svc' = (IF cmd = "none" THEN svc ELSE "off")
      /\ Commanded(cmd)
  BY DEF EdgeOf, WithCommand, ringVars
<1>3. \/ cmd \in {"none", "credit"} /\ pc' = pc
      \/ pc \in {"init", "dispatch", "ack", "stream"}
         /\ pc' \in {"enableCapture", "decode", "waitCleared", "waitResultDma"}
  BY <1>2, LoopCommands
<1>4. cmd = "credit" => svc = "credit"
  BY <1>2 DEF Commanded
<1>5. pc = "taking" => consumerImageId' = consumerImageId
  <2>1. pc = "taking" => consumerActive
    BY <1>1, ResultOfFrame DEF LoopInv, ResultPath, Handling
  <2>2. QED
    BY <1>1, <2>1, ConsumerRegisters
<1>6. QED
  BY <1>2, <1>3, <1>4, <1>5 DEF CalmInv, Calm, InRing

\* Where the receiver or the loop would give up.
LEMMA NeverGivesUp ==
  ASSUME SystemTypeOK, FaultyInv, CalmInv, Calm
  PROVE  /\ ~GiveUp /\ ~Refused
         /\ svc = "errors" => errors = {}
         /\ dmaState # "halted"
         /\ svc = "count" => completed = Inc(received)
         /\ svc = "identity" => CanComplete(completedId)
         /\ svc = "reserve" /\ CanReserve => prepared[Lowest(SlotsIn("FREE"))]
         /\ svc = "arm" => dmaState = "idle"
<1> USE DEF SystemTypeOK, CoreTypeOK, ReceiverTypeOK
<1>1. /\ CoreInv /\ ConsumerInv /\ RingInv /\ CreditInv /\ LoopInv /\ DecodeInv /\ NoRejections
      /\ ErrorsExplained
  BY DEF FaultyInv, ReceiverInv, CoreInv
<1>2. ~StatusError
  BY <1>1 DEF StatusError, CombinedError, NoRejections, ErrorsExplained, Calm
<1>3. pc = "identify" => activeFrameId = consumerImageId /\ resultBuffer.id = consumerImageId
  <2>1. SUFFICES ASSUME pc = "identify"
                 PROVE  activeFrameId = consumerImageId /\ resultBuffer.id = consumerImageId
    OBVIOUS
  <2>2. ResultSent /\ resultBuffer = packet
    BY <1>1, <2>1 DEF LoopInv, ResultPath, Handling
  <2>3. consumerActive /\ activeValid
    BY <1>1, <2>2, ResultOfFrame
  <2>4. packet.id = activeFrameId
    BY <1>1, <2>2 DEF ResultSent, ConsumerInv, PacketInv
  <2>5. QED
    BY <1>1, <2>2, <2>3, <2>4 DEF ConsumerInv, IdentityInv
<1>4. ~GiveUp
  BY <1>2, <1>3 DEF GiveUp, CalmInv, Calm
<1>5. ~Refused
  <2>1. At("taking") => CanTake(consumerImageId)
    <3>1. At("taking") => InRing(consumerImageId) /\ ringCpu = NoSlot
      BY <1>1 DEF At, CalmInv, DecodeInv, SlotHeld, Holding
    <3>2. QED
      BY <3>1 DEF InRing, CanTake, ReadyFor, SlotsIn
  <2>2. At("decode") => CanRelease
    BY <1>1 DEF At, DecodeInv, SlotHeld, Holding, CanRelease, RingInv, RingTypeOK, RingOwnership
  <2>3. QED
    BY <2>1, <2>2 DEF Refused
<1>6. dmaState # "halted"
  BY <1>1 DEF CreditInv, DmaInv, Calm
<1>7. svc \in {"count", "identity"} => Arrived
  BY <1>1 DEF CreditInv, DmaInv, ServiceInv, Arrived, Arming
<1>8. svc = "count" => completed = Inc(received)
  BY <1>1, <1>7 DEF CreditInv, CountInv
<1>9. svc = "identity" => CanComplete(completedId)
  BY <1>1, <1>7 DEF CreditInv, CountInv, DmaInv, Arrived, CanComplete, RingInv, RingTypeOK, RingOwnership
<1>10. CanReserve => prepared[Lowest(SlotsIn("FREE"))]
  BY <1>1, ReservedSlot DEF CreditInv, PreparedInv
<1>11. svc = "arm" => dmaState = "idle"
  BY <1>1 DEF CreditInv, DmaInv
<1>12. QED
  BY <1>1, <1>4, <1>5, <1>6, <1>8, <1>9, <1>10, <1>11 DEF NoRejections

\* When the loop is about to take, the frame that is shown has its image.
LEMMA ShownImage ==
  ASSUME SystemTypeOK, FaultyInv, ImageInv, pc = "taking"
  PROVE  /\ InRing(consumerImageId) \/ (Arrived /\ ringId[ringDma] = consumerImageId)
         /\ Collected
<1> USE DEF SystemTypeOK, CoreTypeOK, FBTypeOK
<1>1. CoreInv /\ ConsumerInv /\ LoopInv
  BY DEF FaultyInv, CoreInv
<1>2. ResultSent /\ consumerActive
  BY <1>1, ResultOfFrame DEF LoopInv, ResultPath, Handling
<1>3. readBank \in Banks /\ state[readBank] = "CONSUMING" /\ id[readBank] = consumerImageId
  BY <1>1, <1>2, ShownFrame
<1>4. HasImage(readBank)
  BY <1>3 DEF HasImage, TakenAt
<1>5. Collected
  BY <1>2 DEF Collected, ResultSent
<1>6. QED
  BY <1>3, <1>4, <1>5 DEF ImageInv

LEMMA CalmBetween ==
  ASSUME SystemTypeOK, FaultyInv, ImageInv, DrainedInv, CalmInv, Between
  PROVE  CalmInv'
<1>1. UNCHANGED <<environment, consumerImageId>>
  BY BetweenCore DEF coreVars, fbVars, conVars
<1>2. SUFFICES ASSUME Calm PROVE CalmInv'
  BY <1>1 DEF CalmInv, Calm
<1>3. enabled /\ ~faults /\ pc # "failed"
  BY <1>2 DEF CalmInv
<1>4. /\ ~GiveUp /\ ~Refused
      /\ svc = "errors" => errors = {}
      /\ dmaState # "halted"
      /\ svc = "count" => completed = Inc(received)
      /\ svc = "identity" => CanComplete(completedId)
      /\ svc = "reserve" /\ CanReserve => prepared[Lowest(SlotsIn("FREE"))]
      /\ svc = "arm" => dmaState = "idle"
  BY <1>2, NeverGivesUp
<1>5. InRing(consumerImageId) /\ ~TakeSlot => InRing(consumerImageId)'
  BY <1>1, RingKeeps DEF InRing, FaultyInv, ReceiverInv, SystemTypeOK
<1>6. ~TakeSlot \/ pc' = "waitPending"
  BY DEF TakeSlot, Goto
<1>7. ASSUME UNCHANGED <<enabled, faults, pc>>,
             pc = "taking" /\ svc' \in {"off", "reserve", "arm", "credit"} =>
               svc \in {"off", "reserve", "arm", "credit"} \/ InRing(consumerImageId)'
      PROVE  CalmInv'
  BY <1>1, <1>2, <1>3, <1>5, <1>6, <1>7 DEF CalmInv
<1>8. CASE Drain \/ DmaFault
  BY <1>7, <1>8 DEF Drain, DmaFault, recVars
<1>9. CASE ServiceErrors
  <2>1. /\ UNCHANGED <<enabled, faults, pc>>
        /\ svc' = (IF ringDma = NoSlot THEN "reserve" ELSE "status")
    BY <1>4, <1>9 DEF ServiceErrors
  <2>2. pc = "taking" /\ ringDma = NoSlot => InRing(consumerImageId)
    BY ShownImage DEF Arrived
  <2>3. QED
    BY <1>5, <1>6, <1>7, <2>1, <2>2
<1>10. CASE ServiceStatus \/ ServiceCount
  BY <1>4, <1>7, <1>10 DEF ServiceStatus, ServiceCount
<1>11. CASE ServiceBusy
  <2>1. /\ UNCHANGED <<enabled, faults, pc>> /\ svc' = (IF dmaState = "idle" THEN "count" ELSE "off")
    BY <1>11 DEF ServiceBusy
  <2>2. pc = "taking" /\ dmaState # "idle" => InRing(consumerImageId)
    <3>1. SUFFICES ASSUME pc = "taking", dmaState # "idle",
                          Arrived /\ ringId[ringDma] = consumerImageId
                   PROVE  FALSE
      BY ShownImage
    <3>2. dmaState = "draining" /\ imageId = consumerImageId
      BY <3>1 DEF FaultyInv, ReceiverInv, CreditInv, DmaInv
    <3>3. Collected
      BY <3>1, ShownImage
    <3>4. QED
      BY <1>2, <3>2, <3>3 DEF DrainedInv, Calm
  <2>3. QED
    BY <1>5, <1>6, <1>7, <2>1, <2>2
<1>12. CASE ServiceIdentity
  <2>1. UNCHANGED <<enabled, faults, pc>> /\ Complete(completedId)
    BY <1>4, <1>12 DEF ServiceIdentity
  <2>2. ringId[ringDma] = consumerImageId => InRing(consumerImageId)'
    BY <1>1, <2>1 DEF Complete, CanComplete, InRing, SystemTypeOK, ReceiverTypeOK, RingTypeOK
  <2>3. pc = "taking" => InRing(consumerImageId) \/ ringId[ringDma] = consumerImageId
    BY ShownImage
  <2>4. QED
    BY <1>5, <1>6, <1>7, <2>1, <2>2, <2>3
<1>13. CASE ServiceReserve
  BY <1>4, <1>7, <1>13 DEF ServiceReserve, Reserve
<1>14. CASE ServiceArm
  BY <1>4, <1>7, <1>14 DEF ServiceArm
<1>15. CASE Turn
  <2>1. /\ UNCHANGED <<enabled, faults>> /\ pc' # "failed"
        /\ pc' = "taking" => svc' = "errors"
    BY <1>3, <1>15 DEF Turn, Goto, CallService, recVars
  <2>2. QED
    BY <1>3, <2>1 DEF CalmInv
<1>16. CASE TakeSlot \/ FreeSlot \/ Matched \/ EnableCapture \/ ArmResult
  <2>1. UNCHANGED <<enabled, faults>> /\ pc' \notin {"failed", "taking"}
    BY <1>16 DEF TakeSlot, FreeSlot, Matched, EnableCapture, ArmResult, Goto, recVars
  <2>2. QED
    BY <1>3, <2>1 DEF CalmInv
<1>17. QED
  BY <1>4, <1>8, <1>9, <1>10, <1>11, <1>12, <1>13, <1>14, <1>15, <1>16 DEF Between

QuietInv == ImageInv /\ DrainedInv /\ CalmInv

LEMMA QuietInit == Init => QuietInv
<1> SUFFICES ASSUME Init PROVE QuietInv
  OBVIOUS
<1>1. /\ \A b \in Banks : state[b] = "FREE"
      /\ dmaState = "idle" /\ pc = "init" /\ enabled /\ ~faults
  BY DEF Init, FBInit, RingInit
<1>2. ImageInv
  BY <1>1 DEF ImageInv, HasImage
<1>3. QED
  BY <1>1, <1>2 DEF QuietInv, DrainedInv, CalmInv

LEMMA QuietNext == SystemTypeOK /\ FaultyInv /\ QuietInv /\ [Next]_vars => QuietInv'
<1> SUFFICES ASSUME SystemTypeOK, FaultyInv, QuietInv, [Next]_vars PROVE QuietInv'
  OBVIOUS
<1>1. ImageInv /\ DrainedInv /\ CalmInv
  BY DEF QuietInv
<1>2. ASSUME NEW cmd, NEW ev, NEW errs, NEW rin, NEW take \in BOOLEAN, NEW in \in Signals,
             EdgeOf(cmd, ev, errs, take, in, rin), WithCommand(cmd)
      PROVE  QuietInv'
  BY <1>1, <1>2, ImageEdge, DrainedEdge, CalmEdge DEF QuietInv
<1>3. CASE Between
  BY <1>1, <1>3, ImageBetween, DrainedBetween, CalmBetween DEF QuietInv
<1>4. CASE UNCHANGED vars
  <2>1. ImageInv'
    BY <1>1, <1>4 DEF ImageInv, HasImage, InRing, Arrived, CreditDue, AwaitingImage, Arming, vars,
                      fbVars, capVars, bankVars, envVars, recVars, ringVars
  <2>2. DrainedInv' /\ CalmInv'
    BY <1>1, <1>4 DEF DrainedInv, Collected, CalmInv, Calm, InRing, vars, fbVars, conVars, rcVars,
                      complVars, pktVars, envVars, dmaVars, recVars, ringVars
  <2>3. QED
    BY <2>1, <2>2 DEF QuietInv
<1>5. CoreTypeOK /\ pc \in LoopAt
  BY DEF SystemTypeOK, ReceiverTypeOK
<1>6. QED
  BY <1>2, <1>3, <1>4, <1>5, Steps

\* With whole frames and working DMA no block ever sees a handshake it rejects, the
\* receiver never disables itself and the loop never ends, however the clocks, the
\* engines and the processor interleave.
THEOREM NoFaultHolds == Spec => []NoFault
<1>1. FaultyInv /\ QuietInv => NoFault
  BY DEF FaultyInv, NoRejections, ErrorsExplained, QuietInv, CalmInv, Calm, NoFault
<1>2. QED
  BY <1>1, QuietInit, QuietNext, FaultyInvariant, PTL DEF Spec
=============================================================================
