----------------------------- MODULE FrameQueue -----------------------------
(***************************************************************************)
(* What the frame buffer controller promises to the rest of the system: a  *)
(* bounded FIFO of camera frames.  Frames enter at the tail, numbered      *)
(* consecutively, one capture at a time; a frame is shown to the consumer  *)
(* when it is complete, at the head and asked for; it leaves from the      *)
(* head.  A clock edge may do several of these things at once, to          *)
(* different frames.                                                       *)
(***************************************************************************)
EXTENDS Word32, Sequences

CONSTANTS FirstId,    \* number of the first frame
          Depth,      \* banks of the memory
          Tags,       \* what is recorded with a frame: its (mode, margin)
          NoTag

VARIABLES queue,      \* the frames in the memory, oldest first
          nextId,     \* number of the next frame to enter
          shown       \* the frame the consumer was last given

queueVars == <<queue, nextId, shown>>

Frame(i, t, st) == [id |-> i, tag |-> t, stage |-> st]

QueueInit ==
  /\ queue = <<>>
  /\ nextId = FirstId
  /\ shown = [id |-> FirstId, tag |-> NoTag]

\* A complete frame is the captured one; a shown frame is the oldest.
Advanced(f) ==
  [f EXCEPT !.stage = IF f.stage = "CAPTURING" THEN "READY" ELSE "CONSUMING"]

MayAdvance(i) ==
  \/ queue[i].stage = "CAPTURING"
  \/ queue[i].stage = "READY" /\ i = 1

MayLeave == queue # <<>> /\ queue[1].stage = "CONSUMING"
MayEnter == Len(queue) < Depth /\ \A i \in DOMAIN queue : queue[i].stage # "CAPTURING"

Advance(adv) ==
  [i \in DOMAIN queue |-> IF i \in adv THEN Advanced(queue[i]) ELSE queue[i]]

Step(adv, leave, entering) ==
  /\ \A i \in adv : MayAdvance(i)
  /\ leave => MayLeave
  /\ entering # {} => MayEnter
  /\ \E rest \in {IF leave THEN Tail(Advance(adv)) ELSE Advance(adv)} :
       \/ entering = {} /\ queue' = rest /\ nextId' = nextId
       \/ \E t \in entering : /\ queue' = Append(rest, Frame(nextId, t, "CAPTURING"))
                              /\ nextId' = Inc(nextId)
  /\ shown' = IF 1 \in adv /\ queue[1].stage = "READY"
              THEN [id |-> queue[1].id, tag |-> queue[1].tag] ELSE shown

QueueNext ==
  \E adv \in SUBSET (DOMAIN queue), leave \in BOOLEAN,
     entering \in {{}} \cup {{t} : t \in Tags} : Step(adv, leave, entering)

QueueSpec == QueueInit /\ [][QueueNext]_queueVars
-----------------------------------------------------------------------------
\* The frames in the memory are the last ones numbered, without a gap; only the
\* youngest may be incomplete, only the oldest may be the consumer's, and then it
\* is the one the consumer was shown.
FifoOrder ==
  \A i \in DOMAIN queue :
    /\ Inc(queue[i].id) = IF i = Len(queue) THEN nextId ELSE queue[i + 1].id
    /\ queue[i].stage = "CAPTURING" => i = Len(queue)
    /\ queue[i].stage = "CONSUMING" =>
         i = 1 /\ shown = [id |-> queue[1].id, tag |-> queue[1].tag]
=============================================================================
