------------------------------ MODULE GrayRing ------------------------------
(***************************************************************************)
(* qr_gray_ring.h: ownership of the two Gray8 image buffers in DDR.  A     *)
(* buffer is FREE, being filled by the image DMA, READY to be decoded, or  *)
(* held by the CPU.  Every function returns -1 and changes nothing when    *)
(* its preconditions fail; here the precondition is the operator Can...    *)
(* and the action is disabled.                                             *)
(***************************************************************************)
EXTENDS Word32

VARIABLES ringState,   \* state[2]
          ringId,      \* id[2]
          ringDma,     \* the slot the DMA owns, or NoSlot
          ringCpu      \* the slot the CPU owns, or NoSlot

ringVars == <<ringState, ringId, ringDma, ringCpu>>

Slots == {0, 1}
NoSlot == -1

RingInit ==
  /\ ringState = [s \in Slots |-> "FREE"]
  /\ ringId = [s \in Slots |-> 0]
  /\ ringDma = NoSlot
  /\ ringCpu = NoSlot

SlotsIn(st) == {s \in Slots : ringState[s] = st}
Lowest(S) == CHOOSE s \in S : \A t \in S : s <= t

CanReserve == ringDma = NoSlot /\ SlotsIn("FREE") # {}

\* The slot is the lowest free one; it remembers the id the next frame will have.
Reserve(fid) ==
  /\ CanReserve
  /\ ringDma' = Lowest(SlotsIn("FREE"))
  /\ ringState' = [ringState EXCEPT ![ringDma'] = "DMA"]
  /\ ringId' = [ringId EXCEPT ![ringDma'] = fid]
  /\ UNCHANGED ringCpu

CanComplete(fid) ==
  /\ ringDma # NoSlot
  /\ ringState[ringDma] = "DMA"
  /\ ringId[ringDma] = fid

Complete(fid) ==
  /\ CanComplete(fid)
  /\ ringState' = [ringState EXCEPT ![ringDma] = "READY"]
  /\ ringDma' = NoSlot
  /\ UNCHANGED <<ringId, ringCpu>>

\* Mutants of ReadyFor: any slot of that id; any ready slot.
OwnedFor(fid) == {s \in Slots : ringId[s] = fid}
AnyReady(fid) == SlotsIn("READY")
ReadyFor(fid) == {s \in SlotsIn("READY") : ringId[s] = fid}

CanTake(fid) == ringCpu = NoSlot /\ ReadyFor(fid) # {}

Take(fid) ==
  /\ CanTake(fid)
  /\ ringCpu' = Lowest(ReadyFor(fid))
  /\ ringState' = [ringState EXCEPT ![ringCpu'] = "CPU"]
  /\ UNCHANGED <<ringId, ringDma>>

CanRelease == ringCpu # NoSlot /\ ringState[ringCpu] = "CPU"

Release ==
  /\ CanRelease
  /\ ringState' = [ringState EXCEPT ![ringCpu] = "FREE"]
  /\ ringCpu' = NoSlot
  /\ UNCHANGED <<ringId, ringDma>>

\* Any caller: the functions in any order, with any id.
RingNext ==
  \/ \E i \in Ids : Reserve(i) \/ Complete(i) \/ Take(i)
  \/ Release

RingSpec == RingInit /\ [][RingNext]_ringVars
-----------------------------------------------------------------------------
RingTypeOK ==
  /\ ringState \in [Slots -> {"FREE", "DMA", "READY", "CPU"}]
  /\ ringId \in [Slots -> Ids]
  /\ ringDma \in Slots \cup {NoSlot}
  /\ ringCpu \in Slots \cup {NoSlot}

\* The indices and the slot states name the same owners: a slot is being filled
\* exactly when it is the DMA's slot and is being read exactly when it is the
\* CPU's, so the DMA and the CPU never share one, whatever order the functions
\* are called in.
RingOwnership ==
  /\ \A s \in Slots : (ringState[s] = "DMA") <=> (ringDma = s)
  /\ \A s \in Slots : (ringState[s] = "CPU") <=> (ringCpu = s)

\* A call moves one slot at most, one step along its life, and the id a slot was
\* reserved under stays with it until the CPU gives the slot back: an image can
\* be neither skipped, decoded twice nor renamed.
RingLife == {<<"FREE", "DMA">>, <<"DMA", "READY">>, <<"READY", "CPU">>, <<"CPU", "FREE">>}
SlotLife ==
  [][/\ \A s \in Slots : ringState'[s] # ringState[s] =>
          /\ <<ringState[s], ringState'[s]>> \in RingLife
          /\ \A t \in Slots \ {s} : ringState'[t] = ringState[t]
     /\ \A s \in Slots : ringState[s] # "FREE" => ringId'[s] = ringId[s]]_ringVars
=============================================================================
