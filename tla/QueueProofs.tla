---------------------------- MODULE QueueProofs ----------------------------
(***************************************************************************)
(* The two queues of the system are FIFOs: that of frames, as the frame    *)
(* buffer controller implements it, for any number of banks, any width of  *)
(* the ids and any descriptors; and that of messages for the UART          *)
(* (runtime_log.c), for a ring, messages and a FIFO of any size.  They     *)
(* share no state.                                                         *)
(*                                                                         *)
(* LogInv of the messages says that the byte written last and those in the *)
(* ring follow one another (ChainInv); where the chain ends, a message     *)
(* ends and the next number is due, or, while a message is sent directly,  *)
(* the ring is empty and the byte written is the one before (ModeInv).     *)
(***************************************************************************)
EXTENDS FrameQueue, LogQueue, TLAPS

\* Frames with any id and descriptor.
Frames == [id : Ids, tag : Tags, stage : {"CAPTURING", "READY", "CONSUMING"}]

\* Types of the queue of frames.
QueueTypeOK ==
  /\ queue \in Seq(Frames) /\ nextId \in Ids
  /\ shown \in [id : Ids, tag : Tags]

\* The inductive invariant of the queue of frames.
QueueInv == QueueTypeOK /\ FifoOrder

\* The id after an id is an id.
LEMMA IncInIds == ASSUME IdMax \in Nat, NEW x \in Ids PROVE Inc(x) \in Ids
BY DEF Ids, Inc

\* Advancing frames changes their stages only, and never twice at one edge.
LEMMA AdvanceKeeps ==
  ASSUME QueueInv, NEW adv \in SUBSET (DOMAIN queue), \A n \in adv : MayAdvance(n)
  PROVE  /\ Advance(adv) \in Seq(Frames) /\ Len(Advance(adv)) = Len(queue)
         /\ \A n \in DOMAIN queue :
              /\ Advance(adv)[n].id = queue[n].id /\ Advance(adv)[n].tag = queue[n].tag
              /\ Advance(adv)[n].stage =
                   IF n \notin adv THEN queue[n].stage
                   ELSE IF queue[n].stage = "CAPTURING" THEN "READY" ELSE "CONSUMING"
<1>1. DOMAIN queue = 1..Len(queue) /\ \A n \in DOMAIN queue : queue[n] \in Frames
  BY DEF QueueInv, QueueTypeOK
<1>2. \A n \in DOMAIN queue :
        /\ Advanced(queue[n]) \in Frames
        /\ Advanced(queue[n]).id = queue[n].id /\ Advanced(queue[n]).tag = queue[n].tag
        /\ Advanced(queue[n]).stage =
             IF queue[n].stage = "CAPTURING" THEN "READY" ELSE "CONSUMING"
  BY <1>1 DEF Advanced, Frames
<1>3. \A n \in DOMAIN queue :
        Advance(adv)[n] = IF n \in adv THEN Advanced(queue[n]) ELSE queue[n]
  BY DEF Advance
<1>4. Advance(adv) \in [1..Len(queue) -> Frames]
  BY <1>1, <1>2 DEF Advance
<1>5. Advance(adv) \in Seq(Frames) /\ Len(Advance(adv)) = Len(queue)
  BY <1>4 DEF QueueInv, QueueTypeOK
<1>6. QED
  BY <1>2, <1>3, <1>5

\* FifoOrder of any sequence of frames, with the number that comes next and the
\* frame shown.
Ordered(q, next, frame) ==
  \A n \in DOMAIN q :
    /\ Inc(q[n].id) = IF n = Len(q) THEN next ELSE q[n + 1].id
    /\ q[n].stage = "CAPTURING" => n = Len(q)
    /\ q[n].stage = "CONSUMING" => n = 1 /\ frame = [id |-> q[1].id, tag |-> q[1].tag]

\* One step of the queue of frames.
LEMMA QueueStep ==
  ASSUME IdMax \in Nat, QueueInv, NEW adv \in SUBSET (DOMAIN queue), NEW leave \in BOOLEAN,
         NEW entering \in {{}} \cup {{t} : t \in Tags}, Step(adv, leave, entering)
  PROVE  QueueInv'
<1> DEFINE a == Advance(adv)
           rest == IF leave THEN Tail(a) ELSE a
<1>1. \A n \in adv : MayAdvance(n)
  BY DEF Step
<1>2. /\ a \in Seq(Frames) /\ Len(a) = Len(queue) /\ Len(queue) \in Nat
      /\ DOMAIN queue = 1..Len(queue)
      /\ \A n \in DOMAIN queue :
           /\ a[n].id = queue[n].id /\ a[n].tag = queue[n].tag
           /\ a[n].stage = IF n \notin adv THEN queue[n].stage
                          ELSE IF queue[n].stage = "CAPTURING" THEN "READY" ELSE "CONSUMING"
  BY <1>1, AdvanceKeeps DEF QueueInv, QueueTypeOK
<1>3. \A n \in DOMAIN queue : queue[n] \in Frames
  BY DEF QueueInv, QueueTypeOK
<1>4. shown' = IF 1 \in adv /\ queue[1].stage = "READY"
               THEN [id |-> queue[1].id, tag |-> queue[1].tag] ELSE shown
  BY DEF Step
<1>5. shown' \in [id : Ids, tag : Tags]
  BY <1>2, <1>3, <1>4 DEF QueueInv, QueueTypeOK, Frames
<1> HIDE DEF a
<1>6. Ordered(a, nextId, shown')
  <2>1. SUFFICES ASSUME NEW n \in 1..Len(queue)
                 PROVE  /\ Inc(a[n].id) = IF n = Len(queue) THEN nextId ELSE a[n + 1].id
                        /\ a[n].stage = "CAPTURING" => n = Len(queue)
                        /\ a[n].stage = "CONSUMING" =>
                             n = 1 /\ shown' = [id |-> a[1].id, tag |-> a[1].tag]
    BY <1>2 DEF Ordered
  <2>2. /\ Inc(queue[n].id) = IF n = Len(queue) THEN nextId ELSE queue[n + 1].id
        /\ queue[n].stage = "CAPTURING" => n = Len(queue)
        /\ queue[n].stage = "CONSUMING" =>
             n = 1 /\ shown = [id |-> queue[1].id, tag |-> queue[1].tag]
    BY <1>2 DEF QueueInv, FifoOrder
  <2>3. Inc(a[n].id) = IF n = Len(queue) THEN nextId ELSE a[n + 1].id
    BY <1>2, <2>2
  <2>4. a[n].stage = "CAPTURING" => n = Len(queue)
    BY <1>2, <2>2
  <2>5. ASSUME a[n].stage = "CONSUMING"
        PROVE  n = 1 /\ shown' = [id |-> a[1].id, tag |-> a[1].tag]
    <3>1. CASE n \in adv
      <4>1. queue[n].stage = "READY" /\ n = 1
        BY <1>1, <1>2, <2>5, <3>1 DEF MayAdvance
      <4>2. QED
        BY <1>2, <1>4, <3>1, <4>1
    <3>2. CASE n \notin adv
      BY <1>2, <1>4, <2>2, <2>5, <3>2
    <3>3. QED
      BY <3>1, <3>2
  <2>6. QED
    BY <2>3, <2>4, <2>5
<1>7. rest \in Seq(Frames) /\ Ordered(rest, nextId, shown')
      /\ \A n \in DOMAIN rest : rest[n].stage = "CAPTURING" =>
           \E j \in DOMAIN queue : queue[j].stage = "CAPTURING"
  <2>1. \A n \in DOMAIN queue : a[n].stage = "CAPTURING" => queue[n].stage = "CAPTURING"
    BY <1>2
  <2>2. CASE ~leave
    BY <1>2, <1>6, <2>1, <2>2
  <2>3. CASE leave
    <3>1. queue # <<>> /\ queue[1].stage = "CONSUMING"
      BY <2>3 DEF Step, MayLeave
    <3>2. Len(queue) >= 1
      BY <1>2, <3>1 DEF QueueInv, QueueTypeOK
    <3>3. /\ Tail(a) \in Seq(Frames) /\ Len(Tail(a)) = Len(queue) - 1
          /\ \A n \in 1..(Len(queue) - 1) : Tail(a)[n] = a[n + 1]
      BY <1>2, <3>2
    <3>4. \A n \in 1..(Len(queue) - 1) : a[n + 1].stage # "CONSUMING"
      BY <1>2, <1>6 DEF Ordered
    <3>5. Ordered(Tail(a), nextId, shown')
      BY <1>2, <1>6, <3>2, <3>3, <3>4 DEF Ordered
    <3>6. QED
      BY <1>2, <2>1, <2>3, <3>3, <3>5
  <2>4. QED
    BY <2>2, <2>3
<1>8. CASE queue' = rest /\ nextId' = nextId
  BY <1>5, <1>7, <1>8 DEF QueueInv, QueueTypeOK, FifoOrder, Ordered
<1> HIDE DEF rest
<1>9. ASSUME NEW t \in entering, queue' = Append(rest, Frame(nextId, t, "CAPTURING")),
             nextId' = Inc(nextId)
      PROVE  QueueInv'
  <2>1. t \in Tags /\ Frame(nextId, t, "CAPTURING") \in Frames
    BY <1>9 DEF Frame, Frames, QueueInv, QueueTypeOK
  <2> DEFINE f == Frame(nextId, t, "CAPTURING")
  <2>2. f.id = nextId /\ f.stage = "CAPTURING" /\ f \in Frames
    BY <2>1 DEF Frame
  <2> HIDE DEF f
  <2>3. /\ queue' \in Seq(Frames) /\ Len(queue') = Len(rest) + 1 /\ Len(rest) \in Nat
        /\ \A n \in 1..Len(rest) : queue'[n] = rest[n]
        /\ queue'[Len(rest) + 1] = f
    BY <1>7, <1>9, <2>2 DEF f
  <2>4. nextId' \in Ids
    BY <1>9, IncInIds DEF QueueInv, QueueTypeOK
  <2>5. \A n \in 1..Len(rest) : rest[n].stage # "CAPTURING"
    BY <1>7, <1>9 DEF Step, MayEnter
  <2>6. \A n \in 1..Len(rest) :
          /\ Inc(rest[n].id) = IF n = Len(rest) THEN nextId ELSE rest[n + 1].id
          /\ rest[n].stage = "CONSUMING" =>
               n = 1 /\ shown' = [id |-> rest[1].id, tag |-> rest[1].tag]
    BY <1>7 DEF Ordered
  <2>7. \A n \in 1..(Len(rest) + 1) :
          /\ Inc(queue'[n].id) = IF n = Len(rest) + 1 THEN nextId' ELSE queue'[n + 1].id
          /\ queue'[n].stage = "CAPTURING" => n = Len(rest) + 1
          /\ queue'[n].stage = "CONSUMING" =>
               n = 1 /\ shown' = [id |-> queue'[1].id, tag |-> queue'[1].tag]
    BY <1>9, <2>2, <2>3, <2>5, <2>6
  <2>8. QED
    BY <1>5, <2>3, <2>4, <2>7 DEF QueueInv, QueueTypeOK, FifoOrder
<1>10. QED
  BY <1>8, <1>9 DEF Step, rest, a

\* In the memory the frames are in the order of their numbers, without a gap; only
\* the youngest is being captured and only the oldest is the consumer's.
THEOREM FifoOrderHolds ==
  ASSUME IdMax \in Nat, FirstId \in Ids, NoTag \in Tags
  PROVE  QueueSpec => []FifoOrder
<1>1. QueueInit => QueueInv
  BY DEF QueueInit, QueueInv, QueueTypeOK, FifoOrder
<1>2. QueueInv /\ [QueueNext]_queueVars => QueueInv'
  <2>1. CASE UNCHANGED queueVars
    BY <2>1 DEF queueVars, QueueInv, QueueTypeOK, FifoOrder
  <2>2. QED
    BY <2>1, QueueStep DEF QueueNext
<1>3. QueueInv => FifoOrder
  BY DEF QueueInv
<1>4. QED
  BY <1>1, <1>2, <1>3, PTL DEF QueueSpec

-----------------------------------------------------------------------------
\* A remainder of what is at most once around.
LEMMA Remainder ==
  ASSUME NEW C \in Nat \ {0}, NEW a \in Int
  PROVE  /\ a \in 0..(C - 1) => a % C = a
         /\ a \in C..(2 * C - 1) => a % C = a - C
         /\ a \in (-C)..(-1) => a % C = a + C
  OBVIOUS

\* A position further on in the ring.
LEMMA AfterIs ==
  ASSUME LogAssumption, NEW p \in Positions, NEW n \in 0..Capacity
  PROVE  /\ After(p, n) = IF p + n < Capacity THEN p + n ELSE p + n - Capacity
         /\ After(p, n) \in Positions
<1>1. p \in 0..(Capacity - 1) /\ n \in 0..Capacity /\ Capacity \in Nat \ {0}
  BY DEF LogAssumption, Positions
<1>2. /\ p + n \in 0..(Capacity - 1) => (p + n) % Capacity = p + n
      /\ p + n \in Capacity..(2 * Capacity - 1) => (p + n) % Capacity = (p + n) - Capacity
  <2>1. p + n \in Int /\ Capacity \in Nat \ {0}
    BY <1>1
  <2>2. QED
    BY <2>1, Remainder, Zenon
<1> DEFINE m == (p + n) % Capacity
<1>3. /\ p + n \in 0..(Capacity - 1) => m = p + n
      /\ p + n \in Capacity..(2 * Capacity - 1) => m = (p + n) - Capacity
  BY <1>2, Zenon
<1> HIDE DEF m
<1>4. /\ m = IF p + n < Capacity THEN p + n ELSE p + n - Capacity
      /\ m \in 0..(Capacity - 1)
  BY <1>1, <1>3
<1>5. QED
  BY <1>4 DEF After, Positions, m

\* How far position p is behind position h.
LEMMA OffsetIs ==
  ASSUME LogAssumption, NEW p \in Positions, NEW h \in Positions
  PROVE  /\ (p - h) % Capacity = IF h <= p THEN p - h ELSE p - h + Capacity
         /\ (p - h) % Capacity \in 0..(Capacity - 1)
<1>1. p \in 0..(Capacity - 1) /\ h \in 0..(Capacity - 1) /\ Capacity \in Nat \ {0}
  BY DEF LogAssumption, Positions
<1>2. /\ p - h \in 0..(Capacity - 1) => (p - h) % Capacity = p - h
      /\ p - h \in (-Capacity)..(-1) => (p - h) % Capacity = p - h + Capacity
  <2>1. p - h \in Int
    BY <1>1
  <2>2. QED
    BY <1>1, <2>1, Remainder, Zenon
<1> DEFINE m == (p - h) % Capacity
<1>3. /\ p - h \in 0..(Capacity - 1) => m = p - h
      /\ p - h \in (-Capacity)..(-1) => m = p - h + Capacity
  BY <1>2
<1> HIDE DEF m
<1>4. m = (IF h <= p THEN p - h ELSE p - h + Capacity) /\ m \in 0..(Capacity - 1)
  BY <1>1, <1>3
<1>5. QED
  BY <1>4 DEF m

\* The numbers before and after a number.
LEMMA NumberIs ==
  ASSUME LogAssumption, NEW n \in 0..(Numbers - 1)
  PROVE  /\ (n + 1) % Numbers = IF n = Numbers - 1 THEN 0 ELSE n + 1
         /\ (n - 1) % Numbers = IF n = 0 THEN Numbers - 1 ELSE n - 1
<1>1. Numbers \in Nat \ {0} /\ Numbers > 1 /\ n \in 0..(Numbers - 1)
  BY DEF LogAssumption
<1>2. /\ n + 1 \in 0..(Numbers - 1) => (n + 1) % Numbers = n + 1
      /\ n + 1 \in Numbers..(2 * Numbers - 1) => (n + 1) % Numbers = (n + 1) - Numbers
      /\ n - 1 \in 0..(Numbers - 1) => (n - 1) % Numbers = n - 1
      /\ n - 1 \in (-Numbers)..(-1) => (n - 1) % Numbers = n - 1 + Numbers
  <2>1. n + 1 \in Int /\ n - 1 \in Int /\ Numbers \in Nat \ {0}
    BY <1>1
  <2>2. /\ n + 1 \in 0..(Numbers - 1) => (n + 1) % Numbers = n + 1
        /\ n + 1 \in Numbers..(2 * Numbers - 1) => (n + 1) % Numbers = (n + 1) - Numbers
    BY <2>1, Remainder, Zenon
  <2>3. /\ n - 1 \in 0..(Numbers - 1) => (n - 1) % Numbers = n - 1
        /\ n - 1 \in (-Numbers)..(-1) => (n - 1) % Numbers = n - 1 + Numbers
    BY <2>1, Remainder, Zenon
  <2>4. QED
    BY <2>2, <2>3
<1> DEFINE u == (n + 1) % Numbers
           d == (n - 1) % Numbers
<1>3. /\ n + 1 \in 0..(Numbers - 1) => u = n + 1
      /\ n + 1 \in Numbers..(2 * Numbers - 1) => u = n + 1 - Numbers
      /\ n - 1 \in 0..(Numbers - 1) => d = n - 1
      /\ n - 1 \in (-Numbers)..(-1) => d = n - 1 + Numbers
  BY <1>2
<1> HIDE DEF u, d
<1>4. u = (IF n = Numbers - 1 THEN 0 ELSE n + 1) /\ d = IF n = 0 THEN Numbers - 1 ELSE n - 1
  BY <1>1, <1>3
<1>5. QED
  BY <1>4 DEF u, d
\* One further and one back.
LEMMA NumbersMeet ==
  ASSUME LogAssumption, NEW n \in 0..(Numbers - 1)
  PROVE  /\ (((n - 1) % Numbers) + 1) % Numbers = n
         /\ (((n + 1) % Numbers) - 1) % Numbers = n
<1>1. Numbers \in Nat \ {0} /\ Numbers > 1
  BY DEF LogAssumption
<1> DEFINE u == (n + 1) % Numbers
           d == (n - 1) % Numbers
<1>2. u = (IF n = Numbers - 1 THEN 0 ELSE n + 1) /\ d = IF n = 0 THEN Numbers - 1 ELSE n - 1
  BY NumberIs, Zenon
<1> HIDE DEF u, d
<1>3. u \in 0..(Numbers - 1) /\ d \in 0..(Numbers - 1)
  BY <1>1, <1>2
<1>4. /\ (d + 1) % Numbers = IF d = Numbers - 1 THEN 0 ELSE d + 1
      /\ (u - 1) % Numbers = IF u = 0 THEN Numbers - 1 ELSE u - 1
  BY <1>3, NumberIs
<1>5. (d + 1) % Numbers = n /\ (u - 1) % Numbers = n
  BY <1>1, <1>2, <1>4
<1>6. QED
  BY <1>5 DEF u, d

\* The last byte on its way: the end of the ring, or the last one written.
Queued(k) == bytes[After(tail, k)]
LastByte == IF used = 0 THEN written ELSE Queued(used - 1)

\* A message has ended with byte b and the next one has number n.
Ended(b, n) == b.at = b.of /\ n = (b.msg + 1) % Numbers

\* Types, and how the indices of the ring go together.
LogTypes ==
  /\ DOMAIN bytes = Positions /\ head \in Positions /\ tail \in Positions
  /\ used \in 0..Capacity /\ head = After(tail, used)
  /\ asyncMode \in BOOLEAN /\ budget \in Nat
  /\ length \in 0..MaxLength /\ i \in 0..length /\ tx \in Nat
  /\ number \in 0..(Numbers - 1) /\ written \in Byte
  /\ \A k \in 0..(used - 1) : Queued(k) \in Byte
  /\ pc \in {"idle", "put", "service", "finish", "direct"} /\ ret \in {"idle", "put", "finish"}

\* The bytes written and queued follow one another.
ChainInv ==
  /\ used > 0 => Follows(written, Queued(0))
  /\ \A k \in 1..(used - 1) : Follows(Queued(k - 1), Queued(k))

\* Only in the asynchronous mode is anything queued; a message is sent directly in parts.
ModeInv ==
  /\ ~asyncMode => used = 0
  /\ pc = "put" => asyncMode
  /\ pc = "service" /\ ret = "put" => asyncMode
  /\ pc = "direct" => ~asyncMode
  /\ pc # "direct" => i = 0
  /\ IF pc # "direct" \/ length = 0 THEN Ended(LastByte, number)
     ELSE IF i = 0 THEN Ended(written, (number - 1) % Numbers)
     ELSE written = [msg |-> (number - 1) % Numbers, at |-> i, of |-> length]

\* The inductive invariant of the log.
LogInv == LogTypes /\ ChainInv /\ ModeInv

\* What is one further than k further on.
LEMMA AfterTwo ==
  ASSUME LogAssumption, NEW p \in Positions, NEW j \in 0..Capacity, NEW k \in 0..Capacity,
         j + k <= Capacity
  PROVE  After(After(p, j), k) = After(p, j + k)
<1>1. Capacity \in Nat \ {0} /\ Positions = 0..(Capacity - 1)
  BY DEF LogAssumption, Positions
<1>2. /\ After(p, j) = IF p + j < Capacity THEN p + j ELSE p + j - Capacity
      /\ After(p, j) \in Positions
  BY AfterIs
<1>3. After(After(p, j), k) =
        IF After(p, j) + k < Capacity THEN After(p, j) + k ELSE After(p, j) + k - Capacity
  BY <1>2, AfterIs
<1>4. j + k \in 0..Capacity
  BY <1>1
<1>5. After(p, j + k) = IF p + (j + k) < Capacity THEN p + (j + k) ELSE p + (j + k) - Capacity
  BY <1>4, AfterIs
<1>6. QED
  BY <1>1, <1>2, <1>3, <1>5

\* The parts of the invariant that a step with the bytes left alone keeps.
LEMMA BytesLeft ==
  ASSUME UNCHANGED <<bytes, tail, used, written>>
  PROVE  /\ \A k : Queued(k)' = Queued(k)
         /\ LastByte' = LastByte
         /\ ChainInv => ChainInv'
<1>1. \A k : Queued(k)' = Queued(k)
  BY DEF Queued
<1>2. LastByte' = LastByte
  BY <1>1 DEF LastByte
<1>3. ASSUME ChainInv PROVE ChainInv'
  BY <1>1, <1>3 DEF ChainInv, Follows
<1>4. QED
  BY <1>1, <1>2, <1>3

\* A byte goes from the ring to the UART: the next of the chain.
LEMMA ServiceSends ==
  ASSUME LogAssumption, LogInv, pc = "service", MayWrite,
         TxWrite(bytes[tail]), tail' = After(tail, 1), used' = used - 1, budget' = budget - 1,
         UNCHANGED <<pc, bytes, head, asyncMode, ret, length, i, number>>
  PROVE  LogInv' /\ Follows(written, written')
<1>1. /\ used \in 1..Capacity /\ tail \in Positions /\ budget # 0 /\ asyncMode
      /\ Capacity \in Nat \ {0} /\ budget \in Nat /\ tx \in Nat
  BY DEF LogInv, LogTypes, ModeInv, MayWrite, LogAssumption
<1>2. After(tail, 0) = tail /\ tail' \in Positions
  BY <1>1, AfterIs DEF Positions
<1>3. written' = Queued(0) /\ tx' = tx + 1
  BY <1>2 DEF TxWrite, Queued
<1>4. \A k \in 0..(used - 1) : After(tail', k) = After(tail, k + 1)
  <2>1. TAKE k \in 0..(used - 1)
  <2>2. 1 \in 0..Capacity /\ k \in 0..Capacity /\ 1 + k <= Capacity /\ 1 + k = k + 1
    BY <1>1
  <2>3. After(After(tail, 1), k) = After(tail, 1 + k)
    BY <1>1, <2>2, AfterTwo
  <2>4. QED
    BY <2>2, <2>3
<1>5. \A k \in 0..(used - 2) : Queued(k)' = Queued(k + 1)
  <2>1. \A k \in 0..(used - 2) : bytes'[After(tail', k)] = bytes[After(tail, k + 1)]
    BY <1>1, <1>4
  <2>2. QED
    BY <2>1 DEF Queued
<1>6. /\ written' \in Byte /\ Follows(written, written')
      /\ used' \in 0..Capacity /\ \A k \in 0..(used' - 1) : Queued(k)' \in Byte
  BY <1>1, <1>3, <1>5 DEF LogInv, LogTypes, ChainInv
<1>7. head' = After(tail', used')
  <2>1. used - 1 \in 0..(used - 1) /\ (used - 1) + 1 = used
    BY <1>1
  <2>2. After(tail', used - 1) = After(tail, used)
    BY <1>4, <2>1
  <2>3. QED
    BY <2>2 DEF LogInv, LogTypes
<1>8. LogTypes'
  BY <1>1, <1>2, <1>3, <1>6, <1>7 DEF LogInv, LogTypes
<1>9. ChainInv'
  <2>1. ASSUME used' > 0 PROVE Follows(written', Queued(0)')
    <3>1. 1 \in 1..(used - 1) /\ 0 \in 0..(used - 2)
      BY <1>1, <2>1
    <3>2. Follows(Queued(1 - 1), Queued(1)) /\ Queued(0)' = Queued(0 + 1)
      BY <1>5, <3>1 DEF LogInv, ChainInv
    <3>3. QED
      BY <1>3, <3>2
  <2>2. ASSUME NEW k \in 1..(used' - 1) PROVE Follows(Queued(k - 1)', Queued(k)')
    <3>1. k + 1 \in 1..(used - 1) /\ k \in 0..(used - 2) /\ k - 1 \in 0..(used - 2)
          /\ (k + 1) - 1 = k /\ (k - 1) + 1 = k
      BY <1>1, <2>2
    <3>2. Follows(Queued((k + 1) - 1), Queued(k + 1))
      BY <3>1 DEF LogInv, ChainInv
    <3>3. Queued(k - 1)' = Queued((k - 1) + 1) /\ Queued(k)' = Queued(k + 1)
      BY <1>5, <3>1
    <3>4. QED
      BY <3>1, <3>2, <3>3
  <2>3. QED
    BY <2>1, <2>2 DEF ChainInv, Follows
<1>10. LastByte' = LastByte
  <2>1. CASE used = 1
    BY <1>3, <2>1 DEF LastByte
  <2>2. CASE used # 1
    <3>1. used - 2 \in 0..(used - 2) /\ (used - 2) + 1 = used - 1 /\ used' # 0
          /\ used' - 1 = used - 2
      BY <1>1, <2>2
    <3>2. LastByte' = bytes'[After(tail', used' - 1)]
      BY <3>1 DEF LastByte, Queued
    <3>3. QED
      BY <1>1, <1>4, <3>1, <3>2 DEF LastByte, Queued
  <2>3. QED
    BY <2>1, <2>2
<1>11. ModeInv'
  BY <1>1, <1>10 DEF LogInv, ModeInv, Ended
<1>12. QED
  BY <1>6, <1>8, <1>9, <1>11 DEF LogInv

\* A message is queued: behind the last byte, and not over the first.
LEMMA PutQueues ==
  ASSUME LogAssumption, LogInv, pc = "put", Fits, Queue, CallService("idle"), length' = 0,
         UNCHANGED <<asyncMode, i, tx, written>>
  PROVE  LogInv'
<1>1. /\ used \in 0..Capacity /\ tail \in Positions /\ head \in Positions
      /\ Capacity \in Nat \ {0} /\ length \in 0..MaxLength /\ length <= Capacity - used
      /\ Positions = 0..(Capacity - 1) /\ head = After(tail, used) /\ asyncMode
      /\ DOMAIN bytes = Positions /\ MaxLength \in 1..Capacity
      /\ number \in 0..(Numbers - 1) /\ Numbers \in Nat \ {0} /\ i = 0
  BY DEF LogInv, LogTypes, ModeInv, Fits, LogAssumption, Positions
<1>2. /\ head' = After(head, length) /\ used' = used + length /\ tail' = tail
      /\ DOMAIN bytes' = Positions
      /\ \A p \in Positions :
           bytes'[p] = LET k == (p - head) % Capacity
                       IN  IF k < length THEN [msg |-> number, at |-> k + 1, of |-> length]
                           ELSE bytes[p]
      /\ pc' = "service" /\ ret' = "idle" /\ budget' = Budget
  BY DEF Queue, CallService
<1>3. \A k \in 0..(used - 1) : Queued(k)' = Queued(k)
  <2>1. SUFFICES ASSUME NEW k \in 0..(used - 1)
                 PROVE  bytes'[After(tail, k)] = bytes[After(tail, k)]
    BY <1>2 DEF Queued
  <2> DEFINE p == After(tail, k)
             m == (p - head) % Capacity
  <2>2. k \in 0..Capacity
    BY <1>1
  <2>3. /\ p = IF tail + k < Capacity THEN tail + k ELSE tail + k - Capacity
        /\ p \in Positions
    BY <1>1, <2>2, AfterIs
  <2>4. head = IF tail + used < Capacity THEN tail + used ELSE tail + used - Capacity
    BY <1>1, AfterIs
  <2>5. m = IF head <= p THEN p - head ELSE p - head + Capacity
    BY <1>1, <2>3, OffsetIs
  <2>6. bytes'[p] = IF m < length THEN [msg |-> number, at |-> m + 1, of |-> length]
                    ELSE bytes[p]
    BY <1>2, <2>3
  <2> HIDE DEF p, m
  <2>7. ~(m < length)
    BY <1>1, <2>3, <2>4, <2>5
  <2>8. bytes'[p] = bytes[p]
    BY <2>6, <2>7
  <2>9. QED
    BY <2>8 DEF p
<1>4. \A j \in 0..(length - 1) :
        bytes'[After(tail', used + j)] = [msg |-> number, at |-> j + 1, of |-> length]
  <2>1. TAKE j \in 0..(length - 1)
  <2> DEFINE p == After(tail, used + j)
             m == (p - head) % Capacity
  <2>2. used + j \in 0..Capacity /\ used + j < used + length
    BY <1>1
  <2>3. /\ p = IF tail + (used + j) < Capacity THEN tail + (used + j)
               ELSE tail + (used + j) - Capacity
        /\ p \in Positions
    BY <1>1, <2>2, AfterIs
  <2>4. head = IF tail + used < Capacity THEN tail + used ELSE tail + used - Capacity
    BY <1>1, AfterIs
  <2>5. m = IF head <= p THEN p - head ELSE p - head + Capacity
    BY <1>1, <2>3, OffsetIs
  <2>6. bytes'[p] = IF m < length THEN [msg |-> number, at |-> m + 1, of |-> length]
                    ELSE bytes[p]
    BY <1>2, <2>3
  <2>7. bytes'[After(tail', used + j)] = bytes'[p]
    BY <1>2
  <2> HIDE DEF p, m
  <2>8. m = j
    BY <1>1, <2>3, <2>4, <2>5
  <2>9. j < length
    BY <1>1
  <2>10. QED
    BY <2>6, <2>7, <2>8, <2>9
<1>5. \A k \in used..(used' - 1) :
        Queued(k)' = [msg |-> number, at |-> (k - used) + 1, of |-> length]
  <2>1. TAKE k \in used..(used' - 1)
  <2>2. k - used \in 0..(length - 1) /\ used + (k - used) = k
    BY <1>1, <1>2
  <2>3. bytes'[After(tail', used + (k - used))]
          = [msg |-> number, at |-> (k - used) + 1, of |-> length]
    BY <1>4, <2>2, Zenon
  <2>4. QED
    BY <2>2, <2>3 DEF Queued
<1>6. /\ used' \in 0..Capacity /\ head' \in Positions
      /\ length \in 0..Capacity
  <2>1. length \in 0..Capacity /\ used' \in 0..Capacity
    BY <1>1, <1>2
  <2>2. After(head, length) \in Positions
    BY <1>1, <2>1, AfterIs
  <2>3. QED
    BY <1>2, <2>1, <2>2
<1>7. head' = After(tail', used')
  BY <1>1, <1>2, <1>6, AfterTwo
<1>8. \A k \in 0..(used' - 1) : Queued(k)' \in Byte
  <2>1. TAKE k \in 0..(used' - 1)
  <2>2. CASE k < used
    <3>1. k \in 0..(used - 1)
      BY <1>1, <2>2
    <3>2. QED
      BY <1>3, <3>1 DEF LogInv, LogTypes
  <2>3. CASE k >= used
    <3>1. k \in used..(used' - 1) /\ (k - used) + 1 \in 1..length
      BY <1>1, <1>2, <2>3
    <3>2. Queued(k)' = [msg |-> number, at |-> (k - used) + 1, of |-> length]
      BY <1>5, <3>1
    <3>3. (k - used) + 1 \in 1..MaxLength /\ length \in 1..MaxLength
      BY <1>1, <3>1
    <3>4. QED
      BY <1>1, <3>2, <3>3 DEF Byte
  <2>4. QED
    BY <1>1, <2>2, <2>3
<1>9. number' = (IF length = 0 THEN number ELSE (number + 1) % Numbers)
      /\ number' \in 0..(Numbers - 1)
  <2>1. number' = IF length = 0 THEN number ELSE (number + 1) % Numbers
    BY DEF Queue, NumberAfter
  <2>2. (number + 1) % Numbers \in 0..(Numbers - 1)
    BY <1>1, NumberIs
  <2>3. QED
    BY <1>1, <2>1, <2>2
<1>10. LogTypes'
  BY <1>1, <1>2, <1>6, <1>7, <1>8, <1>9 DEF LogInv, LogTypes, LogAssumption
<1>11. Ended(LastByte, number)
  BY DEF LogInv, ModeInv
<1>12. \A c : (length > 0 /\ c = [msg |-> number, at |-> 1, of |-> length]) =>
               Follows(LastByte, c)
  <2>1. LastByte \in Byte
    <3>1. used # 0 => used - 1 \in 0..(used - 1)
      BY <1>1
    <3>2. QED
      BY <3>1 DEF LastByte, LogInv, LogTypes
  <2>2. ~(LastByte.at < LastByte.of)
    BY <1>11, <2>1 DEF Ended, Byte
  <2>3. length > 0 => length \in 1..MaxLength
    BY <1>1
  <2>4. number = (LastByte.msg + 1) % Numbers
    BY <1>11 DEF Ended
  <2>5. QED
    BY <2>2, <2>3, <2>4 DEF Follows
<1>13. ChainInv'
  <2>1. ASSUME used' > 0 PROVE Follows(written, Queued(0)')
    <3>1. CASE used > 0
      <4>1. 0 \in 0..(used - 1)
        BY <1>1, <3>1
      <4>2. QED
        BY <1>3, <3>1, <4>1 DEF LogInv, ChainInv
    <3>2. CASE used = 0
      <4>1. 0 \in used..(used' - 1) /\ (0 - used) + 1 = 1 /\ length > 0
        BY <1>1, <1>2, <2>1, <3>2
      <4>2. Queued(0)' = [msg |-> number, at |-> 1, of |-> length]
        BY <1>5, <4>1
      <4>3. QED
        BY <1>12, <3>2, <4>1, <4>2 DEF LastByte
    <3>3. QED
      BY <1>1, <3>1, <3>2
  <2>2. ASSUME NEW k \in 1..(used' - 1) PROVE Follows(Queued(k - 1)', Queued(k)')
    <3>1. CASE k < used
      <4>1. k \in 1..(used - 1) /\ k \in 0..(used - 1) /\ k - 1 \in 0..(used - 1)
        BY <1>1, <3>1
      <4>2. Queued(k)' = Queued(k) /\ Queued(k - 1)' = Queued(k - 1)
        BY <1>3, <4>1
      <4>3. QED
        BY <4>1, <4>2 DEF LogInv, ChainInv
    <3>2. CASE k = used
      <4>1. used > 0 /\ k - 1 \in 0..(used - 1) /\ k \in used..(used' - 1)
            /\ (k - used) + 1 = 1 /\ length > 0
        BY <1>1, <1>2, <2>2, <3>2
      <4>2. /\ Queued(k)' = [msg |-> number, at |-> 1, of |-> length]
            /\ Queued(k - 1)' = Queued(k - 1)
        BY <1>3, <1>5, <4>1
      <4>3. LastByte = Queued(k - 1)
        BY <3>2, <4>1 DEF LastByte
      <4>4. QED
        BY <1>12, <4>1, <4>2, <4>3
    <3>3. CASE k > used
      <4>1. /\ k \in used..(used' - 1) /\ k - 1 \in used..(used' - 1)
            /\ ((k - 1) - used) + 1 = k - used /\ k - used < length /\ k - used \in Nat
            /\ length \in 1..MaxLength
        <5>1. used \in Nat /\ used' = used + length /\ length \in 0..MaxLength /\ MaxLength \in Nat
          BY <1>1, <1>2
        <5>2. QED
          BY <3>3, <5>1
      <4>2. /\ Queued(k)' = [msg |-> number, at |-> (k - used) + 1, of |-> length]
            /\ Queued(k - 1)' = [msg |-> number, at |-> k - used, of |-> length]
        BY <1>5, <4>1
      <4>3. QED
        BY <4>1, <4>2 DEF Follows
    <3>4. QED
      BY <1>1, <1>2, <3>1, <3>2, <3>3
  <2>3. QED
    BY <2>1, <2>2 DEF ChainInv, Follows
<1>14. Ended(LastByte', number')
  <2>1. CASE length = 0
    <3>1. used' = used /\ number' = number
      BY <1>1, <1>2, <1>9, <2>1
    <3>2. LastByte' = LastByte
      <4>1. CASE used = 0
        BY <3>1, <4>1 DEF LastByte
      <4>2. CASE used # 0
        <5>1. used - 1 \in 0..(used - 1)
          BY <1>1, <4>2
        <5>2. LastByte' = bytes'[After(tail', used - 1)]
          BY <3>1, <4>2 DEF LastByte, Queued
        <5>3. QED
          BY <1>3, <4>2, <5>1, <5>2 DEF LastByte, Queued
      <4>3. QED
        BY <4>1, <4>2
    <3>3. QED
      BY <1>11, <3>1, <3>2
  <2>2. CASE length # 0
    <3>1. used' - 1 \in used..(used' - 1) /\ ((used' - 1) - used) + 1 = length /\ used' # 0
      BY <1>1, <1>2, <2>2
    <3>2. bytes'[After(tail', used' - 1)] = [msg |-> number, at |-> length, of |-> length]
      BY <1>5, <3>1 DEF Queued
    <3>3. LastByte' = [msg |-> number, at |-> length, of |-> length]
      BY <3>1, <3>2 DEF LastByte, Queued
    <3>4. QED
      BY <1>9, <2>2, <3>3 DEF Ended
  <2>3. QED
    BY <2>1, <2>2
<1>15. ModeInv'
  BY <1>1, <1>2, <1>14 DEF ModeInv, Ended
<1>16. QED
  BY <1>10, <1>13, <1>15 DEF LogInv

\* A byte of a message that is sent directly.
LEMMA DirectSends ==
  ASSUME LogAssumption, LogInv, pc = "direct", i # length,
         TxWrite([msg |-> (number - 1) % Numbers, at |-> i + 1, of |-> length]), i' = i + 1,
         UNCHANGED <<pc, length, ring, asyncMode, ret, budget, number>>
  PROVE  LogInv' /\ Follows(written, written')
<1>1. /\ used = 0 /\ ~asyncMode /\ length \in 0..MaxLength /\ i \in 0..length
      /\ number \in 0..(Numbers - 1) /\ written \in Byte /\ MaxLength \in Nat
      /\ Numbers \in Nat \ {0} /\ tx \in Nat
  BY DEF LogInv, LogTypes, ModeInv, LogAssumption
<1>2. i + 1 \in 1..length /\ length \in 1..MaxLength /\ i + 1 \in 1..MaxLength
  BY <1>1
<1> DEFINE m == (number - 1) % Numbers
<1>3. m \in 0..(Numbers - 1)
  <2>1. m = IF number = 0 THEN Numbers - 1 ELSE number - 1
    BY <1>1, NumberIs
  <2> HIDE DEF m
  <2>2. m \in 0..(Numbers - 1)
    BY <1>1, <2>1
  <2>3. (m + 1) % Numbers = IF m = Numbers - 1 THEN 0 ELSE m + 1
    BY <2>2, NumberIs
  <2>4. QED
    BY <1>1, <2>1, <2>2, <2>3
<1>4. written' = [msg |-> m, at |-> i + 1, of |-> length] /\ tx' = tx + 1
  BY DEF TxWrite
<1>5. /\ i = 0 => Ended(written, m)
      /\ i # 0 => written = [msg |-> m, at |-> i, of |-> length]
  BY <1>1, <1>2 DEF LogInv, ModeInv
<1> HIDE DEF m
<1>6. Follows(written, written')
  <2>1. CASE i = 0
    <3>1. written.at = written.of /\ m = (written.msg + 1) % Numbers /\ written.at \in Int
      BY <1>1, <1>5, <2>1 DEF Ended, Byte
    <3>2. QED
      BY <1>2, <1>4, <2>1, <3>1 DEF Follows
  <2>2. CASE i # 0
    BY <1>1, <1>2, <1>4, <1>5, <2>2 DEF Follows
  <2>3. QED
    BY <2>1, <2>2
<1>7. written' \in Byte
  BY <1>2, <1>3, <1>4 DEF Byte
<1>8. LogTypes' /\ ChainInv'
  BY <1>1, <1>2, <1>4, <1>7 DEF LogInv, LogTypes, ChainInv, ring, Queued
<1>9. ModeInv'
  BY <1>1, <1>2, <1>4 DEF ModeInv, ring, m
<1>10. QED
  BY <1>6, <1>8, <1>9 DEF LogInv

\* The steps that neither queue nor send: the end of a direct message is one of them.
LEMMA StaysQueued ==
  ASSUME LogAssumption, LogInv, UNCHANGED <<bytes, head, tail, used, written>>,
         asyncMode' \in BOOLEAN, budget' \in Nat, length' \in 0..MaxLength, i' \in 0..length',
         tx' \in Nat, number' \in 0..(Numbers - 1),
         pc' \in {"idle", "put", "service", "finish", "direct"},
         ret' \in {"idle", "put", "finish"}, ModeInv'
  PROVE  LogInv'
<1>1. \A k : Queued(k)' = Queued(k)
  BY BytesLeft
<1>2. LogTypes'
  BY <1>1 DEF LogInv, LogTypes
<1>3. ChainInv'
  BY BytesLeft DEF LogInv
<1>4. QED
  BY <1>2, <1>3 DEF LogInv

\* One step of the log.
LEMMA LogStep ==
  ASSUME LogAssumption, LogInv, [LogNext]_logVars
  PROVE  LogInv' /\ (written' # written => Follows(written, written'))
<1>1. /\ MaxLength \in Nat /\ length \in 0..MaxLength /\ i \in 0..length /\ tx \in Nat
      /\ budget \in Nat /\ Budget \in Nat /\ number \in 0..(Numbers - 1)
      /\ (number + 1) % Numbers \in 0..(Numbers - 1)
      /\ pc \in {"idle", "put", "service", "finish", "direct"}
      /\ ret \in {"idle", "put", "finish"} /\ asyncMode \in BOOLEAN
  BY NumberIs DEF LogInv, LogTypes, LogAssumption
<1>2. ModeInv
  BY DEF LogInv
<1>3. CASE Service
  <2>1. CASE MayWrite
    BY <1>3, <2>1, ServiceSends DEF Service
  <2>2. CASE ~MayWrite
    <3>1. pc' = ret /\ budget' = 0 /\ pc = "service"
          /\ UNCHANGED <<bytes, head, tail, used, written, asyncMode, ret, length, i, number, tx>>
      BY <1>3, <2>2 DEF Service
    <3>2. LastByte' = LastByte
      BY <3>1, BytesLeft
    <3>3. ModeInv'
      BY <1>1, <1>2, <3>1, <3>2 DEF ModeInv, Ended
    <3>4. QED
      BY <1>1, <3>1, <3>3, StaysQueued
  <2>3. QED
    BY <2>1, <2>2
<1>4. CASE Direct
  <2>1. CASE i = length
    <3>1. pc = "direct" /\ pc' = "idle" /\ length' = 0 /\ i' = 0
          /\ UNCHANGED <<bytes, head, tail, used, written, asyncMode, ret, budget, number, tx>>
      BY <1>4, <2>1 DEF Direct, ring
    <3>2. LastByte' = LastByte
      BY <3>1, BytesLeft
    <3>3. Ended(LastByte, number)
      <4>1. CASE length = 0
        BY <1>2, <4>1 DEF ModeInv
      <4>2. CASE length # 0
        <5>1. used = 0 /\ written = [msg |-> (number - 1) % Numbers, at |-> i, of |-> length]
          BY <1>2, <2>1, <3>1, <4>2 DEF ModeInv
        <5>2. (((number - 1) % Numbers) + 1) % Numbers = number
          BY <1>1, NumbersMeet
        <5>3. QED
          BY <2>1, <5>1, <5>2 DEF LastByte, Ended
      <4>3. QED
        BY <4>1, <4>2
    <3>4. ModeInv'
      BY <1>2, <3>1, <3>2, <3>3 DEF ModeInv, Ended
    <3>5. QED
      BY <1>1, <3>1, <3>4, StaysQueued
  <2>2. CASE i # length
    BY <1>4, <2>2, DirectSends DEF Direct
  <2>3. QED
    BY <2>1, <2>2
<1>5. CASE Put
  <2>1. CASE Fits
    <3>1. LogInv'
      BY <1>5, <2>1, PutQueues DEF Put
    <3>2. written' = written
      BY <1>5 DEF Put
    <3>3. QED
      BY <3>1, <3>2
  <2>2. CASE ~Fits
    <3>1. pc = "put" /\ pc' = "idle" /\ length' = 0
          /\ UNCHANGED <<bytes, head, tail, used, written, asyncMode, ret, budget, number, tx, i>>
      BY <1>5, <2>2 DEF Put, ring
    <3>2. LastByte' = LastByte
      BY <3>1, BytesLeft
    <3>3. ModeInv'
      BY <1>2, <3>1, <3>2 DEF ModeInv, Ended
    <3>4. i' = 0
      BY <1>2, <3>1 DEF ModeInv
    <3>5. QED
      BY <1>1, <3>1, <3>3, <3>4, StaysQueued
  <2>3. QED
    BY <2>1, <2>2
<1>6. CASE Printf
  <2>1. PICK n \in 0..MaxLength :
          /\ length' = n /\ i' = 0
          /\ IF asyncMode THEN CallService("put") /\ UNCHANGED number
             ELSE /\ pc' = "direct" /\ UNCHANGED <<ret, budget>>
                  /\ number' = IF n = 0 THEN number ELSE NumberAfter
    BY <1>6 DEF Printf
  <2>2. /\ pc = "idle"
        /\ UNCHANGED <<bytes, head, tail, used, written, asyncMode, tx>>
    BY <1>6 DEF Printf, ring
  <2>3. LastByte' = LastByte /\ Ended(LastByte, number)
    BY <1>2, <2>2, BytesLeft DEF ModeInv
  <2>4. CASE asyncMode
    <3>1. /\ pc' = "service" /\ ret' = "put" /\ budget' = Budget /\ number' = number
          /\ i' = 0
      BY <2>1, <2>4 DEF CallService
    <3>2. ModeInv'
      BY <2>2, <2>3, <2>4, <3>1 DEF ModeInv, Ended
    <3>3. QED
      BY <1>1, <2>1, <2>2, <3>1, <3>2, StaysQueued
  <2>5. CASE ~asyncMode
    <3>1. /\ pc' = "direct" /\ ret' = ret /\ budget' = budget
          /\ number' = IF n = 0 THEN number ELSE (number + 1) % Numbers
          /\ used = 0
      BY <1>2, <2>1, <2>5 DEF NumberAfter, ModeInv
    <3>2. LastByte = written
      BY <3>1 DEF LastByte
    <3>3. n # 0 => (number' - 1) % Numbers = number
      BY <1>1, <3>1, NumbersMeet
    <3>4. ModeInv'
      BY <2>1, <2>2, <2>3, <2>5, <3>1, <3>2, <3>3 DEF ModeInv, Ended
    <3>5. QED
      BY <1>1, <2>1, <2>2, <3>1, <3>4, StaysQueued
  <2>6. QED
    BY <2>4, <2>5
<1>7. CASE CallServiceOnly
  <2>1. /\ pc = "idle" /\ pc' = "service" /\ ret' = "idle" /\ budget' = Budget
        /\ UNCHANGED <<bytes, head, tail, used, written, asyncMode, length, i, number, tx>>
    BY <1>7 DEF CallServiceOnly, CallService, ring
  <2>2. LastByte' = LastByte
    BY <2>1, BytesLeft
  <2>3. ModeInv'
    BY <1>2, <2>1, <2>2 DEF ModeInv, Ended
  <2>4. QED
    BY <1>1, <2>1, <2>3, StaysQueued
<1>8. CASE SetAsync \/ CallFinish \/ Finish
  <2>1. /\ pc \in {"idle", "finish"} /\ pc' \in {"idle", "finish", "service"}
        /\ ret' \in {ret, "finish"}
        /\ pc' = "service" => ret' = "finish"
        /\ budget' \in Nat /\ asyncMode' \in BOOLEAN
        /\ asyncMode' = FALSE => asyncMode = FALSE \/ used = 0
        /\ UNCHANGED <<bytes, head, tail, used, written, length, i, number, tx>>
    BY <1>1, <1>8 DEF SetAsync, CallFinish, Finish, CallService, ring
  <2>2. LastByte' = LastByte
    BY <2>1, BytesLeft
  <2>3. ModeInv'
    BY <1>2, <2>1, <2>2 DEF ModeInv, Ended
  <2>4. QED
    BY <1>1, <2>1, <2>3, StaysQueued
<1>9. CASE Uart \/ UNCHANGED logVars
  <2>1. /\ tx' \in Nat
        /\ UNCHANGED <<bytes, head, tail, used, written, asyncMode, pc, ret, budget, length, i,
                       number>>
    BY <1>1, <1>9 DEF Uart, ring, logVars
  <2>2. LastByte' = LastByte
    BY <2>1, BytesLeft
  <2>3. ModeInv'
    BY <1>2, <2>1, <2>2 DEF ModeInv, Ended
  <2>4. QED
    BY <1>1, <2>1, <2>3, StaysQueued
<1>10. QED
  BY <1>3, <1>4, <1>5, <1>6, <1>7, <1>8, <1>9 DEF LogNext, Call, Progress

\* What the UART sends is whole messages, each accepted one once and in order, for a ring
\* and messages of any size, at a full ring and through any changes of mode
\* (runtime_log.c).
THEOREM MessagesStayWhole == LogSpec => WholeMessages
<1>1. LogInit => LogInv
  <2>1. ASSUME LogInit PROVE LogInv
    <3>1. /\ Capacity \in Nat \ {0} /\ MaxLength \in Nat /\ 1 \in 1..MaxLength
          /\ Numbers \in Nat \ {0} /\ Numbers - 1 \in 0..(Numbers - 1)
          /\ ((Numbers - 1) + 1) % Numbers = 0
      <4>1. /\ Capacity \in Nat \ {0} /\ MaxLength \in Nat /\ 1 \in 1..MaxLength
            /\ Numbers \in Nat \ {0} /\ Numbers - 1 \in 0..(Numbers - 1)
        BY LogAssumption DEF LogAssumption
      <4>2. QED
        BY LogAssumption, <4>1, NumberIs
    <3>2. 0 \in Positions /\ After(0, 0) = 0
      <4>1. 0 \in Positions /\ 0 \in 0..Capacity /\ 0 + 0 < Capacity
        BY <3>1 DEF Positions
      <4>2. QED
        BY LogAssumption, <4>1, AfterIs
    <3>3. NoByte \in Byte /\ Ended(NoByte, 0)
      BY <3>1 DEF NoByte, Byte, Ended
    <3>4. LogTypes
      <4>1. /\ head = 0 /\ tail = 0 /\ used = 0 /\ asyncMode = FALSE /\ DOMAIN bytes = Positions
            /\ pc = "idle" /\ ret = "idle" /\ budget = 0 /\ length = 0 /\ i = 0
            /\ tx = 0 /\ number = 0 /\ written = NoByte
        BY <2>1 DEF LogInit
      <4>2. 0 \in 0..Capacity /\ 0 \in 0..MaxLength /\ 0 \in 0..(Numbers - 1) /\ 0 \in 0..0
        BY <3>1
      <4>3. \A k \in 0..(used - 1) : Queued(k) \in Byte
        BY <4>1
      <4>4. QED
        BY <3>2, <3>3, <4>1, <4>2, <4>3 DEF LogTypes
    <3>5. ChainInv
      BY <2>1 DEF LogInit, ChainInv
    <3>6. ModeInv
      BY <2>1, <3>3 DEF LogInit, ModeInv, LastByte
    <3>7. QED
      BY <3>4, <3>5, <3>6 DEF LogInv
  <2>2. QED
    BY <2>1
<1>2. LogInv /\ [LogNext]_logVars => LogInv'
  BY LogAssumption, LogStep
<1>3. LogInv /\ [LogNext]_logVars => [written' # written => Follows(written, written')]_logVars
  BY LogAssumption, LogStep
<1>4. QED
  BY <1>1, <1>2, <1>3, PTL DEF LogSpec, WholeMessages
=============================================================================
