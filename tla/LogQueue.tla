------------------------------ MODULE LogQueue ------------------------------
(***************************************************************************)
(* runtime_log.c: messages go to the UART directly while the application   *)
(* starts and ends, and through a ring of bytes while it streams.  One     *)
(* task calls the functions; the UART empties its FIFO at its own pace     *)
(* between any two tests of TX_FULL.  A byte is named by its message, its  *)
(* place in it and the length of the message.                              *)
(***************************************************************************)
EXTENDS Integers

CONSTANTS Capacity,   \* LOG_CAPACITY, 4096
          MaxLength,  \* longest message that fits the buffer of printf, 767
          Budget,     \* bytes of one service call, 32
          TxDepth,    \* the UART's transmit FIFO
          Numbers     \* bound of the model: messages are numbered modulo it

ASSUME LogAssumption ==
  /\ Capacity \in Nat \ {0} /\ MaxLength \in 1..Capacity
  /\ Budget \in Nat \ {0} /\ TxDepth \in Nat \ {0}
  /\ Numbers \in Nat /\ Numbers > Capacity + 1

VARIABLES
  bytes, head, tail, used, asyncMode,   \* the static variables
  pc, ret, budget,                      \* position; service returns to ret
  length, i,                            \* of printf, 0 when they are not needed
  tx,                                   \* bytes in the UART's FIFO
  number, written                       \* history: messages accepted, last byte written

ring == <<bytes, head, tail, used>>
logVars == <<ring, asyncMode, pc, ret, budget, length, i, tx, number, written>>

Positions == 0..(Capacity - 1)
Byte == [msg : 0..(Numbers - 1), at : 1..MaxLength, of : 1..MaxLength]
NoByte == [msg |-> Numbers - 1, at |-> 1, of |-> 1]

LogInit ==
  /\ bytes = [p \in Positions |-> NoByte] /\ head = 0 /\ tail = 0 /\ used = 0
  /\ asyncMode = FALSE
  /\ pc = "idle" /\ ret = "idle" /\ budget = 0 /\ length = 0 /\ i = 0
  /\ tx = 0 /\ number = 0 /\ written = NoByte
-----------------------------------------------------------------------------
TxFull == tx = TxDepth
TxWrite(b) == tx' = tx + 1 /\ written' = b

After(p, n) == (p + n) % Capacity

NumberAfter == (number + 1) % Numbers

CallService(from) == pc' = "service" /\ ret' = from /\ budget' = Budget

\* Mutant of MayWrite: the last byte stays in the ring.
MayWriteButLast == used > 1 /\ budget # 0 /\ ~TxFull
MayWrite == used # 0 /\ budget # 0 /\ ~TxFull

\* One turn of the loop of runtime_log_service.
Service ==
  /\ pc = "service"
  /\ IF MayWrite
     THEN /\ TxWrite(bytes[tail])
          /\ tail' = After(tail, 1) /\ used' = used - 1 /\ budget' = budget - 1
          /\ UNCHANGED pc
     ELSE pc' = ret /\ budget' = 0 /\ UNCHANGED <<tail, used, tx, written>>
  /\ UNCHANGED <<bytes, head, asyncMode, ret, length, i, number>>

\* A message that does not fit the buffer is rejected before anything is written.
Printf ==
  /\ pc = "idle"
  /\ \E n \in 0..MaxLength :
       /\ length' = n /\ i' = 0
       /\ IF asyncMode THEN CallService("put") /\ UNCHANGED number
          ELSE /\ pc' = "direct" /\ UNCHANGED <<ret, budget>>
               /\ number' = IF n = 0 THEN number ELSE NumberAfter
  /\ UNCHANGED <<ring, asyncMode, tx, written>>

Direct ==
  /\ pc = "direct"
  /\ IF i = length
     THEN pc' = "idle" /\ length' = 0 /\ i' = 0 /\ UNCHANGED <<tx, written>>
     ELSE /\ ~TxFull
          /\ TxWrite([msg |-> (number - 1) % Numbers, at |-> i + 1, of |-> length])
          /\ i' = i + 1 /\ UNCHANGED <<pc, length>>
  /\ UNCHANGED <<ring, asyncMode, ret, budget, number>>

\* Mutant of Fits: the message may be one byte longer than the room left.
FitsOver == length <= Capacity - used + 1
Fits == length <= Capacity - used

Queue ==
  /\ bytes' = [p \in Positions |->
                 LET k == (p - head) % Capacity
                 IN  IF k < length THEN [msg |-> number, at |-> k + 1, of |-> length]
                     ELSE bytes[p]]
  /\ head' = After(head, length) /\ used' = used + length
  /\ number' = IF length = 0 THEN number ELSE NumberAfter
  /\ UNCHANGED tail

\* Mutant of Put: printf waits for room.
PutWaiting ==
  /\ pc = "put"
  /\ IF Fits THEN Queue /\ CallService("idle")
     ELSE CallService("put") /\ UNCHANGED <<ring, number>>
  /\ length' = (IF Fits THEN 0 ELSE length)
  /\ UNCHANGED <<asyncMode, i, tx, written>>

\* The whole message is queued, or dropped if there is no room for all of it.
Put ==
  /\ pc = "put"
  /\ IF Fits THEN Queue /\ CallService("idle")
     ELSE pc' = "idle" /\ UNCHANGED <<ring, number, ret, budget>>
  /\ length' = 0
  /\ UNCHANGED <<asyncMode, i, tx, written>>

CallServiceOnly ==
  /\ pc = "idle" /\ CallService("idle")
  /\ UNCHANGED <<ring, asyncMode, length, i, tx, number, written>>

SetAsync ==
  /\ pc = "idle" /\ asyncMode' = TRUE
  /\ UNCHANGED <<ring, pc, ret, budget, length, i, tx, number, written>>

\* runtime_log_finish, also called to leave the asynchronous mode.
CallFinish ==
  /\ pc = "idle" /\ pc' = "finish"
  /\ UNCHANGED <<ring, asyncMode, ret, budget, length, i, tx, number, written>>

Finish ==
  /\ pc = "finish"
  /\ IF used # 0 THEN CallService("finish") /\ UNCHANGED asyncMode
     ELSE pc' = "idle" /\ asyncMode' = FALSE /\ UNCHANGED <<ret, budget>>
  /\ UNCHANGED <<ring, length, i, tx, number, written>>

Uart ==
  /\ tx > 0 /\ tx' = tx - 1
  /\ UNCHANGED <<ring, asyncMode, pc, ret, budget, length, i, number, written>>

Call == Printf \/ CallServiceOnly \/ SetAsync \/ CallFinish
Progress == Service \/ Direct \/ Put \/ Finish

LogNext == Call \/ Progress \/ Uart

\* The processor goes on with what it does; the UART may be stuck.
LogSpec == LogInit /\ [][LogNext]_logVars /\ WF_logVars(Progress)
-----------------------------------------------------------------------------
\* What the UART sends is whole messages, each accepted one once and in order: no
\* message is cut, mixed with another or overtaken, at a full ring and across the
\* changes of mode either.
Follows(b, c) ==
  /\ c.of \in 1..MaxLength
  /\ IF b.at < b.of THEN c = [b EXCEPT !.at = @ + 1]
     ELSE c.at = 1 /\ c.msg = (b.msg + 1) % Numbers
WholeMessages == [][written' # written => Follows(written, written')]_logVars

\* While the application streams a message never waits for the UART, not even for
\* one that has stopped.
AsyncReturns == pc \in {"put", "service"} /\ asyncMode /\ ret # "finish" ~> pc = "idle"

\* At its end the application gets rid of what is queued and leaves, if the UART sends.
FinishEnds == WF_logVars(Uart) => (pc = "finish" ~> pc = "idle" /\ used = 0)
=============================================================================
