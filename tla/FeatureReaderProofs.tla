------------------------ MODULE FeatureReaderProofs ------------------------
(***************************************************************************)
(* The scanner, for images and words of any size.                          *)
(*                                                                         *)
(* The first part is the hand-over of the memory port.  PortInv goes       *)
(* through the four states of the arbiter: what the candidate control and  *)
(* the cross check may be doing in each, and that a candidate is found     *)
(* only while the port is the reader's.  With it no error bit is raised.   *)
(*                                                                         *)
(* The second part is what the HITs are.  The run counters are the last    *)
(* runs of the row (RunInv), the counters of the cross check are the runs  *)
(* of the column that it has walked (CheckInv), each decides what Across   *)
(* and Down define, and a pattern is in the run counters, with the cross   *)
(* check or among the HITs (FlightInv, SentInv).  From the same invariant  *)
(* the events follow that FeatureEvents promises.                          *)
(***************************************************************************)
EXTENDS FeatureReader, SequenceTheorems, WellFoundedInduction, TLAPS

Colours == pixel.black \in BOOLEAN /\ black \in BOOLEAN

\* No candidate is with the cross check.
Quiet == vcc = "IDLE" /\ ~vccPattern /\ ~vccDone

\* The states in which the reader waits for no word.
ReaderStopped == reader \in {"IDLE", "READ_REQ", "OUTPUT"}

WithReader == /\ arbiter = "READER" /\ control = "IDLE" /\ pending = NoPattern /\ Quiet
              /\ pattern # NoPattern => ~Found

HandOver == /\ arbiter = "WAIT_PAUSE" /\ control \in {"IDLE", "WAIT_GRANT"}
            /\ pending # NoPattern /\ pattern = NoPattern /\ pixel = NoPixel /\ Quiet

WithCheck == /\ arbiter = "VCC_ACTIVE" /\ pattern = NoPattern /\ pixel = NoPixel /\ ReaderStopped
             /\ \/ control = "IDLE" /\ pending = NoPattern
                   /\ vccDone /\ ~vccPattern /\ vcc = "IDLE"
                \/ control \in {"IDLE", "WAIT_GRANT"} /\ pending # NoPattern /\ Quiet
                \/ control \in {"WAIT_BUSY", "WAIT_DONE"} /\ pending # NoPattern /\ ~vccDone
                   /\ (vccPattern => vcc = "IDLE" /\ control = "WAIT_BUSY")

HandBack == /\ arbiter = "WAIT_REQUEST_LOW" /\ control = "IDLE" /\ pending = NoPattern
            /\ pattern = NoPattern /\ pixel = NoPixel /\ Quiet

PortInv ==
  /\ Colours
  /\ vccRead # NoRead => vcc = "READ_WAIT"
  /\ readerRead # NoRead => reader = "READ_WAIT"
  /\ WithReader \/ HandOver \/ WithCheck \/ HandBack
  /\ rowPending \/ rowValid => pixel = NoPixel

\* The column of the pixel on offer, or else of the next one.
NextPlace == wordX * WordBits + bit
Place == IF pixel # NoPixel THEN pixel.x ELSE NextPlace
Past == length + previous[1] + previous[2] + previous[3] + previous[4]

Candidate(c) == c.x \in 0..(Columns - 1) /\ c.y \in 0..(Rows - 1) /\ c.total \in Nat /\ c.total >= 7

\* Where the reader is, and that the runs it has counted lie to the left of it.
ScanInv ==
  /\ bit \in 0..(WordBits - 1) /\ wordX \in 0..(RowWords - 1) /\ rowY \in 0..(Rows - 1)
  /\ reader \in {"IDLE", "READ_REQ", "READ_WAIT", "LOAD_WORD", "OUTPUT"}
  /\ reader \in {"READ_REQ", "READ_WAIT", "LOAD_WORD"} => bit = 0
  /\ pixel # NoPixel =>
       /\ pixel.x \in 0..(Columns - 1) /\ pixel.y \in 0..(Rows - 1) /\ pixel.start = (pixel.x = 0)
       /\ NextPlace = IF pixel.x = Columns - 1 THEN 0 ELSE pixel.x + 1
  /\ length \in Nat /\ previous \in Seq(Nat) /\ Len(previous) = 4
  /\ Place # 0 => Past <= Place
  /\ pattern # NoPattern => Candidate(pattern)
  /\ pending # NoPattern => Candidate(pending)
  /\ errors = {}

\* The port shows the word that was asked for.
OwnWords ==
  /\ reader = "READ_WAIT" => readerRead = addr
  /\ reader = "LOAD_WORD" => port = addr
  /\ vcc = "READ_WAIT" => vccRead = cursor * RowWords + cand.x \div WordBits
  /\ vcc = "READ_CHECK" => port = cursor * RowWords + cand.x \div WordBits

\* What is read lies in the frame.
InFrame == /\ addr \in Nat /\ cursor \in 0..(Rows - 1)
           /\ cand.x \in 0..(Columns - 1) /\ cand.y \in 0..(Rows - 1)

\* The reader leaves the port alone while the cross check has it, and the other way round.
PortOwned ==
  /\ arbiter = "VCC_ACTIVE" => readerRead = NoRead /\ reader \notin {"READ_WAIT", "LOAD_WORD"}
  /\ arbiter # "VCC_ACTIVE" => vccRead = NoRead /\ vcc = "IDLE"

FeatureInv == PortInv /\ ScanInv /\ OwnWords /\ InFrame
-----------------------------------------------------------------------------
\* The four counted runs are numbers.
LEMMA Vectors ==
  ASSUME ScanInv
  PROVE  previous[1] \in Nat /\ previous[2] \in Nat /\ previous[3] \in Nat /\ previous[4] \in Nat
<1>1. \A i \in 1..4 : previous[i] \in Nat
  BY ElementOfSeq DEF ScanInv
<1>2. QED
  BY <1>1

\* While the reader is asked to pause it offers no pixel and reads no word; what it reads,
\* it waits for.
LEMMA ReaderPauses ==
  ASSUME NEW start \in BOOLEAN, FrameReader(start)
  PROVE  /\ Pause => pixel' = NoPixel /\ readerRead' = NoRead
         /\ Pause /\ ReaderStopped => ReaderStopped'
         /\ readerRead' # NoRead => reader' = "READ_WAIT"
         /\ pixel' = NoPixel \/ pixel'.black \in BOOLEAN
<1>1. Pause => pixel' = NoPixel /\ readerRead' = NoRead
  BY DEF FrameReader, Emits, Requests
<1>2. Pause /\ ReaderStopped => ReaderStopped'
  BY DEF FrameReader, Emits, Requests, ReaderStopped
<1>3. readerRead' # NoRead => reader' = "READ_WAIT"
  BY DEF FrameReader, Requests, Emits
<1>4. Dark(word, bit) \in BOOLEAN
  BY DEF Dark
<1>5. pixel' = NoPixel \/ pixel'.black = Dark(word, bit)
  BY DEF FrameReader
<1>6. QED
  BY <1>1, <1>2, <1>3, <1>4, <1>5

\* A candidate is found where a run ends: at a white pixel, after which none can be found
\* at once, or at the end of a line, where the reader pauses.
LEMMA FoundOnce ==
  ASSUME Colours, NEW start \in BOOLEAN, FrameReader(start), RunScan
  PROVE  /\ Colours'
         /\ pixel = NoPixel => pattern' = NoPattern
         /\ pattern' # NoPattern => Found
         /\ Found => ~Found'
<1>1. pixel' = NoPixel \/ pixel'.black \in BOOLEAN
  BY ReaderPauses
<1>2. Colours'
  <2>1. pixel'.black \in BOOLEAN
    <3>1. NoPixel.black = FALSE
      BY DEF NoPixel
    <3>2. QED
      BY <1>1, <3>1
  <2>2. black' = black \/ black' = pixel.black
    BY DEF RunScan
  <2>3. QED
    BY <2>1, <2>2 DEF Colours
<1>3. pattern' # NoPattern => Found
  BY DEF RunScan
<1>4. pixel = NoPixel => pattern' = NoPattern
  BY DEF RunScan, Found, Continues
<1>5. ASSUME Found PROVE ~Found'
  <2>1. CASE pixel.end
    <3>1. pixel' = NoPixel
      BY <2>1, ReaderPauses DEF Pause, RowPause
    <3>2. QED
      BY <3>1 DEF Found, Continues
  <2>2. CASE ~SameColor
    <3>1. black' = pixel.black
      BY <1>5, <2>2 DEF RunScan, Found, Continues
    <3>2. ~black'
      BY <1>5, <2>2, <3>1 DEF Found, SameColor, Colours
    <3>3. QED
      BY <3>2 DEF Found
  <2>3. QED
    BY <1>5, <2>1, <2>2 DEF Found
<1>6. QED
  BY <1>2, <1>3, <1>4, <1>5

\* The cross check starts with a candidate, and waits for each word it asks for.
LEMMA CheckStarts ==
  ASSUME NEW ready \in BOOLEAN, CrossCheck(ready)
  PROVE  /\ vcc = "IDLE" /\ ~vccPattern => vcc' = "IDLE"
         /\ vccRead' # NoRead => vcc' = "READ_WAIT"
BY DEF CrossCheck, Check

\* From the line end to the ROW_DONE no pixel is on offer.
LEMMA RowHeld ==
  ASSUME NEW start \in BOOLEAN, NEW ready \in BOOLEAN, FrameReader(start),
         RowDoneControl(start, ready), rowPending \/ rowValid => pixel = NoPixel
  PROVE  (rowPending \/ rowValid => pixel = NoPixel)'
<1> SUFFICES ASSUME rowPending' \/ rowValid' PROVE pixel' = NoPixel
  OBVIOUS
<1>1. RowPause
  BY DEF RowDoneControl, RowPause
<1>2. QED
  BY <1>1, ReaderPauses DEF Pause

\* What the candidate control does in each of its states.
LEMMA ControlSteps ==
  ASSUME CandidateControl
  PROVE  /\ control = "IDLE" => /\ ~vccPattern' /\ ~vccDone'
                                /\ pending = NoPattern => pending' = pattern /\ control' = "IDLE"
                                /\ pending # NoPattern => pending' = pending /\ control' = "WAIT_GRANT"
         /\ control = "WAIT_GRANT" /\ pending # NoPattern =>
              /\ pending' = pending /\ ~vccDone'
              /\ IF arbiter = "VCC_ACTIVE" /\ vcc = "IDLE" THEN vccPattern' /\ control' = "WAIT_BUSY"
                 ELSE ~vccPattern' /\ control' = "WAIT_GRANT"
         /\ control = "WAIT_BUSY" /\ pending # NoPattern =>
              /\ pending' = pending /\ ~vccPattern' /\ ~vccDone'
              /\ control' = IF vcc # "IDLE" THEN "WAIT_DONE" ELSE "WAIT_BUSY"
         /\ control = "WAIT_DONE" /\ pending # NoPattern =>
              /\ ~vccPattern'
              /\ IF vcc = "IDLE" THEN vccDone' /\ pending' = NoPattern /\ control' = "IDLE"
                 ELSE ~vccDone' /\ pending' = pending /\ control' = "WAIT_DONE"
BY DEF CandidateControl

\* Every edge keeps the invariant, whatever the state of the arbiter.
LEMMA PortInvStep ==
  ASSUME PortInv, NEW start \in BOOLEAN, NEW ready \in BOOLEAN, FrameReader(start), RunScan,
         CandidateControl, Arbiter, CrossCheck(ready), RowDoneControl(start, ready)
  PROVE  PortInv'
<1>1. /\ Colours'
      /\ pixel = NoPixel => pattern' = NoPattern
      /\ pattern' # NoPattern => Found
      /\ Found => ~Found'
  BY FoundOnce DEF PortInv
<1>2. /\ Pause => pixel' = NoPixel
      /\ Pause /\ ReaderStopped => ReaderStopped'
      /\ readerRead' # NoRead => reader' = "READ_WAIT"
  BY ReaderPauses
<1>3. /\ vcc = "IDLE" /\ ~vccPattern => vcc' = "IDLE"
      /\ vccRead' # NoRead => vcc' = "READ_WAIT"
  BY CheckStarts
<1>4. (rowPending \/ rowValid => pixel = NoPixel)'
  BY RowHeld DEF PortInv
<1>5. ASSUME WithReader PROVE WithReader' \/ HandOver'
  <2>1. ~vccPattern' /\ ~vccDone' /\ pending' = pattern /\ control' = "IDLE" /\ vcc' = "IDLE"
    BY <1>3, <1>5, ControlSteps DEF WithReader, Quiet
  <2>2. CASE pattern = NoPattern
    <3>1. arbiter' = "READER"
      BY <1>5, <2>2 DEF Arbiter, WithReader, Request
    <3>2. QED
      BY <1>1, <2>1, <2>2, <3>1 DEF WithReader, Quiet
  <2>3. CASE pattern # NoPattern
    <3>1. arbiter' = "WAIT_PAUSE"
      BY <1>5, <2>3 DEF Arbiter, WithReader, Request
    <3>2. pixel' = NoPixel
      BY <1>2, <1>5, <2>3 DEF Pause, Request, WithReader
    <3>3. pattern' = NoPattern
      BY <1>1, <1>5, <2>3 DEF WithReader
    <3>4. QED
      BY <2>1, <2>3, <3>1, <3>2, <3>3 DEF HandOver, Quiet
  <2>4. QED
    BY <2>2, <2>3
<1>6. ASSUME HandOver PROVE HandOver' \/ WithCheck'
  <2>1. ~vccPattern' /\ ~vccDone' /\ pending' = pending /\ control' = "WAIT_GRANT" /\ vcc' = "IDLE"
    BY <1>3, <1>6, ControlSteps DEF HandOver, Quiet
  <2>2. pixel' = NoPixel /\ pattern' = NoPattern
    BY <1>1, <1>2, <1>6 DEF HandOver, Pause
  <2>3. CASE Paused
    <3>1. arbiter' = "VCC_ACTIVE"
      BY <1>6, <2>3 DEF Arbiter, HandOver
    <3>2. ReaderStopped'
      BY <1>2, <2>3 DEF Paused, ReaderStopped
    <3>3. QED
      BY <1>6, <2>1, <2>2, <3>1, <3>2 DEF HandOver, WithCheck, Quiet
  <2>4. CASE ~Paused
    <3>1. arbiter' = "WAIT_PAUSE"
      BY <1>6, <2>4 DEF Arbiter, HandOver
    <3>2. QED
      BY <1>6, <2>1, <2>2, <3>1 DEF HandOver, Quiet
  <2>5. QED
    BY <2>3, <2>4
<1>7. ASSUME WithCheck PROVE WithCheck' \/ HandBack'
  <2>1. pixel' = NoPixel /\ pattern' = NoPattern /\ ReaderStopped'
    BY <1>1, <1>2, <1>7 DEF WithCheck, Pause
  <2>2. arbiter' = IF vccDone THEN "WAIT_REQUEST_LOW" ELSE "VCC_ACTIVE"
    BY <1>7 DEF Arbiter, WithCheck
  <2>3. CASE control = "IDLE" /\ pending = NoPattern
    <3>1. ~vccPattern' /\ ~vccDone' /\ pending' = NoPattern /\ control' = "IDLE" /\ vcc' = "IDLE"
      BY <1>3, <1>7, <2>3, ControlSteps DEF WithCheck
    <3>2. QED
      BY <1>7, <2>1, <2>2, <2>3, <3>1 DEF WithCheck, HandBack, Quiet
  <2>4. CASE control \in {"IDLE", "WAIT_GRANT"} /\ pending # NoPattern
    <3>1. Quiet /\ arbiter = "VCC_ACTIVE" /\ vcc' = "IDLE"
      BY <1>3, <1>7, <2>4 DEF WithCheck, Quiet
    <3>2. /\ ~vccDone' /\ pending' = pending
          /\ \/ ~vccPattern' /\ control' = "WAIT_GRANT"
             \/ vccPattern' /\ control' = "WAIT_BUSY"
      BY <2>4, <3>1, ControlSteps DEF Quiet
    <3>3. QED
      BY <2>1, <2>2, <2>4, <3>1, <3>2 DEF WithCheck, Quiet
  <2>5. CASE control \in {"WAIT_BUSY", "WAIT_DONE"}
    <3>1. pending # NoPattern /\ ~vccDone /\ (vccPattern => control = "WAIT_BUSY")
      BY <1>7, <2>5 DEF WithCheck
    <3>2. /\ ~vccPattern'
          /\ \/ vccDone' /\ pending' = NoPattern /\ control' = "IDLE"
                /\ control = "WAIT_DONE" /\ vcc = "IDLE"
             \/ ~vccDone' /\ pending' = pending /\ control' \in {"WAIT_BUSY", "WAIT_DONE"}
      BY <2>5, <3>1, ControlSteps
    <3>3. vccDone' => vcc' = "IDLE"
      BY <1>3, <3>1, <3>2
    <3>4. QED
      BY <2>1, <2>2, <3>1, <3>2, <3>3 DEF WithCheck
  <2>6. QED
    BY <1>7, <2>3, <2>4, <2>5 DEF WithCheck
<1>8. ASSUME HandBack PROVE WithReader'
  <2>1. ~vccPattern' /\ ~vccDone' /\ pending' = NoPattern /\ control' = "IDLE" /\ vcc' = "IDLE"
    BY <1>3, <1>8, ControlSteps DEF HandBack, Quiet
  <2>2. arbiter' = "READER" /\ pattern' = NoPattern
    BY <1>1, <1>8 DEF Arbiter, HandBack, Request
  <2>3. QED
    BY <2>1, <2>2 DEF WithReader, Quiet
<1>9. QED
  BY <1>1, <1>2, <1>3, <1>4, <1>5, <1>6, <1>7, <1>8 DEF PortInv
-----------------------------------------------------------------------------
\* Counting round.
LEMMA Modulo ==
  ASSUME NEW n \in Nat \ {0}, NEW b \in 0..(n - 1)
  PROVE  (b + 1) % n = IF b = n - 1 THEN 0 ELSE b + 1
<1>1. CASE b = n - 1
  <2>1. b + 1 = n /\ n % n = 0
    BY <1>1
  <2>2. QED
    BY <1>1, <2>1
<1>2. CASE b # n - 1
  <2>1. b + 1 \in 0..(n - 1)
    BY <1>2
  <2>2. (b + 1) % n = b + 1
    BY <2>1
  <2>3. QED
    BY <1>2, <2>2
<1>3. QED
  BY <1>1, <1>2

\* A word and a bit in it are a column.
LEMMA Columning ==
  ASSUME NEW w \in 0..(RowWords - 1), NEW b \in 0..(WordBits - 1)
  PROVE  /\ w * WordBits + b \in 0..(Columns - 1)
         /\ w * WordBits + b = 0 <=> w = 0 /\ b = 0
         /\ w * WordBits + b = Columns - 1 <=> w = RowWords - 1 /\ b = WordBits - 1
         /\ (w + 1) * WordBits = w * WordBits + WordBits
<1> USE FeatureAssumption
<1>1. w * WordBits \in Nat /\ (w # 0 => w * WordBits >= WordBits)
  OBVIOUS
<1>2. (w + 1) * WordBits = w * WordBits + WordBits
  OBVIOUS
<1>3. DEFINE rest == RowWords - 1 - w
<1>4. rest \in Nat /\ rest * WordBits \in Nat /\ (rest # 0 => rest * WordBits >= WordBits)
  OBVIOUS
<1>5. Columns = w * WordBits + WordBits + rest * WordBits
  BY DEF Columns
<1>6. w = RowWords - 1 <=> rest = 0
  OBVIOUS
<1> HIDE DEF rest
<1>7. QED
  BY <1>1, <1>2, <1>4, <1>5, <1>6

\* The reader offers the columns of a row one after the other.
LEMMA ReaderPlace ==
  ASSUME ScanInv, NEW start \in BOOLEAN, FrameReader(start), start => reader = "IDLE"
  PROVE  /\ bit' \in 0..(WordBits - 1) /\ wordX' \in 0..(RowWords - 1) /\ rowY' \in 0..(Rows - 1)
         /\ reader' \in {"IDLE", "READ_REQ", "READ_WAIT", "LOAD_WORD", "OUTPUT"}
         /\ reader' \in {"READ_REQ", "READ_WAIT", "LOAD_WORD"} => bit' = 0
         /\ pixel' # NoPixel =>
              /\ pixel'.x = NextPlace /\ NextPlace \in 0..(Columns - 1)
              /\ pixel'.y = rowY /\ pixel'.start = (NextPlace = 0)
              /\ NextPlace' = IF NextPlace = Columns - 1 THEN 0 ELSE NextPlace + 1
         /\ pixel' = NoPixel => NextPlace' \in {0, NextPlace}
<1> USE FeatureAssumption
<1>1. /\ bit \in 0..(WordBits - 1) /\ wordX \in 0..(RowWords - 1) /\ rowY \in 0..(Rows - 1)
      /\ (bit + 1) % WordBits = IF LastBit THEN 0 ELSE bit + 1
      /\ (wordX + 1) % RowWords = IF wordX = RowWords - 1 THEN 0 ELSE wordX + 1
  BY Modulo DEF ScanInv, LastBit
<1>2. /\ NextPlace \in 0..(Columns - 1)
      /\ NextPlace = 0 <=> wordX = 0 /\ bit = 0
      /\ NextPlace = Columns - 1 <=> LineEnd
      /\ (wordX + 1) * WordBits = wordX * WordBits + WordBits
  <2>1. /\ wordX * WordBits + bit \in 0..(Columns - 1)
        /\ wordX * WordBits + bit = 0 <=> wordX = 0 /\ bit = 0
        /\ wordX * WordBits + bit = Columns - 1 <=> wordX = RowWords - 1 /\ bit = WordBits - 1
        /\ (wordX + 1) * WordBits = wordX * WordBits + WordBits
    BY <1>1, Columning
  <2>2. NextPlace = wordX * WordBits + bit
    BY DEF NextPlace
  <2>3. LineEnd <=> wordX = RowWords - 1 /\ bit = WordBits - 1
    BY DEF LineEnd, LastBit
  <2>4. QED
    BY <2>1, <2>2, <2>3
<1>3. CASE Emits
  <2>1. /\ reader = "OUTPUT" /\ ~start
        /\ pixel' = [black |-> Dark(word, bit), x |-> NextPlace, y |-> rowY,
                     start |-> wordX = 0 /\ bit = 0, end |-> LineEnd]
    BY <1>3 DEF FrameReader, Emits, NextPlace
  <2>2. bit' = (bit + 1) % WordBits
    BY <1>3, <2>1 DEF FrameReader
  <2>3. wordX' = IF LastBit THEN (wordX + 1) % RowWords ELSE wordX
    BY <1>3, <2>1 DEF FrameReader
  <2>4. rowY' = IF LineEnd /\ rowY < Rows - 1 THEN rowY + 1 ELSE rowY
    BY <1>3, <2>1 DEF FrameReader
  <2>5. reader' = IF ~LastBit THEN "OUTPUT"
                  ELSE IF LineEnd /\ rowY = Rows - 1 THEN "IDLE" ELSE "READ_REQ"
    BY <1>3, <2>1 DEF FrameReader, Requests
  <2>6. bit' \in 0..(WordBits - 1) /\ wordX' \in 0..(RowWords - 1) /\ rowY' \in 0..(Rows - 1)
    BY <1>1, <2>2, <2>3, <2>4 DEF LastBit
  <2>7. NextPlace' = IF NextPlace = Columns - 1 THEN 0 ELSE NextPlace + 1
    <3>1. CASE LineEnd
      <4>1. bit' = 0 /\ wordX' = 0
        BY <1>1, <2>2, <2>3, <3>1 DEF LineEnd
      <4>2. QED
        BY <1>2, <3>1, <4>1 DEF NextPlace
    <3>2. CASE ~LineEnd /\ LastBit
      <4>1. bit' = 0 /\ wordX' = wordX + 1
        BY <1>1, <2>2, <2>3, <3>2 DEF LineEnd
      <4>2. NextPlace' = wordX * WordBits + WordBits
        BY <1>1, <1>2, <4>1 DEF NextPlace
      <4>3. QED
        BY <1>1, <1>2, <3>2, <4>2 DEF NextPlace, LastBit
    <3>3. CASE ~LastBit
      <4>1. bit' = bit + 1 /\ wordX' = wordX
        BY <1>1, <2>2, <2>3, <3>3
      <4>2. QED
        BY <1>1, <1>2, <3>3, <4>1 DEF NextPlace, LineEnd
    <3>4. QED
      BY <3>1, <3>2, <3>3
  <2>8. pixel'.x = NextPlace /\ pixel'.y = rowY
    BY <2>1
  <2>9. pixel'.start = (NextPlace = 0)
    BY <1>2, <2>1
  <2>10. pixel' # NoPixel
    BY <1>2, <2>8 DEF NoPixel
  <2>11. reader' \in {"READ_REQ", "READ_WAIT", "LOAD_WORD"} => bit' = 0
    BY <1>1, <2>2, <2>5
  <2>12. QED
    BY <1>2, <2>5, <2>6, <2>7, <2>8, <2>9, <2>10, <2>11
<1>4. CASE ~Emits
  <2>1. pixel' = NoPixel
    BY <1>4 DEF FrameReader
  <2>2. bit' = (IF start THEN 0 ELSE bit) /\ wordX' = (IF start THEN 0 ELSE wordX)
        /\ rowY' = (IF start THEN 0 ELSE rowY)
    BY <1>4 DEF FrameReader, ScanInv
  <2>3. /\ reader' \in {"IDLE", "READ_REQ", "READ_WAIT", "LOAD_WORD", "OUTPUT"}
        /\ reader' \in {"READ_REQ", "READ_WAIT", "LOAD_WORD"} =>
             start \/ reader \in {"READ_REQ", "READ_WAIT"}
    BY <1>4 DEF FrameReader, Requests, ScanInv
  <2>4. NextPlace' \in {0, NextPlace}
    BY <2>2 DEF NextPlace
  <2>5. QED
    BY <1>1, <2>1, <2>2, <2>3, <2>4 DEF ScanInv
<1>5. QED
  BY <1>3, <1>4

\* Five runs in proportion have at least seven pixels, and two of them in the middle.
LEMMA RatioSeven ==
  ASSUME NEW runs, runs[1] \in Nat, runs[2] \in Nat, runs[3] \in Nat, runs[4] \in Nat,
         runs[5] \in Nat, Ratio(runs)
  PROVE  Total(runs) \in Nat /\ Total(runs) >= 7 /\ runs[3] >= 2
<1>1. Total(runs) \in Nat
  BY DEF Total
<1>2. runs[1] # 0 /\ runs[2] # 0 /\ runs[3] # 0 /\ runs[4] # 0 /\ runs[5] # 0
  BY DEF Ratio
<1>3. Distance(7 * runs[3], 3 * Total(runs)) <= Total(runs) \div 2
  BY DEF Ratio
<1>4. 7 * runs[3] >= 3 * Total(runs) - Total(runs) \div 2
  BY <1>1, <1>3 DEF Distance
<1>5. runs[3] >= 2
  <2>1. Total(runs) >= 5
    BY <1>2 DEF Total
  <2>2. 2 * (Total(runs) \div 2) <= Total(runs)
    BY <1>1
  <2>3. QED
    BY <1>1, <1>4, <2>1, <2>2
<1>6. Total(runs) >= 6
  BY <1>2, <1>5 DEF Total
<1>7. QED
  BY <1>1, <1>2, <1>4, <1>5, <1>6 DEF Total

\* What appending a run does.
LEMMA Appending ==
  ASSUME NEW runs \in Seq(Nat), NEW n \in Nat
  PROVE  /\ Append(runs, n) \in Seq(Nat)
         /\ Len(Append(runs, n)) = Len(runs) + 1
         /\ \A i \in 1..Len(runs) : Append(runs, n)[i] = runs[i]
         /\ Append(runs, n)[Len(runs) + 1] = n
<1>1. Append(runs, n) \in Seq(Nat)
  OBVIOUS
<1>2. Len(Append(runs, n)) = Len(runs) + 1
  OBVIOUS
<1>3. \A i \in 1..Len(runs) : Append(runs, n)[i] = runs[i]
  OBVIOUS
<1>4. Append(runs, n)[Len(runs) + 1] = n
  OBVIOUS
<1>5. QED
  BY <1>1, <1>2, <1>3, <1>4

\* What dropping the first run does.
LEMMA Dropping ==
  ASSUME NEW runs \in Seq(Nat), runs # << >>
  PROVE  /\ Tail(runs) \in Seq(Nat)
         /\ Len(Tail(runs)) = Len(runs) - 1
         /\ \A i \in 1..(Len(runs) - 1) : Tail(runs)[i] = runs[i + 1]
<1>1. Tail(runs) \in Seq(Nat)
  BY HeadTailProperties, Zenon
<1>2. Len(Tail(runs)) = Len(runs) - 1
  OBVIOUS
<1>3. \A i \in 1..(Len(runs) - 1) : Tail(runs)[i] = runs[i + 1]
  OBVIOUS
<1>4. QED
  BY <1>1, <1>2, <1>3

\* Four runs, one more appended, and the first one dropped.
LEMMA FourRuns ==
  ASSUME NEW runs \in Seq(Nat), Len(runs) = 4, NEW n \in Nat
  PROVE  /\ \A i \in 1..5 : Append(runs, n)[i] \in Nat
         /\ Append(Tail(runs), n) \in Seq(Nat) /\ Len(Append(Tail(runs), n)) = 4
         /\ Append(Tail(runs), n)[1] = runs[2] /\ Append(Tail(runs), n)[2] = runs[3]
         /\ Append(Tail(runs), n)[3] = runs[4] /\ Append(Tail(runs), n)[4] = n
<1> DEFINE longer == Append(runs, n)  rest == Tail(runs)  next == Append(rest, n)
<1>1. longer \in Seq(Nat) /\ Len(longer) = Len(runs) + 1
  BY Appending, Zenon
<1>2. runs # << >>
  <2>1. Len(runs) # 0
    OBVIOUS
  <2>2. QED
    BY <2>1, EmptySeq, Zenon
<1>3. rest \in Seq(Nat) /\ Len(rest) = Len(runs) - 1
      /\ \A i \in 1..(Len(runs) - 1) : rest[i] = runs[i + 1]
  BY <1>2, Dropping, Zenon
<1> HIDE DEF longer, rest
<1>4. /\ next \in Seq(Nat) /\ Len(next) = Len(rest) + 1
      /\ \A i \in 1..Len(rest) : next[i] = rest[i]
      /\ next[Len(rest) + 1] = n
  BY <1>3, Appending, Zenon
<1> HIDE DEF next
<1>5. \A i \in 1..5 : longer[i] \in Nat
  <2>1. Len(longer) = 5
    BY <1>1
  <2>2. QED
    BY <1>1, <2>1, ElementOfSeq
<1>6. Len(rest) = 3 /\ Len(next) = 4
  BY <1>3, <1>4
<1>7. next[1] = rest[1] /\ next[2] = rest[2] /\ next[3] = rest[3] /\ next[4] = n
  BY <1>4, <1>6
<1>8. rest[1] = runs[2] /\ rest[2] = runs[3] /\ rest[3] = runs[4]
  BY <1>3
<1>9. QED
  BY <1>4, <1>5, <1>6, <1>7, <1>8 DEF longer, rest, next

\* The runs counted grow with the pixels, and a pattern found lies in the frame.
LEMMA RunSteps ==
  ASSUME ScanInv, RunScan
  PROVE  /\ length' \in Nat /\ previous' \in Seq(Nat) /\ Len(previous') = 4
         /\ pixel = NoPixel => Past' = Past
         /\ pixel # NoPixel => Past' <= pixel.x + 1
         /\ pattern' # NoPattern => Candidate(pattern')
<1>1. /\ length \in Nat /\ previous \in Seq(Nat) /\ Len(previous) = 4
      /\ previous[1] \in Nat /\ previous[2] \in Nat /\ previous[3] \in Nat /\ previous[4] \in Nat
      /\ Past \in Nat
  BY Vectors DEF ScanInv, Past
<1>2. ASSUME pixel # NoPixel
      PROVE  /\ pixel.x \in 0..(Columns - 1) /\ pixel.y \in 0..(Rows - 1)
             /\ pixel.start \/ Past <= pixel.x
  BY <1>2 DEF ScanInv, Place
<1>3. CASE pixel = NoPixel
  <2>1. length' = length /\ previous' = previous /\ pattern' = NoPattern
    BY <1>3 DEF RunScan, Continues, Found
  <2>2. QED
    BY <1>1, <1>3, <2>1 DEF Past
<1>4. CASE pixel # NoPixel /\ ~Continues
  <2>1. /\ length' = 1 /\ pattern' = NoPattern
        /\ previous' = IF pixel.start THEN <<0, 0, 0, 0>> ELSE previous
    BY <1>4 DEF RunScan, Found, Continues
  <2>2. CASE pixel.start
    <3>1. previous' = <<0, 0, 0, 0>>
      BY <2>1, <2>2
    <3>2. Past' = 1
      BY <2>1, <3>1 DEF Past
    <3>3. previous' \in Seq(Nat) /\ Len(previous') = 4
      BY <3>1
    <3>4. QED
      BY <1>2, <1>4, <2>1, <3>2, <3>3
  <2>3. CASE ~pixel.start
    <3>1. Past' = 1 + previous[1] + previous[2] + previous[3] + previous[4]
      BY <2>1, <2>3 DEF Past
    <3>2. Past' <= Past + 1
      BY <1>1, <3>1 DEF Past
    <3>3. QED
      BY <1>1, <1>2, <1>4, <2>1, <2>3, <3>1, <3>2
  <2>4. QED
    BY <2>2, <2>3
<1>5. CASE Continues
  <2>1. pixel # NoPixel /\ ~pixel.start
    BY <1>5 DEF Continues
  <2>2. Past <= pixel.x /\ pixel.x \in 0..(Columns - 1) /\ pixel.y \in 0..(Rows - 1)
    BY <1>2, <2>1
  <2>3. /\ length' \in Nat /\ previous' \in Seq(Nat) /\ Len(previous') = 4
        /\ Past' \in Nat /\ Past' <= Past + 1
    <3>1. CASE SameColor
      <4>1. length' = length + 1 /\ previous' = previous
        BY <1>5, <2>1, <3>1 DEF RunScan
      <4>2. QED
        BY <1>1, <4>1 DEF Past
    <3>2. CASE ~SameColor
      <4>1. length' = 1 /\ previous' = Append(Tail(previous), length)
        BY <1>5, <2>1, <3>2 DEF RunScan
      <4>2. /\ previous' \in Seq(Nat) /\ Len(previous') = 4
            /\ previous'[1] = previous[2] /\ previous'[2] = previous[3]
            /\ previous'[3] = previous[4] /\ previous'[4] = length
        BY <1>1, <4>1, FourRuns
      <4>5. Past' = 1 + previous[2] + previous[3] + previous[4] + length
        BY <4>1, <4>2 DEF Past
      <4>6. Past' \in Nat /\ Past' <= Past + 1
        BY <1>1, <4>5 DEF Past
      <4>7. QED
        BY <4>1, <4>2, <4>6
    <3>3. QED
      BY <3>1, <3>2
  <2>4. ASSUME Found PROVE Candidate(pattern')
    <3>1. /\ pattern'.x = pixel.x - length - previous[4] - previous[3] \div 2
          /\ pattern'.y = pixel.y /\ pattern'.total = Total(Five)
      BY <2>4 DEF RunScan
    <3>2. Total(Five) \in Nat /\ Total(Five) >= 7
      <4>1. length + (IF pixel.end /\ SameColor THEN 1 ELSE 0) \in Nat
        BY <1>1
      <4>2. \A i \in 1..5 : Five[i] \in Nat
        BY <1>1, <4>1, FourRuns DEF Five
      <4>3. QED
        BY <2>4, <4>2, RatioSeven DEF Found
    <3>3. /\ previous[3] \div 2 \in Nat /\ previous[3] \div 2 <= previous[3]
      BY <1>1
    <3>4. pattern'.x \in 0..(Columns - 1)
      <4>1. Columns \in Nat /\ pixel.x \in Nat
        BY <2>2, FeatureAssumption DEF Columns
      <4>2. length + previous[4] + previous[3] \div 2 <= Past
        BY <1>1, <3>3 DEF Past
      <4>3. previous[3] \div 2 + length + previous[4] <= pixel.x
        BY <1>1, <2>2, <3>3, <4>1, <4>2
      <4>4. pixel.x <= Columns - 1
        BY <2>2, <4>1
      <4>5. \A c, x, l, p, h \in Nat :
              h + l + p <= x /\ x <= c - 1 => x - l - p - h \in 0..(c - 1)
        OBVIOUS
      <4>6. length \in Nat /\ previous[4] \in Nat
        BY <1>1
      <4>7. QED
        BY <3>1, <3>3, <4>1, <4>3, <4>4, <4>5, <4>6
    <3>5. QED
      BY <2>2, <3>1, <3>2, <3>4 DEF Candidate
  <2>5. pattern' # NoPattern => Found
    BY DEF RunScan
  <2>6. QED
    BY <2>1, <2>2, <2>3, <2>4, <2>5, <1>1
<1>6. QED
  BY <1>3, <1>4, <1>5
-----------------------------------------------------------------------------
\* No error bit has a reason to be raised.
LEMMA NothingRaised ==
  ASSUME PortInv, ScanInv, NEW err \in ScanError
  PROVE  ~Raised(err)
<1>1. ~(pattern # NoPattern /\ pending # NoPattern)
  BY DEF PortInv, WithReader, HandOver, WithCheck, HandBack
<1>2. vccPattern => vcc = "IDLE" /\ pending # NoPattern
  BY DEF PortInv, WithReader, HandOver, WithCheck, HandBack, Quiet
<1>3. vccPattern => Accepts
  BY <1>2, FeatureAssumption DEF ScanInv, Candidate, Accepts, Columns
<1>4. /\ arbiter # "VCC_ACTIVE" => vcc = "IDLE" /\ ~vccDone
      /\ arbiter = "VCC_ACTIVE" => ReaderStopped
  BY DEF PortInv, WithReader, HandOver, WithCheck, HandBack, Quiet
<1>5. /\ arbiter # "VCC_ACTIVE" => vccRead = NoRead
      /\ arbiter = "VCC_ACTIVE" => readerRead = NoRead
  BY <1>4 DEF PortInv, ReaderStopped
<1>6. ~(pixel.end /\ (rowPending \/ rowValid))
  <2>1. NoPixel.end = FALSE
    BY DEF NoPixel
  <2>2. QED
    BY <2>1 DEF PortInv
<1>7. QED
  BY <1>1, <1>2, <1>3, <1>4, <1>5, <1>6 DEF Raised

\* Each edge keeps the scan within the frame and raises no error.
LEMMA ScanInvStep ==
  ASSUME PortInv, ScanInv, NEW start \in BOOLEAN, NEW clear \in BOOLEAN, FrameReader(start),
         start => reader = "IDLE", RunScan, CandidateControl, ScanErrors(clear)
  PROVE  ScanInv'
<1>1. /\ bit' \in 0..(WordBits - 1) /\ wordX' \in 0..(RowWords - 1) /\ rowY' \in 0..(Rows - 1)
      /\ reader' \in {"IDLE", "READ_REQ", "READ_WAIT", "LOAD_WORD", "OUTPUT"}
      /\ reader' \in {"READ_REQ", "READ_WAIT", "LOAD_WORD"} => bit' = 0
      /\ pixel' # NoPixel =>
           /\ pixel'.x = NextPlace /\ NextPlace \in 0..(Columns - 1)
           /\ pixel'.y = rowY /\ pixel'.start = (NextPlace = 0)
           /\ NextPlace' = IF NextPlace = Columns - 1 THEN 0 ELSE NextPlace + 1
      /\ pixel' = NoPixel => NextPlace' \in {0, NextPlace}
  BY ReaderPlace
<1>2. /\ length' \in Nat /\ previous' \in Seq(Nat) /\ Len(previous') = 4
      /\ pixel = NoPixel => Past' = Past
      /\ pixel # NoPixel => Past' <= pixel.x + 1
      /\ pattern' # NoPattern => Candidate(pattern')
  BY RunSteps
<1>3. pixel' # NoPixel =>
        /\ pixel'.x \in 0..(Columns - 1) /\ pixel'.y \in 0..(Rows - 1)
        /\ NextPlace' = IF pixel'.x = Columns - 1 THEN 0 ELSE pixel'.x + 1
  BY <1>1 DEF ScanInv
<1>4. pixel' # NoPixel => pixel'.start = (pixel'.x = 0)
  BY <1>1
<1>5. Place' # 0 => Past' <= Place'
  <2>1. Place' \in {0, NextPlace}
    BY <1>1 DEF Place
  <2>2. CASE pixel = NoPixel
    BY <1>2, <2>1, <2>2 DEF ScanInv, Place
  <2>3. CASE pixel # NoPixel
    <3>1. NextPlace \in {0, pixel.x + 1}
      BY <2>3 DEF ScanInv
    <3>2. QED
      BY <1>2, <2>1, <2>3, <3>1
  <2>4. QED
    BY <2>2, <2>3
<1>6. pending' # NoPattern => Candidate(pending')
  <2>1. pending' \in {pending, pattern, NoPattern}
    BY DEF CandidateControl
  <2>2. QED
    BY <2>1 DEF ScanInv, Candidate
<1>7. errors' = {}
  BY NothingRaised DEF ScanErrors, ScanInv
<1>8. QED
  BY <1>1, <1>2, <1>3, <1>4, <1>5, <1>6, <1>7 DEF ScanInv, Candidate

\* A word that is waited for is the one that is read: the port has the same owner until it
\* has come.
LEMMA OwnWordsStep ==
  ASSUME PortInv, OwnWords, NEW start \in BOOLEAN, NEW ready \in BOOLEAN, FrameReader(start),
         start => reader = "IDLE", Arbiter, CrossCheck(ready), InFrame
  PROVE  OwnWords'
<1>0. addr # NoRead /\ cursor * RowWords + cand.x \div WordBits # NoRead
  <2>1. cursor * RowWords \in Nat /\ cand.x \div WordBits \in Nat
    BY FeatureAssumption DEF InFrame
  <2>2. QED
    BY <2>1 DEF InFrame, NoRead
<1>1. /\ reader \in {"READ_WAIT", "LOAD_WORD"} => arbiter # "VCC_ACTIVE"
      /\ vcc # "IDLE" => arbiter = "VCC_ACTIVE"
  BY DEF PortInv, WithReader, HandOver, WithCheck, HandBack, Quiet, ReaderStopped
<1>2. reader' = "READ_WAIT" => readerRead' = addr'
  BY DEF FrameReader, Requests, Emits
<1>3. reader' = "LOAD_WORD" => reader = "READ_WAIT" /\ addr' = addr
  BY DEF FrameReader, Requests, Emits
<1>4. vcc' = "READ_WAIT" => /\ vcc = "READ_REQ" /\ cursor' = cursor /\ cand' = cand
                            /\ vccRead' = cursor * RowWords + cand.x \div WordBits
  BY DEF CrossCheck, Check
<1>5. vcc' = "READ_CHECK" => vcc = "READ_WAIT" /\ cursor' = cursor /\ cand' = cand
  BY DEF CrossCheck, Check
<1>6. reader' = "LOAD_WORD" => port' = addr'
  BY <1>0, <1>1, <1>3 DEF OwnWords, Arbiter
<1>7. vcc' = "READ_CHECK" => port' = cursor' * RowWords + cand'.x \div WordBits
  BY <1>0, <1>1, <1>5 DEF OwnWords, Arbiter
<1>8. QED
  BY <1>2, <1>4, <1>6, <1>7 DEF OwnWords

\* The cross check walks from the candidate's row to the borders of the frame and not over
\* them.
LEMMA InFrameStep ==
  ASSUME PortInv, ScanInv, InFrame, NEW start \in BOOLEAN, NEW ready \in BOOLEAN,
         FrameReader(start), CrossCheck(ready)
  PROVE  InFrame'
<1>1. addr' \in Nat
  <2>1. addr' \in {0, addr, addr + 1}
    BY DEF FrameReader
  <2>2. QED
    BY <2>1 DEF InFrame
<1>2. CASE vcc = "IDLE" /\ vccPattern /\ Accepts /\ cand' = pending /\ cursor' = pending.y
  <2>1. pending # NoPattern
    BY <1>2 DEF PortInv, WithReader, HandOver, WithCheck, HandBack, Quiet
  <2>2. Candidate(pending)
    BY <2>1 DEF ScanInv
  <2>3. QED
    BY <1>1, <1>2, <2>2 DEF Candidate, InFrame
<1>3. CASE UNCHANGED <<cand, cursor>>
  BY <1>1, <1>3 DEF InFrame
<1>4. CASE Check
  <2>1. cand' = cand
    BY <1>4 DEF Check
  <2>2. CASE Verdict = "on"
    <3>1. cursor # IF Upward THEN 0 ELSE Rows - 1
      BY <2>2 DEF Verdict
    <3>2. cursor' = IF Upward THEN cursor - 1 ELSE cursor + 1
      BY <1>4, <2>2 DEF Check
    <3>3. QED
      BY <1>1, <2>1, <3>1, <3>2, FeatureAssumption DEF InFrame
  <2>3. CASE Verdict = "turn"
    <3>1. cand.y < Rows - 1
      BY <2>3 DEF Verdict
    <3>2. cursor' = cand.y + 1
      BY <1>4, <2>3 DEF Check
    <3>3. QED
      BY <1>1, <2>1, <3>1, <3>2, FeatureAssumption DEF InFrame
  <2>4. CASE Verdict \notin {"on", "turn"}
    <3>1. cursor' = cursor
      BY <1>4, <2>4 DEF Check
    <3>2. QED
      BY <1>1, <2>1, <3>1 DEF InFrame
  <2>5. QED
    BY <2>2, <2>3, <2>4
<1>5. QED
  BY <1>2, <1>3, <1>4 DEF CrossCheck

\* The invariant holds when the scanner comes out of reset,
LEMMA FeatureInit ==
  ASSUME Init
  PROVE  FeatureInv
<1> USE FeatureAssumption DEF Init
<1>1. NoPixel.black = FALSE
  BY DEF NoPixel
<1>2. Colours
  BY <1>1 DEF Colours
<1>3. PortInv
  BY <1>2 DEF PortInv, WithReader, Quiet
<1>4. previous \in Seq(Nat) /\ Len(previous) = 4
  OBVIOUS
<1>5. NextPlace = 0 /\ Place = 0
  BY DEF NextPlace, Place
<1>6. ScanInv
  BY <1>4, <1>5 DEF ScanInv
<1>7. Columns \in Nat \ {0}
  BY DEF Columns
<1>8. OwnWords /\ InFrame
  BY <1>7 DEF OwnWords, InFrame, NoPattern
<1>9. QED
  BY <1>3, <1>6, <1>8 DEF FeatureInv

\* and each edge keeps it.
LEMMA FeatureStep ==
  ASSUME FeatureInv, [Next]_vars
  PROVE  FeatureInv'
<1>1. ASSUME NEW start \in BOOLEAN, NEW ready \in BOOLEAN, NEW clear \in BOOLEAN,
             Edge(start, ready, clear)
      PROVE  FeatureInv'
  <2> DEFINE coreStart == start /\ ~Busy
  <2>1. coreStart \in BOOLEAN /\ (coreStart => reader = "IDLE")
    BY DEF Busy
  <2>2. /\ FrameReader(coreStart) /\ RunScan /\ CandidateControl /\ Arbiter /\ CrossCheck(ready)
        /\ RowDoneControl(coreStart, ready) /\ ScanErrors(clear)
    BY <1>1 DEF Edge
  <2> HIDE DEF coreStart
  <2>3. PortInv'
    BY <2>1, <2>2, PortInvStep DEF FeatureInv
  <2>4. ScanInv'
    BY <2>1, <2>2, ScanInvStep DEF FeatureInv
  <2>5. InFrame'
    BY <2>1, <2>2, InFrameStep DEF FeatureInv
  <2>6. OwnWords'
    BY <2>1, <2>2, OwnWordsStep DEF FeatureInv
  <2>7. QED
    BY <2>3, <2>4, <2>5, <2>6 DEF FeatureInv
<1>2. CASE UNCHANGED vars
  <2>1. UNCHANGED <<readerVars, runVars, controlVars, vccVars, rowVars, errors>>
    BY <1>2 DEF vars
  <2>2. PortInv'
    BY <2>1 DEF FeatureInv, PortInv, Colours, WithReader, HandOver, WithCheck, HandBack, Quiet,
                ReaderStopped, Found, Continues, SameColor, Five, readerVars, runVars,
                controlVars, vccVars, rowVars
  <2>3. ScanInv' /\ InFrame'
    BY <2>1 DEF FeatureInv, ScanInv, InFrame, NextPlace, Place, Past, Candidate, readerVars,
                runVars, controlVars, vccVars
  <2>4. OwnWords'
    BY <2>1 DEF FeatureInv, OwnWords, readerVars, controlVars, vccVars
  <2>5. QED
    BY <2>2, <2>3, <2>4 DEF FeatureInv
<1>3. QED
  BY <1>1, <1>2 DEF Next, Run, Start, ErrorClear, Taken

\* For frames and words of any size the scanner never raises one of its five error bits,
\* when and how often ever the consumer takes events and the host clears errors: the stop
\* at each candidate leaves no second one behind, and none that the cross check refuses.
THEOREM ScansWithoutError == Spec => []NoScanError
<1>1. FeatureInv => NoScanError
  BY DEF FeatureInv, ScanInv, NoScanError
<1>2. QED
  BY <1>1, FeatureInit, FeatureStep, PTL DEF Spec

\* The reader and the cross check never use the memory port at the same time, each gets the
\* word it asked for, and the cross check reads within the frame.
THEOREM PortIsOwned == Spec => [](PortOwned /\ OwnWords /\ InFrame)
<1>1. ASSUME FeatureInv PROVE PortOwned
  <2>1. /\ arbiter # "VCC_ACTIVE" => vcc = "IDLE"
        /\ arbiter = "VCC_ACTIVE" => ReaderStopped
    BY <1>1 DEF FeatureInv, PortInv, WithReader, HandOver, WithCheck, HandBack, Quiet
  <2>2. QED
    BY <1>1, <2>1 DEF FeatureInv, PortInv, PortOwned, ReaderStopped
<1>2. FeatureInv => PortOwned /\ OwnWords /\ InFrame
  BY <1>1 DEF FeatureInv
<1>3. QED
  BY <1>2, FeatureInit, FeatureStep, PTL DEF Spec
-----------------------------------------------------------------------------
\* Lines: the runs of a line, the borders about a place in it, and that a chain of five runs
\* about a place is what Around finds.

\* A set of numbers has a least element,
LEMMA SmallestOf ==
  ASSUME NEW T \in SUBSET Nat, T # {}
  PROVE  \E l \in T : \A m \in T : l <= m
<1> DEFINE R == OpToRel(<, Nat)
<1>1. IsWellFoundedOn(R, Nat)
  BY NatLessThanWellFounded
<1>2. PICK l \in T : \A m \in T : <<m, l>> \notin R
  BY <1>1, WFMin
<1>3. \A m \in T : ~(m < l)
  BY <1>2 DEF OpToRel
<1>4. QED
  BY <1>3

\* A set of integers with a bound has a largest and a smallest member, and these are the ones.
LEMMA MaxOf ==
  ASSUME NEW S \in SUBSET Int, NEW m \in S, \A s \in S : s <= m
  PROVE  F!Max(S) = m
<1>1. \A s \in S : m >= s
  OBVIOUS
<1>2. F!Max(S) \in S /\ \A s \in S : F!Max(S) >= s
  BY <1>1 DEF F!Max
<1>3. F!Max(S) \in Int /\ m \in Int /\ F!Max(S) >= m /\ F!Max(S) <= m
  BY <1>2
<1>4. QED
  BY <1>3

\* and F!Min of a set with a smallest element is that element.
LEMMA MinOf ==
  ASSUME NEW S \in SUBSET Int, NEW m \in S, \A s \in S : m <= s
  PROVE  F!Min(S) = m
<1>1. F!Min(S) \in S /\ \A s \in S : F!Min(S) <= s
  BY DEF F!Min
<1>2. F!Min(S) \in Int /\ m \in Int /\ F!Min(S) <= m /\ F!Min(S) >= m
  BY <1>1
<1>3. QED
  BY <1>2

\* A bounded set of numbers that is not empty has a greatest element,
LEMMA MaxExists ==
  ASSUME NEW S \in SUBSET Int, S # {}, NEW top \in Int, \A s \in S : s <= top
  PROVE  \E m \in S : \A s \in S : s <= m
<1> DEFINE T == {t \in Nat : top - t \in S}
<1>1. T # {}
  <2>1. PICK s \in S : TRUE
    OBVIOUS
  <2>2. top - s \in Nat /\ top - (top - s) = s
    BY <2>1
  <2>3. top - s \in T
    BY <2>2
  <2>4. QED
    BY <2>3
<1>2. PICK l \in T : \A m \in T : l <= m
  BY <1>1, SmallestOf
<1>3. \A s \in S : top - s \in T
  OBVIOUS
<1>4. ASSUME NEW s \in S PROVE s <= top - l
  <2>1. l \in Nat /\ s \in Int /\ l <= top - s
    BY <1>2, <1>3
  <2>2. QED
    BY <2>1
<1>5. QED
  BY <1>2, <1>4

\* and one of numbers has a smallest.
LEMMA MinExists ==
  ASSUME NEW S \in SUBSET Int, S # {}, NEW low \in Int, \A s \in S : low <= s
  PROVE  \E m \in S : \A s \in S : m <= s
<1> DEFINE T == {t \in Nat : low + t \in S}
<1>1. \A s \in S : s - low \in T
  OBVIOUS
<1>2. T # {}
  BY <1>1
<1>3. PICK l \in T : \A m \in T : l <= m
  BY <1>2, SmallestOf
<1>4. ASSUME NEW s \in S PROVE low + l <= s
  <2>1. l \in Nat /\ s \in Int /\ l <= s - low
    BY <1>1, <1>3
  <2>2. QED
    BY <2>1
<1>5. QED
  BY <1>3, <1>4

\* The pixels from a to b - 1 are a run of the line: one colour, and another one on each side.
IsRun(line, n, a, b) ==
  /\ a \in Nat /\ b \in Nat /\ a < b /\ b <= n
  /\ \A i \in a..(b - 1) : line[i] = line[a]
  /\ a # 0 => line[a] # line[a - 1]
  /\ b # n => line[b] # line[b - 1]

\* The borders of a run.
LEMMA RunBorders ==
  ASSUME NEW n \in Nat, NEW line, NEW a, NEW b, IsRun(line, n, a, b), NEW x \in a..(b - 1)
  PROVE  Before(line, n, x + 1) = a /\ After(line, n, x) = b
<1>1. /\ a \in Nat /\ b \in Nat /\ a < b /\ b <= n /\ x \in Nat /\ a <= x /\ x < b
      /\ \A i \in a..(b - 1) : line[i] = line[a]
      /\ a # 0 => line[a] # line[a - 1]
      /\ b # n => line[b] # line[b - 1]
  BY DEF IsRun
<1>2. a \in Borders(line, n) /\ b \in Borders(line, n)
  BY <1>1 DEF Borders
<1>3. ASSUME NEW c \in Borders(line, n) PROVE ~(a < c /\ c < b)
  <2>1. SUFFICES ASSUME a < c, c < b PROVE FALSE
    OBVIOUS
  <2>2. c \in Nat /\ line[c] # line[c - 1]
    BY <1>1, <2>1 DEF Borders
  <2>3. c \in a..(b - 1) /\ c - 1 \in a..(b - 1)
    BY <1>1, <2>1, <2>2
  <2>4. QED
    BY <1>1, <2>2, <2>3
<1>4. Borders(line, n) \subseteq Nat
  BY DEF Borders
<1>5. Before(line, n, x + 1) = a
  <2> DEFINE S == {-1} \cup {c \in Borders(line, n) : c < x + 1}
  <2>1. S \in SUBSET Int /\ a \in S /\ \A s \in S : s <= a
    BY <1>1, <1>2, <1>3, <1>4
  <2> HIDE DEF S
  <2>2. F!Max(S) = a
    BY <2>1, MaxOf
  <2>3. QED
    BY <2>2 DEF Before, S
<1>6. After(line, n, x) = b
  <2> DEFINE S == {n + 1} \cup {c \in Borders(line, n) : c > x}
  <2>1. S \in SUBSET Int /\ b \in S /\ \A s \in S : b <= s
    BY <1>1, <1>2, <1>3, <1>4
  <2> HIDE DEF S
  <2>2. F!Min(S) = b
    BY <2>1, MinOf
  <2>3. QED
    BY <2>2 DEF After, S
<1>7. QED
  BY <1>5, <1>6

\* What Before and After choose.
LEMMA BeforeIs ==
  ASSUME NEW n \in Nat, NEW line, NEW e \in Int
  PROVE  /\ Before(line, n, e) \in Borders(line, n) \cup {-1}
         /\ Before(line, n, e) # -1 => Before(line, n, e) < e
         /\ \A c \in Borders(line, n) : c < e => c <= Before(line, n, e)
<1> DEFINE S == {-1} \cup {c \in Borders(line, n) : c < e}
<1>1. S \in SUBSET Int /\ S # {} /\ \A s \in S : s <= n
  BY DEF Borders
<1>2. PICK m \in S : \A s \in S : s <= m
  <2> HIDE DEF S
  <2>1. QED
    BY <1>1, MaxExists
<1>3. F!Max(S) = m
  <2> HIDE DEF S
  <2>1. QED
    BY <1>1, <1>2, MaxOf
<1>4. Before(line, n, e) = m
  BY <1>3 DEF Before
<1>5. QED
  BY <1>2, <1>4

\* After gives the border that ends a run.
LEMMA AfterIs ==
  ASSUME NEW n \in Nat, NEW line, NEW e \in Int
  PROVE  /\ After(line, n, e) \in Borders(line, n) \cup {n + 1}
         /\ After(line, n, e) # n + 1 => After(line, n, e) > e
         /\ \A c \in Borders(line, n) : c > e => c >= After(line, n, e)
<1> DEFINE S == {n + 1} \cup {c \in Borders(line, n) : c > e}
<1>1. S \in SUBSET Int /\ S # {} /\ \A s \in S : 0 <= s
  BY DEF Borders
<1>2. PICK m \in S : \A s \in S : m <= s
  <2> HIDE DEF S
  <2>1. QED
    BY <1>1, MinExists
<1>3. F!Min(S) = m
  <2> HIDE DEF S
  <2>1. QED
    BY <1>1, <1>2, MinOf
<1>4. After(line, n, e) = m
  BY <1>3 DEF After
<1>5. QED
  BY <1>2, <1>4

\* Between two borders next to each other is a run.
LEMMA BordersRun ==
  ASSUME NEW n \in Nat, NEW line, NEW x \in 0..(n - 1)
  PROVE  /\ IsRun(line, n, Before(line, n, x + 1), After(line, n, x))
         /\ x \in Before(line, n, x + 1)..(After(line, n, x) - 1)
<1> DEFINE a == Before(line, n, x + 1)  b == After(line, n, x)
<1>1. 0 \in Borders(line, n) /\ n \in Borders(line, n)
  BY DEF Borders
<1>2. a \in Borders(line, n) /\ 0 <= a /\ a < x + 1
  BY <1>1, BeforeIs
<1>3. \A c \in Borders(line, n) : c < x + 1 => c <= a
  BY BeforeIs
<1>4. b \in Borders(line, n) /\ x < b /\ b <= n
  <2>1. b <= n
    BY <1>1, AfterIs
  <2>2. QED
    BY <2>1, AfterIs
<1>5. \A c \in Borders(line, n) : c > x => c >= b
  BY AfterIs
<1> HIDE DEF a, b
<1>6. /\ a \in 0..n /\ (a # 0 => a = n \/ line[a] # line[a - 1])
      /\ b \in 0..n /\ (b # n => b = 0 \/ line[b] # line[b - 1])
  BY <1>2, <1>4 DEF Borders
<1>7. ASSUME NEW i \in a..(b - 1) PROVE line[i] = line[a]
  <2> DEFINE T == {c \in Nat : c \in a..(b - 1) /\ line[c] # line[a]}
  <2>1. SUFFICES T = {}
    BY <1>6
  <2>2. SUFFICES ASSUME T # {} PROVE FALSE
    OBVIOUS
  <2>3. PICK c \in T : \A d \in T : c <= d
    BY <2>2, SmallestOf
  <2>4. c \in a..(b - 1) /\ line[c] # line[a] /\ c # a
    BY <2>3
  <2>5. c - 1 \in a..(b - 1) /\ c - 1 \notin T /\ c - 1 \in Nat
    BY <1>6, <2>3, <2>4
  <2>6. line[c - 1] = line[a]
    BY <2>5
  <2>7. c \in Borders(line, n) /\ a < c /\ c < b
    BY <1>6, <2>4, <2>6 DEF Borders
  <2>8. c <= a \/ c >= b
    BY <1>3, <1>5, <1>6, <2>7
  <2>9. QED
    BY <1>6, <2>7, <2>8
<1>8. IsRun(line, n, a, b)
  BY <1>2, <1>4, <1>6, <1>7 DEF IsRun
<1>9. QED
  BY <1>2, <1>4, <1>6, <1>8 DEF a, b

\* Two runs that share a place are one.
LEMMA SameRun ==
  ASSUME NEW n \in Nat, NEW line, NEW a, NEW b, NEW c, NEW d, NEW x,
         IsRun(line, n, a, b), IsRun(line, n, c, d), x \in a..(b - 1), x \in c..(d - 1)
  PROVE  a = c /\ b = d
<1>1. Before(line, n, x + 1) = a /\ After(line, n, x) = b
  BY RunBorders
<1>2. Before(line, n, x + 1) = c /\ After(line, n, x) = d
  BY RunBorders
<1>3. QED
  BY <1>1, <1>2

\* Five runs one after the other.
Chain(line, n, h) ==
  /\ IsRun(line, n, h[1], h[2]) /\ IsRun(line, n, h[2], h[3]) /\ IsRun(line, n, h[3], h[4])
  /\ IsRun(line, n, h[4], h[5]) /\ IsRun(line, n, h[5], h[6])

\* Around finds the five runs about a place,
LEMMA ChainAround ==
  ASSUME NEW n \in Nat, NEW line, NEW h, Chain(line, n, h), NEW x \in h[3]..(h[4] - 1)
  PROVE  Around(line, n, x) = <<h[1], h[2], h[3], h[4], h[5], h[6]>>
<1>1. /\ IsRun(line, n, h[1], h[2]) /\ IsRun(line, n, h[2], h[3]) /\ IsRun(line, n, h[3], h[4])
      /\ IsRun(line, n, h[4], h[5]) /\ IsRun(line, n, h[5], h[6])
  BY DEF Chain
<1>2. /\ h[1] \in Nat /\ h[2] \in Nat /\ h[3] \in Nat /\ h[4] \in Nat /\ h[5] \in Nat
      /\ h[6] \in Nat /\ h[6] <= n
      /\ h[1] < h[2] /\ h[2] < h[3] /\ h[3] < h[4] /\ h[4] < h[5] /\ h[5] < h[6]
  BY <1>1 DEF IsRun
<1>3. Before(line, n, x + 1) = h[3] /\ After(line, n, x) = h[4]
  BY <1>1, RunBorders
<1>4. Before(line, n, h[3]) = h[2]
  <2>1. h[3] - 1 \in h[2]..(h[3] - 1) /\ h[3] - 1 + 1 = h[3]
    BY <1>2
  <2>2. QED
    BY <1>1, <2>1, RunBorders
<1>5. Before(line, n, h[2]) = h[1]
  <2>1. h[2] - 1 \in h[1]..(h[2] - 1) /\ h[2] - 1 + 1 = h[2]
    BY <1>2
  <2>2. QED
    BY <1>1, <2>1, RunBorders
<1>6. After(line, n, h[4]) = h[5]
  <2>1. h[4] \in h[4]..(h[5] - 1)
    BY <1>2
  <2>2. QED
    BY <1>1, <2>1, RunBorders
<1>7. After(line, n, h[5]) = h[6]
  <2>1. h[5] \in h[5]..(h[6] - 1)
    BY <1>2
  <2>2. QED
    BY <1>1, <2>1, RunBorders
<1>8. QED
  BY <1>2, <1>3, <1>4, <1>5, <1>6, <1>7 DEF Around

\* and what it finds are five runs.
LEMMA AroundChain ==
  ASSUME NEW n \in Nat, NEW line, NEW x \in 0..(n - 1), Around(line, n, x) # <<>>
  PROVE  Chain(line, n, Around(line, n, x)) /\ x \in Around(line, n, x)[3]..(Around(line, n, x)[4] - 1)
<1> DEFINE third  == Before(line, n, x + 1)
           second == Before(line, n, third)
           first  == Before(line, n, second)
           fourth == After(line, n, x)
           fifth  == After(line, n, fourth)
           sixth  == After(line, n, fifth)
<1>1. /\ Around(line, n, x) = <<first, second, third, fourth, fifth, sixth>>
      /\ first >= 0 /\ sixth <= n
  BY DEF Around
<1>2. IsRun(line, n, third, fourth) /\ x \in third..(fourth - 1)
  BY BordersRun
<1>3. Borders(line, n) \subseteq 0..n
  BY DEF Borders
<1>4. third \in 0..n /\ fourth \in 0..n /\ third \in Borders(line, n) /\ fourth \in Borders(line, n)
  <2>1. third \in 0..n /\ fourth \in 0..n
    BY <1>2 DEF IsRun
  <2>2. QED
    BY <2>1, BeforeIs, AfterIs
<1> HIDE DEF third, fourth
<1>5. second \in Borders(line, n) /\ second \in 0..n /\ second < third
  <2>1. second \in Borders(line, n) \cup {-1} /\ (second # -1 => second < third)
    BY <1>4, BeforeIs
  <2>2. second # -1
    <3>1. Before(line, n, -1) = -1
      <4>1. Before(line, n, -1) \in Borders(line, n) \cup {-1}
            /\ (Before(line, n, -1) # -1 => Before(line, n, -1) < -1)
        BY BeforeIs
      <4>2. QED
        BY <1>3, <4>1
    <3>2. QED
      BY <1>1, <3>1
  <2>3. QED
    BY <1>3, <2>1, <2>2
<1>6. fifth \in Borders(line, n) /\ fifth \in 0..n /\ fourth < fifth
  <2>1. fifth \in Borders(line, n) \cup {n + 1} /\ (fifth # n + 1 => fifth > fourth)
    BY <1>4, AfterIs
  <2>2. fifth # n + 1
    <3>1. After(line, n, n + 1) = n + 1
      <4>1. After(line, n, n + 1) \in Borders(line, n) \cup {n + 1}
            /\ (After(line, n, n + 1) # n + 1 => After(line, n, n + 1) > n + 1)
        BY AfterIs
      <4>2. QED
        BY <1>3, <4>1
    <3>2. QED
      BY <1>1, <3>1
  <2>3. QED
    BY <1>3, <2>1, <2>2
<1> HIDE DEF second, fifth
<1>7. first \in Borders(line, n) /\ first \in 0..n /\ first < second
  <2>1. first \in Borders(line, n) \cup {-1} /\ (first # -1 => first < second)
    BY <1>5, BeforeIs
  <2>2. QED
    BY <1>1, <1>3, <2>1
<1>8. sixth \in Borders(line, n) /\ sixth \in 0..n /\ fifth < sixth
  <2>1. sixth \in Borders(line, n) \cup {n + 1} /\ (sixth # n + 1 => sixth > fifth)
    BY <1>6, AfterIs
  <2>2. QED
    BY <1>1, <1>3, <2>1
<1> HIDE DEF first, sixth
<1>9. ASSUME NEW b \in Borders(line, n), b \in 1..n
      PROVE  IsRun(line, n, Before(line, n, b), b)
  <2>1. b - 1 \in 0..(n - 1) /\ b - 1 + 1 = b
    BY <1>9
  <2>2. IsRun(line, n, Before(line, n, b), After(line, n, b - 1))
    BY <2>1, BordersRun
  <2>3. After(line, n, b - 1) > b - 1 /\ b >= After(line, n, b - 1)
    <3>1. /\ After(line, n, b - 1) \in Borders(line, n) \cup {n + 1}
          /\ After(line, n, b - 1) # n + 1 => After(line, n, b - 1) > b - 1
          /\ \A c \in Borders(line, n) : c > b - 1 => c >= After(line, n, b - 1)
      BY <2>1, AfterIs
    <3>2. QED
      BY <1>3, <1>9, <3>1
  <2>4. After(line, n, b - 1) = b
    <3>1. After(line, n, b - 1) \in Nat
      BY <2>2 DEF IsRun
    <3>2. QED
      BY <1>9, <2>3, <3>1
  <2>5. QED
    BY <2>2, <2>4
<1>10. ASSUME NEW a \in Borders(line, n), a \in 0..(n - 1)
       PROVE  IsRun(line, n, a, After(line, n, a))
  <2>1. IsRun(line, n, Before(line, n, a + 1), After(line, n, a))
    BY <1>10, BordersRun
  <2>2. Before(line, n, a + 1) = a
    <3>1. /\ Before(line, n, a + 1) # -1 => Before(line, n, a + 1) < a + 1
          /\ \A c \in Borders(line, n) : c < a + 1 => c <= Before(line, n, a + 1)
      BY <1>10, BeforeIs
    <3>2. Before(line, n, a + 1) \in Nat
      BY <2>1 DEF IsRun
    <3>3. QED
      BY <1>10, <3>1, <3>2
  <2>3. QED
    BY <2>1, <2>2
<1>11. IsRun(line, n, second, third)
  BY <1>4, <1>5, <1>9 DEF second
<1>12. IsRun(line, n, first, second)
  BY <1>5, <1>7, <1>9 DEF first
<1>13. IsRun(line, n, fourth, fifth)
  BY <1>4, <1>6, <1>10 DEF fifth
<1>14. IsRun(line, n, fifth, sixth)
  BY <1>6, <1>8, <1>10 DEF sixth
<1>15. QED
  BY <1>1, <1>2, <1>11, <1>12, <1>13, <1>14 DEF Chain
-----------------------------------------------------------------------------
\* The invariants behind HitsAreFinders: where the row stands, what the reader and the run
\* counters know of it, how far the cross check has walked, what flies and what was offered.

\* Where the reader is when the row rowsTaken has been read.
NextRow == IF rowsTaken = Rows - 1 THEN reader = "IDLE"
           ELSE reader = "READ_REQ" /\ rowY = rowsTaken + 1 /\ NextPlace = 0

\* The stages of a row: it is read, its last pixel is on offer, its ROW_DONE waits for what is
\* under way or is on offer; and after the last row and between frames there is none.
Reading == /\ frameActive /\ ~rowPending /\ ~rowValid /\ ~doneValid /\ reader # "IDLE"
           /\ rowY = rowsTaken
           /\ pixel # NoPixel => ~pixel.end /\ pixel.y = rowsTaken
Ending == /\ frameActive /\ ~rowPending /\ ~rowValid /\ ~doneValid /\ NextRow
          /\ pixel # NoPixel /\ pixel.end /\ pixel.y = rowsTaken
Closing == /\ frameActive /\ rowPending = ~rowValid /\ ~doneValid /\ NextRow
           /\ pixel = NoPixel /\ rowLine = rowsTaken
           /\ rowValid => Settled
Ended == /\ frameActive /\ ~rowPending /\ ~rowValid /\ rowsTaken = Rows
         /\ reader = "IDLE" /\ pixel = NoPixel /\ Settled
Waiting == /\ ~frameActive /\ ~rowPending /\ ~rowValid /\ ~doneValid /\ ~lastRowSeen
           /\ reader = "IDLE" /\ pixel = NoPixel /\ Settled

\* A row is in one of its stages, and a pixel ends its line in the last column.
RowsInv ==
  /\ {frameActive, rowPending, rowValid, doneValid, lastRowSeen} \subseteq BOOLEAN
  /\ rowsTaken \in 0..Rows
  /\ pixel # NoPixel => pixel.end = (pixel.x = Columns - 1)
  /\ lastRowSeen => rowsTaken = Rows
  /\ Reading \/ Ending \/ Closing \/ Ended \/ Waiting
  /\ Reading \/ Ending \/ Closing => rowsTaken < Rows

\* The words read are those of the row, and a pixel has its colour.
AddrInv ==
  /\ reader # "IDLE" => addr = rowY * RowWords + wordX
  /\ reader = "OUTPUT" => word = addr
  /\ pixel # NoPixel => pixel.black = (<<pixel.x, pixel.y>> \in Images[image])

\* The pixels of the row that have gone into its runs.
At == IF rowPending \/ rowValid THEN Columns ELSE Place

\* The row is not yet closed.
InRow == Reading \/ Ending

\* One colour from a to b - 1, and another one before.
Line(y) == [i \in 0..(Columns - 1) |-> <<i, y>> \in Images[image]]
Open(line, a, b) ==
  /\ a \in Nat /\ b \in Nat /\ a < b
  /\ \A i \in a..(b - 1) : line[i] = line[a]
  /\ a # 0 => line[a] # line[a - 1]

\* The last runs of a line before e: the one that is open, of the given length, and as many
\* as are counted of the previous ones; all of them if there are fewer than four.
RunsAre(line, e, len, p, c) ==
  LET fifth  == e - len
      fourth == fifth - p[4]
      third  == fourth - p[3]
      second == third - p[2]
      first  == second - p[1]
  IN /\ c \in 0..4 /\ Open(line, fifth, e)
     /\ c >= 1 => Open(line, fourth, fifth)
     /\ c >= 2 => Open(line, third, fourth)
     /\ c >= 3 => Open(line, second, third)
     /\ c >= 4 => Open(line, first, second)
     /\ c = 0 => fifth = 0
     /\ c = 1 => fourth = 0
     /\ c = 2 => third = 0
     /\ c = 3 => second = 0

\* The run counters are the last runs of what has been read of the row.
RunInv ==
  InRow /\ At # 0 =>
    /\ runActive /\ black = Line(rowsTaken)[At - 1]
    /\ RunsAre(Line(rowsTaken), At, length, previous, completed)

\* The candidate that the cross check has not decided.
Undecided == /\ pending # NoPattern
             /\ \/ vcc \in {"READ_REQ", "READ_WAIT", "READ_CHECK", "RATIO"}
                \/ vcc = "IDLE" /\ control # "WAIT_DONE"

\* The control waits for the cross check to begin just when it does, with the candidate.
ControlInv ==
  /\ vcc \in {"IDLE", "READ_REQ", "READ_WAIT", "READ_CHECK", "RATIO", "EVENT"}
  /\ control = "WAIT_BUSY" => IF vccPattern THEN vcc = "IDLE" ELSE vcc = "READ_REQ"
  /\ vcc # "IDLE" => cand = pending /\ pending # NoPattern

\* The candidate that has been found and not been decided, if there is one.
Flyer == IF pattern # NoPattern THEN pattern ELSE pending
Flying == pattern # NoPattern \/ Undecided

\* A pattern ends at a border; it has been passed when the pixel behind its end has been read,
\* or the whole row; and reading order.
EndOf(x, y) == RowRuns(x, y)[6]
Passed(y, e) == y < rowsTaken \/ (y = rowsTaken /\ (e \in 0..(At - 1) \/ At = Columns))
Earlier(p, q) == p.y < q.y \/ (p.y = q.y /\ p.x < q.x)

\* What flies is a pattern of the row, later than each that was offered.
FlightInv ==
  Flying => /\ Across(Flyer.x, Flyer.y) /\ Flyer.total = RowSpan(Flyer.x, Flyer.y)
            /\ Flyer.y = rowsTaken /\ Passed(Flyer.y, EndOf(Flyer.x, Flyer.y))
            /\ \A k \in 1..Len(sent) : Earlier(sent[k], Flyer)

\* A HIT that has been offered: a finder centre of what has been read, and the k-th one at most.
Pixels == [x : 0..(Columns - 1), y : 0..(Rows - 1)]
Entry(q, k) == /\ Finder(q.x, q.y) /\ Passed(q.y, EndOf(q.x, q.y))
               /\ k <= (q.y * Columns) + q.x + 1
Listed(x, y) == \E k \in 1..Len(sent) : sent[k] = [x |-> x, y |-> y]

\* The HITs are the finder centres that have been passed, but for the one that flies, in order.
SentInv ==
  /\ sent \in Seq(Pixels)
  /\ \A k \in 1..Len(sent) : Entry(sent[k], k)
  /\ \A j, k \in 1..Len(sent) : j < k => Earlier(sent[j], sent[k])
  /\ frameActive => \A x \in 0..(Columns - 1), y \in 0..(Rows - 1) :
       Finder(x, y) /\ Passed(y, EndOf(x, y)) =>
         (Flying /\ Flyer.x = x /\ Flyer.y = y) \/ Listed(x, y)

\* The borders of the runs of a column about place y, from their lengths.
Third(y, c) == y + 1 - c[1]
Second(y, c) == Third(y, c) - c[2]
First(y, c) == Second(y, c) - c[3]
Fourth(y, c) == y + 1 + c[4]
Fifth(y, c) == Fourth(y, c) + c[5]
Sixth(y, c) == Fifth(y, c) + c[6]

\* The place that is looked at next in phase p.
Ahead(y, c, p) == IF p <= 3 THEN First(y, c) - 1 ELSE Sixth(y, c)

\* One colour from a to b - 1.
Same(line, a, b, colour) == \A i \in a..(b - 1) : line[i] = colour

\* The runs of a line about place y as far as they have been walked: up to phase p.
Stretches(line, y, c) ==
  /\ Same(line, Third(y, c), y + 1, TRUE) /\ Same(line, Second(y, c), Third(y, c), FALSE)
  /\ Same(line, First(y, c), Second(y, c), TRUE) /\ Same(line, y + 1, Fourth(y, c), TRUE)
  /\ Same(line, Fourth(y, c), Fifth(y, c), FALSE) /\ Same(line, Fifth(y, c), Sixth(y, c), TRUE)
\* Where the walk went from one phase to the next the colour changed.
Turns(line, n, y, c, p) ==
  /\ p >= 2 => Third(y, c) > 0 /\ c[1] > 0 /\ line[Third(y, c) - 1] = FALSE
  /\ p >= 3 => Second(y, c) > 0 /\ c[2] > 0 /\ line[Second(y, c) - 1] = TRUE
  /\ p >= 4 => /\ First(y, c) >= 0 /\ c[3] > 0
               /\ First(y, c) > 0 => line[First(y, c) - 1] = FALSE
  /\ p >= 5 => Fourth(y, c) < n /\ line[Fourth(y, c)] = FALSE
  /\ p >= 6 => Fifth(y, c) < n /\ c[5] > 0 /\ line[Fifth(y, c)] = TRUE
\* Only the counters of the phases up to p have counted.
Counted(n, y, c, p) ==
  /\ p \in 1..6 /\ y \in 0..(n - 1)
  /\ \A k \in 1..6 : c[k] \in Nat /\ (k > p => c[k] = 0)
\* All of this: the walk about y, black itself, has come to phase p.
Walked(line, n, y, c, p) ==
  Counted(n, y, c, p) /\ line[y] = TRUE /\ Stretches(line, y, c) /\ Turns(line, n, y, c, p)

\* A pixel has the colour of the run of the phase, or the other one.
Fits(line, a, p) == (p \in {2, 5} => line[a] = FALSE) /\ (p \notin {2, 5} => line[a] = TRUE)
Differs(line, a, p) == (p \in {2, 5} => line[a] = TRUE) /\ (p \notin {2, 5} => line[a] = FALSE)

\* The line of a column, and that the cross check walks along it.
ColumnLine(x) == [i \in 0..(Rows - 1) |-> <<x, i>> \in Images[image]]
Walking == vcc \in {"READ_REQ", "READ_WAIT", "READ_CHECK"}

\* What the cross check has counted is what it has walked of its column, shorter than the
\* limit, and it looks at the next pixel; when it comes to the ratio it has all six runs.
CheckInv ==
  /\ Walking \/ vcc = "RATIO" =>
       /\ Walked(ColumnLine(cand.x), Rows, cand.y, counts, phase)
       /\ counts[1] + counts[2] + counts[3] < MaxSpan
       /\ counts[4] + counts[5] + counts[6] < MaxSpan
       /\ DOMAIN counts = 1..6
  /\ Walking => cursor = Ahead(cand.y, counts, phase)
  /\ vcc = "RATIO" =>
       /\ phase = 6 /\ counts[6] > 0 /\ Sixth(cand.y, counts) <= Rows
       /\ Sixth(cand.y, counts) < Rows =>
            ColumnLine(cand.x)[Sixth(cand.y, counts)] = FALSE
-----------------------------------------------------------------------------
\* RowsInv: from the first pixel of a row to its ROW_DONE.

\* What the reader does when it starts, when it offers a pixel, and else.
LEMMA ReaderStarts ==
  ASSUME ScanInv, FrameReader(TRUE), reader = "IDLE"
  PROVE  /\ reader' = "READ_REQ" /\ pixel' = NoPixel /\ rowY' = 0 /\ wordX' = 0 /\ addr' = 0
         /\ NextPlace' = 0
<1> USE FeatureAssumption
<1>1. reader' = "READ_REQ" /\ pixel' = NoPixel /\ rowY' = 0 /\ wordX' = 0 /\ addr' = 0 /\ bit' = 0
  BY DEF FrameReader, Emits, Requests
<1>2. NextPlace' = 0
  BY <1>1 DEF NextPlace
<1>3. QED
  BY <1>1, <1>2

\* An offered pixel is the next one of the row; behind the last one the next row begins.
LEMMA ReaderOffers ==
  ASSUME ScanInv, FrameReader(FALSE), Emits
  PROVE  /\ NextPlace \in 0..(Columns - 1) /\ pixel' # NoPixel
         /\ pixel'.x = NextPlace /\ pixel'.y = rowY /\ pixel'.start = (NextPlace = 0)
         /\ pixel'.end = (NextPlace = Columns - 1) /\ pixel'.black = Dark(word, bit)
         /\ NextPlace' = IF NextPlace = Columns - 1 THEN 0 ELSE NextPlace + 1
         /\ NextPlace # Columns - 1 => reader' # "IDLE" /\ rowY' = rowY
         /\ NextPlace = Columns - 1 =>
              IF rowY = Rows - 1 THEN reader' = "IDLE"
              ELSE reader' = "READ_REQ" /\ rowY' = rowY + 1 /\ NextPlace' = 0
         /\ word' = word /\ image' = image
<1> USE FeatureAssumption
<1>1. /\ bit \in 0..(WordBits - 1) /\ wordX \in 0..(RowWords - 1) /\ rowY \in 0..(Rows - 1)
  BY DEF ScanInv
<1>2. /\ NextPlace \in 0..(Columns - 1)
      /\ NextPlace = 0 <=> wordX = 0 /\ bit = 0
      /\ NextPlace = Columns - 1 <=> LineEnd
  <2>1. /\ wordX * WordBits + bit \in 0..(Columns - 1)
        /\ wordX * WordBits + bit = 0 <=> wordX = 0 /\ bit = 0
        /\ wordX * WordBits + bit = Columns - 1 <=> wordX = RowWords - 1 /\ bit = WordBits - 1
        /\ (wordX + 1) * WordBits = wordX * WordBits + WordBits
    BY <1>1, Columning
  <2>2. NextPlace = wordX * WordBits + bit
    BY DEF NextPlace
  <2>3. LineEnd <=> wordX = RowWords - 1 /\ bit = WordBits - 1
    BY DEF LineEnd, LastBit
  <2>4. QED
    BY <2>1, <2>2, <2>3
<1>3. pixel' = [black |-> Dark(word, bit), x |-> NextPlace, y |-> rowY,
                start |-> wordX = 0 /\ bit = 0, end |-> LineEnd]
  BY DEF FrameReader, NextPlace
<1>4. /\ pixel'.x = NextPlace /\ pixel'.y = rowY /\ pixel'.black = Dark(word, bit)
      /\ pixel'.start = (wordX = 0 /\ bit = 0) /\ pixel'.end = LineEnd
  BY <1>3
<1>5. pixel'.start = (NextPlace = 0)
  BY <1>2, <1>4
<1>6. pixel'.end = (NextPlace = Columns - 1)
  <2>1. LineEnd = (NextPlace = Columns - 1)
    <3>1. LineEnd \in BOOLEAN
      BY DEF LineEnd
    <3>2. QED
      BY <1>2, <3>1
  <2>2. QED
    BY <1>4, <2>1
<1>7. pixel' # NoPixel
  BY <1>2, <1>4 DEF NoPixel
<1>8. NextPlace' = IF NextPlace = Columns - 1 THEN 0 ELSE NextPlace + 1
  BY <1>7, ReaderPlace
<1>9. reader = "OUTPUT"
  BY DEF Emits
<1>10. reader' = IF LastBit THEN IF LineEnd /\ rowY = Rows - 1 THEN "IDLE" ELSE "READ_REQ"
                 ELSE "OUTPUT"
  BY <1>9 DEF FrameReader, Requests
<1>11. rowY' = IF LineEnd /\ rowY < Rows - 1 THEN rowY + 1 ELSE rowY
  BY <1>9 DEF FrameReader
<1>12. LineEnd => LastBit
  BY DEF LineEnd
<1>13. word' = word /\ image' = image
  BY <1>9 DEF FrameReader
<1>14. NextPlace # Columns - 1 => reader' # "IDLE" /\ rowY' = rowY
  BY <1>2, <1>10, <1>11
<1>15. ASSUME NextPlace = Columns - 1
       PROVE  IF rowY = Rows - 1 THEN reader' = "IDLE"
              ELSE reader' = "READ_REQ" /\ rowY' = rowY + 1 /\ NextPlace' = 0
  <2>1. LineEnd /\ LastBit
    BY <1>2, <1>12, <1>15
  <2>2. CASE rowY = Rows - 1
    BY <1>10, <2>1, <2>2
  <2>3. CASE rowY # Rows - 1
    BY <1>1, <1>8, <1>10, <1>11, <1>15, <2>1, <2>3
  <2>4. QED
    BY <2>2, <2>3
<1>16. QED
  BY <1>2, <1>4, <1>5, <1>6, <1>7, <1>8, <1>13, <1>14, <1>15

\* A reader that offers nothing stays where it is.
LEMMA ReaderWaits ==
  ASSUME ScanInv, FrameReader(FALSE), ~Emits
  PROVE  /\ pixel' = NoPixel /\ NextPlace' = NextPlace /\ rowY' = rowY /\ wordX' = wordX
         /\ addr' = addr /\ image' = image
         /\ reader = "IDLE" <=> reader' = "IDLE"
         /\ Pause /\ reader = "READ_REQ" => reader' = "READ_REQ"
         /\ reader' = "OUTPUT" => IF reader = "LOAD_WORD" THEN word' = port
                                  ELSE reader = "OUTPUT" /\ word' = word
<1>1. pixel' = NoPixel /\ rowY' = rowY /\ wordX' = wordX /\ addr' = addr /\ image' = image
  BY DEF FrameReader
<1>2. bit' = bit
  BY DEF FrameReader, ScanInv
<1>3. NextPlace' = NextPlace
  BY <1>1, <1>2 DEF NextPlace
<1>4. reader = "IDLE" <=> reader' = "IDLE"
  BY DEF FrameReader, Requests, ScanInv
<1>5. Pause /\ reader = "READ_REQ" => reader' = "READ_REQ"
  BY DEF FrameReader, Requests, Emits
<1>6. reader' = "OUTPUT" => IF reader = "LOAD_WORD" THEN word' = port
                            ELSE reader = "OUTPUT" /\ word' = word
  BY DEF FrameReader, Requests, Emits, ScanInv
<1>7. QED
  BY <1>1, <1>3, <1>4, <1>5, <1>6

\* With nothing under way and no pixel on offer, nothing gets under way.
LEMMA SettledStays ==
  ASSUME PortInv, Settled, pixel = NoPixel, RunScan, CandidateControl, Arbiter,
         NEW ready \in BOOLEAN, CrossCheck(ready)
  PROVE  Settled'
<1>1. pattern = NoPattern /\ pending = NoPattern /\ arbiter = "READER" /\ vcc = "IDLE"
  BY DEF Settled, Request
<1>2. ~vccPattern /\ control = "IDLE"
  BY <1>1 DEF PortInv, WithReader, HandOver, WithCheck, HandBack, Quiet
<1>3. pattern' = NoPattern
  BY DEF RunScan, Found, Continues
<1>4. pending' = NoPattern
  BY <1>1, <1>2 DEF CandidateControl
<1>5. arbiter' = "READER"
  BY <1>1 DEF Arbiter, Request
<1>6. vcc' = "IDLE"
  BY <1>1, <1>2, CheckStarts
<1>7. QED
  BY <1>3, <1>4, <1>5, <1>6 DEF Settled, Request

\* One edge of all blocks, without the error bits and the HITs.
Block(start, ready) ==
  /\ FrameReader(start) /\ RunScan /\ CandidateControl /\ Arbiter /\ CrossCheck(ready)
  /\ RowDoneControl(start, ready)
  /\ rowsTaken' = CASE start -> 0 [] rowValid /\ ready -> rowsTaken + 1 [] OTHER -> rowsTaken
  /\ start => ~Busy

RowFlags == {frameActive, rowPending, rowValid, doneValid, lastRowSeen} \subseteq BOOLEAN

\* The flags stay flags.
LEMMA RowFlagsStep ==
  ASSUME NEW start \in BOOLEAN, NEW ready \in BOOLEAN, RowDoneControl(start, ready), RowFlags
  PROVE  RowFlags'
<1>1. frameActive' \in BOOLEAN /\ doneValid' \in BOOLEAN /\ lastRowSeen' \in BOOLEAN
  BY DEF RowDoneControl
<1>2. rowPending' \in BOOLEAN
  BY DEF RowDoneControl
<1>3. rowValid' \in BOOLEAN
  BY DEF RowDoneControl
<1>4. QED
  BY <1>1, <1>2, <1>3 DEF RowFlags

\* Between frames nothing happens until a start, which begins the first row.
LEMMA RowsWaiting ==
  ASSUME PortInv, ScanInv, RowsInv, Waiting, NEW start \in BOOLEAN, NEW ready \in BOOLEAN,
         Block(start, ready)
  PROVE  /\ IF start THEN Reading' /\ rowsTaken' = 0 ELSE Waiting' /\ rowsTaken' = rowsTaken
         /\ ~lastRowSeen'
<1>1. ~pixel.end
  BY DEF Waiting, NoPixel
<1>2. /\ frameActive' = start /\ ~rowPending' /\ ~rowValid' /\ ~doneValid' /\ ~lastRowSeen'
  <2>1. ~rowPending' /\ ~rowValid'
    BY <1>1 DEF Block, RowDoneControl, Waiting
  <2>2. frameActive' = start
    BY DEF Block, RowDoneControl, Waiting
  <2>3. ~doneValid' /\ ~lastRowSeen'
    BY DEF Block, RowDoneControl, Waiting
  <2>4. QED
    BY <2>1, <2>2, <2>3
<1>3. CASE start
  <2>1. reader' = "READ_REQ" /\ pixel' = NoPixel /\ rowY' = 0
    BY <1>3, ReaderStarts DEF Block, Waiting
  <2>2. rowsTaken' = 0
    BY <1>3 DEF Block, Waiting
  <2>3. QED
    BY <1>2, <1>3, <2>1, <2>2 DEF Reading
<1>4. CASE ~start
  <2>1. reader' = "IDLE" /\ pixel' = NoPixel
    BY <1>4, ReaderWaits DEF Block, Waiting, Emits
  <2>2. Settled'
    BY SettledStays DEF Block, Waiting
  <2>3. rowsTaken' = rowsTaken
    BY <1>4 DEF Block, Waiting
  <2>4. QED
    BY <1>2, <1>4, <2>1, <2>2, <2>3 DEF Waiting
<1>5. QED
  BY <1>2, <1>3, <1>4

\* A row is read until its last pixel is on offer,
LEMMA RowsReading ==
  ASSUME PortInv, ScanInv, RowsInv, Reading, NEW start \in BOOLEAN, NEW ready \in BOOLEAN,
         Block(start, ready)
  PROVE  /\ Reading' \/ Ending'
         /\ ~lastRowSeen' /\ rowsTaken' = rowsTaken /\ ~start
         /\ pixel' # NoPixel => pixel'.end = (pixel'.x = Columns - 1)
<1>1. ~start
  BY DEF Block, Busy, Reading
<1>2. ~pixel.end
  BY DEF Reading, NoPixel
<1>3. rowsTaken < Rows /\ ~lastRowSeen
  BY DEF RowsInv
<1>4. frameActive' /\ ~rowPending' /\ ~rowValid' /\ ~doneValid' /\ ~lastRowSeen'
  <2>1. ~rowPending' /\ ~rowValid'
    BY <1>2 DEF Block, RowDoneControl, Reading
  <2>2. frameActive'
    BY DEF Block, RowDoneControl, Reading
  <2>3. ~doneValid' /\ ~lastRowSeen'
    BY <1>3 DEF Block, RowDoneControl, Reading
  <2>4. QED
    BY <2>1, <2>2, <2>3
<1>5. rowsTaken' = rowsTaken
  BY <1>1 DEF Block, Reading
<1>6. FrameReader(FALSE)
  BY <1>1 DEF Block
<1>7. CASE Emits
  <2>1. pixel' # NoPixel /\ pixel'.y = rowsTaken' /\ pixel'.x = NextPlace
        /\ pixel'.end = (NextPlace = Columns - 1)
    BY <1>5, <1>6, <1>7, ReaderOffers DEF Reading
  <2>2. CASE NextPlace # Columns - 1
    <3>1. reader' # "IDLE" /\ rowY' = rowY
      BY <1>6, <1>7, <2>2, ReaderOffers
    <3>2. QED
      BY <1>1, <1>4, <1>5, <2>1, <2>2, <3>1 DEF Reading
  <2>3. CASE NextPlace = Columns - 1
    <3>1. NextRow'
      BY <1>5, <1>6, <1>7, <2>3, ReaderOffers DEF NextRow, Reading
    <3>2. QED
      BY <1>1, <1>4, <1>5, <2>1, <2>3, <3>1 DEF Ending
  <2>4. QED
    BY <2>2, <2>3
<1>8. CASE ~Emits
  <2>1. pixel' = NoPixel /\ rowY' = rowY /\ reader' # "IDLE"
    BY <1>6, <1>8, ReaderWaits DEF Reading
  <2>2. QED
    BY <1>1, <1>4, <1>5, <2>1 DEF Reading
<1>9. QED
  BY <1>7, <1>8

\* and then it is closed.
LEMMA RowsEnding ==
  ASSUME PortInv, ScanInv, RowsInv, Ending, NEW start \in BOOLEAN, NEW ready \in BOOLEAN,
         Block(start, ready)
  PROVE  /\ Closing' /\ rowPending' /\ ~lastRowSeen' /\ rowsTaken' = rowsTaken /\ ~start
<1>1. ~start
  BY DEF Block, Busy, Ending
<1>3. rowsTaken < Rows /\ ~lastRowSeen
  BY DEF RowsInv
<1>4. frameActive' /\ rowPending' /\ ~rowValid' /\ ~doneValid' /\ ~lastRowSeen'
  <2>1. rowPending' /\ ~rowValid'
    BY DEF Block, RowDoneControl, Ending
  <2>2. frameActive'
    BY DEF Block, RowDoneControl, Ending
  <2>3. ~doneValid' /\ ~lastRowSeen'
    BY <1>3 DEF Block, RowDoneControl, Ending
  <2>4. QED
    BY <2>1, <2>2, <2>3
<1>5. rowsTaken' = rowsTaken
  BY <1>1 DEF Block, Ending
<1>6. FrameReader(FALSE) /\ ~Emits /\ Pause
  BY <1>1 DEF Block, Emits, Pause, RowPause, Ending
<1>7. NextRow' /\ pixel' = NoPixel
  BY <1>5, <1>6, ReaderWaits DEF NextRow, Ending
<1>8. rowLine' = rowsTaken'
  BY <1>5 DEF Block, RowDoneControl, Ending
<1>9. QED
  BY <1>1, <1>4, <1>5, <1>7, <1>8 DEF Closing

\* A closed row is reported, and when the report is taken the next one begins or the frame ends.
LEMMA RowsClosing ==
  ASSUME PortInv, ScanInv, RowsInv, Closing, NEW start \in BOOLEAN, NEW ready \in BOOLEAN,
         Block(start, ready)
  PROVE  /\ ~start
         /\ IF rowValid /\ ready
            THEN /\ rowsTaken' = rowsTaken + 1 /\ ~rowPending' /\ ~rowValid' /\ ~doneValid'
                 /\ IF rowsTaken = Rows - 1 THEN Ended' ELSE Reading' /\ ~lastRowSeen'
            ELSE Closing' /\ rowsTaken' = rowsTaken /\ ~lastRowSeen'
         /\ pixel' = NoPixel
<1>1. ~start
  BY DEF Block, Busy, Closing
<1>2. pixel = NoPixel /\ ~pixel.end
  BY DEF Closing, NoPixel
<1>3. rowsTaken \in Nat /\ Rows \in Nat /\ rowsTaken < Rows /\ ~lastRowSeen
  BY FeatureAssumption DEF RowsInv
<1>4. frameActive' /\ ~doneValid'
  BY <1>3 DEF Block, RowDoneControl, Closing
<1>6. FrameReader(FALSE) /\ ~Emits /\ Pause
  BY <1>1 DEF Block, Emits, Pause, RowPause, Closing
<1>7. /\ pixel' = NoPixel /\ NextPlace' = NextPlace /\ rowY' = rowY
      /\ reader = "IDLE" => reader' = "IDLE"
      /\ reader = "READ_REQ" => reader' = "READ_REQ"
  BY <1>6, ReaderWaits
<1>8. rowLine' = rowsTaken
  BY <1>1, <1>2 DEF Block, RowDoneControl, Closing
<1>9. Settled => Settled'
  BY <1>2, SettledStays DEF Block
<1>10. CASE rowValid /\ ready
  <2>1. ~rowPending' /\ ~rowValid'
    BY <1>1, <1>2, <1>10 DEF Block, RowDoneControl, Closing
  <2>2. rowsTaken' = rowsTaken + 1
    BY <1>1, <1>10 DEF Block
  <2>3. CASE rowsTaken = Rows - 1
    <3>1. Settled'
      BY <1>9, <1>10 DEF Closing
    <3>2. reader' = "IDLE"
      BY <1>7, <2>3 DEF Closing, NextRow
    <3>3. QED
      BY <1>1, <1>3, <1>4, <1>7, <1>10, <2>1, <2>2, <2>3, <3>1, <3>2 DEF Ended
  <2>4. CASE rowsTaken # Rows - 1
    <3>1. reader' = "READ_REQ" /\ rowY' = rowsTaken + 1
      BY <1>7, <2>4 DEF Closing, NextRow
    <3>2. ~lastRowSeen'
      BY <1>3, <2>4 DEF Block, RowDoneControl, Closing
    <3>3. QED
      BY <1>1, <1>4, <1>7, <1>10, <2>1, <2>2, <2>4, <3>1, <3>2 DEF Reading
  <2>5. QED
    BY <2>3, <2>4
<1>11. CASE ~(rowValid /\ ready)
  <2>1. rowsTaken' = rowsTaken
    BY <1>1, <1>11 DEF Block
  <2>2. ~lastRowSeen'
    BY <1>3, <1>11 DEF Block, RowDoneControl
  <2>3. rowPending' = ~rowValid' /\ (rowValid' => Settled)
    <3>1. CASE rowValid
      BY <1>1, <1>2, <1>11, <3>1 DEF Block, RowDoneControl, Closing
    <3>2. CASE ~rowValid /\ Settled
      BY <1>1, <1>2, <1>11, <3>2 DEF Block, RowDoneControl, Closing
    <3>3. CASE ~rowValid /\ ~Settled
      BY <1>1, <1>2, <1>11, <3>3 DEF Block, RowDoneControl, Closing
    <3>4. QED
      BY <3>1, <3>2, <3>3
  <2>4. NextRow'
    BY <1>7, <2>1 DEF Closing, NextRow
  <2>5. QED
    BY <1>1, <1>4, <1>7, <1>8, <1>9, <1>11, <2>1, <2>2, <2>3, <2>4 DEF Closing
<1>12. QED
  BY <1>7, <1>10, <1>11

\* After the last row the end of the frame is reported.
LEMMA RowsEnded ==
  ASSUME PortInv, ScanInv, RowsInv, Ended, NEW start \in BOOLEAN, NEW ready \in BOOLEAN,
         Block(start, ready)
  PROVE  /\ ~start /\ rowsTaken' = rowsTaken /\ pixel' = NoPixel
         /\ ~rowPending' /\ ~rowValid'
         /\ IF doneValid /\ ready THEN Waiting' ELSE Ended'
<1>1. ~start
  BY DEF Block, Busy, Ended
<1>2. pixel = NoPixel /\ ~pixel.end
  BY DEF Ended, NoPixel
<1>3. FrameReader(FALSE) /\ ~Emits
  BY <1>1 DEF Block, Emits, Ended
<1>4. pixel' = NoPixel /\ reader' = "IDLE"
  BY <1>3, ReaderWaits DEF Ended
<1>5. Settled'
  BY <1>2, SettledStays DEF Block, Ended
<1>6. rowsTaken' = rowsTaken
  BY <1>1 DEF Block, Ended
<1>7. ~rowPending' /\ ~rowValid'
  BY <1>1, <1>2 DEF Block, RowDoneControl, Ended
<1>8. CASE doneValid /\ ready
  <2>1. ~frameActive' /\ ~doneValid' /\ ~lastRowSeen'
    BY <1>8 DEF Block, RowDoneControl
  <2>2. QED
    BY <1>1, <1>4, <1>5, <1>6, <1>7, <1>8, <2>1 DEF Waiting
<1>9. CASE ~(doneValid /\ ready)
  <2>1. frameActive'
    BY <1>9 DEF Block, RowDoneControl, Ended
  <2>2. QED
    BY <1>1, <1>4, <1>5, <1>6, <1>7, <1>9, <2>1 DEF Ended
<1>10. QED
  BY <1>8, <1>9

\* Each edge keeps a row in one of these stages.
LEMMA RowsInvStep ==
  ASSUME PortInv, ScanInv, RowsInv, NEW start \in BOOLEAN, NEW ready \in BOOLEAN,
         Block(start, ready)
  PROVE  RowsInv'
<1>1. RowFlags'
  BY RowFlagsStep DEF Block, RowsInv, RowFlags
<1>2. Rows \in Nat \ {0} /\ rowsTaken \in 0..Rows
  BY FeatureAssumption DEF RowsInv
<1>3. CASE Waiting
  <2>1. (IF start THEN Reading' /\ rowsTaken' = 0 ELSE Waiting' /\ rowsTaken' = rowsTaken)
        /\ ~lastRowSeen' /\ pixel' = NoPixel
    <3>1. pixel' = NoPixel
      BY <1>3 DEF Block, FrameReader, Waiting, Emits
    <3>2. QED
      BY <1>3, <3>1, RowsWaiting
  <2>2. ~start => ~Reading' /\ ~Ending' /\ ~Closing'
    BY <2>1 DEF Waiting, Reading, Ending, Closing
  <2>3. QED
    BY <1>1, <1>2, <2>1, <2>2 DEF RowsInv, RowFlags
<1>4. CASE Reading
  <2>1. /\ Reading' \/ Ending'
        /\ ~lastRowSeen' /\ rowsTaken' = rowsTaken
        /\ pixel' # NoPixel => pixel'.end = (pixel'.x = Columns - 1)
    BY <1>4, RowsReading
  <2>2. rowsTaken < Rows
    BY <1>4 DEF RowsInv
  <2>3. QED
    BY <1>1, <1>2, <2>1, <2>2 DEF RowsInv, RowFlags
<1>5. CASE Ending
  <2>1. Closing' /\ ~lastRowSeen' /\ rowsTaken' = rowsTaken
    BY <1>5, RowsEnding
  <2>2. rowsTaken < Rows /\ pixel' = NoPixel
    BY <1>5, <2>1 DEF RowsInv, Closing
  <2>3. QED
    BY <1>1, <1>2, <2>1, <2>2 DEF RowsInv, RowFlags
<1>6. CASE Closing
  <2>1. /\ IF rowValid /\ ready
           THEN /\ rowsTaken' = rowsTaken + 1
                /\ IF rowsTaken = Rows - 1 THEN Ended' ELSE Reading' /\ ~lastRowSeen'
           ELSE Closing' /\ rowsTaken' = rowsTaken /\ ~lastRowSeen'
        /\ pixel' = NoPixel
    BY <1>6, RowsClosing
  <2>2. rowsTaken < Rows
    BY <1>6 DEF RowsInv
  <2>3. CASE rowValid /\ ready /\ rowsTaken = Rows - 1
    <3>1. Ended' /\ rowsTaken' = Rows
      BY <1>2, <2>1, <2>3
    <3>2. ~Reading' /\ ~Ending' /\ ~Closing'
      BY <3>1 DEF Ended, Reading, Ending, Closing
    <3>3. QED
      BY <1>1, <1>2, <2>1, <3>1, <3>2 DEF RowsInv, RowFlags
  <2>4. CASE rowValid /\ ready /\ rowsTaken # Rows - 1
    BY <1>1, <1>2, <2>1, <2>2, <2>4 DEF RowsInv, RowFlags
  <2>5. CASE ~(rowValid /\ ready)
    BY <1>1, <1>2, <2>1, <2>2, <2>5 DEF RowsInv, RowFlags
  <2>6. QED
    BY <2>3, <2>4, <2>5
<1>7. CASE Ended
  <2>1. /\ rowsTaken' = Rows /\ pixel' = NoPixel
        /\ Waiting' \/ Ended'
    BY <1>7, RowsEnded DEF Ended
  <2>2. ~Reading' /\ ~Ending' /\ ~Closing'
    BY <2>1 DEF Ended, Waiting, Reading, Ending, Closing
  <2>3. QED
    BY <1>1, <1>2, <2>1, <2>2 DEF RowsInv, RowFlags
<1>8. QED
  BY <1>3, <1>4, <1>5, <1>6, <1>7 DEF RowsInv
-----------------------------------------------------------------------------
\* AddrInv: the words read are those of the row, and the cross check sees the pixel it asked for.

\* A place in a line of n is one word and one bit of it.
LEMMA Splitting ==
  ASSUME NEW n \in Nat \ {0}, NEW w \in Nat, NEW b \in 0..(n - 1)
  PROVE  (w * n + b) \div n = w /\ (w * n + b) % n = b
  OBVIOUS

\* and each place has one of each.
LEMMA Joining ==
  ASSUME NEW n \in Nat \ {0}, NEW x \in Nat
  PROVE  /\ x \div n \in Nat /\ x % n \in 0..(n - 1)
         /\ x = (x \div n) * n + (x % n)
  OBVIOUS

\* The word of a column is one of its row.
LEMMA Quotient ==
  ASSUME NEW x \in 0..(Columns - 1)
  PROVE  x \div WordBits \in 0..(RowWords - 1)
<1> USE FeatureAssumption
<1>1. /\ x \div WordBits \in Nat /\ x % WordBits \in 0..(WordBits - 1)
      /\ x = (x \div WordBits) * WordBits + (x % WordBits)
  <2>1. x \in Nat
    BY DEF Columns
  <2>2. QED
    BY <2>1, Joining, Zenon
<1> DEFINE q == x \div WordBits
<1>2. x < WordBits * RowWords
  BY DEF Columns
<1> HIDE DEF q
<1>3. q \in Nat /\ q * WordBits <= x
  BY <1>1 DEF q
<1>4. ~(q >= RowWords)
  <2>1. SUFFICES ASSUME q >= RowWords PROVE FALSE
    OBVIOUS
  <2>2. q = RowWords + (q - RowWords) /\ q - RowWords \in Nat
    BY <1>3, <2>1
  <2>3. q * WordBits = RowWords * WordBits + (q - RowWords) * WordBits
    BY <2>2
  <2>4. (q - RowWords) * WordBits >= 0
    BY <2>2
  <2>5. RowWords * WordBits = WordBits * RowWords
    OBVIOUS
  <2>6. QED
    BY <1>2, <1>3, <2>3, <2>4, <2>5
<1>5. QED
  BY <1>3, <1>4 DEF q

\* The pixel that a word and a bit show.
LEMMA DarkIs ==
  ASSUME NEW r \in Nat, NEW w \in 0..(RowWords - 1), NEW b \in 0..(WordBits - 1)
  PROVE  Dark(r * RowWords + w, b) = (<<w * WordBits + b, r>> \in Images[image])
<1> USE FeatureAssumption
<1>1. (r * RowWords + w) \div RowWords = r /\ (r * RowWords + w) % RowWords = w
  BY Splitting
<1>2. QED
  BY <1>1 DEF Dark

\* The words follow one another.
LEMMA AddrInvStep ==
  ASSUME PortInv, ScanInv, OwnWords, RowsInv, AddrInv, InFrame,
         NEW start \in BOOLEAN, NEW ready \in BOOLEAN, Block(start, ready)
  PROVE  AddrInv'
<1> USE FeatureAssumption
<1>1. start => reader = "IDLE"
  BY DEF Block, Busy
<1>2. /\ bit \in 0..(WordBits - 1) /\ wordX \in 0..(RowWords - 1) /\ rowY \in 0..(Rows - 1)
  BY DEF ScanInv
<1>3. CASE start
  <2>1. reader' = "READ_REQ" /\ pixel' = NoPixel /\ rowY' = 0 /\ wordX' = 0 /\ addr' = 0
    BY <1>1, <1>3, ReaderStarts DEF Block
  <2>2. QED
    BY <2>1 DEF AddrInv
<1>4. CASE ~start /\ ~Emits
  <2>1. /\ pixel' = NoPixel /\ rowY' = rowY /\ wordX' = wordX
        /\ addr' = addr /\ image' = image
        /\ reader = "IDLE" <=> reader' = "IDLE"
        /\ reader' = "OUTPUT" => IF reader = "LOAD_WORD" THEN word' = port
                                 ELSE reader = "OUTPUT" /\ word' = word
    BY <1>4, ReaderWaits DEF Block
  <2>2. reader' = "OUTPUT" => word' = addr'
    BY <2>1 DEF AddrInv, OwnWords
  <2>3. QED
    BY <2>1, <2>2 DEF AddrInv
<1>5. CASE ~start /\ Emits
  <2>1. /\ reader = "OUTPUT" /\ FrameReader(FALSE)
    BY <1>5 DEF Emits, Block
  <2>2. word = rowY * RowWords + wordX /\ addr = word
    BY <2>1 DEF AddrInv
  <2>3. /\ pixel' # NoPixel /\ pixel'.x = NextPlace /\ pixel'.y = rowY
        /\ pixel'.black = Dark(word, bit) /\ word' = word /\ image' = image
    BY <1>5, <2>1, ReaderOffers
  <2>4. pixel'.black = (<<pixel'.x, pixel'.y>> \in Images[image'])
    BY <1>2, <2>2, <2>3, DarkIs DEF NextPlace
  <2>5. reader' = IF LastBit THEN IF LineEnd /\ rowY = Rows - 1 THEN "IDLE" ELSE "READ_REQ"
                  ELSE "OUTPUT"
    BY <1>5, <2>1 DEF FrameReader, Requests
  <2>6. /\ wordX' = IF LastBit THEN (wordX + 1) % RowWords ELSE wordX
        /\ rowY' = IF LineEnd /\ rowY < Rows - 1 THEN rowY + 1 ELSE rowY
        /\ addr' = IF LastBit /\ ~(LineEnd /\ rowY = Rows - 1) THEN addr + 1 ELSE addr
    BY <1>5, <2>1 DEF FrameReader
  <2>7. (wordX + 1) % RowWords = IF wordX = RowWords - 1 THEN 0 ELSE wordX + 1
    BY <1>2, Modulo
  <2>8. CASE ~LastBit
    BY <2>2, <2>3, <2>4, <2>5, <2>6, <2>8 DEF AddrInv, LineEnd
  <2>9. CASE LastBit /\ ~LineEnd
    <3>1. wordX' = wordX + 1 /\ rowY' = rowY /\ addr' = addr + 1 /\ reader' = "READ_REQ"
      BY <2>5, <2>6, <2>7, <2>9 DEF LineEnd
    <3>2. addr' = rowY' * RowWords + wordX'
      BY <1>2, <2>2, <3>1
    <3>3. QED
      BY <2>4, <3>1, <3>2 DEF AddrInv
  <2>10. CASE LastBit /\ LineEnd /\ rowY # Rows - 1
    <3>1. /\ wordX' = 0 /\ rowY' = rowY + 1 /\ addr' = addr + 1 /\ reader' = "READ_REQ"
          /\ wordX = RowWords - 1
      BY <1>2, <2>5, <2>6, <2>7, <2>10 DEF LineEnd
    <3>2. addr' = rowY' * RowWords + wordX'
      <4>1. (rowY + 1) * RowWords = rowY * RowWords + RowWords
        BY <1>2
      <4>2. QED
        BY <1>2, <2>2, <3>1, <4>1
    <3>3. QED
      BY <2>4, <3>1, <3>2 DEF AddrInv
  <2>11. CASE LastBit /\ LineEnd /\ rowY = Rows - 1
    <3>1. reader' = "IDLE"
      BY <2>5, <2>11
    <3>2. QED
      BY <2>4, <3>1 DEF AddrInv
  <2>12. QED
    BY <2>8, <2>9, <2>10, <2>11
<1>6. QED
  BY <1>3, <1>4, <1>5

\* What the cross check reads is the pixel at the cursor.
LEMMA CheckReads ==
  ASSUME OwnWords, InFrame, vcc = "READ_CHECK"
  PROVE  Dark(port, cand.x % WordBits) = (<<cand.x, cursor>> \in Images[image])
<1> USE FeatureAssumption
<1>1. cand.x \in 0..(Columns - 1) /\ cursor \in Nat /\ cand.x \in Nat
  BY DEF InFrame, Columns
<1>2. /\ cand.x \div WordBits \in 0..(RowWords - 1) /\ cand.x % WordBits \in 0..(WordBits - 1)
      /\ cand.x = (cand.x \div WordBits) * WordBits + (cand.x % WordBits)
  BY <1>1, Quotient, Joining
<1>3. port = cursor * RowWords + cand.x \div WordBits
  BY DEF OwnWords
<1>4. QED
  <2> DEFINE q == cand.x \div WordBits  m == cand.x % WordBits
  <2>1. q \in 0..(RowWords - 1) /\ m \in 0..(WordBits - 1) /\ cand.x = q * WordBits + m
        /\ port = cursor * RowWords + q
    BY <1>2, <1>3
  <2> HIDE DEF q
  <2>2. Dark(port, m) = (<<q * WordBits + m, cursor>> \in Images[image])
    <3> HIDE DEF m
    <3>1. QED
      BY <1>1, <2>1, DarkIs
  <2>3. QED
    BY <2>1, <2>2
-----------------------------------------------------------------------------
\* The run counters of a line, and how they correspond to a chain of five runs.

\* An open run that is followed by another colour, or by the end of the line, is a run.
LEMMA OpenRun ==
  ASSUME NEW n \in Nat, NEW line, NEW a, NEW b, Open(line, a, b), b <= n,
         b # n => line[b] # line[b - 1]
  PROVE  IsRun(line, n, a, b)
BY DEF Open, IsRun

\* The first pixel of a line,
LEMMA RunsBegin ==
  ASSUME NEW line, NEW p
  PROVE  RunsAre(line, 1, 1, p, 0)
<1>1. Open(line, 0, 1)
  BY DEF Open
<1>2. QED
  BY <1>1 DEF RunsAre

\* another one of the same colour,
LEMMA RunsGoOn ==
  ASSUME NEW line, NEW e \in Nat, NEW len \in Nat, NEW p, NEW c, RunsAre(line, e, len, p, c),
         line[e] = line[e - 1]
  PROVE  RunsAre(line, e + 1, len + 1, p, c)
<1>1. e + 1 - (len + 1) = e - len
  OBVIOUS
<1>2. Open(line, e - len, e)
  BY DEF RunsAre
<1>3. Open(line, e - len, e + 1)
  <2>1. /\ e - len \in Nat /\ e - len < e
        /\ \A i \in (e - len)..(e - 1) : line[i] = line[e - len]
        /\ e - len # 0 => line[e - len] # line[e - len - 1]
    BY <1>2 DEF Open
  <2>2. \A i \in (e - len)..(e + 1 - 1) : line[i] = line[e - len]
    <3>1. e - 1 \in (e - len)..(e - 1)
      BY <2>1
    <3>2. \A i \in (e - len)..(e + 1 - 1) : i = e \/ i \in (e - len)..(e - 1)
      BY <2>1
    <3>3. QED
      BY <2>1, <3>1, <3>2
  <2>3. QED
    BY <2>1, <2>2 DEF Open
<1>4. QED
  BY <1>1, <1>3 DEF RunsAre

\* and one of the other colour.
LEMMA RunsTurn ==
  ASSUME NEW line, NEW e \in Nat, NEW len \in Nat, NEW p, NEW c, RunsAre(line, e, len, p, c),
         line[e] # line[e - 1], NEW q, p[1] \in Nat, p[2] \in Nat, p[3] \in Nat, p[4] \in Nat,
         q[1] = p[2], q[2] = p[3], q[3] = p[4], q[4] = len,
         NEW d, d = IF c < 4 THEN c + 1 ELSE c
  PROVE  RunsAre(line, e + 1, 1, q, d)
<1> DEFINE fifth  == e - len
           fourth == fifth - p[4]
           third  == fourth - p[3]
           second == third - p[2]
           first  == second - p[1]
<1>1. /\ c \in 0..4 /\ Open(line, fifth, e)
      /\ c >= 1 => Open(line, fourth, fifth)
      /\ c >= 2 => Open(line, third, fourth)
      /\ c >= 3 => Open(line, second, third)
      /\ c = 0 => fifth = 0
      /\ c = 1 => fourth = 0
      /\ c = 2 => third = 0
      /\ c = 3 => second = 0
  BY DEF RunsAre
<1>2. Open(line, e, e + 1)
  BY DEF Open
<1>3. /\ e + 1 - 1 = e /\ e - q[4] = fifth /\ fifth - q[3] = fourth /\ fourth - q[2] = third
      /\ third - q[1] = second
  OBVIOUS
<1>4. /\ d \in 0..4 /\ d >= 1 /\ (d >= 2 => c >= 1) /\ (d >= 3 => c >= 2) /\ (d >= 4 => c >= 3)
      /\ d # 0 /\ (d = 1 => c = 0) /\ (d = 2 => c = 1) /\ (d = 3 => c = 2)
  BY <1>1
<1> HIDE DEF fifth, fourth, third, second, first
<1>5. QED
  BY <1>1, <1>2, <1>3, <1>4 DEF RunsAre

\* Four runs and the open one, when it ends, are five runs in a row,
LEMMA RunsChain ==
  ASSUME NEW n \in Nat, NEW line, NEW e \in Nat, e <= n, e # n => line[e] # line[e - 1],
         NEW len \in Nat, NEW p, p[1] \in Nat, p[2] \in Nat, p[3] \in Nat, p[4] \in Nat,
         RunsAre(line, e, len, p, 4)
  PROVE  LET fifth  == e - len
             fourth == fifth - p[4]
             third  == fourth - p[3]
             second == third - p[2]
             first  == second - p[1]
         IN Chain(line, n, <<first, second, third, fourth, fifth, e>>)
<1> DEFINE fifth  == e - len
           fourth == fifth - p[4]
           third  == fourth - p[3]
           second == third - p[2]
           first  == second - p[1]
<1>1. /\ Open(line, fifth, e) /\ Open(line, fourth, fifth) /\ Open(line, third, fourth)
      /\ Open(line, second, third) /\ Open(line, first, second)
  BY DEF RunsAre
<1> HIDE DEF fifth, fourth, third, second, first
<1>2. IsRun(line, n, fifth, e)
  BY <1>1, OpenRun
<1>3. fifth <= n /\ (fifth # n => line[fifth] # line[fifth - 1])
  BY <1>1 DEF Open
<1>4. IsRun(line, n, fourth, fifth)
  BY <1>1, <1>3, OpenRun
<1>5. fourth <= n /\ (fourth # n => line[fourth] # line[fourth - 1])
  BY <1>1, <1>3 DEF Open
<1>6. IsRun(line, n, third, fourth)
  BY <1>1, <1>5, OpenRun
<1>7. third <= n /\ (third # n => line[third] # line[third - 1])
  BY <1>1, <1>5 DEF Open
<1>8. IsRun(line, n, second, third)
  BY <1>1, <1>7, OpenRun
<1>9. second <= n /\ (second # n => line[second] # line[second - 1])
  BY <1>1, <1>7 DEF Open
<1>10. IsRun(line, n, first, second)
  BY <1>1, <1>9, OpenRun
<1> DEFINE h == <<first, second, third, fourth, fifth, e>>
<1>11. h[1] = first /\ h[2] = second /\ h[3] = third /\ h[4] = fourth /\ h[5] = fifth /\ h[6] = e
  OBVIOUS
<1> HIDE DEF h
<1>12. Chain(line, n, h)
  BY <1>2, <1>4, <1>6, <1>8, <1>10, <1>11 DEF Chain
<1>13. QED
  BY <1>12 DEF h, fifth, fourth, third, second, first

\* and where five runs in a row end, four have been counted, and they are the same.
LEMMA ChainRuns ==
  ASSUME NEW n \in Nat, NEW line, NEW h, Chain(line, n, h), NEW e \in Nat, h[6] = e,
         NEW len \in Nat, NEW p, p[1] \in Nat, p[2] \in Nat, p[3] \in Nat, p[4] \in Nat,
         NEW c, RunsAre(line, e, len, p, c)
  PROVE  /\ c = 4 /\ h[5] = e - len /\ h[4] = h[5] - p[4] /\ h[3] = h[4] - p[3]
         /\ h[2] = h[3] - p[2] /\ h[1] = h[2] - p[1]
<1> DEFINE fifth  == e - len
           fourth == fifth - p[4]
           third  == fourth - p[3]
           second == third - p[2]
           first  == second - p[1]
<1>1. /\ c \in 0..4 /\ Open(line, fifth, e)
      /\ c >= 1 => Open(line, fourth, fifth)
      /\ c >= 2 => Open(line, third, fourth)
      /\ c >= 3 => Open(line, second, third)
      /\ c >= 4 => Open(line, first, second)
      /\ c = 0 => fifth = 0
      /\ c = 1 => fourth = 0
      /\ c = 2 => third = 0
      /\ c = 3 => second = 0
  BY DEF RunsAre
<1> HIDE DEF fifth, fourth, third, second, first
<1>2. /\ IsRun(line, n, h[1], h[2]) /\ IsRun(line, n, h[2], h[3]) /\ IsRun(line, n, h[3], h[4])
      /\ IsRun(line, n, h[4], h[5]) /\ IsRun(line, n, h[5], h[6])
  BY DEF Chain
<1>3. /\ h[1] \in Nat /\ h[2] \in Nat /\ h[3] \in Nat /\ h[4] \in Nat /\ h[5] \in Nat
      /\ h[6] \in Nat /\ h[6] <= n
      /\ h[1] < h[2] /\ h[2] < h[3] /\ h[3] < h[4] /\ h[4] < h[5] /\ h[5] < h[6]
  BY <1>2 DEF IsRun
<1>4. ASSUME NEW a, NEW b, NEW f, Open(line, a, b), IsRun(line, n, f, b) PROVE a = f
  <2>1. IsRun(line, n, a, b)
    BY <1>4 DEF Open, IsRun
  <2>2. b - 1 \in a..(b - 1) /\ b - 1 \in f..(b - 1)
    BY <1>4, <2>1 DEF IsRun
  <2>3. QED
    BY <1>4, <2>1, <2>2, SameRun
<1>5. fifth = h[5]
  BY <1>1, <1>2, <1>4
<1>6. c >= 1 /\ fourth = h[4]
  <2>1. c # 0
    BY <1>1, <1>3, <1>5
  <2>2. c >= 1
    BY <1>1, <2>1
  <2>3. QED
    BY <1>1, <1>2, <1>4, <1>5, <2>2
<1>7. c >= 2 /\ third = h[3]
  <2>1. c # 1
    BY <1>1, <1>3, <1>6
  <2>2. c >= 2
    BY <1>1, <1>6, <2>1
  <2>3. QED
    BY <1>1, <1>2, <1>4, <1>6, <2>2
<1>8. c >= 3 /\ second = h[2]
  <2>1. c # 2
    BY <1>1, <1>3, <1>7
  <2>2. c >= 3
    BY <1>1, <1>7, <2>1
  <2>3. QED
    BY <1>1, <1>2, <1>4, <1>7, <2>2
<1>9. c = 4 /\ first = h[1]
  <2>1. c # 3
    BY <1>1, <1>3, <1>8
  <2>2. c = 4
    BY <1>1, <1>8, <2>1
  <2>3. QED
    BY <1>1, <1>2, <1>4, <1>8, <2>2
<1>10. QED
  BY <1>5, <1>6, <1>7, <1>8, <1>9 DEF fifth, fourth, third, second, first

\* Chains that end at one place are one, and of two others the earlier one is left of the
\* centre of the later one.
LEMMA RunsOrdered ==
  ASSUME NEW n \in Nat, NEW line, NEW a, NEW b, NEW c, NEW d, IsRun(line, n, a, b),
         IsRun(line, n, c, d), b < d
  PROVE  b <= c
<1>1. /\ a \in Nat /\ b \in Nat /\ c \in Nat /\ d \in Nat /\ a < b /\ d <= n
      /\ line[b] # line[b - 1]
      /\ \A i \in c..(d - 1) : line[i] = line[c]
  BY DEF IsRun
<1>2. SUFFICES ASSUME c < b PROVE FALSE
  BY <1>1
<1>3. b \in c..(d - 1) /\ b - 1 \in c..(d - 1)
  BY <1>1, <1>2
<1>4. QED
  BY <1>1, <1>3

\* Chains that end at different places have their black middle runs in the same order.
LEMMA ChainsOrdered ==
  ASSUME NEW n \in Nat, NEW line, NEW h, NEW g, Chain(line, n, h), Chain(line, n, g),
         h[6] < g[6]
  PROVE  h[4] <= g[3]
<1>1. /\ IsRun(line, n, h[3], h[4]) /\ IsRun(line, n, h[4], h[5]) /\ IsRun(line, n, h[5], h[6])
      /\ IsRun(line, n, g[3], g[4]) /\ IsRun(line, n, g[4], g[5]) /\ IsRun(line, n, g[5], g[6])
  BY DEF Chain
<1>2. h[6] <= g[5]
  BY <1>1, RunsOrdered
<1>3. h[5] < g[5]
  BY <1>1, <1>2 DEF IsRun
<1>4. h[5] <= g[4]
  BY <1>1, <1>3, RunsOrdered
<1>5. h[4] < g[4]
  BY <1>1, <1>4 DEF IsRun
<1>6. QED
  BY <1>1, <1>5, RunsOrdered
-----------------------------------------------------------------------------
\* RunInv: the run counters describe the row that is being read.

\* In a row, the pixel on offer is the next one of the row.
LEMMA PixelOfRow ==
  ASSUME ScanInv, RowsInv, AddrInv, InRow
  PROVE  /\ rowsTaken \in 0..(Rows - 1) /\ Columns \in Nat \ {0}
         /\ At = Place /\ At \in 0..(Columns - 1)
         /\ pixel # NoPixel => /\ At = pixel.x /\ pixel.y = rowsTaken
                               /\ pixel.start = (At = 0) /\ pixel.end = (At = Columns - 1)
                               /\ pixel.black = Line(rowsTaken)[At]
         /\ length \in Nat /\ previous \in Seq(Nat) /\ Len(previous) = 4
         /\ previous[1] \in Nat /\ previous[2] \in Nat /\ previous[3] \in Nat /\ previous[4] \in Nat
<1> USE FeatureAssumption
<1>1. rowsTaken \in 0..(Rows - 1)
  BY DEF RowsInv, InRow
<1>2. At = Place
  BY DEF At, InRow, Reading, Ending
<1>3. Place \in 0..(Columns - 1)
  <2>1. CASE pixel # NoPixel
    BY <2>1 DEF ScanInv, Place
  <2>2. CASE pixel = NoPixel
    BY <2>2, Columning DEF ScanInv, Place, NextPlace
  <2>3. QED
    BY <2>1, <2>2
<1>4. ASSUME pixel # NoPixel
      PROVE  /\ At = pixel.x /\ pixel.y = rowsTaken
             /\ pixel.start = (At = 0) /\ pixel.end = (At = Columns - 1)
             /\ pixel.black = Line(rowsTaken)[At]
  <2>1. At = pixel.x
    BY <1>2, <1>4 DEF Place
  <2>2. pixel.y = rowsTaken
    BY <1>4 DEF InRow, Reading, Ending
  <2>3. pixel.start = (At = 0)
    BY <1>4, <2>1 DEF ScanInv
  <2>4. pixel.end = (At = Columns - 1)
    BY <1>4, <2>1 DEF RowsInv
  <2>5. pixel.black = Line(rowsTaken)[At]
    <3>1. At \in 0..(Columns - 1)
      BY <1>2, <1>3
    <3>2. Line(rowsTaken)[At] = (<<At, rowsTaken>> \in Images[image])
      BY <3>1 DEF Line
    <3>3. QED
      BY <1>4, <2>1, <2>2, <3>2 DEF AddrInv
  <2>6. QED
    BY <2>1, <2>2, <2>3, <2>4, <2>5
<1>5. Columns \in Nat \ {0}
  BY DEF Columns
<1>6. QED
  BY <1>1, <1>2, <1>3, <1>4, <1>5, Vectors DEF ScanInv

\* While a row is read, it advances by the pixel that was on offer.
LEMMA AtStep ==
  ASSUME PortInv, ScanInv, RowsInv, AddrInv, Reading, NEW start \in BOOLEAN,
         NEW ready \in BOOLEAN, Block(start, ready)
  PROVE  /\ InRow' /\ rowsTaken' = rowsTaken /\ image' = image
         /\ At' = IF pixel = NoPixel THEN At ELSE At + 1
<1>1. ~start /\ (Reading' \/ Ending') /\ rowsTaken' = rowsTaken
  BY RowsReading
<1>2. /\ At = Place /\ At \in 0..(Columns - 1) /\ Columns \in Nat \ {0}
      /\ pixel # NoPixel => At = pixel.x /\ pixel.end = (At = Columns - 1)
  BY PixelOfRow DEF InRow
<1>3. At' = Place'
  BY <1>1 DEF At, Reading, Ending
<1>4. Place' = NextPlace /\ image' = image
  <2>1. CASE Emits
    BY <1>1, <2>1, ReaderOffers DEF Block, Place
  <2>2. CASE ~Emits
    BY <1>1, <2>2, ReaderWaits DEF Block, Place
  <2>3. QED
    BY <2>1, <2>2
<1>5. NextPlace = IF pixel = NoPixel THEN At ELSE At + 1
  <2>1. CASE pixel = NoPixel
    BY <1>2, <2>1 DEF Place
  <2>2. CASE pixel # NoPixel
    <3>1. pixel.x # Columns - 1
      BY <1>2, <2>2 DEF Reading
    <3>2. QED
      BY <1>2, <2>2, <3>1 DEF ScanInv
  <2>3. QED
    BY <2>1, <2>2
<1>6. QED
  BY <1>1, <1>3, <1>4, <1>5 DEF InRow

\* A row begins with none of it read.
LEMMA RowBegins ==
  ASSUME PortInv, ScanInv, RowsInv, ~Reading, NEW start \in BOOLEAN,
         NEW ready \in BOOLEAN, Block(start, ready), InRow'
  PROVE  /\ At' = 0 /\ pixel' = NoPixel /\ Reading'
         /\ \/ start /\ Waiting
            \/ /\ Closing /\ rowValid /\ ready
               /\ rowsTaken' = rowsTaken + 1 /\ image' = image
<1>1. CASE Waiting
  <2>1. start
    BY <1>1, RowsWaiting DEF InRow, Waiting, Reading, Ending
  <2>2. Reading'
    BY <1>1, <2>1, RowsWaiting
  <2>3. pixel' = NoPixel /\ NextPlace' = 0
    BY <1>1, <2>1, ReaderStarts DEF Block, Waiting
  <2>4. QED
    BY <1>1, <2>1, <2>2, <2>3 DEF At, Place, Reading
<1>2. ~Ending
  <2>1. SUFFICES ASSUME Ending PROVE FALSE
    OBVIOUS
  <2>2. Closing' /\ rowPending'
    BY <2>1, RowsEnding
  <2>3. QED
    BY <2>2 DEF InRow, Reading, Ending
<1>3. ~Ended
  <2>1. SUFFICES ASSUME Ended PROVE FALSE
    OBVIOUS
  <2>2. (Waiting' \/ Ended')
    BY <2>1, RowsEnded
  <2>3. QED
    BY <2>2 DEF InRow, Reading, Ending, Waiting, Ended
<1>4. CASE Closing
  <2>1. rowValid /\ ready
    <3>1. SUFFICES ASSUME ~(rowValid /\ ready) PROVE FALSE
      OBVIOUS
    <3>2. Closing'
      BY <1>4, <3>1, RowsClosing
    <3>3. QED
      BY <3>2 DEF InRow, Reading, Ending, Closing
  <2>2. rowsTaken # Rows - 1 /\ Reading' /\ ~start /\ pixel' = NoPixel /\ rowsTaken' = rowsTaken + 1
    <3>1. CASE rowsTaken = Rows - 1
      <4>1. Ended'
        BY <1>4, <2>1, <3>1, RowsClosing
      <4>2. QED
        BY <4>1 DEF InRow, Reading, Ending, Ended
    <3>2. CASE rowsTaken # Rows - 1
      BY <1>4, <2>1, <3>2, RowsClosing
    <3>3. QED
      BY <3>1, <3>2
  <2>3. NextPlace = 0 /\ reader = "READ_REQ"
    BY <1>4, <2>2 DEF Closing, NextRow
  <2>4. NextPlace' = 0 /\ image' = image
    BY <2>2, <2>3, ReaderWaits DEF Block, Emits
  <2>5. At' = 0
    BY <2>2, <2>4 DEF At, Place, Reading
  <2>6. QED
    BY <1>4, <2>1, <2>2, <2>4, <2>5
<1>5. QED
  BY <1>1, <1>2, <1>3, <1>4 DEF RowsInv

\* The runs counted are those of the row.
LEMMA RunInvStep ==
  ASSUME PortInv, ScanInv, RowsInv, AddrInv, RunInv, NEW start \in BOOLEAN,
         NEW ready \in BOOLEAN, Block(start, ready)
  PROVE  RunInv'
<1>1. CASE ~Reading
  <2>1. SUFFICES ASSUME InRow', At' # 0 PROVE FALSE
    BY DEF RunInv
  <2>2. QED
    BY <1>1, <2>1, RowBegins
<1>2. CASE Reading
  <2>1. /\ InRow' /\ rowsTaken' = rowsTaken /\ image' = image
        /\ At' = IF pixel = NoPixel THEN At ELSE At + 1
    BY <1>2, AtStep
  <2>2. /\ At \in 0..(Columns - 1) /\ Columns \in Nat \ {0}
        /\ pixel # NoPixel => /\ pixel.start = (At = 0) /\ ~pixel.end
                              /\ pixel.black = Line(rowsTaken)[At]
        /\ length \in Nat /\ previous \in Seq(Nat) /\ Len(previous) = 4
        /\ previous[1] \in Nat /\ previous[2] \in Nat /\ previous[3] \in Nat /\ previous[4] \in Nat
    BY <1>2, PixelOfRow DEF InRow, Reading
  <2>3. Line(rowsTaken)' = Line(rowsTaken)
    BY <2>1 DEF Line
  <2> DEFINE line == Line(rowsTaken)
  <2>4. SUFFICES At' # 0 => /\ runActive' /\ black' = line[At' - 1]
                            /\ RunsAre(line, At', length', previous', completed')
    BY <2>1, <2>3 DEF RunInv
  <2>5. At # 0 => /\ runActive /\ black = line[At - 1]
                  /\ RunsAre(line, At, length, previous, completed)
    BY <1>2 DEF RunInv, InRow
  <2> HIDE DEF line
  <2>6. CASE pixel = NoPixel
    <3>1. runActive' = runActive /\ black' = black /\ length' = length /\ previous' = previous
          /\ completed' = completed
      BY <2>6 DEF Block, RunScan, Continues
    <3>2. QED
      BY <2>1, <2>5, <2>6, <3>1
  <2>7. CASE pixel # NoPixel /\ At = 0
    <3>1. runActive' /\ black' = pixel.black /\ length' = 1 /\ completed' = 0
      BY <2>2, <2>7 DEF Block, RunScan, Continues
    <3>2. At' = 1 /\ black' = line[0]
      BY <2>1, <2>2, <2>7, <3>1 DEF line
    <3>3. RunsAre(line, 1, 1, previous', 0)
      BY RunsBegin
    <3>4. QED
      BY <3>1, <3>2, <3>3
  <2>8. CASE pixel # NoPixel /\ At # 0 /\ SameColor
    <3>1. Continues
      BY <2>2, <2>5, <2>8 DEF Continues
    <3>2. runActive' /\ black' = black /\ length' = length + 1 /\ completed' = completed
          /\ previous' = previous
      BY <2>2, <2>8, <3>1 DEF Block, RunScan, Continues
    <3>3. line[At] = line[At - 1]
      BY <2>2, <2>5, <2>8 DEF SameColor, line
    <3>4. RunsAre(line, At + 1, length + 1, previous, completed)
      BY <2>2, <2>5, <2>8, <3>3, RunsGoOn
    <3>5. At' = At + 1 /\ At' - 1 = At
      BY <2>1, <2>2, <2>8
    <3>6. QED
      BY <2>5, <2>8, <3>2, <3>3, <3>4, <3>5
  <2>9. CASE pixel # NoPixel /\ At # 0 /\ ~SameColor
    <3>1. Continues
      BY <2>2, <2>5, <2>9 DEF Continues
    <3>2. runActive' /\ black' = pixel.black /\ length' = 1
          /\ completed' = (IF completed < 4 THEN completed + 1 ELSE completed)
          /\ previous' = Append(Tail(previous), length)
      BY <2>2, <2>9, <3>1 DEF Block, RunScan, Continues
    <3>3. line[At] # line[At - 1]
      BY <2>2, <2>5, <2>9 DEF SameColor, line
    <3>4. /\ previous'[1] = previous[2] /\ previous'[2] = previous[3]
          /\ previous'[3] = previous[4] /\ previous'[4] = length
      BY <2>2, <3>2, FourRuns
    <3>5. RunsAre(line, At + 1, 1, previous', completed')
      <4>1. At \in Nat /\ RunsAre(line, At, length, previous, completed)
        BY <2>2, <2>5, <2>9
      <4>2. ASSUME NEW q, NEW d, q[1] = previous[2], q[2] = previous[3], q[3] = previous[4],
                   q[4] = length, d = IF completed < 4 THEN completed + 1 ELSE completed
            PROVE  RunsAre(line, At + 1, 1, q, d)
        BY <2>2, <3>3, <4>1, <4>2, RunsTurn
      <4>3. QED
        BY <3>2, <3>4, <4>2
    <3>6. At' = At + 1 /\ At' - 1 = At
      BY <2>1, <2>2, <2>9
    <3>7. black' = line[At' - 1]
      BY <2>2, <2>9, <3>2, <3>6 DEF line
    <3>8. QED
      BY <3>2, <3>5, <3>6, <3>7
  <2>10. QED
    BY <2>6, <2>7, <2>8, <2>9
<1>3. QED
  BY <1>1, <1>2
-----------------------------------------------------------------------------
\* What the run scan finds are the patterns across a row, each where its last run ends.

\* Ratio and Total look at nothing but the five runs.
LEMMA SameRatio ==
  ASSUME NEW r, NEW s, r[1] = s[1], r[2] = s[2], r[3] = s[3], r[4] = s[4], r[5] = s[5]
  PROVE  Ratio(r) = Ratio(s) /\ Total(r) = Total(s)
<1>1. Total(r) = Total(s)
  BY DEF Total
<1>2. \A i \in 1..5 : r[i] = s[i]
  OBVIOUS
<1>3. Ratio(r) = Ratio(s)
  BY <1>1, <1>2 DEF Ratio
<1>4. QED
  BY <1>1, <1>3

\* The lengths of a chain.
LEMMA ChainLengths ==
  ASSUME NEW n \in Nat, NEW line, NEW h, Chain(line, n, h)
  PROVE  /\ h[1] \in Nat /\ h[2] \in Nat /\ h[3] \in Nat /\ h[4] \in Nat /\ h[5] \in Nat
         /\ h[6] \in Nat /\ h[6] <= n
         /\ h[1] < h[2] /\ h[2] < h[3] /\ h[3] < h[4] /\ h[4] < h[5] /\ h[5] < h[6]
         /\ \A i \in 1..5 : Lengths(h)[i] = h[i + 1] - h[i] /\ Lengths(h)[i] \in Nat
         /\ Total(Lengths(h)) = h[6] - h[1] /\ Total(Lengths(h)) \in Nat
         /\ Ratio(Lengths(h)) => /\ Total(Lengths(h)) >= 7
                                 /\ h[4] - Lengths(h)[3] \div 2 \in h[3]..(h[4] - 1)
<1>1. /\ h[1] \in Nat /\ h[2] \in Nat /\ h[3] \in Nat /\ h[4] \in Nat /\ h[5] \in Nat
      /\ h[6] \in Nat /\ h[6] <= n
      /\ h[1] < h[2] /\ h[2] < h[3] /\ h[3] < h[4] /\ h[4] < h[5] /\ h[5] < h[6]
  BY DEF Chain, IsRun
<1> DEFINE l == Lengths(h)
<1>2. /\ l[1] = h[2] - h[1] /\ l[2] = h[3] - h[2] /\ l[3] = h[4] - h[3]
      /\ l[4] = h[5] - h[4] /\ l[5] = h[6] - h[5]
  BY DEF Lengths
<1>3. \A i \in 1..5 : l[i] = h[i + 1] - h[i]
  BY DEF Lengths
<1> HIDE DEF l
<1>4. l[1] \in Nat /\ l[2] \in Nat /\ l[3] \in Nat /\ l[4] \in Nat /\ l[5] \in Nat
  BY <1>1, <1>2
<1>5. \A i \in 1..5 : l[i] \in Nat
  BY <1>4
<1>6. Total(l) = h[6] - h[1] /\ Total(l) \in Nat
  BY <1>1, <1>2 DEF Total
<1>7. ASSUME Ratio(l) PROVE Total(l) >= 7 /\ h[4] - l[3] \div 2 \in h[3]..(h[4] - 1)
  <2>1. Total(l) >= 7 /\ l[3] >= 2
    BY <1>4, <1>7, RatioSeven
  <2>2. l[3] \div 2 >= 1 /\ l[3] \div 2 <= l[3] /\ l[3] \div 2 \in Nat
    BY <1>4, <2>1
  <2> DEFINE half == l[3] \div 2
  <2> HIDE DEF half
  <2>3. half \in Nat /\ half >= 1 /\ half <= h[4] - h[3]
    BY <1>2, <2>2 DEF half
  <2>4. h[4] - half \in h[3]..(h[4] - 1)
    BY <1>1, <2>3
  <2>5. QED
    BY <2>1, <2>4 DEF half
<1>8. QED
  BY <1>1, <1>3, <1>5, <1>6, <1>7 DEF l

\* The lines are two-coloured.
LEMMA LineIs ==
  ASSUME NEW y
  PROVE  /\ \A x : RowRuns(x, y) = Around(Line(y), Columns, x)
         /\ \A i \in 0..(Columns - 1) : /\ Line(y)[i] = (<<i, y>> \in Images[image])
                                        /\ Line(y)[i] \in BOOLEAN
BY DEF RowRuns, Line

\* In a chain of two-coloured runs the first, the third and the fifth have one colour.
LEMMA ChainColours ==
  ASSUME NEW n \in Nat, NEW line, \A i \in 0..(n - 1) : line[i] \in BOOLEAN,
         NEW h, Chain(line, n, h), NEW x \in h[3]..(h[4] - 1)
  PROVE  line[x] = line[h[6] - 1]
<1>1. /\ h[1] \in Nat /\ h[2] \in Nat /\ h[3] \in Nat /\ h[4] \in Nat /\ h[5] \in Nat
      /\ h[6] \in Nat /\ h[6] <= n
      /\ h[1] < h[2] /\ h[2] < h[3] /\ h[3] < h[4] /\ h[4] < h[5] /\ h[5] < h[6]
  BY DEF Chain, IsRun
<1>2. /\ \A i \in h[3]..(h[4] - 1) : line[i] = line[h[3]]
      /\ \A i \in h[4]..(h[5] - 1) : line[i] = line[h[4]]
      /\ \A i \in h[5]..(h[6] - 1) : line[i] = line[h[5]]
      /\ line[h[4]] # line[h[4] - 1] /\ line[h[5]] # line[h[5] - 1]
  BY <1>1 DEF Chain, IsRun
<1>3. line[h[4] - 1] = line[h[3]] /\ line[h[5] - 1] = line[h[4]] /\ line[h[6] - 1] = line[h[5]]
      /\ line[x] = line[h[3]]
  BY <1>1, <1>2
<1>4. line[h[3]] \in BOOLEAN /\ line[h[4]] \in BOOLEAN /\ line[h[5]] \in BOOLEAN
  BY <1>1
<1>5. line[h[3]] # line[h[4]] /\ line[h[4]] # line[h[5]]
  BY <1>2, <1>3
<1>6. line[h[3]] = line[h[5]]
  BY <1>4, <1>5
<1>7. QED
  BY <1>3, <1>6

\* A pattern across a row is a chain of runs of the row.
LEMMA AcrossChain ==
  ASSUME NEW y, NEW x \in 0..(Columns - 1), Across(x, y), Columns \in Nat
  PROVE  LET h == RowRuns(x, y)
         IN /\ Chain(Line(y), Columns, h) /\ x \in h[3]..(h[4] - 1) /\ Line(y)[h[6] - 1] = TRUE
            /\ Ratio(Lengths(h)) /\ x = h[4] - Lengths(h)[3] \div 2
            /\ ~(h[6] = Columns /\ Lengths(h)[5] = 1)
            /\ RowSpan(x, y) = Total(Lengths(h)) /\ EndOf(x, y) = h[6]
<1> DEFINE h == RowRuns(x, y)
<1>1. /\ <<x, y>> \in Images[image] /\ h # <<>> /\ Ratio(Lengths(h))
      /\ x = h[4] - Lengths(h)[3] \div 2 /\ ~(h[6] = Columns /\ Lengths(h)[5] = 1)
  BY DEF Across, InPattern, CodeCentre, Dropped
<1>2. Chain(Line(y), Columns, h) /\ x \in h[3]..(h[4] - 1)
  BY <1>1, LineIs, AroundChain
<1>3. Line(y)[x] = TRUE /\ \A i \in 0..(Columns - 1) : Line(y)[i] \in BOOLEAN
  BY <1>1, LineIs
<1>4. Line(y)[h[6] - 1] = Line(y)[x]
  <2> HIDE DEF h
  <2>1. QED
    BY <1>2, <1>3, ChainColours
<1>5. RowSpan(x, y) = Total(Lengths(h)) /\ EndOf(x, y) = h[6]
  BY DEF RowSpan, EndOf
<1> HIDE DEF h
<1>6. QED
  BY <1>1, <1>2, <1>3, <1>4, <1>5 DEF h

\* and the other way round.
LEMMA ChainAcross ==
  ASSUME NEW y, NEW h, Chain(Line(y), Columns, h), Columns \in Nat, Line(y)[h[6] - 1] = TRUE,
         Ratio(Lengths(h)), ~(h[6] = Columns /\ h[6] - h[5] = 1),
         NEW x, x = h[4] - Lengths(h)[3] \div 2
  PROVE  /\ x \in 0..(Columns - 1) /\ Across(x, y) /\ EndOf(x, y) = h[6]
         /\ RowSpan(x, y) = Total(Lengths(h))
<1>1. /\ h[1] \in Nat /\ h[2] \in Nat /\ h[3] \in Nat /\ h[4] \in Nat /\ h[5] \in Nat
      /\ h[6] \in Nat /\ h[6] <= Columns
      /\ h[1] < h[2] /\ h[2] < h[3] /\ h[3] < h[4] /\ h[4] < h[5] /\ h[5] < h[6]
      /\ x \in h[3]..(h[4] - 1)
  BY ChainLengths
<1> DEFINE g == <<h[1], h[2], h[3], h[4], h[5], h[6]>>
<1>2. RowRuns(x, y) = g
  BY <1>1, LineIs, ChainAround
<1>3. g[1] = h[1] /\ g[2] = h[2] /\ g[3] = h[3] /\ g[4] = h[4] /\ g[5] = h[5] /\ g[6] = h[6]
      /\ g # <<>>
  OBVIOUS
<1>4. Lengths(g) = Lengths(h)
  BY <1>3 DEF Lengths
<1>5. Lengths(h)[5] = h[6] - h[5]
  BY DEF Lengths
<1> HIDE DEF g
<1>6. <<x, y>> \in Images[image]
  <2>1. Line(y)[x] = TRUE
    <3>1. \A i \in 0..(Columns - 1) : Line(y)[i] \in BOOLEAN
      BY LineIs
    <3>2. Line(y)[x] = Line(y)[h[6] - 1]
      BY <1>1, <3>1, ChainColours
    <3>3. QED
      BY <3>2
  <2>2. x \in 0..(Columns - 1)
    BY <1>1
  <2>3. QED
    BY <2>1, <2>2, LineIs
<1>7. Across(x, y)
  BY <1>2, <1>3, <1>4, <1>5, <1>6 DEF Across, InPattern, CodeCentre, Dropped
<1>8. EndOf(x, y) = h[6]
  BY <1>2, <1>3 DEF EndOf
<1>9. RowSpan(x, y) = Total(Lengths(h))
  BY <1>2, <1>4 DEF RowSpan
<1>10. x \in 0..(Columns - 1)
  BY <1>1
<1>11. QED
  BY <1>7, <1>8, <1>9, <1>10

\* Where the pattern lies whose last run ends at the pixel on offer, or after it.
Ends == IF pixel.end /\ SameColor THEN Columns ELSE pixel.x
Middle == pixel.x - length - previous[4] - previous[3] \div 2

\* The five runs when one of them ends.
LEMMA FiveAre ==
  ASSUME ScanInv, RowsInv, AddrInv, InRow, pixel # NoPixel, NEW n,
         n = length + (IF pixel.end /\ SameColor THEN 1 ELSE 0)
  PROVE  /\ Five[1] = previous[1] /\ Five[2] = previous[2] /\ Five[3] = previous[3]
         /\ Five[4] = previous[4] /\ Five[5] = n /\ n \in Nat
         /\ Ends - n = At - length /\ Ends \in Nat /\ Ends <= Columns
<1>1. /\ length \in Nat /\ previous \in Seq(Nat) /\ Len(previous) = 4 /\ At = pixel.x
      /\ At \in 0..(Columns - 1) /\ Columns \in Nat \ {0} /\ pixel.end = (At = Columns - 1)
  BY PixelOfRow
<1>2. n \in Nat
  BY <1>1
<1>3. Five = Append(previous, n)
  BY DEF Five
<1>4. /\ Five[1] = previous[1] /\ Five[2] = previous[2] /\ Five[3] = previous[3]
      /\ Five[4] = previous[4] /\ Five[5] = n
  <2>1. /\ \A i \in 1..4 : Append(previous, n)[i] = previous[i]
        /\ Append(previous, n)[5] = n
    <3>1. /\ \A i \in 1..Len(previous) : Append(previous, n)[i] = previous[i]
          /\ Append(previous, n)[Len(previous) + 1] = n
      BY <1>1, <1>2, Appending
    <3>2. Len(previous) = 4
      BY <1>1
    <3>3. QED
      BY <3>1, <3>2
  <2>2. (\A i \in 1..4 : Five[i] = previous[i]) /\ Five[5] = n
    BY <1>3, <2>1, Zenon
  <2>3. QED
    BY <2>2
<1>5. Ends - n = At - length /\ Ends \in Nat /\ Ends <= Columns
  <2>1. CASE pixel.end /\ SameColor
    <3>1. Ends = Columns /\ n = length + 1 /\ At = Columns - 1
      BY <1>1, <2>1 DEF Ends
    <3>2. QED
      BY <1>1, <3>1
  <2>2. CASE ~(pixel.end /\ SameColor)
    <3>1. Ends = At /\ n = length
      BY <1>1, <2>2 DEF Ends
    <3>2. QED
      BY <1>1, <3>1
  <2>3. QED
    BY <2>1, <2>2
<1>6. QED
  BY <1>2, <1>4, <1>5

\* What the scan finds is a pattern across the row,
LEMMA FoundAcross ==
  ASSUME ScanInv, RowsInv, AddrInv, RunInv, InRow, PortInv, pixel # NoPixel, Found
  PROVE  /\ Middle \in 0..(Columns - 1) /\ Across(Middle, rowsTaken)
         /\ EndOf(Middle, rowsTaken) = Ends /\ RowSpan(Middle, rowsTaken) = Total(Five)
<1> DEFINE n == length + (IF pixel.end /\ SameColor THEN 1 ELSE 0)
           line == Line(rowsTaken)
           e == Ends
<1>1. /\ rowsTaken \in 0..(Rows - 1) /\ At \in 0..(Columns - 1) /\ Columns \in Nat \ {0}
      /\ At = pixel.x /\ pixel.start = (At = 0) /\ pixel.end = (At = Columns - 1)
      /\ pixel.black = line[At]
      /\ length \in Nat
      /\ previous[1] \in Nat /\ previous[2] \in Nat /\ previous[3] \in Nat /\ previous[4] \in Nat
  BY PixelOfRow
<1>2. /\ At # 0 /\ completed = 4 /\ black /\ Ratio(Five) /\ (~SameColor \/ pixel.end)
  BY <1>1 DEF Found, Continues
<1>3. black = line[At - 1] /\ RunsAre(line, At, length, previous, 4)
  BY <1>2 DEF RunInv
<1>4. /\ Five[1] = previous[1] /\ Five[2] = previous[2] /\ Five[3] = previous[3]
      /\ Five[4] = previous[4] /\ Five[5] = n /\ n \in Nat
      /\ e - n = At - length /\ e \in Nat /\ e <= Columns
  BY FiveAre
<1>5. line[e - 1] = TRUE /\ RunsAre(line, e, n, previous, 4) /\ (e # Columns => line[e] # line[e - 1])
      /\ ~(e = Columns /\ n = 1)
  <2>0. black \in BOOLEAN /\ pixel.black \in BOOLEAN
    BY DEF PortInv, Colours
  <2>1. CASE SameColor
    <3>1. pixel.end /\ e = Columns /\ At = Columns - 1 /\ n = length + 1
      BY <1>1, <1>2, <2>1 DEF Ends
    <3>2. line[At] = line[At - 1]
      BY <1>1, <1>3, <2>1 DEF SameColor
    <3>3. RunsAre(line, At + 1, length + 1, previous, 4)
      <4> HIDE DEF line
      <4>1. QED
        BY <1>1, <1>3, <3>2, RunsGoOn
    <3>4. length >= 1
      BY <1>1, <1>3 DEF RunsAre, Open
    <3>5. e = At + 1 /\ e - 1 = At
      BY <1>1, <3>1
    <3>6. line[e - 1] = TRUE
      BY <1>2, <1>3, <2>0, <3>2, <3>5
    <3>7. QED
      BY <1>1, <3>1, <3>3, <3>4, <3>5, <3>6
  <2>2. CASE ~SameColor
    <3>1. e = At /\ n = length
      BY <1>1, <2>2 DEF Ends
    <3>2. line[At] # line[At - 1]
      BY <1>1, <1>3, <2>2 DEF SameColor
    <3>3. line[e - 1] = TRUE
      BY <1>2, <1>3, <2>0, <3>1
    <3>4. QED
      BY <1>1, <1>3, <3>1, <3>2, <3>3
  <2>3. QED
    BY <2>1, <2>2
<1> DEFINE fifth  == e - n
           fourth == fifth - previous[4]
           third  == fourth - previous[3]
           second == third - previous[2]
           first  == second - previous[1]
           h == <<first, second, third, fourth, fifth, e>>
<1>6. Chain(line, Columns, h)
  <2> HIDE DEF e, n, line
  <2>1. QED
    BY <1>1, <1>4, <1>5, RunsChain
<1>7. h[1] = first /\ h[2] = second /\ h[3] = third /\ h[4] = fourth /\ h[5] = fifth /\ h[6] = e
  OBVIOUS
<1> HIDE DEF e, n, line, h
<1>8. /\ Lengths(h)[1] = previous[1] /\ Lengths(h)[2] = previous[2] /\ Lengths(h)[3] = previous[3]
      /\ Lengths(h)[4] = previous[4] /\ Lengths(h)[5] = n
  <2>1. \A i \in 1..5 : Lengths(h)[i] = h[i + 1] - h[i]
    BY DEF Lengths
  <2>2. /\ h[2] - h[1] = previous[1] /\ h[3] - h[2] = previous[2] /\ h[4] - h[3] = previous[3]
        /\ h[5] - h[4] = previous[4] /\ h[6] - h[5] = n
    BY <1>1, <1>4, <1>7
  <2>3. QED
    BY <2>1, <2>2
<1>9. Ratio(Lengths(h)) /\ Total(Lengths(h)) = Total(Five)
  BY <1>2, <1>4, <1>8, SameRatio
<1>10. Middle = h[4] - Lengths(h)[3] \div 2
  <2>1. fifth = At - length
    BY <1>4
  <2>2. QED
    BY <1>1, <1>7, <1>8, <2>1 DEF Middle
<1>11. line[h[6] - 1] = TRUE /\ ~(h[6] = Columns /\ h[6] - h[5] = 1)
  <2>1. h[6] - h[5] = n
    BY <1>4, <1>7
  <2>2. QED
    BY <1>5, <1>7, <2>1
<1>12. /\ Middle \in 0..(Columns - 1) /\ Across(Middle, rowsTaken)
       /\ EndOf(Middle, rowsTaken) = h[6] /\ RowSpan(Middle, rowsTaken) = Total(Lengths(h))
  BY <1>1, <1>6, <1>9, <1>10, <1>11, ChainAcross DEF line
<1>13. QED
  BY <1>7, <1>9, <1>12 DEF e

\* and a pattern across the row whose last run ends at the pixel is found.
LEMMA AcrossFound ==
  ASSUME ScanInv, RowsInv, AddrInv, RunInv, InRow, PortInv, pixel # NoPixel,
         NEW x \in 0..(Columns - 1), Across(x, rowsTaken),
         EndOf(x, rowsTaken) = pixel.x \/ (pixel.end /\ EndOf(x, rowsTaken) = Columns)
  PROVE  Found /\ x = Middle
<1> DEFINE n == length + (IF pixel.end /\ SameColor THEN 1 ELSE 0)
           line == Line(rowsTaken)
           e == Ends
           h == RowRuns(x, rowsTaken)
<1>1. /\ rowsTaken \in 0..(Rows - 1) /\ At \in 0..(Columns - 1) /\ Columns \in Nat \ {0}
      /\ At = pixel.x /\ pixel.start = (At = 0) /\ pixel.end = (At = Columns - 1)
      /\ pixel.black = line[At]
      /\ length \in Nat
      /\ previous[1] \in Nat /\ previous[2] \in Nat /\ previous[3] \in Nat /\ previous[4] \in Nat
  BY PixelOfRow
<1>2. /\ Five[1] = previous[1] /\ Five[2] = previous[2] /\ Five[3] = previous[3]
      /\ Five[4] = previous[4] /\ Five[5] = n /\ n \in Nat
      /\ e - n = At - length /\ e \in Nat /\ e <= Columns
  BY FiveAre
<1>3. /\ Chain(line, Columns, h) /\ x \in h[3]..(h[4] - 1) /\ line[h[6] - 1] = TRUE
      /\ Ratio(Lengths(h)) /\ x = h[4] - Lengths(h)[3] \div 2
      /\ ~(h[6] = Columns /\ Lengths(h)[5] = 1)
      /\ h[6] = pixel.x \/ (pixel.end /\ h[6] = Columns)
  BY <1>1, AcrossChain
<1> HIDE DEF h, line
<1>4. /\ h[1] \in Nat /\ h[2] \in Nat /\ h[3] \in Nat /\ h[4] \in Nat /\ h[5] \in Nat
      /\ h[6] \in Nat /\ h[6] <= Columns
      /\ h[1] < h[2] /\ h[2] < h[3] /\ h[3] < h[4] /\ h[4] < h[5] /\ h[5] < h[6]
  BY <1>1, <1>3, ChainLengths
<1>15. /\ Lengths(h)[1] = h[2] - h[1] /\ Lengths(h)[2] = h[3] - h[2]
      /\ Lengths(h)[3] = h[4] - h[3] /\ Lengths(h)[4] = h[5] - h[4]
      /\ Lengths(h)[5] = h[6] - h[5]
  BY DEF Lengths
<1>5. At # 0
  <2>1. h[6] >= 5
    BY <1>4
  <2>2. CASE h[6] = pixel.x
    BY <1>1, <2>1, <2>2
  <2>3. CASE pixel.end /\ h[6] = Columns
    <3>1. At = Columns - 1
      BY <1>1, <2>3
    <3>2. QED
      BY <1>1, <2>1, <2>3, <3>1
  <2>4. QED
    BY <1>3, <2>2, <2>3
<1>6. /\ runActive /\ black = line[At - 1] /\ RunsAre(line, At, length, previous, completed)
  BY <1>5 DEF RunInv, line
<1>7. Continues
  BY <1>1, <1>5, <1>6 DEF Continues
<1>8. black /\ (~SameColor \/ pixel.end) /\ h[6] = e /\ RunsAre(line, e, n, previous, completed)
  <2>1. CASE h[6] = pixel.x
    <3>1. line[At] # line[At - 1]
      BY <1>1, <1>3, <2>1 DEF Chain, IsRun
    <3>2. ~SameColor
      BY <1>1, <1>6, <3>1 DEF SameColor
    <3>3. e = At /\ n = length
      BY <1>1, <3>2 DEF Ends
    <3>4. QED
      BY <1>1, <1>3, <1>6, <2>1, <3>2, <3>3
  <2>2. CASE pixel.end /\ h[6] = Columns
    <3>1. At = Columns - 1 /\ h[6] - h[5] # 1
      <4>1. At = Columns - 1
        BY <1>1, <2>2
      <4>2. h[6] - h[5] # 1
        BY <1>3, <1>15, <2>2
      <4>3. QED
        BY <4>1, <4>2
    <3>2. At \in h[5]..(h[6] - 1) /\ At - 1 \in h[5]..(h[6] - 1)
      BY <1>1, <1>4, <2>2, <3>1
    <3>3. line[At] = line[At - 1]
      BY <1>3, <3>2 DEF Chain, IsRun
    <3>4. SameColor
      BY <1>1, <1>6, <3>3 DEF SameColor
    <3>5. e = Columns /\ n = length + 1 /\ e = At + 1
      BY <1>1, <2>2, <3>1, <3>4 DEF Ends
    <3>6. RunsAre(line, At + 1, length + 1, previous, completed)
      BY <1>1, <1>6, <3>3, RunsGoOn
    <3>7. black
      BY <1>3, <1>6, <2>2, <3>1, <3>3
    <3>8. QED
      BY <2>2, <3>5, <3>6, <3>7
  <2>3. QED
    BY <1>3, <2>1, <2>2
<1> HIDE DEF e, n
<1>9. /\ completed = 4 /\ h[5] = e - n /\ h[4] = h[5] - previous[4] /\ h[3] = h[4] - previous[3]
      /\ h[2] = h[3] - previous[2] /\ h[1] = h[2] - previous[1]
  BY <1>1, <1>2, <1>3, <1>8, ChainRuns
<1>10. /\ Lengths(h)[1] = previous[1] /\ Lengths(h)[2] = previous[2] /\ Lengths(h)[3] = previous[3]
       /\ Lengths(h)[4] = previous[4] /\ Lengths(h)[5] = n
  <2>1. /\ h[2] - h[1] = previous[1] /\ h[3] - h[2] = previous[2] /\ h[4] - h[3] = previous[3]
        /\ h[5] - h[4] = previous[4] /\ h[6] - h[5] = n
    <3>1. h[6] - h[5] = n
      <4>1. n \in Nat /\ e \in Nat /\ h[6] = e /\ h[5] = e - n
        BY <1>2, <1>8, <1>9
      <4>2. QED
        BY <4>1
    <3>2. QED
      BY <1>1, <1>4, <1>9, <3>1
  <2>2. QED
    BY <1>15, <2>1
<1>11. Ratio(Five)
  BY <1>2, <1>3, <1>10, SameRatio
<1>12. Found
  BY <1>7, <1>8, <1>9, <1>11 DEF Found
<1>13. x = Middle
  <2>1. h[4] = At - length - previous[4]
    BY <1>1, <1>2, <1>9
  <2>2. QED
    BY <1>1, <1>3, <1>10, <2>1 DEF Middle
<1>14. QED
  BY <1>12, <1>13

\* Of two patterns of one row, the one that ends first has its centre to the left.
LEMMA AcrossOrdered ==
  ASSUME Columns \in Nat, NEW y, NEW x \in 0..(Columns - 1), NEW z \in 0..(Columns - 1),
         Across(x, y), Across(z, y), EndOf(x, y) < EndOf(z, y)
  PROVE  x < z
<1> DEFINE h == RowRuns(x, y)  g == RowRuns(z, y)
<1>1. Chain(Line(y), Columns, h) /\ x \in h[3]..(h[4] - 1) /\ EndOf(x, y) = h[6]
  BY AcrossChain
<1>2. Chain(Line(y), Columns, g) /\ z \in g[3]..(g[4] - 1) /\ EndOf(z, y) = g[6]
  BY AcrossChain
<1> HIDE DEF h, g
<1>3. h[4] <= g[3]
  BY <1>1, <1>2, ChainsOrdered
<1>4. h[3] \in Nat /\ h[4] \in Nat /\ g[3] \in Nat /\ g[4] \in Nat
  BY <1>1, <1>2, ChainLengths
<1>5. QED
  BY <1>1, <1>2, <1>3, <1>4
-----------------------------------------------------------------------------
\* The walk of the cross check along a column, pixel by pixel.

\* A stretch of one colour grows at either end.
LEMMA SameGrows ==
  ASSUME NEW line, NEW a \in Int, NEW b \in Int, NEW v, Same(line, a, b, v)
  PROVE  /\ line[a - 1] = v => Same(line, a - 1, b, v)
         /\ line[b] = v => Same(line, a, b + 1, v)
<1>1. ASSUME line[a - 1] = v PROVE Same(line, a - 1, b, v)
  <2>1. \A i \in (a - 1)..(b - 1) : i = a - 1 \/ i \in a..(b - 1)
    OBVIOUS
  <2>2. QED
    BY <1>1, <2>1 DEF Same
<1>2. ASSUME line[b] = v PROVE Same(line, a, b + 1, v)
  <2>1. \A i \in a..(b + 1 - 1) : i = b \/ i \in a..(b - 1)
    OBVIOUS
  <2>2. QED
    BY <1>2, <2>1 DEF Same
<1>3. QED
  BY <1>1, <1>2

\* No pixel has any colour.
LEMMA SameEmpty ==
  ASSUME NEW line, NEW a \in Int, NEW v
  PROVE  Same(line, a, a, v)
BY DEF Same

\* A stretch of the colour of a run does not leave it, and fills it if another colour follows.
LEMMA RunBack ==
  ASSUME NEW n \in Nat, NEW line, NEW a, NEW b, IsRun(line, n, a, b), NEW x \in a..(b - 1),
         NEW c \in Int, c >= 0, c <= x + 1, \A i \in c..x : line[i] = line[x]
  PROVE  c >= a /\ (c > 0 /\ line[c - 1] # line[x] => c = a)
<1>1. /\ a \in Nat /\ b \in Nat /\ a <= x /\ x < b /\ (a # 0 => line[a] # line[a - 1])
      /\ \A i \in a..(b - 1) : line[i] = line[a]
  BY DEF IsRun
<1>2. \A i \in c..x : line[i] = line[x]
  OBVIOUS
<1>3. line[a] = line[x]
  BY <1>1
<1>4. c >= a
  <2>1. SUFFICES ASSUME c < a PROVE FALSE
    BY <1>1
  <2>2. a - 1 \in c..x /\ a # 0
    BY <1>1, <2>1
  <2>3. QED
    BY <1>1, <1>2, <1>3, <2>2
<1>5. ASSUME c > 0, line[c - 1] # line[x] PROVE c = a
  <2>1. SUFFICES ASSUME c > a PROVE FALSE
    BY <1>1, <1>4
  <2>2. c - 1 \in a..(b - 1)
    BY <1>1, <2>1
  <2>3. QED
    BY <1>1, <1>3, <1>5, <2>2
<1>6. QED
  BY <1>4, <1>5

\* The same to the right.
LEMMA RunForth ==
  ASSUME NEW n \in Nat, NEW line, NEW a, NEW b, IsRun(line, n, a, b), NEW x \in a..(b - 1),
         NEW d \in Int, d > x, d <= n, \A i \in x..(d - 1) : line[i] = line[x]
  PROVE  d <= b /\ (d < n /\ line[d] # line[x] => d = b)
<1>1. /\ a \in Nat /\ b \in Nat /\ a <= x /\ x < b /\ b <= n /\ (b # n => line[b] # line[b - 1])
      /\ \A i \in a..(b - 1) : line[i] = line[a]
  BY DEF IsRun
<1>2. \A i \in x..(d - 1) : line[i] = line[x]
  OBVIOUS
<1>3. line[b - 1] = line[x] /\ line[a] = line[x]
  <2>1. b - 1 \in a..(b - 1)
    BY <1>1
  <2>2. QED
    BY <1>1, <2>1
<1>4. d <= b
  <2>1. SUFFICES ASSUME d > b PROVE FALSE
    BY <1>1
  <2>2. b \in x..(d - 1) /\ b # n
    BY <1>1, <2>1
  <2>3. QED
    BY <1>1, <1>2, <1>3, <2>2
<1>5. ASSUME d < n, line[d] # line[x] PROVE d = b
  <2>1. SUFFICES ASSUME d < b PROVE FALSE
    BY <1>1, <1>4
  <2>2. d \in a..(b - 1)
    BY <1>1, <2>1
  <2>3. QED
    BY <1>1, <1>3, <1>5, <2>2
<1>6. QED
  BY <1>4, <1>5

\* The facts of Walked, one by one.
LEMMA WalkedFacts ==
  ASSUME NEW n \in Nat, NEW line, NEW y, NEW c, NEW p, Walked(line, n, y, c, p)
  PROVE  /\ p \in 1..6 /\ y \in Nat /\ y < n /\ line[y] = TRUE
         /\ c[1] \in Nat /\ c[2] \in Nat /\ c[3] \in Nat /\ c[4] \in Nat /\ c[5] \in Nat
         /\ c[6] \in Nat
         /\ p < 2 => c[2] = 0
         /\ p < 3 => c[3] = 0
         /\ p < 4 => c[4] = 0
         /\ p < 5 => c[5] = 0
         /\ p < 6 => c[6] = 0
         /\ Third(y, c) = y + 1 - c[1] /\ Second(y, c) = Third(y, c) - c[2]
         /\ First(y, c) = Second(y, c) - c[3]
         /\ Fourth(y, c) = y + 1 + c[4] /\ Fifth(y, c) = Fourth(y, c) + c[5]
         /\ Sixth(y, c) = Fifth(y, c) + c[6]
         /\ Third(y, c) \in Int /\ Second(y, c) \in Int /\ First(y, c) \in Int
         /\ Fourth(y, c) \in Int /\ Fifth(y, c) \in Int /\ Sixth(y, c) \in Int
<1>1. p \in 1..6 /\ y \in 0..(n - 1) /\ line[y] = TRUE
      /\ \A k \in 1..6 : c[k] \in Nat /\ (k > p => c[k] = 0)
  BY DEF Walked, Counted, Stretches, Turns
<1>2. /\ c[1] \in Nat /\ c[2] \in Nat /\ c[3] \in Nat /\ c[4] \in Nat /\ c[5] \in Nat
      /\ c[6] \in Nat
      /\ 2 > p => c[2] = 0
      /\ 3 > p => c[3] = 0
      /\ 4 > p => c[4] = 0
      /\ 5 > p => c[5] = 0
      /\ 6 > p => c[6] = 0
  BY <1>1
<1>3. /\ Third(y, c) = y + 1 - c[1] /\ Second(y, c) = Third(y, c) - c[2]
      /\ First(y, c) = Second(y, c) - c[3]
      /\ Fourth(y, c) = y + 1 + c[4] /\ Fifth(y, c) = Fourth(y, c) + c[5]
      /\ Sixth(y, c) = Fifth(y, c) + c[6]
  BY DEF Third, Second, First, Fourth, Fifth, Sixth
<1>4. y \in Nat /\ y < n
  BY <1>1
<1>5. /\ Third(y, c) \in Int /\ Second(y, c) \in Int /\ First(y, c) \in Int
      /\ Fourth(y, c) \in Int /\ Fifth(y, c) \in Int /\ Sixth(y, c) \in Int
  BY <1>2, <1>3, <1>4
<1>6. QED
  BY <1>1, <1>2, <1>3, <1>4, <1>5

\* The runs walked are those of the chain about y.
LEMMA WalkedChain ==
  ASSUME NEW n \in Nat, NEW line, NEW y, NEW c, NEW p, Walked(line, n, y, c, p),
         NEW v, Chain(line, n, v), y \in v[3]..(v[4] - 1), First(y, c) >= 0, Sixth(y, c) <= n
  PROVE  /\ p >= 2 => Third(y, c) = v[3]
         /\ p >= 3 => Second(y, c) = v[2]
         /\ p >= 4 => First(y, c) = v[1]
         /\ p >= 5 => Fourth(y, c) = v[4]
         /\ p >= 6 => Fifth(y, c) = v[5]
         /\ p >= 3 => First(y, c) >= v[1]
         /\ p = 2 => First(y, c) >= v[2]
         /\ p = 1 => First(y, c) >= v[3]
         /\ p = 4 => Sixth(y, c) <= v[4]
         /\ p = 5 => Sixth(y, c) <= v[5]
         /\ p = 6 => Sixth(y, c) <= v[6]
<1>1. /\ IsRun(line, n, v[1], v[2]) /\ IsRun(line, n, v[2], v[3]) /\ IsRun(line, n, v[3], v[4])
      /\ IsRun(line, n, v[4], v[5]) /\ IsRun(line, n, v[5], v[6])
  BY DEF Chain
<1>2. /\ v[1] \in Nat /\ v[2] \in Nat /\ v[3] \in Nat /\ v[4] \in Nat /\ v[5] \in Nat
      /\ v[6] \in Nat /\ v[6] <= n
      /\ v[1] < v[2] /\ v[2] < v[3] /\ v[3] < v[4] /\ v[4] < v[5] /\ v[5] < v[6]
  BY <1>1 DEF IsRun
<1>17. Walked(line, n, y, c, p)
  OBVIOUS
<1> DEFINE third == Third(y, c)  second == Second(y, c)  first == First(y, c)
           fourth == Fourth(y, c)  fifth == Fifth(y, c)  sixth == Sixth(y, c)
<1>18. /\ p \in 1..6 /\ y \in Nat /\ y < n /\ line[y] = TRUE
       /\ c[1] \in Nat /\ c[2] \in Nat /\ c[3] \in Nat /\ c[4] \in Nat /\ c[5] \in Nat
       /\ c[6] \in Nat
       /\ p < 2 => c[2] = 0
       /\ p < 3 => c[3] = 0
       /\ p < 4 => c[4] = 0
       /\ p < 5 => c[5] = 0
       /\ p < 6 => c[6] = 0
  <2>1. p \in 1..6 /\ y \in 0..(n - 1) /\ line[y] = TRUE
        /\ \A k \in 1..6 : c[k] \in Nat /\ (k > p => c[k] = 0)
    BY <1>17 DEF Walked, Counted, Stretches, Turns
  <2>2. QED
    BY <2>1
<1>19. /\ third = y + 1 - c[1] /\ second = third - c[2] /\ first = second - c[3]
       /\ fourth = y + 1 + c[4] /\ fifth = fourth + c[5] /\ sixth = fifth + c[6]
  BY DEF Third, Second, First, Fourth, Fifth, Sixth
<1>20. /\ third \in Int /\ second \in Int /\ first \in Int
       /\ fourth \in Int /\ fifth \in Int /\ sixth \in Int
  BY <1>18, <1>19
<1>3. /\ p \in 1..6 /\ y \in Nat /\ y < n /\ line[y] = TRUE
      /\ c[1] \in Nat /\ c[2] \in Nat /\ c[3] \in Nat /\ c[4] \in Nat /\ c[5] \in Nat
      /\ c[6] \in Nat
      /\ p < 2 => c[2] = 0
      /\ p < 3 => c[3] = 0
      /\ p < 4 => c[4] = 0
      /\ p < 5 => c[5] = 0
      /\ p < 6 => c[6] = 0
      /\ third = y + 1 - c[1] /\ second = third - c[2] /\ first = second - c[3]
      /\ fourth = y + 1 + c[4] /\ fifth = fourth + c[5] /\ sixth = fifth + c[6]
      /\ third \in Int /\ second \in Int /\ first \in Int
      /\ fourth \in Int /\ fifth \in Int /\ sixth \in Int
  BY <1>18, <1>19, <1>20
<1>15. first >= 0 /\ sixth <= n
  OBVIOUS
<1>4. /\ Same(line, third, y + 1, TRUE) /\ Same(line, second, third, FALSE)
      /\ Same(line, first, second, TRUE) /\ Same(line, y + 1, fourth, TRUE)
      /\ Same(line, fourth, fifth, FALSE) /\ Same(line, fifth, sixth, TRUE)
  BY DEF Walked, Counted, Stretches, Turns
<1>5. /\ p >= 2 => third > 0 /\ c[1] > 0 /\ line[third - 1] = FALSE
      /\ p >= 3 => second > 0 /\ c[2] > 0 /\ line[second - 1] = TRUE
      /\ p >= 4 => /\ first >= 0 /\ c[3] > 0
                   /\ first > 0 => line[first - 1] = FALSE
      /\ p >= 5 => fourth < n /\ line[fourth] = FALSE
      /\ p >= 6 => fifth < n /\ c[5] > 0 /\ line[fifth] = TRUE
  BY DEF Walked, Counted, Stretches, Turns
<1> HIDE DEF third, second, first, fourth, fifth, sixth
<1>6. third >= v[3] /\ (p >= 2 => third = v[3])
  <2>1. third >= 0 /\ third <= y + 1
    BY <1>3, <1>15
  <2>2. \A i \in third..y : line[i] = line[y]
    <3>1. y + 1 - 1 = y
      BY <1>3
    <3>2. \A i \in third..(y + 1 - 1) : line[i] = TRUE
      BY <1>4 DEF Same
    <3>3. \A i \in third..y : line[i] = TRUE
      BY <3>1, <3>2
    <3>4. QED
      BY <1>3, <3>3, Zenon
  <2>3. third >= v[3] /\ (third > 0 /\ line[third - 1] # line[y] => third = v[3])
    BY <1>1, <1>3, <1>15, <2>1, <2>2, RunBack
  <2>4. QED
    BY <1>3, <1>15, <1>5, <2>3
<1>7. p >= 2 => second >= v[2] /\ (p >= 3 => second = v[2])
  <2>1. SUFFICES ASSUME p >= 2 PROVE second >= v[2] /\ (p >= 3 => second = v[2])
    OBVIOUS
  <2>2. third = v[3] /\ line[third - 1] = FALSE /\ third - 1 + 1 = third
    BY <1>3, <1>15, <1>5, <1>6, <2>1
  <2>3. third - 1 \in v[2]..(v[3] - 1) /\ second >= 0 /\ second <= third - 1 + 1
    BY <1>2, <1>3, <1>15, <2>2
  <2>4. \A i \in second..(third - 1) : line[i] = line[third - 1]
    BY <1>3, <1>15, <1>4, <2>2 DEF Same
  <2>5. second >= v[2] /\ (second > 0 /\ line[second - 1] # line[third - 1] => second = v[2])
    BY <1>1, <1>3, <1>15, <2>3, <2>4, RunBack
  <2>6. QED
    BY <1>5, <2>2, <2>5
<1>8. p >= 3 => first >= v[1] /\ (p >= 4 => first = v[1])
  <2>1. SUFFICES ASSUME p >= 3 PROVE first >= v[1] /\ (p >= 4 => first = v[1])
    OBVIOUS
  <2>2. second = v[2] /\ line[second - 1] = TRUE /\ second - 1 + 1 = second
    BY <1>3, <1>15, <1>5, <1>7, <2>1
  <2>3. second - 1 \in v[1]..(v[2] - 1) /\ first >= 0 /\ first <= second - 1 + 1
    BY <1>2, <1>3, <1>15, <2>2
  <2>4. \A i \in first..(second - 1) : line[i] = line[second - 1]
    BY <1>3, <1>15, <1>4, <2>2 DEF Same
  <2>5. first >= v[1] /\ (first > 0 /\ line[first - 1] # line[second - 1] => first = v[1])
    BY <1>1, <1>3, <1>15, <2>3, <2>4, RunBack
  <2>6. CASE p >= 4 /\ first > 0
    BY <1>5, <2>2, <2>5, <2>6
  <2>7. CASE ~(p >= 4 /\ first > 0)
    BY <1>2, <1>3, <1>15, <2>5, <2>7
  <2>8. QED
    BY <2>6, <2>7
<1>9. fourth <= v[4] /\ (p >= 5 => fourth = v[4])
  <2>1. Same(line, y, fourth, TRUE)
    <3>1. \A i \in y..(fourth - 1) : i = y \/ i \in (y + 1)..(fourth - 1)
      BY <1>3, <1>15
    <3>2. QED
      BY <1>3, <1>15, <1>4, <3>1 DEF Same
  <2>2. fourth > y /\ fourth <= n
    BY <1>3, <1>15
  <2>3. \A i \in y..(fourth - 1) : line[i] = line[y]
    BY <1>3, <1>15, <2>1 DEF Same
  <2>4. fourth <= v[4] /\ (fourth < n /\ line[fourth] # line[y] => fourth = v[4])
    BY <1>1, <1>3, <1>15, <2>2, <2>3, RunForth
  <2>5. QED
    BY <1>3, <1>15, <1>5, <2>4
<1>10. p >= 5 => fifth <= v[5] /\ (p >= 6 => fifth = v[5])
  <2>1. SUFFICES ASSUME p >= 5 PROVE fifth <= v[5] /\ (p >= 6 => fifth = v[5])
    OBVIOUS
  <2>2. fourth = v[4] /\ line[fourth] = FALSE /\ fourth \in v[4]..(v[5] - 1)
    BY <1>2, <1>5, <1>9, <2>1
  <2>3. CASE fifth > fourth
    <3>1. \A i \in fourth..(fifth - 1) : line[i] = line[fourth]
      BY <1>4, <2>2 DEF Same
    <3>2. fifth <= n
      BY <1>3, <1>15
    <3>3. fifth <= v[5] /\ (fifth < n /\ line[fifth] # line[fourth] => fifth = v[5])
      BY <1>1, <1>3, <1>15, <2>2, <2>3, <3>1, <3>2, RunForth
    <3>4. QED
      BY <1>5, <2>2, <3>3
  <2>4. CASE fifth <= fourth
    BY <1>2, <1>3, <1>15, <1>5, <2>2, <2>4
  <2>5. QED
    BY <1>3, <1>15, <2>3, <2>4
<1>11. p >= 6 => sixth <= v[6]
  <2>1. SUFFICES ASSUME p >= 6 PROVE sixth <= v[6]
    OBVIOUS
  <2>2. fifth = v[5] /\ line[fifth] = TRUE /\ fifth \in v[5]..(v[6] - 1)
    <3>1. p >= 5
      BY <1>3, <1>15, <2>1
    <3>2. fifth = v[5]
      BY <1>10, <2>1, <3>1
    <3>3. QED
      BY <1>2, <1>5, <2>1, <3>2
  <2>3. CASE sixth > fifth
    <3>1. \A i \in fifth..(sixth - 1) : line[i] = line[fifth]
      BY <1>4, <2>2 DEF Same
    <3>2. QED
      BY <1>1, <1>3, <1>15, <2>2, <2>3, <3>1, RunForth
  <2>4. CASE sixth <= fifth
    BY <1>2, <1>3, <1>15, <2>2, <2>4
  <2>5. QED
    BY <1>3, <1>15, <2>3, <2>4
<1>12. /\ p >= 3 => first >= v[1]
       /\ p = 2 => first >= v[2]
       /\ p = 1 => first >= v[3]
  BY <1>3, <1>15, <1>6, <1>7, <1>8
<1>13. /\ p = 4 => sixth <= v[4]
       /\ p = 5 => sixth <= v[5]
       /\ p = 6 => sixth <= v[6]
  BY <1>3, <1>15, <1>9, <1>10, <1>11
<1> USE DEF third, second, first, fourth, fifth, sixth
<1>14. /\ p >= 2 => Third(y, c) = v[3]
       /\ p >= 3 => Second(y, c) = v[2]
       /\ p >= 4 => First(y, c) = v[1]
       /\ p >= 5 => Fourth(y, c) = v[4]
       /\ p >= 6 => Fifth(y, c) = v[5]
  <2>1. p >= 3 => p >= 2
    BY <1>3
  <2>2. p >= 4 => p >= 3
    BY <1>3
  <2>3. p >= 6 => p >= 5
    BY <1>3
  <2>4. QED
    BY <1>6, <1>7, <1>8, <1>9, <1>10, <2>1, <2>2, <2>3, Zenon
<1>16. QED
  BY <1>14, <1>12, <1>13, Zenon

\* The borders walked, from the counts.
LEMMA WalkedBorders ==
  ASSUME NEW y, NEW c
  PROVE  /\ Third(y, c) = y + 1 - c[1] /\ Second(y, c) = Third(y, c) - c[2]
         /\ First(y, c) = Second(y, c) - c[3]
         /\ Fourth(y, c) = y + 1 + c[4] /\ Fifth(y, c) = Fourth(y, c) + c[5]
         /\ Sixth(y, c) = Fifth(y, c) + c[6]
BY DEF Third, Second, First, Fourth, Fifth, Sixth

\* The counts of a walk.
LEMMA WalkedCounts ==
  ASSUME NEW n \in Nat, NEW line, NEW y, NEW c, NEW p, Walked(line, n, y, c, p)
  PROVE  /\ p \in 1..6 /\ y \in Nat /\ y < n
         /\ c[1] \in Nat /\ c[2] \in Nat /\ c[3] \in Nat /\ c[4] \in Nat /\ c[5] \in Nat
         /\ c[6] \in Nat
         /\ p < 2 => c[2] = 0
         /\ p < 3 => c[3] = 0
         /\ p < 4 => c[4] = 0
         /\ p < 5 => c[5] = 0
         /\ p < 6 => c[6] = 0
<1>1. p \in 1..6 /\ y \in 0..(n - 1)
      /\ \A k \in 1..6 : c[k] \in Nat /\ (k > p => c[k] = 0)
  BY DEF Walked, Counted
<1>2. QED
  BY <1>1

\* A further pixel of the run that is walked.
LEMMA WalkOn ==
  ASSUME NEW n \in Nat, NEW line, NEW y, NEW c, NEW p, Walked(line, n, y, c, p),
         NEW a, a = Ahead(y, c, p),
         Fits(line, a, p),
         p >= 4 \/ a >= 0,
         NEW d, d[p] = c[p] + 1, \A k \in 1..6 : k # p => d[k] = c[k]
  PROVE  /\ Walked(line, n, y, d, p)
         /\ Ahead(y, d, p) = IF p <= 3 THEN a - 1 ELSE a + 1
<1>1. /\ p \in 1..6 /\ y \in Nat /\ y < n
      /\ c[1] \in Nat /\ c[2] \in Nat /\ c[3] \in Nat /\ c[4] \in Nat /\ c[5] \in Nat
      /\ c[6] \in Nat
      /\ p < 2 => c[2] = 0
      /\ p < 3 => c[3] = 0
      /\ p < 4 => c[4] = 0
      /\ p < 5 => c[5] = 0
      /\ p < 6 => c[6] = 0
  BY WalkedCounts
<1>2. /\ Same(line, Third(y, c), y + 1, TRUE) /\ Same(line, Second(y, c), Third(y, c), FALSE)
      /\ Same(line, First(y, c), Second(y, c), TRUE) /\ Same(line, y + 1, Fourth(y, c), TRUE)
      /\ Same(line, Fourth(y, c), Fifth(y, c), FALSE)
      /\ Same(line, Fifth(y, c), Sixth(y, c), TRUE)
  BY DEF Walked, Stretches
<1>3. /\ p >= 2 => Third(y, c) > 0 /\ c[1] > 0 /\ line[Third(y, c) - 1] = FALSE
      /\ p >= 3 => Second(y, c) > 0 /\ c[2] > 0 /\ line[Second(y, c) - 1] = TRUE
      /\ p >= 4 => /\ First(y, c) >= 0 /\ c[3] > 0
                   /\ First(y, c) > 0 => line[First(y, c) - 1] = FALSE
      /\ p >= 5 => Fourth(y, c) < n /\ line[Fourth(y, c)] = FALSE
      /\ p >= 6 => Fifth(y, c) < n /\ c[5] > 0 /\ line[Fifth(y, c)] = TRUE
  BY DEF Walked, Turns
<1>4. /\ Third(y, c) = y + 1 - c[1] /\ Second(y, c) = Third(y, c) - c[2]
      /\ First(y, c) = Second(y, c) - c[3]
      /\ Fourth(y, c) = y + 1 + c[4] /\ Fifth(y, c) = Fourth(y, c) + c[5]
      /\ Sixth(y, c) = Fifth(y, c) + c[6]
      /\ Third(y, d) = y + 1 - d[1] /\ Second(y, d) = Third(y, d) - d[2]
      /\ First(y, d) = Second(y, d) - d[3]
      /\ Fourth(y, d) = y + 1 + d[4] /\ Fifth(y, d) = Fourth(y, d) + d[5]
      /\ Sixth(y, d) = Fifth(y, d) + d[6]
  BY WalkedBorders
<1>5. line[y] = TRUE
  BY DEF Walked
<1>6. Counted(n, y, d, p)
  <2>1. Counted(n, y, c, p)
    BY DEF Walked
  <2>2. QED
    BY <1>1, <2>1 DEF Counted
<1>7. a = IF p <= 3 THEN First(y, c) - 1 ELSE Sixth(y, c)
  BY DEF Ahead
<1>8. Ahead(y, d, p) = IF p <= 3 THEN First(y, d) - 1 ELSE Sixth(y, d)
  BY DEF Ahead
<1>9. d[p] = c[p] + 1 /\ \A k \in 1..6 : k # p => d[k] = c[k]
  OBVIOUS
<1>15. (p \in {2, 5} => line[a] = FALSE) /\ (p \notin {2, 5} => line[a] = TRUE)
  BY DEF Fits
<1>10. CASE p = 1
  <2>1. /\ Third(y, d) = Third(y, c) - 1 /\ Second(y, d) = Third(y, d) /\ First(y, d) = Third(y, d)
        /\ Fourth(y, d) = Fourth(y, c) /\ Fifth(y, d) = Fifth(y, c) /\ Sixth(y, d) = Sixth(y, c)
        /\ a = Third(y, c) - 1 /\ Third(y, c) \in Int /\ Third(y, d) \in Int
        /\ First(y, d) - 1 = a - 1
    BY <1>1, <1>4, <1>7, <1>9, <1>10
  <2>2. line[Third(y, c) - 1] = TRUE
    BY <1>10, <1>15, <2>1
  <2>3. Same(line, Third(y, d), y + 1, TRUE)
    <3>1. y + 1 \in Int
      BY <1>1
    <3>2. QED
      BY <1>2, <2>1, <2>2, <3>1, SameGrows, Zenon
  <2>4. Same(line, Second(y, d), Third(y, d), FALSE) /\ Same(line, First(y, d), Second(y, d), TRUE)
    BY <2>1, SameEmpty, Zenon
  <2>5. Same(line, y + 1, Fourth(y, d), TRUE) /\ Same(line, Fourth(y, d), Fifth(y, d), FALSE)
        /\ Same(line, Fifth(y, d), Sixth(y, d), TRUE)
    BY <1>2, <2>1, Zenon
  <2>6. Walked(line, n, y, d, p)
    <3>1. Stretches(line, y, d)
      BY <2>3, <2>4, <2>5, Zenon DEF Stretches
    <3>2. Turns(line, n, y, d, p)
      BY <1>10 DEF Turns
    <3>3. QED
      BY <1>5, <1>6, <3>1, <3>2, Zenon DEF Walked
  <2>7. QED
    BY <1>8, <1>10, <2>1, <2>6
<1>11. CASE p = 2
  <2>1. /\ Third(y, d) = Third(y, c) /\ Second(y, d) = Second(y, c) - 1 /\ First(y, d) = Second(y, d)
        /\ Fourth(y, d) = Fourth(y, c) /\ Fifth(y, d) = Fifth(y, c) /\ Sixth(y, d) = Sixth(y, c)
        /\ a = Second(y, c) - 1 /\ Second(y, c) \in Int /\ Third(y, c) \in Int
        /\ Second(y, d) \in Int /\ First(y, d) - 1 = a - 1 /\ d[1] = c[1]
    BY <1>1, <1>4, <1>7, <1>9, <1>11
  <2>2. line[Second(y, c) - 1] = FALSE
    BY <1>11, <1>15, <2>1
  <2>3. Same(line, Second(y, d), Third(y, d), FALSE)
    BY <1>2, <2>1, <2>2, SameGrows, Zenon
  <2>4. Same(line, First(y, d), Second(y, d), TRUE)
    BY <2>1, SameEmpty, Zenon
  <2>5. Same(line, y + 1, Fourth(y, d), TRUE) /\ Same(line, Fourth(y, d), Fifth(y, d), FALSE)
        /\ Same(line, Fifth(y, d), Sixth(y, d), TRUE) /\ Same(line, Third(y, d), y + 1, TRUE)
    BY <1>2, <2>1, Zenon
  <2>8. Third(y, d) > 0 /\ d[1] > 0 /\ line[Third(y, d) - 1] = FALSE
    BY <1>3, <1>11, <2>1
  <2>6. Walked(line, n, y, d, p)
    <3>1. Stretches(line, y, d)
      BY <2>3, <2>4, <2>5, Zenon DEF Stretches
    <3>2. Turns(line, n, y, d, p)
      BY <1>11, <2>8 DEF Turns
    <3>3. QED
      BY <1>5, <1>6, <3>1, <3>2, Zenon DEF Walked
  <2>7. QED
    BY <1>8, <1>11, <2>1, <2>6
<1>12. CASE p = 3
  <2>1. /\ Third(y, d) = Third(y, c) /\ Second(y, d) = Second(y, c) /\ First(y, d) = First(y, c) - 1
        /\ Fourth(y, d) = Fourth(y, c) /\ Fifth(y, d) = Fifth(y, c) /\ Sixth(y, d) = Sixth(y, c)
        /\ a = First(y, c) - 1 /\ First(y, c) \in Int /\ Second(y, c) \in Int
        /\ First(y, d) - 1 = a - 1 /\ d[1] = c[1] /\ d[2] = c[2]
    BY <1>1, <1>4, <1>7, <1>9, <1>12
  <2>2. line[First(y, c) - 1] = TRUE
    BY <1>12, <1>15, <2>1
  <2>3. Same(line, First(y, d), Second(y, d), TRUE)
    BY <1>2, <2>1, <2>2, SameGrows, Zenon
  <2>5. Same(line, y + 1, Fourth(y, d), TRUE) /\ Same(line, Fourth(y, d), Fifth(y, d), FALSE)
        /\ Same(line, Fifth(y, d), Sixth(y, d), TRUE) /\ Same(line, Third(y, d), y + 1, TRUE)
        /\ Same(line, Second(y, d), Third(y, d), FALSE)
    BY <1>2, <2>1, Zenon
  <2>8. Third(y, d) > 0 /\ d[1] > 0 /\ line[Third(y, d) - 1] = FALSE
    BY <1>3, <1>12, <2>1
  <2>9. Second(y, d) > 0 /\ d[2] > 0 /\ line[Second(y, d) - 1] = TRUE
    BY <1>3, <1>12, <2>1
  <2>6. Walked(line, n, y, d, p)
    <3>1. Stretches(line, y, d)
      BY <2>3, <2>5, Zenon DEF Stretches
    <3>2. Turns(line, n, y, d, p)
      BY <1>12, <2>8, <2>9 DEF Turns
    <3>3. QED
      BY <1>5, <1>6, <3>1, <3>2, Zenon DEF Walked
  <2>7. QED
    BY <1>8, <1>12, <2>1, <2>6
<1>13. CASE p >= 4
  <2>1. /\ Third(y, d) = Third(y, c) /\ Second(y, d) = Second(y, c) /\ First(y, d) = First(y, c)
        /\ d[1] = c[1] /\ d[2] = c[2] /\ d[3] = c[3]
    BY <1>1, <1>4, <1>9, <1>13
  <2>2. Same(line, Third(y, d), y + 1, TRUE) /\ Same(line, Second(y, d), Third(y, d), FALSE)
        /\ Same(line, First(y, d), Second(y, d), TRUE)
    BY <1>2, <2>1, Zenon
  <2>7. /\ Third(y, d) > 0 /\ d[1] > 0 /\ line[Third(y, d) - 1] = FALSE
        /\ Second(y, d) > 0 /\ d[2] > 0 /\ line[Second(y, d) - 1] = TRUE
        /\ First(y, d) >= 0 /\ d[3] > 0
    BY <1>1, <1>3, <1>13, <2>1
  <2>8. First(y, d) > 0 => line[First(y, d) - 1] = FALSE
    BY <1>1, <1>3, <1>13, <2>1
  <2>3. CASE p = 4
    <3>1. /\ Fourth(y, d) = Fourth(y, c) + 1 /\ Fifth(y, d) = Fourth(y, d)
          /\ Sixth(y, d) = Fourth(y, d) /\ a = Fourth(y, c) /\ Fourth(y, c) \in Int
          /\ Fourth(y, d) \in Int /\ y + 1 \in Int
      BY <1>1, <1>4, <1>7, <1>9, <2>3
    <3>2. line[Fourth(y, c)] = TRUE
      BY <1>15, <2>3, <3>1
    <3>3. Same(line, y + 1, Fourth(y, d), TRUE)
      BY <1>2, <3>1, <3>2, SameGrows, Zenon
    <3>4. Same(line, Fourth(y, d), Fifth(y, d), FALSE) /\ Same(line, Fifth(y, d), Sixth(y, d), TRUE)
      BY <3>1, SameEmpty, Zenon
    <3>5. Walked(line, n, y, d, p)
      <4>1. Stretches(line, y, d)
        BY <2>2, <3>3, <3>4, Zenon DEF Stretches
      <4>2. Turns(line, n, y, d, p)
        BY <2>3, <2>7, <2>8 DEF Turns
      <4>3. QED
        BY <1>5, <1>6, <4>1, <4>2, Zenon DEF Walked
    <3>6. QED
      BY <1>8, <2>3, <3>1, <3>5
  <2>4. CASE p = 5
    <3>1. /\ Fourth(y, d) = Fourth(y, c) /\ Fifth(y, d) = Fifth(y, c) + 1
          /\ Sixth(y, d) = Fifth(y, d) /\ a = Fifth(y, c) /\ Fourth(y, c) \in Int
          /\ Fifth(y, c) \in Int /\ Fifth(y, d) \in Int
      BY <1>1, <1>4, <1>7, <1>9, <2>4
    <3>2. line[Fifth(y, c)] = FALSE
      BY <1>15, <2>4, <3>1
    <3>3. Same(line, Fourth(y, d), Fifth(y, d), FALSE)
      BY <1>2, <3>1, <3>2, SameGrows, Zenon
    <3>4. Same(line, Fifth(y, d), Sixth(y, d), TRUE) /\ Same(line, y + 1, Fourth(y, d), TRUE)
      BY <1>2, <3>1, SameEmpty, Zenon
    <3>7. Fourth(y, d) < n /\ line[Fourth(y, d)] = FALSE
      BY <1>3, <2>4, <3>1
    <3>5. Walked(line, n, y, d, p)
      <4>1. Stretches(line, y, d)
        BY <2>2, <3>3, <3>4, Zenon DEF Stretches
      <4>2. Turns(line, n, y, d, p)
        BY <2>4, <2>7, <2>8, <3>7 DEF Turns
      <4>3. QED
        BY <1>5, <1>6, <4>1, <4>2, Zenon DEF Walked
    <3>6. QED
      BY <1>8, <2>4, <3>1, <3>5
  <2>5. CASE p = 6
    <3>1. /\ Fourth(y, d) = Fourth(y, c) /\ Fifth(y, d) = Fifth(y, c)
          /\ Sixth(y, d) = Sixth(y, c) + 1 /\ a = Sixth(y, c) /\ Sixth(y, c) \in Int
          /\ Fifth(y, c) \in Int /\ d[5] = c[5]
      BY <1>1, <1>4, <1>7, <1>9, <2>5
    <3>2. line[Sixth(y, c)] = TRUE
      BY <1>15, <2>5, <3>1
    <3>3. Same(line, Fifth(y, d), Sixth(y, d), TRUE)
      BY <1>2, <3>1, <3>2, SameGrows, Zenon
    <3>4. Same(line, Fourth(y, d), Fifth(y, d), FALSE) /\ Same(line, y + 1, Fourth(y, d), TRUE)
      BY <1>2, <3>1, Zenon
    <3>7. Fourth(y, d) < n /\ line[Fourth(y, d)] = FALSE
      BY <1>3, <2>5, <3>1
    <3>8. Fifth(y, d) < n /\ d[5] > 0 /\ line[Fifth(y, d)] = TRUE
      BY <1>3, <2>5, <3>1
    <3>5. Walked(line, n, y, d, p)
      <4>1. Stretches(line, y, d)
        BY <2>2, <3>3, <3>4, Zenon DEF Stretches
      <4>2. Turns(line, n, y, d, p)
        BY <2>5, <2>7, <2>8, <3>7, <3>8 DEF Turns
      <4>3. QED
        BY <1>5, <1>6, <4>1, <4>2, Zenon DEF Walked
    <3>6. QED
      BY <1>8, <2>5, <3>1, <3>5
  <2>6. QED
    BY <1>1, <1>13, <2>3, <2>4, <2>5
<1>14. QED
  BY <1>1, <1>10, <1>11, <1>12, <1>13

\* A pixel of the other colour ends the run: the walk goes on with the next one.
LEMMA WalkNext ==
  ASSUME NEW n \in Nat, NEW line, NEW y, NEW c, NEW p, Walked(line, n, y, c, p), p \notin {3, 6},
         NEW a, a = Ahead(y, c, p), a >= 0, a < n,
         Differs(line, a, p),
         c[p] # 0 \/ p = 4
  PROVE  Walked(line, n, y, c, p + 1) /\ Ahead(y, c, p + 1) = a
<1>1. /\ p \in 1..6 /\ y \in Nat /\ y < n
      /\ c[1] \in Nat /\ c[2] \in Nat /\ c[3] \in Nat /\ c[4] \in Nat /\ c[5] \in Nat
      /\ c[6] \in Nat
      /\ p < 2 => c[2] = 0
      /\ p < 3 => c[3] = 0
      /\ p < 4 => c[4] = 0
      /\ p < 5 => c[5] = 0
      /\ p < 6 => c[6] = 0
  BY WalkedCounts
<1>2. Counted(n, y, c, p) /\ line[y] = TRUE /\ Stretches(line, y, c) /\ Turns(line, n, y, c, p)
  BY DEF Walked
<1>3. Counted(n, y, c, p + 1)
  BY <1>1, <1>2 DEF Counted
<1>4. /\ Third(y, c) = y + 1 - c[1] /\ Second(y, c) = Third(y, c) - c[2]
      /\ First(y, c) = Second(y, c) - c[3]
      /\ Fourth(y, c) = y + 1 + c[4] /\ Fifth(y, c) = Fourth(y, c) + c[5]
      /\ Sixth(y, c) = Fifth(y, c) + c[6]
  BY WalkedBorders
<1>5. a = IF p <= 3 THEN First(y, c) - 1 ELSE Sixth(y, c)
  BY DEF Ahead
<1>6. Ahead(y, c, p + 1) = IF p + 1 <= 3 THEN First(y, c) - 1 ELSE Sixth(y, c)
  BY DEF Ahead
<1>7. Ahead(y, c, p + 1) = a
  BY <1>1, <1>5, <1>6
<1>10. (p \in {2, 5} => line[a] = TRUE) /\ (p \notin {2, 5} => line[a] = FALSE)
  BY DEF Differs
<1>8. Turns(line, n, y, c, p + 1)
  <2>1. CASE p = 1
    <3>1. a = Third(y, c) - 1 /\ c[1] > 0 /\ Third(y, c) > 0 /\ line[a] = FALSE
      BY <1>1, <1>4, <1>5, <1>10, <2>1
    <3>2. QED
      BY <2>1, <3>1 DEF Turns
  <2>2. CASE p = 2
    <3>1. a = Second(y, c) - 1 /\ c[2] > 0 /\ Second(y, c) > 0 /\ line[a] = TRUE
      BY <1>1, <1>4, <1>5, <1>10, <2>2
    <3>2. QED
      BY <1>2, <2>2, <3>1 DEF Turns
  <2>3. CASE p = 4
    <3>1. a = Fourth(y, c) /\ line[a] = FALSE
      BY <1>1, <1>4, <1>5, <1>10, <2>3
    <3>2. QED
      BY <1>2, <2>3, <3>1 DEF Turns
  <2>4. CASE p = 5
    <3>1. a = Fifth(y, c) /\ c[5] > 0 /\ line[a] = TRUE
      BY <1>1, <1>4, <1>5, <1>10, <2>4
    <3>2. QED
      BY <1>2, <2>4, <3>1 DEF Turns
  <2>5. QED
    BY <1>1, <2>1, <2>2, <2>3, <2>4
<1>9. QED
  BY <1>2, <1>3, <1>7, <1>8, Zenon DEF Walked

\* The outer run above has ended: the walk goes on below the centre.
LEMMA WalkTurns ==
  ASSUME NEW n \in Nat, NEW line, NEW y, NEW c, Walked(line, n, y, c, 3),
         c[3] # 0, First(y, c) >= 0, First(y, c) > 0 => line[First(y, c) - 1] = FALSE
  PROVE  Walked(line, n, y, c, 4) /\ Ahead(y, c, 4) = y + 1
<1> DEFINE p == 3
<1>1. /\ y \in Nat /\ y < n
      /\ c[1] \in Nat /\ c[2] \in Nat /\ c[3] \in Nat /\ c[4] = 0 /\ c[5] = 0 /\ c[6] = 0
  <2>1. Counted(n, y, c, 3)
    BY DEF Walked
  <2>2. QED
    BY <2>1 DEF Counted
<1>2. Counted(n, y, c, 3) /\ line[y] = TRUE /\ Stretches(line, y, c) /\ Turns(line, n, y, c, 3)
  BY DEF Walked
<1>3. Counted(n, y, c, 4)
  BY <1>1, <1>2 DEF Counted
<1>4. Turns(line, n, y, c, 4)
  BY <1>1, <1>2 DEF Turns
<1>5. Ahead(y, c, 4) = y + 1
  BY <1>1 DEF Ahead, Sixth, Fifth, Fourth
<1>6. QED
  BY <1>2, <1>3, <1>4, <1>5, Zenon DEF Walked

\* A walk begins at a black pixel.
LEMMA WalkBegins ==
  ASSUME NEW n \in Nat, NEW line, NEW y \in 0..(n - 1), line[y] = TRUE,
         NEW c, \A k \in 1..6 : c[k] = 0
  PROVE  Walked(line, n, y, c, 1) /\ Ahead(y, c, 1) = y
<1>1. /\ Third(y, c) = y + 1 /\ Second(y, c) = y + 1 /\ First(y, c) = y + 1
      /\ Fourth(y, c) = y + 1 /\ Fifth(y, c) = y + 1 /\ Sixth(y, c) = y + 1 /\ y + 1 \in Int
  BY DEF Third, Second, First, Fourth, Fifth, Sixth
<1>2. Stretches(line, y, c)
  BY <1>1, SameEmpty, Zenon DEF Stretches
<1>3. Turns(line, n, y, c, 1)
  BY DEF Turns
<1>4. Counted(n, y, c, 1)
  BY DEF Counted
<1>5. Ahead(y, c, 1) = y
  BY <1>1 DEF Ahead
<1>6. QED
  BY <1>2, <1>3, <1>4, <1>5, Zenon DEF Walked

\* When each verdict is given.
LEMMA Verdicts ==
  ASSUME phase \in 1..6
  PROVE  /\ Verdict \in {"on", "turn", "phase", "ratio", "reject"}
         /\ Verdict = "on" => Belongs /\ ~(Steps + 1 >= MaxSpan)
                              /\ cursor # (IF Upward THEN 0 ELSE Rows - 1)
         /\ Verdict = "turn" =>
              /\ phase = 3 /\ cand.y < Rows - 1
              /\ IF Belongs THEN ~(Steps + 1 >= MaxSpan) /\ cursor = 0 ELSE counts[3] # 0
         /\ Verdict = "phase" => /\ phase \notin {3, 6} /\ ~Belongs
                                 /\ counts[phase] # 0 \/ phase = 4
         /\ Verdict = "ratio" =>
              /\ phase = 6
              /\ IF Belongs THEN ~(Steps + 1 >= MaxSpan) /\ cursor = Rows - 1 ELSE counts[6] # 0
         /\ Verdict = "reject" =>
              \/ Belongs /\ Steps + 1 >= MaxSpan
              \/ ~Belongs /\ counts[phase] = 0 /\ phase # 4
              \/ phase = 3 /\ ~(cand.y < Rows - 1)
              \/ Belongs /\ phase \notin {3, 6} /\ cursor = (IF Upward THEN 0 ELSE Rows - 1)
<1>1. CASE Belongs /\ Steps + 1 >= MaxSpan
  BY <1>1 DEF Verdict
<1>2. CASE Belongs /\ ~(Steps + 1 >= MaxSpan) /\ cursor # (IF Upward THEN 0 ELSE Rows - 1)
  BY <1>2 DEF Verdict
<1>3. CASE ~Belongs /\ counts[phase] = 0 /\ phase # 4
  BY <1>3 DEF Verdict
<1>4. CASE /\ ~(Belongs /\ Steps + 1 >= MaxSpan)
           /\ ~(Belongs /\ cursor # (IF Upward THEN 0 ELSE Rows - 1))
           /\ ~(~Belongs /\ counts[phase] = 0 /\ phase # 4)
  <2>1. Verdict = CASE phase = 3       -> IF cand.y < Rows - 1 THEN "turn" ELSE "reject"
                    [] phase = 6       -> "ratio"
                    [] phase \notin {3, 6} -> IF Belongs THEN "reject" ELSE "phase"
    BY <1>4 DEF Verdict
  <2>2. CASE phase = 3
    <3>1. Verdict = IF cand.y < Rows - 1 THEN "turn" ELSE "reject"
      BY <2>1, <2>2
    <3>2. QED
      BY <1>4, <2>2, <3>1 DEF Upward
  <2>3. CASE phase = 6
    <3>1. Verdict = "ratio"
      BY <2>1, <2>3
    <3>2. QED
      BY <1>4, <2>3, <3>1 DEF Upward
  <2>4. CASE phase \notin {3, 6}
    <3>1. Verdict = IF Belongs THEN "reject" ELSE "phase"
      BY <2>1, <2>4
    <3>2. QED
      BY <1>4, <2>4, <3>1
  <2>5. QED
    BY <2>2, <2>3, <2>4
<1>5. QED
  BY <1>1, <1>2, <1>3, <1>4

\* The counters when the pixel under the cross check counts.
Next1 == [counts EXCEPT ![phase] = @ + 1]

\* What the cross check has before it: a pixel of the run it walks, or the first one after it.
LEMMA AtCheck ==
  ASSUME OwnWords, InFrame, CheckInv, vcc = "READ_CHECK"
  PROVE  /\ Walked(ColumnLine(cand.x), Rows, cand.y, counts, phase)
         /\ phase \in 1..6 /\ cursor \in 0..(Rows - 1)
         /\ cursor = Ahead(cand.y, counts, phase) /\ DOMAIN counts = 1..6
         /\ First(cand.y, counts) \in Nat /\ Sixth(cand.y, counts) \in 0..Rows
         /\ Belongs => Fits(ColumnLine(cand.x), cursor, phase)
         /\ ~Belongs => Differs(ColumnLine(cand.x), cursor, phase)
<1> DEFINE line == ColumnLine(cand.x)  y == cand.y  c == counts  p == phase
<1>1. Walked(line, Rows, y, c, p) /\ cursor = Ahead(y, c, p) /\ DOMAIN c = 1..6
  BY DEF CheckInv, Walking
<1>2. Rows \in Nat \ {0} /\ cursor \in 0..(Rows - 1)
  BY FeatureAssumption DEF InFrame
<1>3. Dark(port, cand.x % WordBits) = line[cursor] /\ line[cursor] \in BOOLEAN
  <2>1. line[cursor] = (<<cand.x, cursor>> \in Images[image])
    BY <1>2 DEF ColumnLine
  <2>2. Dark(port, cand.x % WordBits) = (<<cand.x, cursor>> \in Images[image])
    BY CheckReads
  <2>3. QED
    BY <2>1, <2>2
<1>4. Belongs = (line[cursor] = (phase \notin {2, 5}))
  BY <1>3 DEF Belongs
<1>5. (Belongs => Fits(line, cursor, phase)) /\ (~Belongs => Differs(line, cursor, phase))
  <2>1. CASE phase \in {2, 5}
    <3>1. Belongs = (line[cursor] = FALSE)
      BY <1>4, <2>1
    <3>2. QED
      BY <1>3, <2>1, <3>1 DEF Fits, Differs
  <2>2. CASE phase \notin {2, 5}
    <3>1. Belongs = (line[cursor] = TRUE)
      BY <1>4, <2>2
    <3>2. QED
      BY <1>3, <2>2, <3>1 DEF Fits, Differs
  <2>3. QED
    BY <2>1, <2>2
<1>6. First(y, c) \in Nat /\ Sixth(y, c) \in 0..Rows /\ p \in 1..6
  <2>1. /\ p \in 1..6 /\ y \in Nat /\ y < Rows
        /\ c[1] \in Nat /\ c[2] \in Nat /\ c[3] \in Nat /\ c[4] \in Nat /\ c[5] \in Nat
        /\ c[6] \in Nat
        /\ p < 4 => c[4] = 0
        /\ p < 5 => c[5] = 0
        /\ p < 6 => c[6] = 0
    BY <1>1, <1>2, WalkedCounts
  <2>2. /\ Third(y, c) = y + 1 - c[1] /\ Second(y, c) = Third(y, c) - c[2]
        /\ First(y, c) = Second(y, c) - c[3]
        /\ Fourth(y, c) = y + 1 + c[4] /\ Fifth(y, c) = Fourth(y, c) + c[5]
        /\ Sixth(y, c) = Fifth(y, c) + c[6]
    BY WalkedBorders
  <2>3. cursor = IF p <= 3 THEN First(y, c) - 1 ELSE Sixth(y, c)
    BY <1>1 DEF Ahead
  <2>4. First(y, c) \in Int /\ Sixth(y, c) \in Int /\ Sixth(y, c) >= 0
    BY <2>1, <2>2
  <2>5. CASE p <= 3
    BY <1>2, <2>1, <2>2, <2>3, <2>4, <2>5
  <2>6. CASE p >= 4
    <3>1. First(y, c) >= 0
      BY <1>1, <2>6 DEF Walked, Turns
    <3>2. QED
      BY <1>2, <2>1, <2>3, <2>4, <2>6, <3>1
  <2>7. QED
    BY <2>1, <2>5, <2>6
<1>7. QED
  BY <1>1, <1>2, <1>5, <1>6, Zenon

\* A pixel that belongs to the run is walked.
LEMMA Belonging ==
  ASSUME OwnWords, InFrame, CheckInv, vcc = "READ_CHECK", Belongs
  PROVE  /\ Walked(ColumnLine(cand.x), Rows, cand.y, Next1, phase)
         /\ Ahead(cand.y, Next1, phase) = IF Upward THEN cursor - 1 ELSE cursor + 1
         /\ First(cand.y, Next1) \in Nat /\ Sixth(cand.y, Next1) \in 0..Rows
         /\ Upward => First(cand.y, Next1) = cursor
         /\ ~Upward => Sixth(cand.y, Next1) = cursor + 1
         /\ Next1[phase] = counts[phase] + 1 /\ \A k \in 1..6 : k # phase => Next1[k] = counts[k]
         /\ DOMAIN Next1 = 1..6
<1> DEFINE line == ColumnLine(cand.x)  y == cand.y  c == counts  p == phase  d == Next1
<1>1. /\ Walked(line, Rows, y, c, p) /\ p \in 1..6 /\ cursor \in 0..(Rows - 1)
      /\ cursor = Ahead(y, c, p) /\ DOMAIN c = 1..6
      /\ First(y, c) \in Nat /\ Sixth(y, c) \in 0..Rows
  BY AtCheck
<1>2. Rows \in Nat
  BY FeatureAssumption
<1>3. Fits(line, cursor, p)
  BY AtCheck
<1>4. d[p] = c[p] + 1 /\ (\A k \in 1..6 : k # p => d[k] = c[k]) /\ DOMAIN d = 1..6
  BY <1>1 DEF Next1
<1>5. Walked(line, Rows, y, d, p) /\ Ahead(y, d, p) = IF p <= 3 THEN cursor - 1 ELSE cursor + 1
  <2> HIDE DEF line, y, c, p, d
  <2>1. p >= 4 \/ cursor >= 0
    BY <1>1
  <2>2. QED
    BY <1>1, <1>2, <1>3, <1>4, <2>1, WalkOn
<1>7. /\ First(y, d) \in Nat /\ Sixth(y, d) \in 0..Rows
      /\ p <= 3 => First(y, d) = cursor
      /\ p > 3 => Sixth(y, d) = cursor + 1
  <2>1. Ahead(y, d, p) = IF p <= 3 THEN First(y, d) - 1 ELSE Sixth(y, d)
    BY DEF Ahead
  <2>2. /\ Third(y, c) = y + 1 - c[1] /\ Second(y, c) = Third(y, c) - c[2]
        /\ First(y, c) = Second(y, c) - c[3]
        /\ Fourth(y, c) = y + 1 + c[4] /\ Fifth(y, c) = Fourth(y, c) + c[5]
        /\ Sixth(y, c) = Fifth(y, c) + c[6]
        /\ Third(y, d) = y + 1 - d[1] /\ Second(y, d) = Third(y, d) - d[2]
        /\ First(y, d) = Second(y, d) - d[3]
        /\ Fourth(y, d) = y + 1 + d[4] /\ Fifth(y, d) = Fourth(y, d) + d[5]
        /\ Sixth(y, d) = Fifth(y, d) + d[6]
    BY WalkedBorders
  <2>3. /\ y \in Nat /\ y < Rows
        /\ c[1] \in Nat /\ c[2] \in Nat /\ c[3] \in Nat /\ c[4] \in Nat /\ c[5] \in Nat
        /\ c[6] \in Nat
        /\ d[1] \in Nat /\ d[2] \in Nat /\ d[3] \in Nat /\ d[4] \in Nat /\ d[5] \in Nat
        /\ d[6] \in Nat
    BY <1>1, <1>2, <1>5, WalkedCounts
  <2> HIDE DEF line, y, c, p, d
  <2>4. CASE p <= 3
    <3>1. d[4] = c[4] /\ d[5] = c[5] /\ d[6] = c[6]
      BY <1>1, <1>4, <2>4
    <3>2. Sixth(y, d) = Sixth(y, c)
      BY <2>2, <3>1
    <3>3. First(y, d) \in Int
      BY <2>2, <2>3
    <3>4. First(y, d) = cursor
      BY <1>1, <1>5, <2>1, <2>4, <3>3
    <3>5. QED
      BY <1>1, <2>4, <3>2, <3>4
  <2>5. CASE p > 3
    <3>1. d[1] = c[1] /\ d[2] = c[2] /\ d[3] = c[3]
      BY <1>1, <1>4, <2>5
    <3>2. First(y, d) = First(y, c)
      BY <2>2, <3>1
    <3>3. Sixth(y, d) = cursor + 1
      BY <1>1, <1>5, <2>1, <2>5
    <3>4. QED
      BY <1>1, <1>2, <2>5, <3>2, <3>3
  <2>6. QED
    BY <1>1, <2>4, <2>5
<1>9. /\ Walked(ColumnLine(cand.x), Rows, cand.y, Next1, phase)
      /\ Next1[phase] = counts[phase] + 1 /\ (\A k \in 1..6 : k # phase => Next1[k] = counts[k])
      /\ DOMAIN Next1 = 1..6 /\ First(cand.y, Next1) \in Nat /\ Sixth(cand.y, Next1) \in 0..Rows
  BY <1>4, <1>5, <1>7, Zenon
<1>10. /\ Ahead(cand.y, Next1, phase) = IF Upward THEN cursor - 1 ELSE cursor + 1
       /\ Upward => First(cand.y, Next1) = cursor
       /\ ~Upward => Sixth(cand.y, Next1) = cursor + 1
  <2>1. CASE p <= 3
    BY <1>5, <1>7, <2>1 DEF Upward
  <2>2. CASE ~(p <= 3)
    <3>1. p > 3
      BY <1>1, <2>2
    <3>2. QED
      BY <1>5, <1>7, <2>2, <3>1 DEF Upward
  <2>3. QED
    BY <2>1, <2>2
<1>8. QED
  BY <1>9, <1>10, Zenon
-----------------------------------------------------------------------------
\* CheckInv: the counters of the cross check are the runs it has walked.

\* The walks up and down are shorter than the pattern.
Short(c, span) == c[1] + c[2] + c[3] < span /\ c[4] + c[5] + c[6] < span

\* The cross check from its first step to the ratio.
LEMMA CheckSays ==
  ASSUME CheckInv, Walking \/ vcc = "RATIO"
  PROVE  Walked(ColumnLine(cand.x), Rows, cand.y, counts, phase) /\ Short(counts, MaxSpan)
         /\ DOMAIN counts = 1..6
BY DEF CheckInv, Short

\* MaxSpan is what Down calls span.
LEMMA SpanIs ==
  ASSUME ScanInv, ControlInv, vcc # "IDLE"
  PROVE  MaxSpan \in Nat /\ cand.total \in Nat /\ MaxSpan > 0
<1>1. Candidate(cand)
  BY DEF ScanInv, ControlInv
<1>2. QED
  BY <1>1, FeatureAssumption DEF MaxSpan, Candidate

\* A further step of the walk that is allowed leaves it short enough.
LEMMA StillShort ==
  ASSUME ScanInv, ControlInv, OwnWords, InFrame, CheckInv, vcc = "READ_CHECK", Belongs,
         ~(Steps + 1 >= MaxSpan)
  PROVE  Short(Next1, MaxSpan)
<1>1. MaxSpan \in Nat
  BY SpanIs
<1>2. Walked(ColumnLine(cand.x), Rows, cand.y, counts, phase) /\ Short(counts, MaxSpan)
  BY CheckSays DEF Walking
<1>3. /\ phase \in 1..6
      /\ counts[1] \in Nat /\ counts[2] \in Nat /\ counts[3] \in Nat /\ counts[4] \in Nat
      /\ counts[5] \in Nat /\ counts[6] \in Nat
  <2>1. Rows \in Nat
    BY FeatureAssumption
  <2>2. QED
    BY <1>2, <2>1, WalkedCounts
<1>4. Next1[phase] = counts[phase] + 1 /\ \A k \in 1..6 : k # phase => Next1[k] = counts[k]
  BY Belonging
<1>5. Steps + 1 < MaxSpan
  BY <1>1, <1>3 DEF Steps
<1>6. CASE phase <= 3
  <2>1. Next1[1] + Next1[2] + Next1[3] = Steps + 1
    BY <1>3, <1>4, <1>6 DEF Steps, Upward
  <2>2. Next1[4] = counts[4] /\ Next1[5] = counts[5] /\ Next1[6] = counts[6]
    BY <1>3, <1>4, <1>6
  <2>3. QED
    BY <1>2, <1>5, <2>1, <2>2 DEF Short
<1>7. CASE ~(phase <= 3)
  <2>1. Next1[4] + Next1[5] + Next1[6] = Steps + 1
    BY <1>3, <1>4, <1>7 DEF Steps, Upward
  <2>2. Next1[1] = counts[1] /\ Next1[2] = counts[2] /\ Next1[3] = counts[3]
    BY <1>3, <1>4, <1>7
  <2>3. QED
    BY <1>2, <1>5, <2>1, <2>2 DEF Short
<1>8. QED
  BY <1>6, <1>7

\* Each edge of the cross check keeps its counters true to the column.
LEMMA CheckInvStep ==
  ASSUME PortInv, ScanInv, OwnWords, InFrame, ControlInv, FlightInv, CheckInv,
         NEW start \in BOOLEAN, NEW ready \in BOOLEAN, Block(start, ready)
  PROVE  CheckInv'
<1> USE FeatureAssumption
<1>0. CrossCheck(ready)
  BY DEF Block
<1>1. SUFFICES ASSUME Walking' \/ vcc' = "RATIO" PROVE CheckInv'
  BY DEF CheckInv
<1>2. vcc = "IDLE" => vccPattern /\ Accepts
  BY <1>0, <1>1 DEF CrossCheck, Check, Walking
<1>3. image' = image
  <2>1. ~start
    <3>1. vccPattern => pending # NoPattern
      BY DEF PortInv, WithReader, HandOver, WithCheck, HandBack, Quiet
    <3>2. QED
      BY <1>2, <3>1 DEF Block, Busy, Settled, Request
  <2>2. QED
    BY <2>1 DEF Block, FrameReader
<1> DEFINE line == ColumnLine(cand.x)  y == cand.y  c == counts  p == phase
<1>4. ASSUME cand' = cand
      PROVE  ColumnLine(cand.x)' = line /\ MaxSpan' = MaxSpan
  BY <1>3, <1>4 DEF ColumnLine, MaxSpan
<1>5. CASE vcc = "IDLE"
  <2>1. /\ vcc' = "READ_REQ" /\ phase' = 1 /\ cand' = pending /\ cursor' = pending.y
        /\ counts' = [k \in 1..6 |-> 0]
    BY <1>0, <1>2, <1>5 DEF CrossCheck, Check
  <2>2. pending # NoPattern /\ pattern = NoPattern /\ control # "WAIT_DONE"
    BY <1>2, <1>5 DEF PortInv, WithReader, HandOver, WithCheck, HandBack, Quiet
  <2>3. Across(pending.x, pending.y)
    BY <1>5, <2>2 DEF FlightInv, Flying, Flyer, Undecided
  <2>4. <<pending.x, pending.y>> \in Images[image] /\ Candidate(pending)
    BY <2>2, <2>3 DEF Across, InPattern, ScanInv
  <2> DEFINE col == ColumnLine(pending.x)
  <2>5. ColumnLine(cand.x)' = col
    BY <1>3, <2>1 DEF ColumnLine
  <2>6. col[pending.y] = TRUE
    BY <2>4 DEF ColumnLine, Candidate
  <2>7. /\ Walked(col, Rows, pending.y, counts', 1) /\ Ahead(pending.y, counts', 1) = pending.y
    <3> HIDE DEF col
    <3>1. \A k \in 1..6 : counts'[k] = 0
      BY <2>1
    <3>2. pending.y \in 0..(Rows - 1) /\ Rows \in Nat
      BY <2>4 DEF Candidate
    <3>3. ASSUME NEW d, \A k \in 1..6 : d[k] = 0, NEW x \in 0..(Rows - 1), col[x] = TRUE
          PROVE  Walked(col, Rows, x, d, 1) /\ Ahead(x, d, 1) = x
      <4>1. Rows \in Nat
        OBVIOUS
      <4>2. QED
        BY <3>3, <4>1, WalkBegins, Zenon
    <3>4. QED
      BY <2>6, <3>1, <3>2, <3>3, Zenon
  <2>8. MaxSpan' \in Nat /\ MaxSpan' > 0
    BY <2>1, <2>4 DEF MaxSpan, Candidate
  <2>9. Short(counts', MaxSpan')
    BY <2>1, <2>8 DEF Short
  <2>10. Walked(ColumnLine(cand.x)', Rows, cand'.y, counts', phase')
    BY <2>1, <2>5, <2>7
  <2>11. cursor' = Ahead(cand'.y, counts', phase') /\ DOMAIN counts' = 1..6 /\ vcc' # "RATIO"
    BY <2>1, <2>7
  <2>12. QED
    BY <2>9, <2>10, <2>11 DEF CheckInv, Short
<1>6. CASE vcc \in {"READ_REQ", "READ_WAIT"}
  <2>1. UNCHANGED <<phase, cand, cursor, counts>> /\ vcc' # "RATIO"
    BY <1>0, <1>6 DEF CrossCheck, Check
  <2>2. Walking
    BY <1>6 DEF Walking
  <2>3. Walked(ColumnLine(cand.x)', Rows, cand'.y, counts', phase')
    BY <1>4, <2>1, <2>2, CheckSays
  <2>4. QED
    BY <1>4, <2>1, <2>2, <2>3 DEF CheckInv
<1>7. CASE vcc = "READ_CHECK"
  <2>1. Check
    BY <1>0, <1>7 DEF CrossCheck
  <2>2. cand' = cand
    BY <2>1 DEF Check
  <2>3. /\ Walked(line, Rows, y, c, p) /\ p \in 1..6 /\ cursor \in 0..(Rows - 1)
        /\ cursor = Ahead(y, c, p) /\ DOMAIN c = 1..6
        /\ First(y, c) \in Nat /\ Sixth(y, c) \in 0..Rows
        /\ Belongs => Fits(line, cursor, p)
        /\ ~Belongs => Differs(line, cursor, p)
    BY <1>7, AtCheck
  <2>4. Short(c, MaxSpan)
    BY <1>7, CheckSays DEF Walking
  <2>5. SUFFICES /\ Walked(line, Rows, y, counts', phase') /\ Short(counts', MaxSpan)
                 /\ DOMAIN counts' = 1..6
                 /\ vcc' # "RATIO" => cursor' = Ahead(y, counts', phase')
                 /\ vcc' = "RATIO" =>
                      /\ phase' = 6 /\ counts'[6] > 0 /\ Sixth(y, counts') <= Rows
                      /\ Sixth(y, counts') < Rows => line[Sixth(y, counts')] = FALSE
    <3>1. Walked(ColumnLine(cand.x)', Rows, cand'.y, counts', phase')
      BY <1>4, <2>2, <2>5
    <3>2. Short(counts', MaxSpan')
      BY <1>4, <2>2, <2>5
    <3>3. Walking' => cursor' = Ahead(cand'.y, counts', phase')
      BY <2>2, <2>5 DEF Walking
    <3>4. vcc' = "RATIO" =>
            /\ phase' = 6 /\ counts'[6] > 0 /\ Sixth(cand'.y, counts') <= Rows
            /\ Sixth(cand'.y, counts') < Rows =>
                 ColumnLine(cand.x)'[Sixth(cand'.y, counts')] = FALSE
      BY <1>4, <2>2, <2>5
    <3>5. QED
      BY <2>5, <3>1, <3>2, <3>3, <3>4 DEF CheckInv, Short
  <2>6. Verdict # "reject"
    BY <1>1, <2>1 DEF Check, Walking
  <2>7. counts' = IF Belongs THEN Next1 ELSE c
    BY <2>1 DEF Check, Next1
  <2>8. CASE Verdict = "on"
    <3>1. Belongs /\ ~(Steps + 1 >= MaxSpan)
      BY <2>3, <2>8, Verdicts
    <3>2. vcc' = "READ_REQ" /\ phase' = p /\ cursor' = IF Upward THEN cursor - 1 ELSE cursor + 1
      BY <2>1, <2>8 DEF Check
    <3>3. /\ Walked(line, Rows, y, Next1, p) /\ DOMAIN Next1 = 1..6
          /\ Ahead(y, Next1, p) = IF Upward THEN cursor - 1 ELSE cursor + 1
      BY <1>7, <3>1, Belonging
    <3>4. Short(Next1, MaxSpan)
      BY <1>7, <3>1, StillShort
    <3>5. QED
      BY <2>7, <3>1, <3>2, <3>3, <3>4
  <2>9. CASE Verdict = "turn"
    <3>1. /\ p = 3
          /\ IF Belongs THEN ~(Steps + 1 >= MaxSpan) /\ cursor = 0 ELSE c[3] # 0
      BY <2>3, <2>9, Verdicts
    <3>2. vcc' = "READ_REQ" /\ phase' = 4 /\ cursor' = y + 1
      BY <2>1, <2>9 DEF Check
    <3>3. CASE Belongs
      <4>1. /\ Walked(line, Rows, y, Next1, p) /\ DOMAIN Next1 = 1..6
            /\ First(y, Next1) = 0 /\ Next1[3] = c[3] + 1
        BY <1>7, <3>1, <3>3, Belonging DEF Upward
      <4>2. c[3] \in Nat
        BY <2>3, WalkedCounts
      <4>3. Walked(line, Rows, y, Next1, 4) /\ Ahead(y, Next1, 4) = y + 1
        <5> HIDE DEF line, y, c, p
        <5>1. Next1[3] # 0 /\ First(y, Next1) >= 0 /\ ~(First(y, Next1) > 0)
          BY <4>1, <4>2
        <5>2. Walked(line, Rows, y, Next1, 3) /\ Rows \in Nat
          BY <3>1, <4>1
        <5>3. QED
          BY <5>1, <5>2, WalkTurns, Zenon
      <4>4. Short(Next1, MaxSpan)
        BY <1>7, <3>1, <3>3, StillShort
      <4>5. QED
        BY <2>7, <3>2, <3>3, <4>1, <4>3, <4>4
    <3>4. CASE ~Belongs
      <4>1. cursor = First(y, c) - 1
        BY <2>3, <3>1 DEF Ahead
      <4>2. line[First(y, c) - 1] = FALSE
        BY <2>3, <3>1, <3>4, <4>1 DEF Differs
      <4>3. Walked(line, Rows, y, c, 4) /\ Ahead(y, c, 4) = y + 1
        <5> HIDE DEF line, y, c, p
        <5>1. c[3] # 0 /\ First(y, c) >= 0
          BY <2>3, <3>1, <3>4
        <5>2. Walked(line, Rows, y, c, 3) /\ Rows \in Nat
          BY <2>3, <3>1
        <5>3. QED
          BY <4>2, <5>1, <5>2, WalkTurns, Zenon
      <4>4. QED
        BY <2>3, <2>4, <2>7, <3>2, <3>4, <4>3
    <3>5. QED
      BY <3>3, <3>4
  <2>10. CASE Verdict = "phase"
    <3>1. p \notin {3, 6} /\ ~Belongs /\ (c[p] # 0 \/ p = 4)
      BY <2>3, <2>10, Verdicts
    <3>2. vcc' = "READ_REQ" /\ phase' = p + 1 /\ cursor' = cursor
      BY <2>1, <2>10 DEF Check
    <3>3. Walked(line, Rows, y, c, p + 1) /\ Ahead(y, c, p + 1) = cursor
      <4> HIDE DEF line, y, c, p
      <4>1. cursor >= 0 /\ cursor < Rows /\ Rows \in Nat
        BY <2>3
      <4>2. QED
        BY <2>3, <3>1, <4>1, WalkNext
    <3>4. QED
      BY <2>3, <2>4, <2>7, <3>1, <3>2, <3>3
  <2>11. CASE Verdict = "ratio"
    <3>1. /\ p = 6
          /\ IF Belongs THEN ~(Steps + 1 >= MaxSpan) /\ cursor = Rows - 1 ELSE c[6] # 0
      BY <2>3, <2>11, Verdicts
    <3>2. vcc' = "RATIO" /\ phase' = p
      BY <2>1, <2>11 DEF Check
    <3>3. c[6] \in Nat
      BY <2>3, WalkedCounts
    <3>4. CASE Belongs
      <4>1. /\ Walked(line, Rows, y, Next1, p) /\ DOMAIN Next1 = 1..6
            /\ Sixth(y, Next1) = cursor + 1 /\ Next1[6] = c[6] + 1
        BY <1>7, <3>1, <3>4, Belonging DEF Upward
      <4>2. Short(Next1, MaxSpan)
        BY <1>7, <3>1, <3>4, StillShort
      <4>3. Sixth(y, Next1) = Rows /\ Next1[6] > 0
        BY <3>1, <3>3, <3>4, <4>1
      <4>4. QED
        BY <2>7, <3>1, <3>2, <3>4, <4>1, <4>2, <4>3
    <3>5. CASE ~Belongs
      <4>1. cursor = Sixth(y, c)
        BY <2>3, <3>1 DEF Ahead
      <4>2. line[Sixth(y, c)] = FALSE
        BY <2>3, <3>1, <3>5, <4>1 DEF Differs
      <4>3. c[6] > 0 /\ Sixth(y, c) <= Rows
        BY <2>3, <3>1, <3>3, <3>5
      <4>4. QED
        BY <2>3, <2>4, <2>7, <3>1, <3>2, <3>5, <4>2, <4>3
    <3>6. QED
      BY <3>4, <3>5
  <2>12. QED
    BY <2>3, <2>6, <2>8, <2>9, <2>10, <2>11, Verdicts
<1>8. vcc \in {"IDLE", "READ_REQ", "READ_WAIT", "READ_CHECK"}
  BY <1>0, <1>1 DEF CrossCheck, Check, Walking
<1>9. QED
  BY <1>5, <1>6, <1>7, <1>8
-----------------------------------------------------------------------------
\* When the walk ends, its verdict is the one of the definition Down.

\* The two colours as predicates.
Black(line, i) == line[i] = TRUE
White(line, i) == line[i] = FALSE

\* A stretch of black between two white pixels or the border is a run,
LEMMA BlackRun ==
  ASSUME NEW n, NEW line, NEW a \in Nat, NEW b \in Nat, a < b, b <= n,
         Same(line, a, b, TRUE), a = 0 \/ White(line, a - 1), b = n \/ White(line, b)
  PROVE  IsRun(line, n, a, b) /\ Black(line, a) /\ Black(line, b - 1)
<1>1. \A i \in a..(b - 1) : line[i] = TRUE
  BY DEF Same
<1>2. a \in a..(b - 1) /\ b - 1 \in a..(b - 1)
  OBVIOUS
<1>3. line[a] = TRUE /\ line[b - 1] = TRUE
  BY <1>1, <1>2
<1>4. \A i \in a..(b - 1) : line[i] = line[a]
  BY <1>1, <1>3, Zenon
<1>5. (a # 0 => line[a] # line[a - 1]) /\ (b # n => line[b] # line[b - 1])
  BY <1>3 DEF White
<1>6. QED
  BY <1>3, <1>4, <1>5 DEF IsRun, Black

\* and so is one of white.
LEMMA WhiteRun ==
  ASSUME NEW n, NEW line, NEW a \in Nat, NEW b \in Nat, a < b, b <= n,
         Same(line, a, b, FALSE), a = 0 \/ Black(line, a - 1), b = n \/ Black(line, b)
  PROVE  IsRun(line, n, a, b) /\ White(line, a) /\ White(line, b - 1)
<1>1. \A i \in a..(b - 1) : line[i] = FALSE
  BY DEF Same
<1>2. a \in a..(b - 1) /\ b - 1 \in a..(b - 1)
  OBVIOUS
<1>3. line[a] = FALSE /\ line[b - 1] = FALSE
  BY <1>1, <1>2
<1>4. \A i \in a..(b - 1) : line[i] = line[a]
  BY <1>1, <1>3, Zenon
<1>5. (a # 0 => line[a] # line[a - 1]) /\ (b # n => line[b] # line[b - 1])
  BY <1>3 DEF Black
<1>6. QED
  BY <1>3, <1>4, <1>5 DEF IsRun, White

\* A walk that is complete has found the five runs.
LEMMA WalkedIsChain ==
  ASSUME NEW n \in Nat, NEW line, NEW y, NEW c, Walked(line, n, y, c, 6), c[6] > 0,
         Sixth(y, c) <= n, Sixth(y, c) < n => line[Sixth(y, c)] = FALSE
  PROVE  LET h == <<First(y, c), Second(y, c), Third(y, c), Fourth(y, c), Fifth(y, c), Sixth(y, c)>>
         IN Chain(line, n, h) /\ y \in h[3]..(h[4] - 1)
<1>1. /\ y \in Nat /\ y < n
      /\ c[1] \in Nat /\ c[2] \in Nat /\ c[3] \in Nat /\ c[4] \in Nat /\ c[5] \in Nat
      /\ c[6] \in Nat
  BY WalkedCounts
<1>2. Stretches(line, y, c) /\ Turns(line, n, y, c, 6)
  BY DEF Walked
<1>3. /\ Third(y, c) = y + 1 - c[1] /\ Second(y, c) = Third(y, c) - c[2]
      /\ First(y, c) = Second(y, c) - c[3]
      /\ Fourth(y, c) = y + 1 + c[4] /\ Fifth(y, c) = Fourth(y, c) + c[5]
      /\ Sixth(y, c) = Fifth(y, c) + c[6]
  BY WalkedBorders
<1>4. /\ Same(line, Third(y, c), y + 1, TRUE) /\ Same(line, Second(y, c), Third(y, c), FALSE)
      /\ Same(line, First(y, c), Second(y, c), TRUE) /\ Same(line, y + 1, Fourth(y, c), TRUE)
      /\ Same(line, Fourth(y, c), Fifth(y, c), FALSE)
      /\ Same(line, Fifth(y, c), Sixth(y, c), TRUE)
  BY <1>2 DEF Stretches
<1>5. /\ Third(y, c) > 0 /\ c[1] > 0 /\ Second(y, c) > 0 /\ c[2] > 0
      /\ First(y, c) >= 0 /\ c[3] > 0 /\ Fourth(y, c) < n /\ Fifth(y, c) < n /\ c[5] > 0
      /\ White(line, Third(y, c) - 1) /\ Black(line, Second(y, c) - 1)
      /\ First(y, c) = 0 \/ White(line, First(y, c) - 1)
      /\ White(line, Fourth(y, c)) /\ Black(line, Fifth(y, c))
  <2>1. First(y, c) \in Int
    BY <1>1, <1>3
  <2>2. QED
    <3>1. /\ Third(y, c) > 0 /\ c[1] > 0 /\ Second(y, c) > 0 /\ c[2] > 0
          /\ First(y, c) >= 0 /\ c[3] > 0 /\ Fourth(y, c) < n /\ Fifth(y, c) < n /\ c[5] > 0
      BY <1>2 DEF Turns
    <3>2. White(line, Third(y, c) - 1) /\ Black(line, Second(y, c) - 1)
      BY <1>2 DEF Turns, White, Black
    <3>3. First(y, c) = 0 \/ White(line, First(y, c) - 1)
      BY <1>2, <2>1, <3>1 DEF Turns, White
    <3>4. White(line, Fourth(y, c)) /\ Black(line, Fifth(y, c))
      BY <1>2 DEF Turns, White, Black
    <3>5. QED
      BY <3>1, <3>2, <3>3, <3>4
<1>6. Sixth(y, c) = n \/ White(line, Sixth(y, c))
  <2>1. Sixth(y, c) \in Int
    BY <1>1, <1>3
  <2>2. QED
    BY <2>1 DEF White
<1> DEFINE third == Third(y, c)  second == Second(y, c)  first == First(y, c)
           fourth == Fourth(y, c)  fifth == Fifth(y, c)  sixth == Sixth(y, c)
<1>7. /\ first \in Nat /\ second \in Nat /\ third \in Nat /\ fourth \in Nat /\ fifth \in Nat
      /\ sixth \in Nat /\ first < second /\ second < third /\ third <= y /\ y < fourth
      /\ fourth < fifth /\ fifth < sixth /\ sixth <= n
      /\ second <= n /\ third <= n /\ fourth <= n /\ fifth <= n
  BY <1>1, <1>3, <1>5
<1>8. Same(line, third, fourth, TRUE)
  <2>1. \A i \in third..(fourth - 1) : i \in third..((y + 1) - 1) \/ i \in (y + 1)..(fourth - 1)
    BY <1>1, <1>7
  <2>2. \A i \in third..((y + 1) - 1) : line[i] = TRUE
    BY <1>4 DEF Same
  <2>3. \A i \in (y + 1)..(fourth - 1) : line[i] = TRUE
    BY <1>4 DEF Same
  <2> HIDE DEF third, second, first, fourth, fifth, sixth
  <2>4. \A i \in third..(fourth - 1) : line[i] = TRUE
    BY <2>1, <2>2, <2>3, Zenon
  <2>5. QED
    BY <2>4 DEF Same
<1> HIDE DEF third, second, first, fourth, fifth, sixth
<1>9. White(line, second) /\ Black(line, third) /\ Black(line, fourth - 1) /\ White(line, fifth - 1)
  <2>1. White(line, second)
    <3>1. second \in second..(third - 1)
      BY <1>7
    <3>2. QED
      BY <1>4, <3>1 DEF Same, White, second, third
  <2>2. Black(line, third) /\ Black(line, fourth - 1)
    <3>1. third \in third..(fourth - 1) /\ fourth - 1 \in third..(fourth - 1)
      BY <1>1, <1>7
    <3>2. QED
      BY <1>8, <3>1 DEF Same, Black
  <2>3. White(line, fifth - 1)
    <3>1. fifth - 1 \in fourth..(fifth - 1)
      BY <1>7
    <3>2. QED
      BY <1>4, <3>1 DEF Same, White, fourth, fifth
  <2>4. QED
    BY <2>1, <2>2, <2>3
<1>10. /\ White(line, third - 1) /\ Black(line, second - 1)
       /\ first = 0 \/ White(line, first - 1)
       /\ White(line, fourth) /\ Black(line, fifth) /\ (sixth = n \/ White(line, sixth))
  BY <1>5, <1>6 DEF third, second, first, fourth, fifth, sixth
<1>11. /\ Same(line, second, third, FALSE)
       /\ Same(line, first, second, TRUE)
       /\ Same(line, fourth, fifth, FALSE)
       /\ Same(line, fifth, sixth, TRUE)
  BY <1>4 DEF third, second, first, fourth, fifth, sixth
<1>12. IsRun(line, n, first, second)
  BY <1>7, <1>9, <1>10, <1>11, BlackRun
<1>13. IsRun(line, n, second, third)
  BY <1>7, <1>9, <1>10, <1>11, WhiteRun
<1>14. IsRun(line, n, third, fourth)
  <2>1. third < fourth
    BY <1>1, <1>7
  <2>2. QED
    BY <1>7, <1>8, <1>10, <2>1, BlackRun
<1>15. IsRun(line, n, fourth, fifth)
  BY <1>7, <1>9, <1>10, <1>11, WhiteRun
<1>16. IsRun(line, n, fifth, sixth)
  BY <1>7, <1>9, <1>10, <1>11, BlackRun
<1> DEFINE h == <<first, second, third, fourth, fifth, sixth>>
<1>17. /\ h[1] = first /\ h[2] = second /\ h[3] = third /\ h[4] = fourth /\ h[5] = fifth
       /\ h[6] = sixth
  OBVIOUS
<1>18. y \in third..(fourth - 1)
  BY <1>1, <1>7
<1> HIDE DEF h
<1>19. Chain(line, n, h) /\ y \in h[3]..(h[4] - 1)
  BY <1>12, <1>13, <1>14, <1>15, <1>16, <1>17, <1>18 DEF Chain
<1>20. QED
  BY <1>19 DEF h, third, second, first, fourth, fifth, sixth

\* The control and the cross check speak of the same candidate.
LEMMA ControlInvStep ==
  ASSUME PortInv, ScanInv, ControlInv, NEW start \in BOOLEAN, NEW ready \in BOOLEAN,
         Block(start, ready)
  PROVE  ControlInv'
<1>0. CrossCheck(ready) /\ CandidateControl
  BY DEF Block
<1>1. control' = "WAIT_BUSY" => IF vccPattern' THEN vcc' = "IDLE" ELSE vcc' = "READ_REQ"
  <2>1. SUFFICES ASSUME control' = "WAIT_BUSY"
                 PROVE  IF vccPattern' THEN vcc' = "IDLE" ELSE vcc' = "READ_REQ"
    OBVIOUS
  <2>2. CASE control = "WAIT_GRANT" /\ arbiter = "VCC_ACTIVE" /\ vcc = "IDLE"
    <3>1. ~vccPattern
      BY <2>2 DEF PortInv, WithReader, HandOver, WithCheck, HandBack, Quiet
    <3>2. vccPattern' /\ vcc' = "IDLE"
      BY <1>0, <2>2, <3>1, CheckStarts DEF CandidateControl
    <3>3. QED
      BY <3>2
  <2>3. CASE ~(control = "WAIT_GRANT" /\ arbiter = "VCC_ACTIVE" /\ vcc = "IDLE")
    <3>1. control = "WAIT_BUSY" /\ vcc = "IDLE" /\ ~vccPattern'
      BY <1>0, <2>1, <2>3 DEF CandidateControl
    <3>2. vccPattern
      BY <3>1 DEF ControlInv
    <3>3. pending # NoPattern
      BY <3>1, <3>2 DEF PortInv, WithReader, HandOver, WithCheck, HandBack, Quiet
    <3>4. Accepts
      BY <3>3, FeatureAssumption DEF ScanInv, Candidate, Accepts, Columns
    <3>5. vcc' = "READ_REQ"
      BY <1>0, <3>1, <3>2, <3>4 DEF CrossCheck, Check
    <3>6. QED
      BY <3>1, <3>5
  <2>4. QED
    BY <2>2, <2>3
<1>2. vcc' # "IDLE" => cand' = pending' /\ pending' # NoPattern
  <2>1. SUFFICES ASSUME vcc' # "IDLE" PROVE cand' = pending' /\ pending' # NoPattern
    OBVIOUS
  <2>2. CASE vcc # "IDLE"
    <3>1. cand' = cand
      BY <1>0, <2>2 DEF CrossCheck, Check
    <3>2. pending' = pending
      BY <1>0, <2>2 DEF CandidateControl, ControlInv
    <3>3. QED
      BY <2>2, <3>1, <3>2 DEF ControlInv
  <2>3. CASE vcc = "IDLE"
    <3>1. vccPattern /\ cand' = pending
      BY <1>0, <2>1, <2>3 DEF CrossCheck, Check
    <3>2. pending # NoPattern /\ control = "WAIT_BUSY"
      BY <3>1 DEF PortInv, WithReader, HandOver, WithCheck, HandBack, Quiet
    <3>3. pending' = pending
      BY <1>0, <3>2 DEF CandidateControl
    <3>4. QED
      BY <3>1, <3>2, <3>3
  <2>4. QED
    BY <2>2, <2>3
<1>3. vcc' \in {"IDLE", "READ_REQ", "READ_WAIT", "READ_CHECK", "RATIO", "EVENT"}
  BY <1>0 DEF CrossCheck, Check, ControlInv
<1>4. QED
  BY <1>1, <1>2, <1>3 DEF ControlInv

\* What a run of the column about the candidate is.
LEMMA ColumnIs ==
  ASSUME NEW x, NEW y
  PROVE  ColumnRuns(x, y) = Around(ColumnLine(x), Rows, y)
BY DEF ColumnRuns, ColumnLine

\* The ratio is looked at of the runs that are there.
LEMMA RatioDecides ==
  ASSUME ScanInv, ControlInv, CheckInv, vcc = "RATIO"
  PROVE  Confirmed <=> Down(cand.x, cand.y, cand.total)
<1> USE FeatureAssumption
<1> DEFINE line == ColumnLine(cand.x)  y == cand.y  c == counts
           v == <<First(y, c), Second(y, c), Third(y, c), Fourth(y, c), Fifth(y, c), Sixth(y, c)>>
<1>1. /\ Walked(line, Rows, y, c, 6) /\ Short(c, MaxSpan)
      /\ c[6] > 0 /\ Sixth(y, c) <= Rows /\ (Sixth(y, c) < Rows => line[Sixth(y, c)] = FALSE)
  BY DEF CheckInv, Short
<1>2. Rows \in Nat /\ MaxSpan \in Nat /\ cand.total \in Nat
  BY SpanIs
<1>3. Chain(line, Rows, v) /\ y \in v[3]..(v[4] - 1)
  <2> HIDE DEF line, y, c
  <2>1. QED
    BY <1>1, <1>2, WalkedIsChain, Zenon
<1>4. Around(line, Rows, y) = <<v[1], v[2], v[3], v[4], v[5], v[6]>>
  <2> HIDE DEF line, y, c, v
  <2>1. QED
    BY <1>2, <1>3, ChainAround
<1>5. ColumnRuns(cand.x, y) = v
  <2>1. v = <<v[1], v[2], v[3], v[4], v[5], v[6]>>
    OBVIOUS
  <2> HIDE DEF v
  <2>2. QED
    BY <1>4, <2>1, ColumnIs
<1>6. /\ y \in Nat /\ y < Rows
      /\ c[1] \in Nat /\ c[2] \in Nat /\ c[3] \in Nat /\ c[4] \in Nat /\ c[5] \in Nat
      /\ c[6] \in Nat
  BY <1>1, <1>2, WalkedCounts
<1>7. /\ Third(y, c) = y + 1 - c[1] /\ Second(y, c) = Third(y, c) - c[2]
      /\ First(y, c) = Second(y, c) - c[3]
      /\ Fourth(y, c) = y + 1 + c[4] /\ Fifth(y, c) = Fourth(y, c) + c[5]
      /\ Sixth(y, c) = Fifth(y, c) + c[6]
  BY WalkedBorders
<1>8. /\ v[1] = First(y, c) /\ v[2] = Second(y, c) /\ v[3] = Third(y, c)
      /\ v[4] = Fourth(y, c) /\ v[5] = Fifth(y, c) /\ v[6] = Sixth(y, c) /\ v # <<>>
  OBVIOUS
<1>9. \A i \in 1..5 : Lengths(v)[i] = v[i + 1] - v[i]
  BY DEF Lengths
<1>10. /\ Lengths(v)[1] = c[3] /\ Lengths(v)[2] = c[2] /\ Lengths(v)[3] = c[1] + c[4]
       /\ Lengths(v)[4] = c[5] /\ Lengths(v)[5] = c[6]
  <2> HIDE DEF v, y, c
  <2>1. /\ Lengths(v)[1] = v[2] - v[1] /\ Lengths(v)[2] = v[3] - v[2] /\ Lengths(v)[3] = v[4] - v[3]
        /\ Lengths(v)[4] = v[5] - v[4] /\ Lengths(v)[5] = v[6] - v[5]
    BY <1>9
  <2> DEFINE t == Third(y, c)  s == Second(y, c)  f == First(y, c)
             g == Fourth(y, c)  h == Fifth(y, c)  l == Sixth(y, c)
  <2>2. /\ t = y + 1 - c[1] /\ s = t - c[2] /\ f = s - c[3]
        /\ g = y + 1 + c[4] /\ h = g + c[5] /\ l = h + c[6]
    BY <1>7
  <2>3. /\ v[1] = f /\ v[2] = s /\ v[3] = t /\ v[4] = g /\ v[5] = h /\ v[6] = l
    BY <1>8
  <2> HIDE DEF t, s, f, g, h, l
  <2>4. s - f = c[3] /\ t - s = c[2] /\ g - t = c[1] + c[4] /\ h - g = c[5] /\ l - h = c[6]
    BY <1>6, <2>2
  <2>5. QED
    BY <2>1, <2>3, <2>4
<1>11. /\ Vertical[1] = c[3] /\ Vertical[2] = c[2] /\ Vertical[3] = c[1] + c[4]
       /\ Vertical[4] = c[5] /\ Vertical[5] = c[6]
  BY DEF Vertical
<1>12. Ratio(Vertical) = Ratio(Lengths(v)) /\ Total(Vertical) = Total(Lengths(v))
  <2> HIDE DEF v, y, c
  <2>1. QED
    BY <1>10, <1>11, SameRatio
<1>13. Ratio(Vertical) => Total(Vertical) >= 7
  BY <1>6, <1>11, RatioSeven
<1>14. y - v[1] + 1 < MaxSpan /\ v[6] - 1 - y < MaxSpan
  BY <1>1, <1>2, <1>6, <1>7, <1>8 DEF Short
<1>15. Down(cand.x, y, cand.total) <=>
         /\ Ratio(Lengths(v)) /\ Distance(Total(Lengths(v)), cand.total) <= cand.total \div 2
         /\ y - v[1] + 1 < MaxSpan /\ v[6] - 1 - y < MaxSpan
  <2> HIDE DEF v
  <2>1. QED
    BY <1>5, <1>8 DEF Down, MaxSpan
<1>16. QED
  <2> HIDE DEF v
  <2>1. QED
    BY <1>12, <1>13, <1>14, <1>15 DEF Confirmed

\* No candidate is refused on the way that has the runs it should have.
LEMMA RejectDecides ==
  ASSUME ScanInv, ControlInv, OwnWords, InFrame, CheckInv, vcc = "READ_CHECK",
         Verdict = "reject"
  PROVE  ~Down(cand.x, cand.y, cand.total)
<1> USE FeatureAssumption
<1> DEFINE line == ColumnLine(cand.x)  y == cand.y  c == counts  p == phase  d == Next1
           h == ColumnRuns(cand.x, y)
<1>1. SUFFICES ASSUME Down(cand.x, y, cand.total) PROVE FALSE
  OBVIOUS
<1>2. Rows \in Nat /\ MaxSpan \in Nat /\ cand.total \in Nat
  BY SpanIs
<1>3. /\ Walked(line, Rows, y, c, p) /\ p \in 1..6 /\ cursor \in 0..(Rows - 1)
      /\ cursor = Ahead(y, c, p)
      /\ First(y, c) \in Nat /\ Sixth(y, c) \in 0..Rows
      /\ ~Belongs => Differs(line, cursor, p)
  BY AtCheck
<1>4. /\ p \in 1..6 /\ y \in Nat /\ y < Rows
      /\ c[1] \in Nat /\ c[2] \in Nat /\ c[3] \in Nat /\ c[4] \in Nat /\ c[5] \in Nat
      /\ c[6] \in Nat
      /\ p < 2 => c[2] = 0
      /\ p < 3 => c[3] = 0
      /\ p < 4 => c[4] = 0
      /\ p < 5 => c[5] = 0
      /\ p < 6 => c[6] = 0
  BY <1>2, <1>3, WalkedCounts
<1>5. h # <<>> /\ y - h[1] + 1 < MaxSpan /\ h[6] - 1 - y < MaxSpan
  BY <1>1 DEF Down, MaxSpan
<1>6. Chain(line, Rows, h) /\ y \in h[3]..(h[4] - 1)
  <2>1. h = Around(line, Rows, y)
    BY ColumnIs
  <2> HIDE DEF h, line, y
  <2>2. y \in 0..(Rows - 1)
    BY <1>2, <1>4
  <2>3. QED
    BY <1>2, <1>5, <2>1, <2>2, AroundChain
<1>7. /\ h[1] \in Nat /\ h[2] \in Nat /\ h[3] \in Nat /\ h[4] \in Nat /\ h[5] \in Nat
      /\ h[6] \in Nat /\ h[6] <= Rows
      /\ h[1] < h[2] /\ h[2] < h[3] /\ h[3] < h[4] /\ h[4] < h[5] /\ h[5] < h[6]
  BY <1>2, <1>6, ChainLengths
<1> HIDE DEF h
<1>8. ASSUME Belongs
      PROVE  /\ Walked(line, Rows, y, d, p)
             /\ First(y, d) \in Nat /\ Sixth(y, d) \in 0..Rows
             /\ p <= 3 => First(y, d) = cursor
             /\ ~(p <= 3) => Sixth(y, d) = cursor + 1
             /\ d[p] = c[p] + 1 /\ \A k \in 1..6 : k # p => d[k] = c[k]
  BY <1>8, Belonging DEF Upward
<1>9. ASSUME Belongs
      PROVE  /\ p = 3 => First(y, d) >= h[1]
             /\ p = 2 => First(y, d) >= h[2]
             /\ p = 1 => First(y, d) >= h[3]
             /\ p = 4 => Sixth(y, d) <= h[4]
             /\ p = 5 => Sixth(y, d) <= h[5]
             /\ p = 6 => Sixth(y, d) <= h[6]
  <2> HIDE DEF line, y, d, p, c
  <2>1. First(y, d) >= 0 /\ Sixth(y, d) <= Rows
    BY <1>2, <1>8, <1>9
  <2>2. p = 3 => p >= 3
    OBVIOUS
  <2>3. QED
    BY <1>2, <1>6, <1>8, <1>9, <2>1, <2>2, WalkedChain
<1>10. ASSUME Belongs
       PROVE  /\ p <= 3 => y - First(y, d) + 1 = Steps + 1
              /\ ~(p <= 3) => Sixth(y, d) - 1 - y = Steps + 1
  <2>1. /\ Third(y, d) = y + 1 - d[1] /\ Second(y, d) = Third(y, d) - d[2]
        /\ First(y, d) = Second(y, d) - d[3]
        /\ Fourth(y, d) = y + 1 + d[4] /\ Fifth(y, d) = Fourth(y, d) + d[5]
        /\ Sixth(y, d) = Fifth(y, d) + d[6]
    BY WalkedBorders
  <2>2. Steps = IF p <= 3 THEN c[1] + c[2] + c[3] ELSE c[4] + c[5] + c[6]
    BY DEF Steps, Upward
  <2> HIDE DEF line, y, d, p, c
  <2>3. /\ p <= 3 => d[1] + d[2] + d[3] = Steps + 1
        /\ ~(p <= 3) => d[4] + d[5] + d[6] = Steps + 1
    <3>1. d[p] = c[p] + 1 /\ \A k \in 1..6 : k # p => d[k] = c[k]
      BY <1>8, <1>10
    <3>2. CASE p <= 3
      BY <1>4, <2>2, <3>1, <3>2
    <3>3. CASE ~(p <= 3)
      BY <1>4, <2>2, <3>1, <3>3
    <3>4. QED
      BY <3>2, <3>3
  <2>4. /\ d[1] \in Nat /\ d[2] \in Nat /\ d[3] \in Nat /\ d[4] \in Nat /\ d[5] \in Nat
        /\ d[6] \in Nat
    BY <1>2, <1>8, <1>10, WalkedCounts
  <2>5. First(y, d) = y + 1 - d[1] - d[2] - d[3] /\ Sixth(y, d) = y + 1 + d[4] + d[5] + d[6]
    BY <1>4, <2>1, <2>4
  <2>6. QED
    BY <1>4, <2>3, <2>4, <2>5
<1>11. Steps \in Nat
  BY <1>4 DEF Steps
<1>12. CASE Belongs /\ Steps + 1 >= MaxSpan
  <2> HIDE DEF line, y, d, p, c
  <2>1. CASE p <= 3
    <3>1. First(y, d) >= h[1] /\ First(y, d) \in Nat
      BY <1>4, <1>7, <1>8, <1>9, <1>12, <2>1
    <3>2. QED
      BY <1>2, <1>4, <1>5, <1>7, <1>10, <1>11, <1>12, <2>1, <3>1
  <2>2. CASE ~(p <= 3)
    <3>1. Sixth(y, d) <= h[6] /\ Sixth(y, d) \in Nat
      BY <1>4, <1>7, <1>8, <1>9, <1>12, <2>2
    <3>2. QED
      BY <1>2, <1>4, <1>5, <1>7, <1>10, <1>11, <1>12, <2>2, <3>1
  <2>3. QED
    BY <2>1, <2>2
<1>13. CASE ~Belongs /\ c[p] = 0 /\ p # 4
  <2>1. line[y] = TRUE /\ Turns(line, Rows, y, c, p) /\ Differs(line, cursor, p)
    BY <1>3, <1>13 DEF Walked
  <2>2. /\ Third(y, c) = y + 1 - c[1] /\ Second(y, c) = Third(y, c) - c[2]
        /\ First(y, c) = Second(y, c) - c[3]
        /\ Fourth(y, c) = y + 1 + c[4] /\ Fifth(y, c) = Fourth(y, c) + c[5]
        /\ Sixth(y, c) = Fifth(y, c) + c[6]
    BY WalkedBorders
  <2>3. cursor = IF p <= 3 THEN First(y, c) - 1 ELSE Sixth(y, c)
    BY <1>3 DEF Ahead
  <2> HIDE DEF line, y, d, p, c
  <2>4. CASE p = 1
    <3>1. cursor = y
      BY <1>4, <1>13, <2>2, <2>3, <2>4
    <3>2. QED
      BY <2>1, <2>4, <3>1 DEF Differs
  <2>5. CASE p = 2
    <3>1. cursor = Third(y, c) - 1
      BY <1>4, <1>13, <2>2, <2>3, <2>5
    <3>2. QED
      BY <2>1, <2>5, <3>1 DEF Differs, Turns
  <2>6. CASE p = 3
    <3>1. cursor = Second(y, c) - 1
      BY <1>4, <1>13, <2>2, <2>3, <2>6
    <3>2. QED
      BY <2>1, <2>6, <3>1 DEF Differs, Turns
  <2>7. CASE p = 5
    <3>1. cursor = Fourth(y, c)
      BY <1>4, <1>13, <2>2, <2>3, <2>7
    <3>2. QED
      BY <2>1, <2>7, <3>1 DEF Differs, Turns
  <2>8. CASE p = 6
    <3>1. cursor = Fifth(y, c)
      BY <1>4, <1>13, <2>2, <2>3, <2>8
    <3>2. QED
      BY <2>1, <2>8, <3>1 DEF Differs, Turns
  <2>9. QED
    BY <1>4, <1>13, <2>4, <2>5, <2>6, <2>7, <2>8
<1>14. CASE p = 3 /\ ~(y < Rows - 1)
  BY <1>2, <1>4, <1>6, <1>7, <1>14
<1>15. CASE Belongs /\ p \notin {3, 6} /\ cursor = (IF Upward THEN 0 ELSE Rows - 1)
  <2>1. cursor = IF p <= 3 THEN 0 ELSE Rows - 1
    BY <1>15 DEF Upward
  <2> HIDE DEF line, y, d, p, c
  <2>2. CASE p \in {1, 2}
    BY <1>7, <1>8, <1>9, <1>15, <2>1, <2>2
  <2>3. CASE p \in {4, 5}
    BY <1>2, <1>7, <1>8, <1>9, <1>15, <2>1, <2>3
  <2>4. QED
    BY <1>4, <1>15, <2>2, <2>3
<1>16. QED
  BY <1>4, <1>12, <1>13, <1>14, <1>15, Verdicts
-----------------------------------------------------------------------------
\* A candidate flies from when it is found to when the cross check has decided on it.

\* What is in a frame does not change with the scan.
LEMMA ImageKept ==
  ASSUME image' = image, NEW x, NEW y
  PROVE  /\ Across(x, y)' <=> Across(x, y)
         /\ Finder(x, y)' <=> Finder(x, y)
         /\ EndOf(x, y)' = EndOf(x, y)
         /\ RowSpan(x, y)' = RowSpan(x, y)
BY DEF Finder, Across, InPattern, CodeCentre, Dropped, Down, RowRuns, ColumnRuns, RowSpan, EndOf

\* The cross check has come to its decision.
Decided == \/ vcc = "READ_CHECK" /\ Verdict = "reject"
           \/ vcc = "RATIO"

\* A candidate flies from when it is found to when the cross check has decided on it; no
\* other one is found meanwhile.
LEMMA FlyingSteps ==
  ASSUME PortInv, ControlInv, NEW start \in BOOLEAN, NEW ready \in BOOLEAN, Block(start, ready)
  PROVE  /\ Found => ~Flying /\ vcc = "IDLE"
         /\ pattern' # NoPattern => Found
         /\ ~Found /\ Flying /\ ~(pattern = NoPattern /\ Decided) => Flying' /\ Flyer' = Flyer
         /\ ~Found /\ Flying /\ pattern = NoPattern /\ Decided =>
              /\ ~Flying' /\ Flyer = cand
              /\ vcc' = "EVENT" <=> (vcc = "RATIO" /\ Confirmed)
         /\ ~Found /\ ~Flying => ~Flying'
         /\ vcc = "RATIO" => Flying /\ pattern = NoPattern
<1>1. /\ CandidateControl /\ RunScan /\ CrossCheck(ready)
  BY DEF Block
<1>2. Found => pattern = NoPattern /\ pending = NoPattern /\ vcc = "IDLE"
  BY DEF PortInv, WithReader, HandOver, WithCheck, HandBack, Quiet, Found, Continues
<1>3. pattern' # NoPattern => Found
  BY <1>1 DEF RunScan
<1>4. ASSUME pattern # NoPattern
      PROVE  /\ ~Found /\ pending = NoPattern /\ control = "IDLE" /\ vcc = "IDLE" /\ ~vccPattern
  BY <1>4 DEF PortInv, WithReader, HandOver, WithCheck, HandBack, Quiet
<1>5. ASSUME pattern # NoPattern
      PROVE  Flying' /\ Flyer' = Flyer
  <2>1. pending' = pattern /\ control' = "IDLE" /\ vcc' = "IDLE" /\ pattern' = NoPattern
    BY <1>1, <1>3, <1>4, <1>5, ControlSteps, CheckStarts
  <2>2. QED
    BY <1>5, <2>1 DEF Flying, Flyer, Undecided
<1>6. ASSUME pending # NoPattern
      PROVE  /\ pattern = NoPattern /\ control \in {"IDLE", "WAIT_GRANT", "WAIT_BUSY", "WAIT_DONE"}
             /\ control \in {"IDLE", "WAIT_GRANT"} => vcc = "IDLE" /\ ~vccPattern
             /\ ~Found
  BY <1>6 DEF PortInv, WithReader, HandOver, WithCheck, HandBack, Quiet, Found, Continues
<1>7. ASSUME pending # NoPattern, vcc = "IDLE", control # "WAIT_DONE"
      PROVE  Flying' /\ Flyer' = Flyer
  <2>1. pattern = NoPattern /\ pattern' = NoPattern
    BY <1>3, <1>6, <1>7
  <2>2. pending' = pending
    BY <1>1, <1>6, <1>7, ControlSteps
  <2>3. CASE control = "WAIT_BUSY"
    <3>1. vccPattern
      BY <1>7, <2>3 DEF ControlInv
    <3>2. vcc' \in {"IDLE", "READ_REQ"} /\ (vcc' = "IDLE" => control' = "WAIT_BUSY")
      BY <1>1, <1>7, <2>3 DEF CrossCheck, Check, CandidateControl
    <3>3. QED
      BY <1>7, <2>1, <2>2, <3>2 DEF Flying, Flyer, Undecided
  <2>4. CASE control \in {"IDLE", "WAIT_GRANT"}
    <3>1. vcc' = "IDLE" /\ control' \in {"WAIT_GRANT", "WAIT_BUSY"}
      BY <1>1, <1>6, <1>7, <2>4, ControlSteps, CheckStarts
    <3>2. QED
      BY <1>7, <2>1, <2>2, <3>1 DEF Flying, Flyer, Undecided
  <2>5. QED
    BY <1>6, <1>7, <2>3, <2>4
<1>8. ASSUME pending # NoPattern, vcc # "IDLE"
      PROVE  /\ pattern = NoPattern /\ pattern' = NoPattern /\ pending' = pending /\ Flyer = cand
             /\ Flyer' = Flyer /\ (vcc' = "IDLE" => control' = "WAIT_DONE")
  <2>1. pattern = NoPattern /\ pattern' = NoPattern /\ control \in {"WAIT_BUSY", "WAIT_DONE"}
    BY <1>3, <1>6, <1>8
  <2>2. pending' = pending /\ control' = "WAIT_DONE"
    BY <1>1, <1>8, <2>1, ControlSteps
  <2>3. QED
    BY <1>8, <2>1, <2>2 DEF Flyer, ControlInv
<1>9. ASSUME pending # NoPattern, vcc \in {"READ_REQ", "READ_WAIT"}
      PROVE  Flying' /\ Flyer' = Flyer
  <2>1. vcc' \in {"READ_WAIT", "READ_CHECK"}
    BY <1>1, <1>9 DEF CrossCheck, Check
  <2>2. QED
    BY <1>8, <1>9, <2>1 DEF Flying, Undecided
<1>10. ASSUME pending # NoPattern, vcc = "READ_CHECK"
       PROVE  IF Verdict = "reject" THEN ~Flying' /\ vcc' = "IDLE" ELSE Flying' /\ Flyer' = Flyer
  <2>1. vcc' = IF Verdict = "reject" THEN "IDLE"
               ELSE IF Verdict = "ratio" THEN "RATIO" ELSE "READ_REQ"
    BY <1>1, <1>10 DEF CrossCheck, Check
  <2>2. QED
    BY <1>8, <1>10, <2>1 DEF Flying, Undecided
<1>11. ASSUME pending # NoPattern, vcc = "RATIO"
       PROVE  ~Flying' /\ vcc' = (IF Confirmed THEN "EVENT" ELSE "IDLE")
  <2>1. vcc' = IF Confirmed THEN "EVENT" ELSE "IDLE"
    BY <1>1, <1>11 DEF CrossCheck, Check
  <2>2. QED
    BY <1>8, <1>11, <2>1 DEF Flying, Undecided
<1>12. ASSUME ~Found, ~Flying PROVE ~Flying'
  <2>1. pattern = NoPattern /\ pattern' = NoPattern
    BY <1>3, <1>12 DEF Flying
  <2>2. CASE pending = NoPattern
    <3>1. pending' = NoPattern
      BY <1>1, <2>1, <2>2 DEF CandidateControl
    <3>2. QED
      BY <2>1, <3>1 DEF Flying, Undecided
  <2>3. CASE pending # NoPattern /\ vcc = "IDLE"
    <3>1. control = "WAIT_DONE"
      BY <1>12, <2>3 DEF Flying, Undecided
    <3>2. pending' = NoPattern
      BY <1>1, <2>3, <3>1, ControlSteps
    <3>3. QED
      BY <2>1, <3>2 DEF Flying, Undecided
  <2>4. CASE pending # NoPattern /\ vcc # "IDLE"
    <3>1. vcc = "EVENT"
      BY <1>12, <2>4 DEF Flying, Undecided, ControlInv
    <3>2. vcc' \in {"EVENT", "IDLE"}
      BY <1>1, <3>1 DEF CrossCheck, Check
    <3>3. QED
      BY <1>8, <2>4, <3>2 DEF Flying, Undecided
  <2>5. QED
    BY <2>2, <2>3, <2>4
<1>13. vcc = "RATIO" => Flying /\ pattern = NoPattern
  BY <1>4 DEF ControlInv, Flying, Undecided
<1>14. ASSUME ~Found, Flying, ~(pattern = NoPattern /\ Decided)
       PROVE  Flying' /\ Flyer' = Flyer
  <2>1. CASE pattern # NoPattern
    BY <1>5, <2>1
  <2>2. CASE pattern = NoPattern
    <3>1. Undecided /\ ~Decided
      BY <1>14, <2>2 DEF Flying
    <3>2. QED
      BY <1>7, <1>9, <1>10, <3>1 DEF Undecided, Decided
  <2>3. QED
    BY <2>1, <2>2
<1>15. ASSUME Flying, pattern = NoPattern, Decided
       PROVE  /\ ~Flying' /\ Flyer = cand
              /\ vcc' = "EVENT" <=> (vcc = "RATIO" /\ Confirmed)
  <2>1. pending # NoPattern
    BY <1>15 DEF Flying, Undecided
  <2>2. QED
    BY <1>8, <1>10, <1>11, <1>15, <2>1 DEF Decided
<1>16. QED
  BY <1>2, <1>3, <1>12, <1>13, <1>14, <1>15 DEF Flying, Undecided
-----------------------------------------------------------------------------
\* What has been read of a frame.

\* How far the row is read before and after an edge.
LEMMA AtMoves ==
  ASSUME PortInv, ScanInv, RowsInv, AddrInv, NEW ready \in BOOLEAN, Block(FALSE, ready)
  PROVE  /\ image' = image /\ rowsTaken \in Nat /\ Columns \in Nat \ {0}
         /\ Reading => /\ rowsTaken' = rowsTaken /\ At \in 0..(Columns - 1)
                       /\ At' = IF pixel = NoPixel THEN At ELSE At + 1
                       /\ pixel # NoPixel => At = pixel.x /\ At + 1 < Columns /\ ~pixel.end
         /\ Ending => /\ rowsTaken' = rowsTaken /\ At = Columns - 1 /\ At = pixel.x /\ pixel.end
                      /\ pixel # NoPixel /\ At' = Columns
         /\ Closing => /\ At = Columns
                       /\ IF rowValid /\ ready
                          THEN /\ rowsTaken' = rowsTaken + 1
                               /\ IF rowsTaken = Rows - 1 THEN Ended' ELSE At' = 0
                          ELSE rowsTaken' = rowsTaken /\ At' = Columns
         /\ Ended => rowsTaken' = rowsTaken
         /\ Waiting => rowsTaken' = rowsTaken /\ At' = At /\ ~frameActive'
<1> USE FeatureAssumption
<1>1. Columns \in Nat \ {0} /\ rowsTaken \in Nat
  BY DEF Columns, RowsInv
<1>2. image' = image
  BY DEF Block, FrameReader
<1>3. ASSUME Reading
      PROVE  /\ rowsTaken' = rowsTaken /\ At \in 0..(Columns - 1)
             /\ At' = IF pixel = NoPixel THEN At ELSE At + 1
             /\ pixel # NoPixel => At = pixel.x /\ At + 1 < Columns /\ ~pixel.end
  <2>1. rowsTaken' = rowsTaken /\ At' = IF pixel = NoPixel THEN At ELSE At + 1
    BY <1>3, AtStep
  <2>2. /\ At \in 0..(Columns - 1)
        /\ pixel # NoPixel => At = pixel.x /\ pixel.end = (At = Columns - 1)
    BY <1>3, PixelOfRow DEF InRow
  <2>3. pixel # NoPixel => ~pixel.end
    BY <1>3 DEF Reading
  <2>4. pixel # NoPixel => At # Columns - 1
    BY <2>2, <2>3
  <2>5. QED
    BY <1>1, <2>1, <2>2, <2>3, <2>4
<1>4. ASSUME Ending
      PROVE  /\ rowsTaken' = rowsTaken /\ At = Columns - 1 /\ At = pixel.x /\ pixel.end
             /\ pixel # NoPixel /\ At' = Columns
  <2>1. Closing' /\ rowPending' /\ rowsTaken' = rowsTaken
    BY <1>4, RowsEnding
  <2>2. pixel # NoPixel /\ pixel.end
    BY <1>4 DEF Ending
  <2>3. At = pixel.x /\ pixel.end = (At = Columns - 1)
    BY <1>4, <2>2, PixelOfRow DEF InRow
  <2>4. At' = Columns
    BY <2>1 DEF At
  <2>5. QED
    BY <2>1, <2>2, <2>3, <2>4
<1>5. ASSUME Closing
      PROVE  /\ At = Columns
             /\ IF rowValid /\ ready
                THEN /\ rowsTaken' = rowsTaken + 1
                     /\ IF rowsTaken = Rows - 1 THEN Ended' ELSE At' = 0
                ELSE rowsTaken' = rowsTaken /\ At' = Columns
  <2>1. At = Columns
    BY <1>5 DEF Closing, At
  <2>2. IF rowValid /\ ready
        THEN /\ rowsTaken' = rowsTaken + 1
             /\ IF rowsTaken = Rows - 1 THEN Ended' ELSE Reading'
        ELSE Closing' /\ rowsTaken' = rowsTaken
    BY <1>5, RowsClosing
  <2>3. Closing' => At' = Columns
    BY DEF Closing, At
  <2>4. Reading' => At' = 0
    <3>1. SUFFICES ASSUME Reading' PROVE At' = 0
      OBVIOUS
    <3>2. ~Reading
      BY <1>5 DEF Closing, Reading
    <3>3. InRow'
      BY <3>1 DEF InRow
    <3>4. QED
      BY <3>2, <3>3, RowBegins
  <2>5. QED
    BY <2>1, <2>2, <2>3, <2>4
<1>6. Ended => rowsTaken' = rowsTaken
  BY RowsEnded
<1>7. ASSUME Waiting PROVE rowsTaken' = rowsTaken /\ At' = At /\ ~frameActive'
  <2>1. Waiting' /\ rowsTaken' = rowsTaken
    BY <1>7, RowsWaiting
  <2>2. NextPlace' = NextPlace
    BY <1>7, ReaderWaits DEF Block, Waiting, Emits
  <2>3. QED
    BY <1>7, <2>1, <2>2 DEF Waiting, At, Place
<1>8. QED
  BY <1>1, <1>2, <1>3, <1>4, <1>5, <1>6, <1>7

\* A range grows with its bound.
LEMMA Wider ==
  ASSUME NEW a \in Nat, NEW b \in Nat, b >= a, NEW e \in 0..(a - 1)
  PROVE  e \in 0..(b - 1)
  OBVIOUS

\* What has been read of the frame stays read,
LEMMA PassedStays ==
  ASSUME PortInv, ScanInv, RowsInv, AddrInv, NEW ready \in BOOLEAN, Block(FALSE, ready),
         NEW y \in 0..(Rows - 1), NEW e \in Nat, Passed(y, e)
  PROVE  Passed(y, e)'
<1>1. CASE Reading
  <2>1. /\ rowsTaken' = rowsTaken /\ At \in Nat /\ At # Columns
        /\ At' \in Nat /\ At' >= At
    <3>1. /\ rowsTaken' = rowsTaken /\ At \in 0..(Columns - 1) /\ Columns \in Nat \ {0}
          /\ At' = IF pixel = NoPixel THEN At ELSE At + 1
      BY <1>1, AtMoves
    <3>2. QED
      BY <3>1
  <2>2. y < rowsTaken \/ (y = rowsTaken /\ e \in 0..(At - 1))
    BY <2>1 DEF Passed
  <2>3. y < rowsTaken' \/ (y = rowsTaken' /\ e \in 0..(At' - 1))
    <3>1. e \in 0..(At - 1) => e \in 0..(At' - 1)
      BY <2>1, Wider
    <3>2. QED
      BY <2>1, <2>2, <3>1
  <2>4. QED
    BY <2>3 DEF Passed
<1>2. CASE Ending
  BY <1>2, AtMoves DEF Passed
<1>3. CASE Closing
  <2>1. CASE rowValid /\ ready
    <3>1. rowsTaken' = rowsTaken + 1 /\ rowsTaken \in Nat
      BY <1>3, <2>1, AtMoves
    <3>2. QED
      BY <3>1 DEF Passed
  <2>2. CASE ~(rowValid /\ ready)
    BY <1>3, <2>2, AtMoves DEF Passed
  <2>3. QED
    BY <2>1, <2>2
<1>4. CASE Ended
  <2>1. y < rowsTaken
    BY <1>4, FeatureAssumption DEF Ended
  <2>2. QED
    BY <1>4, <2>1, AtMoves DEF Passed
<1>5. CASE Waiting
  BY <1>5, AtMoves DEF Passed
<1>6. QED
  BY <1>1, <1>2, <1>3, <1>4, <1>5 DEF RowsInv

\* and what is new of it ends at the pixel on offer.
LEMMA PassedNow ==
  ASSUME PortInv, ScanInv, RowsInv, AddrInv, NEW ready \in BOOLEAN, Block(FALSE, ready),
         frameActive', NEW y \in 0..(Rows - 1), NEW e \in 0..Columns, Passed(y, e)', ~Passed(y, e)
  PROVE  /\ InRow /\ pixel # NoPixel /\ y = rowsTaken
         /\ e = pixel.x \/ (pixel.end /\ e = Columns)
<1>0. Columns \in Nat \ {0} /\ Rows \in Nat \ {0} /\ rowsTaken \in Nat
  BY FeatureAssumption DEF Columns, RowsInv
<1>1. CASE Reading
  <2>1. /\ rowsTaken' = rowsTaken /\ At \in 0..(Columns - 1)
        /\ At' = IF pixel = NoPixel THEN At ELSE At + 1
        /\ pixel # NoPixel => At = pixel.x /\ At + 1 < Columns
    BY <1>1, AtMoves
  <2>2. y = rowsTaken /\ e < At' /\ ~(e < At)
    BY <1>0, <2>1 DEF Passed
  <2>3. QED
    BY <1>0, <1>1, <2>1, <2>2 DEF InRow
<1>2. CASE Ending
  <2>1. rowsTaken' = rowsTaken /\ At = Columns - 1 /\ At = pixel.x /\ pixel.end /\ pixel # NoPixel
    BY <1>2, AtMoves
  <2>2. y = rowsTaken /\ ~(e < At)
    BY <1>0, <2>1 DEF Passed
  <2>3. QED
    BY <1>0, <1>2, <2>1, <2>2 DEF InRow
<1>3. CASE Closing
  <2>1. At = Columns
    BY <1>3, AtMoves
  <2>2. ~(y < rowsTaken) /\ y # rowsTaken
    BY <2>1 DEF Passed
  <2>3. CASE rowValid /\ ready /\ rowsTaken # Rows - 1
    <3>1. rowsTaken' = rowsTaken + 1 /\ At' = 0
      BY <1>3, <2>3, AtMoves
    <3>2. QED
      BY <1>0, <2>2, <3>1 DEF Passed
  <2>4. CASE rowValid /\ ready /\ rowsTaken = Rows - 1
    BY <1>0, <2>2, <2>4
  <2>5. CASE ~(rowValid /\ ready)
    <3>1. rowsTaken' = rowsTaken
      BY <1>3, <2>5, AtMoves
    <3>2. QED
      BY <2>2, <3>1 DEF Passed
  <2>6. QED
    BY <2>3, <2>4, <2>5
<1>4. CASE Ended
  BY <1>0, <1>4 DEF Passed, Ended
<1>5. CASE Waiting
  BY <1>5, AtMoves
<1>6. QED
  BY <1>1, <1>2, <1>3, <1>4, <1>5 DEF RowsInv

\* The blocks and the HITs that they offer.
Scan(start, ready) ==
  /\ Block(start, ready)
  /\ sent' = CASE start -> <<>>
               [] vcc = "RATIO" /\ Confirmed -> Append(sent, [x |-> cand.x, y |-> cand.y])
               [] OTHER -> sent

\* A frame starts with nothing of it read or found.
LEMMA StartNothing ==
  ASSUME PortInv, ScanInv, RowsInv, NEW ready \in BOOLEAN, Block(TRUE, ready)
  PROVE  ~Flying' /\ rowsTaken' = 0 /\ At' = 0
<1>1. ~Busy
  BY DEF Block
<1>2. Settled /\ ~frameActive
  BY <1>1 DEF Busy
<1>3. Waiting
  BY <1>2 DEF RowsInv, Reading, Ending, Closing, Ended
<1>4. Reading' /\ rowsTaken' = 0
  BY <1>3, RowsWaiting
<1>5. At' = 0
  <2>1. ~Reading /\ InRow'
    BY <1>3, <1>4 DEF Waiting, Reading, InRow
  <2>2. QED
    BY <2>1, RowBegins
<1>6. Settled'
  BY <1>2, <1>3, SettledStays DEF Block, Waiting
<1>7. ~Flying'
  BY <1>6 DEF Settled, Request, Flying, Undecided
<1>8. QED
  BY <1>4, <1>5, <1>7

\* A pattern across a row ends within it.
LEMMA EndIs ==
  ASSUME Columns \in Nat, NEW y, NEW x \in 0..(Columns - 1), Across(x, y)
  PROVE  EndOf(x, y) \in 0..Columns /\ RowSpan(x, y) >= 7
<1> DEFINE h == RowRuns(x, y)
<1>1. /\ Chain(Line(y), Columns, h) /\ Ratio(Lengths(h))
      /\ RowSpan(x, y) = Total(Lengths(h)) /\ EndOf(x, y) = h[6]
  BY AcrossChain
<1> HIDE DEF h
<1>2. h[6] \in Nat /\ h[6] <= Columns /\ Total(Lengths(h)) >= 7
  BY <1>1, ChainLengths
<1>3. QED
  BY <1>1, <1>2

\* What is found is the pattern that flies next.
LEMMA FoundFlies ==
  ASSUME PortInv, ScanInv, RowsInv, AddrInv, RunInv, NEW ready \in BOOLEAN,
         Block(FALSE, ready), Found, NEW x, x = Middle, NEW y, y = rowsTaken
  PROVE  /\ x \in 0..(Columns - 1) /\ y \in 0..(Rows - 1)
         /\ Across(x, y) /\ At \in Nat /\ At < Columns
         /\ EndOf(x, y) \in Nat /\ EndOf(x, y) >= At
         /\ Flying' /\ Flyer'.x = x /\ Flyer'.y = y /\ Flyer'.total = RowSpan(x, y)
         /\ rowsTaken' = rowsTaken /\ Passed(y, EndOf(x, y))'
<1>1. pixel # NoPixel
  BY DEF Found, Continues
<1>2. InRow
  BY <1>1 DEF RowsInv, Closing, Ended, Waiting, InRow
<1>3. /\ x \in 0..(Columns - 1) /\ Across(x, y)
      /\ EndOf(x, y) = Ends /\ RowSpan(x, y) = Total(Five)
  BY <1>1, <1>2, FoundAcross
<1>4. /\ y \in 0..(Rows - 1) /\ At \in 0..(Columns - 1) /\ Columns \in Nat \ {0}
      /\ At = pixel.x /\ pixel.y = y
  BY <1>1, <1>2, PixelOfRow
<1>5. Ends \in Nat /\ Ends >= At /\ (~pixel.end => Ends = At)
  BY <1>4 DEF Ends
<1>6. pattern' = [x |-> x, y |-> y, total |-> Total(Five)]
  BY <1>4 DEF Block, RunScan, Middle
<1>7. Total(Five) >= 7
  BY <1>3, <1>4, EndIs
<1>8. pattern' # NoPattern
  BY <1>6, <1>7 DEF NoPattern
<1>9. Flying' /\ Flyer' = pattern'
  BY <1>8 DEF Flying, Flyer
<1>10. Flyer'.x = x /\ Flyer'.y = y /\ Flyer'.total = RowSpan(x, y)
  BY <1>3, <1>6, <1>9
<1>11. ASSUME NEW e, e = Ends
       PROVE  rowsTaken' = rowsTaken /\ Passed(y, e)'
  <2>1. CASE Reading
    <3>1. rowsTaken' = rowsTaken /\ At' = At + 1 /\ ~pixel.end
      BY <1>1, <2>1, AtMoves
    <3>2. y = rowsTaken' /\ e \in 0..(At' - 1)
      BY <1>4, <1>5, <1>11, <3>1
    <3>3. QED
      BY <3>1, <3>2 DEF Passed
  <2>2. CASE Ending
    <3>1. rowsTaken' = rowsTaken /\ At' = Columns /\ Columns' = Columns
      BY <2>2, AtMoves DEF Columns
    <3>2. QED
      BY <3>1 DEF Passed
  <2>3. QED
    BY <1>2, <2>1, <2>2 DEF InRow
<1>12. rowsTaken' = rowsTaken /\ Passed(y, EndOf(x, y))'
  <2>1. ASSUME NEW e, e = EndOf(x, y)
        PROVE  rowsTaken' = rowsTaken /\ Passed(y, e)'
    BY <1>3, <1>11, <2>1
  <2>2. EndOf(x, y)' = EndOf(x, y)
    BY ImageKept, AtMoves
  <2>3. QED
    BY <2>1, <2>2 DEF Passed
<1>13. QED
  BY <1>3, <1>4, <1>5, <1>9, <1>10, <1>12

\* The HITs that have been offered stay what they are.
LEMMA EntryKept ==
  ASSUME PortInv, ScanInv, RowsInv, AddrInv, NEW ready \in BOOLEAN, Block(FALSE, ready),
         NEW q \in Pixels, NEW k, Entry(q, k)
  PROVE  Entry(q, k)'
<1>1. image' = image /\ Columns \in Nat
  BY AtMoves
<1>2. q.x \in 0..(Columns - 1) /\ q.y \in 0..(Rows - 1)
  BY DEF Pixels
<1>3. EndOf(q.x, q.y) \in Nat
  BY <1>1, <1>2, EndIs DEF Entry, Finder
<1>4. Passed(q.y, EndOf(q.x, q.y))'
  <2>1. ASSUME NEW e, e = EndOf(q.x, q.y)
        PROVE  Passed(q.y, e)'
    BY <1>2, <1>3, <2>1, PassedStays DEF Entry
  <2>2. EndOf(q.x, q.y)' = EndOf(q.x, q.y)
    BY <1>1, ImageKept
  <2>3. QED
    BY <2>1, <2>2 DEF Passed
<1>5. Finder(q.x, q.y)'
  BY <1>1, ImageKept DEF Entry
<1>6. QED
  BY <1>4, <1>5 DEF Entry
-----------------------------------------------------------------------------
\* FlightInv and SentInv: nothing that has been read is missed, doubled or overtaken.

\* While a row is closed nothing flies.
LEMMA FlyingInRow ==
  ASSUME PortInv, ScanInv, RowsInv, AddrInv, NEW ready \in BOOLEAN, Block(FALSE, ready),
         Flying
  PROVE  rowsTaken' = rowsTaken
<1>1. ~Settled
  BY DEF Settled, Request, Flying, Undecided
<1>2. CASE Closing
  <2>1. ~rowValid
    BY <1>1, <1>2 DEF Closing
  <2>2. QED
    BY <1>2, <2>1, AtMoves
<1>3. QED
  BY <1>2, AtMoves DEF RowsInv

\* What flies is a pattern that has been read, after all that have been offered.
LEMMA FlightInvStep ==
  ASSUME PortInv, ScanInv, RowsInv, AddrInv, RunInv, ControlInv, FlightInv, SentInv,
         NEW start \in BOOLEAN, NEW ready \in BOOLEAN, Scan(start, ready)
  PROVE  FlightInv'
<1>0. Block(start, ready)
  BY DEF Scan
<1>1. CASE start
  <2>1. ~Flying'
    BY <1>0, <1>1, StartNothing
  <2>2. QED
    BY <2>1 DEF FlightInv
<1>2. CASE ~start
  <2>0. Block(FALSE, ready)
    BY <1>0, <1>2
  <2>1. Columns \in Nat \ {0} /\ rowsTaken \in Nat /\ image' = image
    BY <2>0, AtMoves
  <2>2. CASE Found
    <3>1. sent' = sent
      <4>1. vcc = "IDLE"
        BY <2>0, <2>2, FlyingSteps
      <4>2. QED
        BY <1>2, <4>1 DEF Scan
    <3>2. ASSUME NEW x, x = Middle, NEW y, y = rowsTaken
          PROVE  FlightInv'
      <4>1. /\ x \in 0..(Columns - 1) /\ y \in 0..(Rows - 1)
            /\ Across(x, y) /\ At \in Nat /\ At < Columns
            /\ EndOf(x, y) \in Nat /\ EndOf(x, y) >= At
            /\ Flying' /\ Flyer'.x = x /\ Flyer'.y = y /\ Flyer'.total = RowSpan(x, y)
            /\ rowsTaken' = rowsTaken /\ Passed(y, EndOf(x, y))'
        BY <2>0, <2>2, <3>2, FoundFlies
      <4>2. Across(x, y)' /\ RowSpan(x, y)' = RowSpan(x, y)
        BY <2>1, <4>1, ImageKept
      <4>3. ASSUME NEW k \in 1..Len(sent)
            PROVE  sent[k].y < y \/ (sent[k].y = y /\ sent[k].x < x)
        <5>1. sent[k] \in Pixels /\ Entry(sent[k], k)
          BY ElementOfSeq DEF SentInv
        <5>2. sent[k].x \in 0..(Columns - 1) /\ sent[k].y \in 0..(Rows - 1)
          BY <5>1 DEF Pixels
        <5>3. sent[k].y < y \/ (sent[k].y = y /\ EndOf(sent[k].x, sent[k].y) < At)
          BY <3>2, <4>1, <5>1, <5>2 DEF Entry, Passed
        <5>4. ASSUME sent[k].y = y, EndOf(sent[k].x, y) < At
              PROVE  sent[k].x < x
          <6>1. Across(sent[k].x, y) /\ EndOf(sent[k].x, y) \in Nat
            BY <2>1, <5>1, <5>2, <5>4, EndIs DEF Entry, Finder
          <6>2. EndOf(sent[k].x, y) < EndOf(x, y)
            BY <4>1, <5>4, <6>1
          <6>3. QED
            BY <2>1, <4>1, <5>2, <6>1, <6>2, AcrossOrdered
        <5>5. QED
          BY <5>3, <5>4
      <4>4. ASSUME NEW q, q = Flyer'
            PROVE  FlightInv'
        <5>1. q.x = x /\ q.y = y /\ q.total = RowSpan(x, y)'
          BY <4>1, <4>2, <4>4
        <5>2. Across(q.x, q.y)' /\ q.total = RowSpan(q.x, q.y)'
          BY <4>2, <5>1
        <5>3. q.y = rowsTaken'
          BY <3>2, <4>1, <5>1
        <5>4. Passed(q.y, EndOf(q.x, q.y))'
          BY <4>1, <5>1
        <5>5. \A k \in 1..Len(sent') : Earlier(sent'[k], q)
          BY <3>1, <4>3, <5>1 DEF Earlier
        <5>6. QED
          BY <4>4, <5>2, <5>3, <5>4, <5>5 DEF FlightInv
      <4>5. QED
        BY <4>4
    <3>3. QED
      BY <3>2
  <2>3. CASE ~Found
    <3>1. SUFFICES ASSUME Flying' PROVE FlightInv'
      BY DEF FlightInv
    <3>2. Flying /\ Flyer' = Flyer /\ ~(pattern = NoPattern /\ Decided)
      BY <2>0, <2>3, <3>1, FlyingSteps
    <3>3. sent' = sent
      <4>1. vcc # "RATIO"
        BY <2>0, <3>2, FlyingSteps DEF Decided
      <4>2. QED
        BY <1>2, <4>1 DEF Scan
    <3>4. rowsTaken' = rowsTaken
      BY <2>0, <3>2, FlyingInRow
    <3>5. ASSUME NEW q, q = Flyer
          PROVE  FlightInv'
      <4>1. /\ Across(q.x, q.y) /\ q.total = RowSpan(q.x, q.y)
            /\ q.y = rowsTaken /\ Passed(q.y, EndOf(q.x, q.y))
            /\ \A k \in 1..Len(sent) : Earlier(sent[k], q)
        BY <3>2, <3>5 DEF FlightInv
      <4>2. q.x \in 0..(Columns - 1) /\ q.y \in 0..(Rows - 1)
        BY <3>2, <3>5 DEF ScanInv, Candidate, Flyer, Flying, Undecided
      <4>3. EndOf(q.x, q.y) \in Nat
        BY <2>1, <4>1, <4>2, EndIs
      <4>4. ASSUME NEW e, e = EndOf(q.x, q.y)
            PROVE  Passed(q.y, e)'
        BY <2>0, <4>1, <4>2, <4>3, <4>4, PassedStays
      <4>5. /\ Across(q.x, q.y)' /\ RowSpan(q.x, q.y)' = RowSpan(q.x, q.y)
            /\ EndOf(q.x, q.y)' = EndOf(q.x, q.y)
        BY <2>1, <4>1, ImageKept
      <4>6. Passed(q.y, EndOf(q.x, q.y))'
        BY <4>4, <4>5 DEF Passed
      <4>7. QED
        <5>1. Flyer' = q
          BY <3>2, <3>5
        <5>2. \A k \in 1..Len(sent') : Earlier(sent'[k], q)
          BY <3>3, <4>1
        <5>3. q.total = RowSpan(q.x, q.y)' /\ q.y = rowsTaken'
          BY <3>4, <4>1, <4>5
        <5>4. QED
          BY <4>5, <4>6, <5>1, <5>2, <5>3 DEF FlightInv
    <3>6. QED
      BY <3>5
  <2>4. QED
    BY <2>2, <2>3
<1>3. QED
  BY <1>1, <1>2

\* Of two pixels the later one in reading order has the larger number.
LEMMA Ranked ==
  ASSUME Columns \in Nat, NEW p \in Pixels, NEW q \in Pixels, Earlier(p, q)
  PROVE  (p.y * Columns) + p.x + 1 <= (q.y * Columns) + q.x
<1>1. /\ p.x \in 0..(Columns - 1) /\ q.x \in 0..(Columns - 1) /\ p.y \in Nat /\ q.y \in Nat
  BY DEF Pixels
<1>2. CASE p.y = q.y /\ p.x < q.x
  BY <1>1, <1>2
<1>3. CASE p.y < q.y
  <2>1. q.y = (p.y + 1) + (q.y - (p.y + 1)) /\ q.y - (p.y + 1) \in Nat
    BY <1>1, <1>3
  <2> DEFINE d == q.y - (p.y + 1)
  <2> HIDE DEF d
  <2>2. q.y * Columns = (p.y * Columns) + Columns + (d * Columns) /\ d * Columns >= 0
    BY <1>1, <2>1 DEF d
  <2>3. p.y * Columns \in Int /\ q.y * Columns \in Int /\ d * Columns \in Int
    BY <1>1, <2>1 DEF d
  <2>4. QED
    BY <1>1, <2>2, <2>3
<1>4. QED
  BY <1>2, <1>3 DEF Earlier

\* What the cross check confirms is the next finder centre in reading order.
LEMMA NewEntry ==
  ASSUME PortInv, ScanInv, RowsInv, AddrInv, InFrame, ControlInv, CheckInv, FlightInv, SentInv,
         NEW ready \in BOOLEAN, Block(FALSE, ready), vcc = "RATIO", Confirmed,
         NEW p, p = [x |-> cand.x, y |-> cand.y]
  PROVE  /\ p \in Pixels /\ Entry(p, Len(sent) + 1)
         /\ \A k \in 1..Len(sent) : Earlier(sent[k], p)
<1>1. Columns \in Nat \ {0} /\ Len(sent) \in Nat
  BY AtMoves, LenProperties DEF SentInv
<1>2. p.x = cand.x /\ p.y = cand.y
  OBVIOUS
<1>3. p \in Pixels
  BY DEF Pixels, InFrame
<1>4. Flying /\ Flyer = cand
  BY FlyingSteps DEF Decided
<1>5. /\ Across(p.x, p.y) /\ cand.total = RowSpan(p.x, p.y)
      /\ Passed(p.y, EndOf(p.x, p.y)) /\ \A k \in 1..Len(sent) : Earlier(sent[k], cand)
  BY <1>2, <1>4 DEF FlightInv
<1>6. Finder(p.x, p.y)
  BY <1>2, <1>5, RatioDecides DEF Finder
<1>7. \A k \in 1..Len(sent) : Earlier(sent[k], p)
  BY <1>2, <1>5 DEF Earlier
<1>8. Len(sent) + 1 <= (p.y * Columns) + p.x + 1
  <2>1. (p.y * Columns) + p.x \in Nat
    BY <1>1, <1>3 DEF Pixels
  <2>2. CASE Len(sent) = 0
    BY <2>1, <2>2
  <2>3. CASE Len(sent) # 0
    <3>1. Len(sent) \in 1..Len(sent)
      BY <1>1, <2>3
    <3> DEFINE q == sent[Len(sent)]
    <3>2. q \in Pixels /\ Entry(q, Len(sent)) /\ Earlier(q, p)
      BY <1>7, <3>1, ElementOfSeq DEF SentInv
    <3> HIDE DEF q
    <3>3. (q.y * Columns) + q.x + 1 <= (p.y * Columns) + p.x
      BY <1>1, <1>3, <3>2, Ranked
    <3>4. Len(sent) <= (q.y * Columns) + q.x + 1 /\ (q.y * Columns) + q.x \in Nat
      BY <1>1, <3>2 DEF Entry, Pixels
    <3>5. QED
      BY <1>1, <2>1, <3>3, <3>4
  <2>4. QED
    BY <2>2, <2>3
<1>9. QED
  BY <1>3, <1>5, <1>6, <1>7, <1>8 DEF Entry

\* A finder centre that has been read is with the cross check, or has been offered.
LEMMA FinderListed ==
  ASSUME PortInv, ScanInv, OwnWords, RowsInv, AddrInv, RunInv, InFrame, ControlInv, CheckInv,
         FlightInv, SentInv, NEW ready \in BOOLEAN, Scan(FALSE, ready), frameActive',
         NEW x \in 0..(Columns - 1), NEW y \in 0..(Rows - 1), Finder(x, y)',
         Passed(y, EndOf(x, y))'
  PROVE  (Flying /\ Flyer.x = x /\ Flyer.y = y)' \/ Listed(x, y)'
<1>0. Block(FALSE, ready)
  BY DEF Scan
<1>1. Columns \in Nat \ {0} /\ image' = image /\ Len(sent) \in Nat
  BY <1>0, AtMoves, LenProperties DEF SentInv
<1>2. Finder(x, y) /\ Across(x, y) /\ Down(x, y, RowSpan(x, y))
  BY <1>1, ImageKept DEF Finder
<1>3. /\ EndOf(x, y) \in 0..Columns
      /\ \A e : e = EndOf(x, y) => Passed(y, e)'
  <2>1. EndOf(x, y)' = EndOf(x, y)
    BY <1>1, ImageKept
  <2>2. QED
    BY <1>1, <1>2, <2>1, EndIs DEF Passed
<1>4. CASE Passed(y, EndOf(x, y))
  <2>1. frameActive
    BY <1>0, AtMoves DEF RowsInv, Reading, Ending, Closing, Ended
  <2>2. (Flying /\ Flyer.x = x /\ Flyer.y = y) \/ Listed(x, y)
    BY <1>2, <1>4, <2>1 DEF SentInv
  <2>3. CASE Listed(x, y)
    <3>1. PICK k \in 1..Len(sent) : sent[k] = [x |-> x, y |-> y]
      BY <2>3 DEF Listed
    <3>2. k \in 1..Len(sent') /\ sent'[k] = sent[k]
      <4>1. CASE sent' = sent
        BY <4>1
      <4>2. CASE sent' = Append(sent, [x |-> cand.x, y |-> cand.y])
        <5>1. [x |-> cand.x, y |-> cand.y] \in Pixels
          BY DEF Pixels, InFrame
        <5>2. /\ Len(sent') = Len(sent) + 1
              /\ \A i \in 1..Len(sent) : sent'[i] = sent[i]
          BY <4>2, <5>1, Appending DEF SentInv
        <5>3. QED
          BY <1>1, <5>2
      <4>3. QED
        BY <4>1, <4>2 DEF Scan
    <3>3. QED
      BY <3>1, <3>2 DEF Listed
  <2>4. CASE Flying /\ Flyer.x = x /\ Flyer.y = y
    <3>1. CASE ~(pattern = NoPattern /\ Decided)
      <4>1. ~Found
        BY <1>0, <2>4, FlyingSteps
      <4>2. Flying' /\ Flyer' = Flyer
        BY <1>0, <2>4, <3>1, <4>1, FlyingSteps
      <4>3. QED
        BY <2>4, <4>2
    <3>2. CASE pattern = NoPattern /\ Decided
      <4>1. ~Found
        BY <1>0, <2>4, FlyingSteps
      <4>2. Flyer = cand
        BY <1>0, <2>4, <3>2, <4>1, FlyingSteps
      <4>3. cand.x = x /\ cand.y = y /\ cand.total = RowSpan(x, y)
        BY <2>4, <4>2 DEF FlightInv
      <4>4. Down(cand.x, cand.y, cand.total)
        BY <1>2, <4>3
      <4>5. ~(vcc = "READ_CHECK" /\ Verdict = "reject")
        BY <4>4, RejectDecides
      <4>6. vcc = "RATIO"
        BY <3>2, <4>5 DEF Decided
      <4>7. Confirmed
        BY <4>4, <4>6, RatioDecides
      <4>8. sent' = Append(sent, [x |-> x, y |-> y])
        BY <4>3, <4>6, <4>7 DEF Scan
      <4>9. [x |-> x, y |-> y] \in Pixels
        BY DEF Pixels
      <4>10. Len(sent') = Len(sent) + 1 /\ sent'[Len(sent) + 1] = [x |-> x, y |-> y]
        BY <4>8, <4>9, Appending DEF SentInv
      <4>11. Len(sent) + 1 \in 1..Len(sent')
        BY <1>1, <4>10
      <4>12. QED
        BY <4>10, <4>11 DEF Listed
    <3>3. QED
      BY <3>1, <3>2
  <2>5. QED
    BY <2>2, <2>3, <2>4
<1>5. CASE ~Passed(y, EndOf(x, y))
  <2>1. /\ InRow /\ pixel # NoPixel /\ y = rowsTaken
        /\ EndOf(x, y) = pixel.x \/ (pixel.end /\ EndOf(x, y) = Columns)
    <3>1. ASSUME NEW e, e = EndOf(x, y)
          PROVE  /\ InRow /\ pixel # NoPixel /\ y = rowsTaken
                 /\ e = pixel.x \/ (pixel.end /\ e = Columns)
      BY <1>0, <1>3, <1>5, <3>1, PassedNow
    <3>2. QED
      BY <3>1
  <2>2. Found /\ x = Middle
    BY <1>2, <2>1, AcrossFound
  <2>3. Flying' /\ Flyer'.x = x /\ Flyer'.y = y
    BY <1>0, <2>1, <2>2, FoundFlies
  <2>4. QED
    BY <2>3
<1>6. QED
  BY <1>4, <1>5

\* The HITs are those of what has been read, each in its place.
LEMMA SentInvStep ==
  ASSUME PortInv, ScanInv, OwnWords, RowsInv, AddrInv, RunInv, InFrame, ControlInv, CheckInv,
         FlightInv, SentInv, NEW start \in BOOLEAN, NEW ready \in BOOLEAN, Scan(start, ready)
  PROVE  SentInv'
<1>0. Block(start, ready)
  BY DEF Scan
<1>1. CASE start
  <2>1. ~Flying' /\ rowsTaken' = 0 /\ At' = 0 /\ sent' = <<>> /\ Columns' = Columns
    <3>1. Block(TRUE, ready)
      BY <1>0, <1>1
    <3>2. sent' = <<>>
      <4>1. vcc = "IDLE"
        BY <3>1 DEF Block, Busy, Settled
      <4>2. QED
        BY <1>1, <4>1 DEF Scan
    <3>3. QED
      BY <3>1, <3>2, StartNothing DEF Columns
  <2>2. sent' \in Seq(Pixels) /\ Len(sent') = 0
    BY <2>1
  <2>3. Pixels' = Pixels
    BY <2>1 DEF Pixels
  <2>4. ASSUME NEW x \in 0..(Columns - 1), NEW y \in 0..(Rows - 1)
        PROVE  ~Passed(y, EndOf(x, y))'
    <3>1. Columns \in Nat \ {0} /\ ~(y < 0) /\ 0..(0 - 1) = {}
      BY FeatureAssumption DEF Columns
    <3>2. QED
      BY <2>1, <3>1 DEF Passed
  <2>5. QED
    BY <2>2, <2>3, <2>4 DEF SentInv, Columns
<1>2. CASE ~start
  <2>0. Block(FALSE, ready) /\ Scan(FALSE, ready)
    BY <1>0, <1>2 DEF Scan
  <2>1. Columns \in Nat \ {0} /\ image' = image /\ Len(sent) \in Nat /\ sent \in Seq(Pixels)
    BY <2>0, AtMoves, LenProperties DEF SentInv
  <2>2. ASSUME NEW k \in 1..Len(sent)
        PROVE  sent[k] \in Pixels /\ Entry(sent[k], k)
    BY ElementOfSeq DEF SentInv
  <2>3. ASSUME NEW k \in 1..Len(sent), NEW q, q = sent[k]
        PROVE  Entry(q, k)'
    BY <2>0, <2>2, <2>3, EntryKept
  <2>4. /\ sent' \in Seq(Pixels)
        /\ \A k \in 1..Len(sent') : Entry(sent[k], k)'
        /\ \A j, k \in 1..Len(sent') : j < k => Earlier(sent'[j], sent'[k])
    <3>1. CASE ~(vcc = "RATIO" /\ Confirmed)
      <4>1. sent' = sent
        BY <1>2, <3>1 DEF Scan
      <4>2. ASSUME NEW k \in 1..Len(sent')
            PROVE  Entry(sent[k], k)'
        BY <2>3, <4>1
      <4>3. QED
        BY <2>1, <4>1, <4>2 DEF SentInv
    <3>2. CASE vcc = "RATIO" /\ Confirmed
      <4> DEFINE p == [x |-> cand.x, y |-> cand.y]
      <4>1. /\ p \in Pixels /\ Entry(p, Len(sent) + 1)
            /\ \A k \in 1..Len(sent) : Earlier(sent[k], p)
        BY <2>0, <3>2, NewEntry
      <4>2. sent' = Append(sent, p)
        BY <1>2, <3>2 DEF Scan
      <4>3. ASSUME NEW q, q = p PROVE Entry(q, Len(sent) + 1)
        BY <4>1, <4>3
      <4> HIDE DEF p
      <4>4. /\ sent' \in Seq(Pixels) /\ Len(sent') = Len(sent) + 1
            /\ \A i \in 1..Len(sent) : sent'[i] = sent[i]
            /\ sent'[Len(sent) + 1] = p
        BY <2>1, <4>1, <4>2, Appending
      <4>5. ASSUME NEW q, q = p, NEW k, k = Len(sent) + 1
            PROVE  Entry(q, k)'
        BY <2>0, <4>1, <4>5, EntryKept
      <4>6. ASSUME NEW k \in 1..Len(sent')
            PROVE  Entry(sent[k], k)'
        <5>1. CASE k \in 1..Len(sent)
          BY <2>3, <4>4, <5>1
        <5>2. CASE k = Len(sent) + 1
          BY <4>4, <4>5, <5>2
        <5>3. QED
          BY <2>1, <4>4, <5>1, <5>2
      <4>7. ASSUME NEW j \in 1..Len(sent'), NEW k \in 1..Len(sent'), j < k
            PROVE  Earlier(sent'[j], sent'[k])
        <5>1. j \in 1..Len(sent) /\ sent'[j] = sent[j]
          BY <2>1, <4>4, <4>7
        <5>2. CASE k \in 1..Len(sent)
          <6>1. sent'[k] = sent[k] /\ Earlier(sent[j], sent[k])
            BY <4>4, <4>7, <5>1, <5>2 DEF SentInv
          <6>2. QED
            BY <5>1, <6>1
        <5>3. CASE k = Len(sent) + 1
          BY <4>1, <4>4, <5>1, <5>3
        <5>4. QED
          BY <2>1, <4>4, <5>2, <5>3
      <4>8. QED
        BY <4>4, <4>6, <4>7
    <3>3. QED
      BY <3>1, <3>2
  <2>5. ASSUME frameActive', NEW x \in 0..(Columns - 1), NEW y \in 0..(Rows - 1), Finder(x, y)',
               Passed(y, EndOf(x, y))'
        PROVE  (Flying /\ Flyer.x = x /\ Flyer.y = y)' \/ Listed(x, y)'
    BY <2>0, <2>5, FinderListed
  <2>6. Columns' = Columns /\ Pixels' = Pixels
    BY DEF Columns, Pixels
  <2>7. QED
    BY <2>4, <2>5, <2>6 DEF SentInv
<1>3. QED
  BY <1>1, <1>2
-----------------------------------------------------------------------------
\* The inductive invariant.

HitInv == /\ FeatureInv /\ RowsInv /\ AddrInv /\ RunInv
          /\ ControlInv /\ CheckInv /\ FlightInv /\ SentInv

\* The invariant holds when the scanner comes out of reset,
LEMMA HitInit == Init => HitInv
<1> SUFFICES ASSUME Init PROVE HitInv
  OBVIOUS
<1>0. Rows \in Nat \ {0}
  BY FeatureAssumption
<1>1. FeatureInv
  BY FeatureInit
<1>2. Waiting /\ RowsInv
  <2>1. Waiting
    BY DEF Init, Waiting, Settled, Request
  <2>2. {frameActive, rowPending, rowValid, doneValid, lastRowSeen} \subseteq BOOLEAN
    BY DEF Init
  <2>3. rowsTaken \in 0..Rows /\ pixel = NoPixel /\ ~lastRowSeen
    BY <1>0 DEF Init
  <2>4. ~Reading /\ ~Ending /\ ~Closing
    BY DEF Init, Reading, Ending, Closing
  <2>5. QED
    BY <2>1, <2>2, <2>3, <2>4 DEF RowsInv
<1>3. AddrInv
  BY DEF Init, AddrInv
<1>4. RunInv
  BY DEF Init, RunInv, InRow, Reading, Ending
<1>5. ControlInv /\ CheckInv
  BY DEF Init, ControlInv, CheckInv, Walking
<1>6. ~Flying /\ FlightInv
  BY DEF Init, Flying, Undecided, FlightInv
<1>7. SentInv
  <2>1. sent = <<>> /\ ~frameActive
    BY DEF Init
  <2>2. sent \in Seq(Pixels) /\ Len(sent) = 0
    BY <2>1
  <2>3. QED
    BY <2>1, <2>2 DEF SentInv
<1>8. QED
  BY <1>1, <1>2, <1>3, <1>4, <1>5, <1>6, <1>7 DEF HitInv

\* An edge is a step of the blocks and of the HITs they offer; a start counts when not busy.
LEMMA EdgeScans ==
  ASSUME NEW start \in BOOLEAN, NEW ready \in BOOLEAN, NEW clear \in BOOLEAN,
         Edge(start, ready, clear)
  PROVE  \E first \in BOOLEAN : Scan(first, ready)
<1> DEFINE first == start /\ ~Busy
<1>1. first \in BOOLEAN /\ (first => ~Busy)
  OBVIOUS
<1>2. /\ FrameReader(first) /\ RunScan /\ CandidateControl /\ Arbiter /\ CrossCheck(ready)
      /\ RowDoneControl(first, ready) /\ History(first, ready)
  BY DEF Edge
<1> HIDE DEF first
<1>3. Block(first, ready)
  BY <1>1, <1>2 DEF Block, History
<1>4. Scan(first, ready)
  BY <1>2, <1>3 DEF Scan, History
<1>5. QED
  BY <1>1, <1>4

\* and each edge keeps it.
LEMMA HitStep == HitInv /\ [Next]_vars => HitInv'
<1> SUFFICES ASSUME HitInv, [Next]_vars PROVE HitInv'
  OBVIOUS
<1>0. FeatureInv'
  BY FeatureStep DEF HitInv
<1>1. ASSUME NEW start \in BOOLEAN, NEW ready \in BOOLEAN, Scan(start, ready)
      PROVE  HitInv'
  <2>0. Block(start, ready) /\ PortInv /\ ScanInv /\ OwnWords /\ InFrame
    BY <1>1 DEF Scan, HitInv, FeatureInv
  <2>1. RowsInv'
    BY <2>0, RowsInvStep DEF HitInv
  <2>2. AddrInv'
    BY <2>0, AddrInvStep DEF HitInv
  <2>3. RunInv'
    BY <2>0, RunInvStep DEF HitInv
  <2>4. ControlInv'
    BY <2>0, ControlInvStep DEF HitInv
  <2>5. CheckInv'
    BY <2>0, CheckInvStep DEF HitInv
  <2>6. FlightInv'
    BY <1>1, <2>0, FlightInvStep DEF HitInv
  <2>7. SentInv'
    BY <1>1, <2>0, SentInvStep DEF HitInv
  <2>8. QED
    BY <1>0, <2>1, <2>2, <2>3, <2>4, <2>5, <2>6, <2>7 DEF HitInv
<1>2. CASE UNCHANGED vars
  <2>1. UNCHANGED <<readerVars, runVars, controlVars, vccVars, rowVars, rowsTaken, sent>>
    BY <1>2 DEF vars
  <2>2. UNCHANGED <<reader, rowY, wordX, bit, addr, word, pixel, image, frameActive, rowPending,
                    rowValid, rowLine, doneValid, lastRowSeen, rowsTaken, pattern, pending,
                    arbiter, vcc, control, vccPattern, cand, cursor, counts, phase, runActive,
                    black, length, previous, completed, sent>>
    BY <2>1 DEF readerVars, runVars, controlVars, vccVars, rowVars
  <2>3. RowsInv'
    BY <2>2 DEF HitInv, RowsInv, Reading, Ending, Closing, Ended, Waiting, NextRow, NextPlace,
                Settled, Request
  <2>4. AddrInv'
    BY <2>2 DEF HitInv, AddrInv
  <2>5. RunInv'
    BY <2>2 DEF HitInv, RunInv, InRow, Reading, Ending, NextRow, NextPlace, At, Place, Line
  <2>6. ControlInv'
    BY <2>2 DEF HitInv, ControlInv
  <2>7. CheckInv'
    BY <2>2 DEF HitInv, CheckInv, Walking, ColumnLine, MaxSpan
  <2>8. Flying' = Flying /\ Flyer' = Flyer /\ At' = At
    BY <2>2 DEF Flying, Flyer, Undecided, At, Place, NextPlace
  <2>9. FlightInv'
    BY <2>2, <2>8 DEF HitInv, FlightInv, Across, InPattern, CodeCentre, Dropped, RowSpan, EndOf, RowRuns, Passed
  <2>10. SentInv'
    <3>1. ASSUME NEW x, NEW y
          PROVE  /\ Finder(x, y)' <=> Finder(x, y)
                 /\ Passed(y, EndOf(x, y))' <=> Passed(y, EndOf(x, y))
                 /\ Listed(x, y)' <=> Listed(x, y)
      <4>1. (Finder(x, y)' <=> Finder(x, y)) /\ EndOf(x, y)' = EndOf(x, y)
        BY <2>2, ImageKept
      <4>2. QED
        BY <2>2, <2>8, <4>1 DEF Passed, Listed
    <3>2. ASSUME NEW q, NEW k, Entry(q, k) PROVE Entry(q, k)'
      BY <3>1, <3>2 DEF Entry
    <3>3. \A k \in 1..Len(sent) : Entry(sent[k], k)'
      <4>1. ASSUME NEW k \in 1..Len(sent), NEW q, q = sent[k]
            PROVE  Entry(q, k)'
        BY <3>2, <4>1 DEF HitInv, SentInv
      <4>2. QED
        BY <2>2, <4>1
    <3>4. frameActive' =>
            \A x \in 0..(Columns - 1), y \in 0..(Rows - 1) :
              Finder(x, y)' /\ Passed(y, EndOf(x, y))' =>
                (Flying /\ Flyer.x = x /\ Flyer.y = y)' \/ Listed(x, y)'
      BY <2>2, <2>8, <3>1 DEF HitInv, SentInv
    <3>5. Pixels' = Pixels /\ Columns' = Columns
      BY DEF Pixels, Columns
    <3>6. QED
      BY <2>2, <3>3, <3>4, <3>5 DEF HitInv, SentInv
  <2>11. QED
    BY <1>0, <2>3, <2>4, <2>5, <2>6, <2>7, <2>9, <2>10 DEF HitInv
<1>3. CASE Next
  <2>1. \E start, ready, clear \in BOOLEAN : Edge(start, ready, clear)
    BY <1>3 DEF Next, Run, Start, ErrorClear, Taken
  <2>2. QED
    BY <1>1, <2>1, EdgeScans
<1>4. QED
  BY <1>2, <1>3

\* For frames of any size and content the HITs offered up to a ROW_DONE are exactly the finder
\* centres of the rows so far, once each and in reading order, however long the consumer takes:
\* the pause of the reader at each candidate, the cross check over the same port and the
\* ROW_DONE that waits for it lose nothing, double nothing and let nothing overtake.
THEOREM HitsAreFindersHolds == Spec => []HitsAreFinders
<1>1. ASSUME HitInv PROVE HitsAreFinders
  <2>1. errors = {} /\ SentInv
    BY <1>1 DEF HitInv, FeatureInv, ScanInv
  <2>2. SUFFICES ASSUME rowValid
                 PROVE  /\ {sent[k] : k \in 1..Len(sent)} =
                             {p \in [x : 0..(Columns - 1), y : 0..rowLine] : Finder(p.x, p.y)}
                        /\ \A j, k \in 1..Len(sent) : j < k => Earlier(sent[j], sent[k])
    BY <2>1 DEF HitsAreFinders, NoScanError, Earlier
  <2>3. Closing
    BY <1>1, <2>2 DEF HitInv, RowsInv, Reading, Ending, Ended, Waiting
  <2>4. /\ frameActive /\ rowLine = rowsTaken /\ At = Columns /\ rowsTaken \in 0..(Rows - 1)
        /\ ~Flying
    <3>1. Settled /\ frameActive /\ rowLine = rowsTaken
      BY <2>2, <2>3 DEF Closing
    <3>2. ~Flying
      BY <3>1 DEF Settled, Request, Flying, Undecided
    <3>3. rowsTaken \in 0..(Rows - 1)
      BY <1>1, <2>3, FeatureAssumption DEF HitInv, RowsInv
    <3>4. QED
      BY <2>2, <3>1, <3>2, <3>3 DEF At
  <2>5. ASSUME NEW k \in 1..Len(sent)
        PROVE  /\ sent[k] \in [x : 0..(Columns - 1), y : 0..rowLine]
               /\ Finder(sent[k].x, sent[k].y)
    <3>1. sent[k] \in Pixels /\ Entry(sent[k], k)
      BY <2>1, ElementOfSeq DEF SentInv
    <3>2. sent[k].y \in 0..rowLine
      BY <2>4, <3>1 DEF Entry, Passed, Pixels
    <3>3. QED
      BY <3>1, <3>2 DEF Pixels, Entry
  <2>6. ASSUME NEW p \in [x : 0..(Columns - 1), y : 0..rowLine], Finder(p.x, p.y)
        PROVE  \E k \in 1..Len(sent) : sent[k] = p
    <3>1. p.x \in 0..(Columns - 1) /\ p.y \in 0..(Rows - 1) /\ p = [x |-> p.x, y |-> p.y]
      <4>1. p.x \in 0..(Columns - 1) /\ p.y \in 0..rowLine /\ p = [x |-> p.x, y |-> p.y]
        OBVIOUS
      <4>2. rowLine \in 0..(Rows - 1) /\ Rows \in Nat
        BY <2>4, FeatureAssumption
      <4>3. QED
        BY <4>1, <4>2
    <3>2. Passed(p.y, EndOf(p.x, p.y))
      BY <2>4 DEF Passed
    <3>3. Listed(p.x, p.y)
      BY <2>1, <2>4, <2>6, <3>1, <3>2 DEF SentInv
    <3>4. QED
      BY <3>1, <3>3 DEF Listed
  <2>7. {sent[k] : k \in 1..Len(sent)} =
          {p \in [x : 0..(Columns - 1), y : 0..rowLine] : Finder(p.x, p.y)}
    BY <2>5, <2>6
  <2>8. QED
    BY <2>1, <2>7 DEF SentInv
<1>2. QED
  BY <1>1, HitInit, HitStep, PTL DEF Spec
-----------------------------------------------------------------------------
\* The scanner implements what the stages behind it rely on.

\* What is on offer, as the refinement mapping has it.
NothingOffered == [type |-> "none", x |-> 0, y |-> 0]
Offer == IF vcc = "EVENT" THEN [type |-> "hit", x |-> cand.x, y |-> cand.y]
         ELSE IF rowValid THEN [type |-> "row", x |-> 0, y |-> rowLine]
         ELSE IF doneValid THEN [type |-> "frame", x |-> 0, y |-> Rows - 1]
         ELSE NothingOffered

Starts == /\ ~frameActive /\ frameActive' = TRUE /\ rowsTaken' = 0 /\ sent' = <<>>
          /\ Offer' = NothingOffered
Holds == /\ frameActive' = frameActive /\ rowsTaken' = rowsTaken /\ sent' = sent
         /\ Offer' = Offer
Takes == /\ Offer # NothingOffered /\ Offer' = NothingOffered /\ sent' = sent
         /\ rowsTaken' = (IF Offer.type = "row" THEN rowsTaken + 1 ELSE rowsTaken)
         /\ frameActive' = (Offer.type # "frame")
Puts == /\ frameActive = TRUE /\ frameActive' = TRUE /\ rowsTaken' = rowsTaken
        /\ Offer = NothingOffered
        /\ \/ /\ vcc' = "EVENT" /\ Offer' = [type |-> "hit", x |-> cand.x, y |-> cand.y]
              /\ cand.x \in 0..(Columns - 1) /\ cand.y \in 0..(Rows - 1)
              /\ rowsTaken < Rows /\ Len(sent) < MaxOffered
              /\ sent' = Append(sent, [x |-> cand.x, y |-> cand.y])
           \/ /\ rowsTaken < Rows /\ Offer' = [type |-> "row", x |-> 0, y |-> rowsTaken]
              /\ sent' = sent
           \/ /\ ~(rowsTaken < Rows) /\ Offer' = [type |-> "frame", x |-> 0, y |-> Rows - 1]
              /\ sent' = sent

\* What the offers of the scanner are is what the promise is about.
LEMMA IsEvent ==
  ASSUME Starts \/ Holds \/ Takes \/ Puts
  PROVE  [Events!Next]_(Events!eventVars)
<1>1. CASE Starts
  <2>1. Events!Scanner(TRUE, FALSE)
    BY <1>1 DEF Starts, Events!Scanner, Offer, NothingOffered, Events!NoEvent
  <2>2. QED
    BY <1>1, <2>1 DEF Starts, Events!Next
<1>2. CASE Holds
  BY <1>2 DEF Holds, Events!eventVars, Offer, NothingOffered
<1>3. CASE Takes
  <2>1. Events!Scanner(FALSE, TRUE)
    BY <1>3 DEF Takes, Events!Scanner, Offer, NothingOffered, Events!NoEvent
  <2>2. Offer # Events!NoEvent
    BY <1>3 DEF Takes, NothingOffered, Events!NoEvent
  <2>3. QED
    BY <2>1, <2>2 DEF Events!Next, Offer, NothingOffered
<1>4. CASE Puts
  <2>1. Offer' \in Events!Offers
    BY <1>4 DEF Puts, Events!Offers, Events!Hits, Events!RowDone, Events!FrameDone
  <2>2. sent' = IF Offer'.type = "hit"
                THEN Append(sent, [x |-> Offer'.x, y |-> Offer'.y]) ELSE sent
    BY <1>4 DEF Puts
  <2>3. Events!Scanner(FALSE, FALSE)
    BY <1>4, <2>1, <2>2 DEF Puts, Events!Scanner, Offer, NothingOffered, Events!NoEvent
  <2>4. QED
    BY <2>3 DEF Events!Next
<1>5. QED
  BY <1>1, <1>2, <1>3, <1>4

\* A pixel's number in reading order is within the bound on the HITs.
LEMMA MaxIs ==
  ASSUME NEW y \in 0..(Rows - 1), NEW x \in 0..(Columns - 1)
  PROVE  (y * Columns) + x + 1 <= MaxOffered
<1> USE FeatureAssumption, OfferedAssumption
<1>1. Columns \in Nat \ {0} /\ Rows \in Nat \ {0} /\ MaxOffered \in Nat
  BY DEF Columns
<1>2. Rows = (y + 1) + (Rows - (y + 1)) /\ Rows - (y + 1) \in Nat
  BY <1>1
<1> DEFINE d == Rows - (y + 1)
<1> HIDE DEF d
<1>3. Rows * Columns = (y * Columns) + Columns + (d * Columns) /\ d * Columns >= 0
  BY <1>1, <1>2 DEF d
<1>4. y * Columns \in Int /\ d * Columns \in Int /\ Columns * Rows = Rows * Columns
  BY <1>1, <1>2 DEF d
<1>5. MaxOffered >= Columns * Rows
  OBVIOUS
<1> HIDE FeatureAssumption, OfferedAssumption
<1>6. QED
  BY <1>1, <1>3, <1>4, <1>5

\* Each edge starts a frame, puts an event on offer, takes it back, or holds it.
LEMMA OfferStep ==
  ASSUME HitInv, NEW start \in BOOLEAN, NEW ready \in BOOLEAN, Scan(start, ready)
  PROVE  Starts \/ Holds \/ Takes \/ Puts
<1>1. /\ Block(start, ready) /\ PortInv /\ ScanInv /\ OwnWords /\ InFrame /\ RowsInv /\ AddrInv
      /\ RunInv /\ ControlInv /\ CheckInv /\ FlightInv /\ SentInv
  BY DEF Scan, HitInv, FeatureInv
<1>2. RowDoneControl(start, ready) /\ CrossCheck(ready) /\ RunScan /\ CandidateControl /\ Arbiter
  BY <1>1 DEF Block
<1>3. /\ frameActive \in BOOLEAN /\ rowPending \in BOOLEAN /\ rowValid \in BOOLEAN
      /\ doneValid \in BOOLEAN /\ rowsTaken \in 0..Rows
  BY <1>1 DEF RowsInv
<1>4. Settled /\ pixel = NoPixel => vcc = "IDLE" /\ vcc' = "IDLE" /\ Settled'
  BY <1>1, <1>2, SettledStays DEF Settled
<1>5. vcc # "RATIO" /\ ~start => sent' = sent
  BY DEF Scan
<1>6. CASE Waiting
  <2>1. vcc' = "IDLE" /\ vcc = "IDLE" /\ ~frameActive /\ ~rowValid /\ ~doneValid
    BY <1>4, <1>6 DEF Waiting
  <2>2. CASE start
    <3>1. Reading' /\ rowsTaken' = 0 /\ sent' = <<>>
      BY <1>1, <1>6, <2>1, <2>2, RowsWaiting DEF Scan
    <3>2. frameActive' = TRUE
      BY <1>2, <1>6, <2>2 DEF RowDoneControl, Waiting
    <3>3. Offer' = NothingOffered
      BY <2>1, <3>1 DEF Reading, Offer
    <3>4. QED
      BY <2>1, <3>1, <3>2, <3>3 DEF Starts
  <2>3. CASE ~start
    <3>1. Waiting' /\ rowsTaken' = rowsTaken /\ sent' = sent
      BY <1>1, <1>5, <1>6, <2>1, <2>3, RowsWaiting
    <3>2. frameActive' = frameActive
      <4>1. frameActive' = FALSE
        BY <1>2, <1>6, <2>3 DEF RowDoneControl, Waiting
      <4>2. QED
        BY <1>3, <2>1, <4>1
    <3>3. Offer = NothingOffered /\ Offer' = NothingOffered
      BY <2>1, <3>1 DEF Waiting, Offer
    <3>4. QED
      BY <3>1, <3>2, <3>3 DEF Holds
  <2>4. QED
    BY <2>2, <2>3
<1>7. CASE Ended
  <2>1. vcc' = "IDLE" /\ vcc = "IDLE" /\ frameActive /\ ~rowValid /\ ~start /\ sent' = sent
    <3>1. vcc' = "IDLE" /\ vcc = "IDLE" /\ frameActive /\ ~rowValid
      BY <1>4, <1>7 DEF Ended
    <3>2. ~start
      BY <1>1, <1>7, RowsEnded
    <3>3. QED
      BY <1>5, <3>1, <3>2
  <2>2. /\ rowsTaken' = rowsTaken /\ rowsTaken = Rows /\ ~rowValid'
        /\ IF doneValid /\ ready THEN Waiting' ELSE Ended'
    BY <1>1, <1>7, RowsEnded DEF Ended
  <2>3. CASE doneValid /\ ready
    <3>1. frameActive' = FALSE /\ ~doneValid'
      BY <1>2, <2>3 DEF RowDoneControl
    <3>2. /\ Offer = [type |-> "frame", x |-> 0, y |-> Rows - 1]
          /\ Offer' = NothingOffered
      BY <2>1, <2>2, <2>3, <3>1 DEF Offer
    <3>3. Offer.type = "frame" /\ Offer # NothingOffered
      BY <3>2 DEF NothingOffered
    <3>4. QED
      BY <2>1, <2>2, <3>1, <3>2, <3>3 DEF Takes
  <2>4. CASE ~(doneValid /\ ready)
    <3>1. frameActive' = TRUE /\ frameActive = TRUE /\ (doneValid => doneValid')
      BY <1>2, <1>3, <2>1, <2>4 DEF RowDoneControl
    <3>2. CASE doneValid \/ ~doneValid'
      <4>1. Offer' = Offer
        BY <2>1, <2>2, <3>1, <3>2 DEF Offer
      <4>2. QED
        BY <2>1, <2>2, <3>1, <4>1 DEF Holds
    <3>3. CASE ~doneValid /\ doneValid'
      <4>1. /\ Offer = NothingOffered
            /\ Offer' = [type |-> "frame", x |-> 0, y |-> Rows - 1]
        BY <2>1, <2>2, <3>3 DEF Offer
      <4>2. ~(rowsTaken < Rows)
        BY <2>2, FeatureAssumption
      <4>3. QED
        BY <2>1, <2>2, <3>1, <4>1, <4>2 DEF Puts
    <3>4. QED
      BY <3>2, <3>3
  <2>5. QED
    BY <2>3, <2>4
<1>8. ASSUME Closing, rowValid
      PROVE  Holds \/ Takes
  <2>1. vcc' = "IDLE" /\ vcc = "IDLE" /\ frameActive /\ ~rowPending /\ ~doneValid /\ ~pixel.end
    BY <1>4, <1>8 DEF Closing, NoPixel
  <2>2. ~start /\ sent' = sent
    BY <1>1, <1>5, <1>8, <2>1, RowsClosing
  <2>3. frameActive' = TRUE /\ frameActive = TRUE /\ ~doneValid'
    BY <1>2, <1>3, <1>8, <2>1, <2>2 DEF RowDoneControl
  <2>4. /\ rowLine = rowsTaken /\ Offer = [type |-> "row", x |-> 0, y |-> rowsTaken]
    BY <1>8, <2>1 DEF Closing, Offer
  <2>5. CASE ready
    <3>1. rowsTaken' = rowsTaken + 1 /\ ~rowValid'
      BY <1>1, <1>8, <2>5, RowsClosing
    <3>2. Offer' = NothingOffered
      BY <2>1, <2>3, <3>1 DEF Offer
    <3>3. Offer.type = "row" /\ Offer # NothingOffered /\ Offer.type # "frame"
      BY <2>4 DEF NothingOffered
    <3>4. QED
      BY <2>2, <2>3, <3>1, <3>2, <3>3 DEF Takes
  <2>6. CASE ~ready
    <3>1. rowsTaken' = rowsTaken /\ rowLine' = rowsTaken'
      BY <1>1, <1>8, <2>6, RowsClosing DEF Closing
    <3>2. rowValid'
      BY <1>2, <1>8, <2>2, <2>6 DEF RowDoneControl
    <3>3. Offer' = Offer
      BY <2>1, <2>4, <3>1, <3>2 DEF Offer
    <3>4. QED
      BY <2>2, <2>3, <3>1, <3>3 DEF Holds
  <2>7. QED
    BY <2>5, <2>6
<1>9. ASSUME Reading \/ Ending \/ (Closing /\ ~rowValid)
      PROVE  Holds \/ Takes \/ Puts
  <2>1. frameActive = TRUE /\ ~rowValid /\ ~doneValid /\ rowsTaken < Rows
    BY <1>1, <1>3, <1>9 DEF RowsInv, Reading, Ending, Closing
  <2>2. ~start /\ rowsTaken' = rowsTaken
    BY <1>1, <1>9, RowsReading, RowsEnding, RowsClosing
  <2>3. frameActive' = TRUE
    BY <1>2, <2>1, <2>2 DEF RowDoneControl
  <2>4. rowValid' => Settled /\ Closing
    <3>1. rowValid' => Settled /\ rowPending
      BY <1>2, <1>3, <2>1, <2>2 DEF RowDoneControl
    <3>2. QED
      BY <1>9, <3>1 DEF Reading, Ending
  <2>5. ~doneValid'
    BY <1>1, <1>9, <2>1, RowsReading, RowsEnding, RowsClosing DEF Reading, Ending, Closing
  <2>6. CASE vcc = "EVENT"
    <3>1. ~Settled /\ ~rowValid' /\ sent' = sent
      BY <1>5, <2>2, <2>4, <2>6 DEF Settled
    <3>2. vcc' = (IF ready THEN "IDLE" ELSE "EVENT") /\ cand' = cand
      BY <1>2, <2>6 DEF CrossCheck, Check
    <3>3. Offer = [type |-> "hit", x |-> cand.x, y |-> cand.y]
      BY <2>6 DEF Offer
    <3>4. Offer.type = "hit" /\ Offer # NothingOffered
      BY <3>3 DEF NothingOffered
    <3>5. CASE ready
      <4>1. Offer' = NothingOffered
        BY <2>5, <3>1, <3>2, <3>5 DEF Offer
      <4>2. QED
        BY <2>2, <2>3, <3>1, <3>4, <4>1 DEF Takes
    <3>6. CASE ~ready
      <4>1. Offer' = Offer
        BY <3>2, <3>3, <3>6 DEF Offer
      <4>2. QED
        BY <2>1, <2>2, <2>3, <3>1, <4>1 DEF Holds
    <3>7. QED
      BY <3>5, <3>6
  <2>7. CASE vcc # "EVENT"
    <3>1. Offer = NothingOffered
      BY <2>1, <2>7 DEF Offer
    <3>2. CASE vcc = "RATIO" /\ Confirmed
      <4>1. vcc' = "EVENT" /\ cand' = cand
        BY <1>2, <3>2 DEF CrossCheck, Check
      <4>2. sent' = Append(sent, [x |-> cand.x, y |-> cand.y])
        BY <2>2, <3>2 DEF Scan
      <4>3. Offer' = [type |-> "hit", x |-> cand.x, y |-> cand.y]
        BY <4>1 DEF Offer
      <4>4. cand.x \in 0..(Columns - 1) /\ cand.y \in 0..(Rows - 1)
        BY <1>1 DEF InFrame
      <4>5. Len(sent) < MaxOffered
        <5> DEFINE p == [x |-> cand.x, y |-> cand.y]
        <5>1. Block(FALSE, ready)
          BY <1>1, <2>2
        <5>2. Entry(p, Len(sent) + 1)
          BY <1>1, <3>2, <5>1, NewEntry
        <5>3. Len(sent) + 1 <= (cand.y * Columns) + cand.x + 1
          BY <5>2 DEF Entry
        <5>4. (cand.y * Columns) + cand.x + 1 <= MaxOffered
          BY <4>4, MaxIs
        <5>5. Len(sent) \in Nat /\ MaxOffered \in Nat /\ (cand.y * Columns) + cand.x \in Int
          BY <1>1, <4>4, LenProperties, FeatureAssumption, OfferedAssumption DEF SentInv, Columns
        <5>6. QED
          BY <5>3, <5>4, <5>5
      <4>6. QED
        BY <2>1, <2>2, <2>3, <3>1, <4>1, <4>2, <4>3, <4>4, <4>5 DEF Puts
    <3>3. CASE ~(vcc = "RATIO" /\ Confirmed)
      <4>1. vcc' # "EVENT"
        BY <1>2, <2>7, <3>3 DEF CrossCheck, Check
      <4>2. sent' = sent
        BY <2>2, <3>3 DEF Scan
      <4>3. CASE ~rowValid'
        <5>1. Offer' = NothingOffered
          BY <2>5, <4>1, <4>3 DEF Offer
        <5>2. QED
          BY <2>1, <2>2, <2>3, <3>1, <4>2, <5>1 DEF Holds
      <4>4. CASE rowValid'
        <5>1. rowLine' = rowsTaken'
          BY <1>1, <2>1, <2>4, <4>4, RowsClosing DEF Closing
        <5>2. Offer' = [type |-> "row", x |-> 0, y |-> rowsTaken]
          BY <2>2, <4>1, <4>4, <5>1 DEF Offer
        <5>3. QED
          BY <2>1, <2>2, <2>3, <3>1, <4>2, <5>2 DEF Puts
      <4>5. QED
        BY <4>3, <4>4
    <3>4. QED
      BY <3>2, <3>3
  <2>8. QED
    BY <2>6, <2>7
<1>10. QED
  BY <1>1, <1>3, <1>6, <1>7, <1>8, <1>9 DEF RowsInv

\* For frames of any size and content the scanner implements FeatureEvents: one event at a time,
\* held until it is taken, the rows in order, and the end of the scan once, after the last row.
THEOREM ImplementsEventsHolds == Spec => ImplementsEvents
<1>1. Init => Events!Init
  BY DEF Init, Events!Init, Events!NoEvent
<1>2. HitInv /\ [Next]_vars => [Events!Next]_(Events!eventVars)
  <2> SUFFICES ASSUME HitInv, [Next]_vars PROVE [Events!Next]_(Events!eventVars)
    OBVIOUS
  <2>1. CASE UNCHANGED vars
    BY <2>1 DEF vars, vccVars, rowVars, Events!eventVars
  <2>2. CASE Next
    <3>1. \E start, ready, clear \in BOOLEAN : Edge(start, ready, clear)
      BY <2>2 DEF Next, Run, Start, ErrorClear, Taken
    <3>2. \E start, ready \in BOOLEAN : Scan(start, ready)
      BY <3>1, EdgeScans
    <3>3. QED
      BY <3>2, OfferStep, IsEvent
  <2>3. QED
    BY <2>1, <2>2
<1>3. QED
  BY <1>1, <1>2, HitInit, HitStep, PTL DEF Spec, ImplementsEvents, Events!Spec
=============================================================================
