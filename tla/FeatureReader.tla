---------------------------- MODULE FeatureReader ----------------------------
(***************************************************************************)
(* qr_runlength_vcc_core.v: the scanner of the binary frame.  A reader     *)
(* turns the words of the bank into pixels, the run-length scan looks for  *)
(* five runs of 1:1:3:1:1, and the vertical cross check confirms their     *)
(* centre over the same memory port, for which the arbiter stops the       *)
(* reader.  A row is done when nothing of it is under way any more.        *)
(*                                                                         *)
(* There is one operator per sequential block, and Edge conjoins them.  A  *)
(* word that was read is known by its address: the bank does not change    *)
(* during a scan.                                                          *)
(***************************************************************************)
EXTENDS Integers, Sequences

F == INSTANCE FiniteSetsExt

CONSTANTS WordBits, RowWords,  \* 32 pixels, 20 words
          Rows,                \* 480
          Images,              \* the frames: a sequence of sets of black pixels <<x, y>>
          MaxOffered           \* bound of the model: HITs of one frame

Columns == WordBits * RowWords

ASSUME FeatureAssumption ==
  /\ WordBits \in Nat \ {0} /\ RowWords \in Nat \ {0} /\ Rows \in Nat \ {0}
  /\ \A i \in DOMAIN Images : Images[i] \subseteq (0..(Columns - 1)) \X (0..(Rows - 1))

\* The bound is none: a frame has no more HITs than pixels.
ASSUME OfferedAssumption == MaxOffered \in Nat /\ MaxOffered >= Columns * Rows

VARIABLES
  image,                                            \* number of the frame in the bank
  reader, bit, wordX, rowY, addr, word, readerRead, \* qr_frame_reader
  pixel, scanEnd,                                   \* its pixel and frame_done pulses
  runActive, black, length, previous, completed,    \* qr_run_length_scan
  pattern,                                          \* its pulse
  pending, control, vccPattern, vccDone,            \* candidate control
  arbiter,                                          \* qr_bram_port_b_arbiter
  port,                                             \* address of the word the port shows
  vcc, phase, cand, cursor, counts, vccRead,        \* qr_vertical_cross_check
  frameActive, rowPending, rowValid, rowLine,       \* qr_row_done_completion_ctrl
  scanComplete, lastRowSeen, doneValid,
  errors,                                           \* raised sticky errors
  rowsTaken, sent                                   \* history: ROW_DONEs taken, HITs offered

readerVars == <<image, reader, bit, wordX, rowY, addr, word, readerRead, pixel, scanEnd>>
runVars == <<runActive, black, length, previous, completed, pattern>>
controlVars == <<pending, control, vccPattern, vccDone, arbiter, port>>
vccVars == <<vcc, phase, cand, cursor, counts, vccRead>>
rowVars == <<frameActive, rowPending, rowValid, rowLine, scanComplete, lastRowSeen, doneValid>>
vars == <<readerVars, runVars, controlVars, vccVars, rowVars, errors, rowsTaken, sent>>

ScanError == {"candidateOverrun", "candidateDrop", "coordinate", "arbiterProtocol",
              "rowDoneOverrun"}
NoRead == -1
NoPixel == [black |-> FALSE, x |-> -1, y |-> 0, start |-> FALSE, end |-> FALSE]
NoPattern == [x |-> 0, y |-> 0, total |-> 0]

\* Bit b of the word at address w; the most significant bit is the left pixel.
Dark(w, b) == <<(w % RowWords) * WordBits + b, w \div RowWords>> \in Images[image]

Distance(a, b) == IF a >= b THEN a - b ELSE b - a
Total(runs) == runs[1] + runs[2] + runs[3] + runs[4] + runs[5]

\* 1:1:3:1:1 within a quarter of the module size, a half for the centre.
Ratio(runs) ==
  \A i \in 1..5 : LET share == IF i = 3 THEN 3 ELSE 1
                  IN /\ runs[i] # 0
                     /\ Distance(7 * runs[i], share * Total(runs))
                          <= Total(runs) \div (IF i = 3 THEN 2 ELSE 4)

Init ==
  /\ image \in DOMAIN Images
  /\ reader = "IDLE" /\ bit = 0 /\ wordX = 0 /\ rowY = 0 /\ addr = 0 /\ word = 0
  /\ readerRead = NoRead /\ pixel = NoPixel /\ scanEnd = FALSE
  /\ runActive = FALSE /\ black = FALSE /\ length = 0 /\ previous = <<0, 0, 0, 0>>
  /\ completed = 0 /\ pattern = NoPattern
  /\ pending = NoPattern /\ control = "IDLE" /\ vccPattern = FALSE /\ vccDone = FALSE
  /\ arbiter = "READER" /\ port = 0
  /\ vcc = "IDLE" /\ phase = 1 /\ cand = NoPattern /\ cursor = 0
  /\ counts = [p \in 1..6 |-> 0] /\ vccRead = NoRead
  /\ frameActive = FALSE /\ rowPending = FALSE /\ rowValid = FALSE /\ rowLine = 0
  /\ scanComplete = FALSE /\ lastRowSeen = FALSE /\ doneValid = FALSE
  /\ errors = {} /\ rowsTaken = 0 /\ sent = <<>>
-----------------------------------------------------------------------------
Request == pattern # NoPattern \/ pending # NoPattern

\* Mutant of Settled: a candidate that has just been found is not looked at.
SettledButNew == pending = NoPattern /\ arbiter = "READER" /\ vcc = "IDLE"

\* Nothing of the row is under way: no candidate, the port with the reader, no HIT.
Settled == ~Request /\ arbiter = "READER" /\ vcc = "IDLE"

RowPause == pixel.end \/ rowPending \/ rowValid
Pause == \/ arbiter \in {"WAIT_PAUSE", "VCC_ACTIVE"}
         \/ arbiter = "READER" /\ Request
         \/ RowPause

\* No read of the reader is in flight.
Paused == Pause /\ reader \in {"IDLE", "READ_REQ", "OUTPUT"}

\* Mutant of Busy: the last events of a frame are not waited for.
BusyButRows == reader # "IDLE" \/ ~Settled

Busy == reader # "IDLE" \/ ~Settled \/ frameActive \/ rowPending \/ rowValid \/ doneValid

Requests == reader = "READ_REQ" /\ ~Pause
Emits == reader = "OUTPUT" /\ ~Pause
LastBit == bit = WordBits - 1
LineEnd == LastBit /\ wordX = RowWords - 1

FrameReader(start) ==
  /\ reader' = CASE reader = "IDLE" -> IF start THEN "READ_REQ" ELSE "IDLE"
                 [] Requests -> "READ_WAIT"
                 [] reader = "READ_WAIT" -> "LOAD_WORD"
                 [] reader = "LOAD_WORD" -> "OUTPUT"
                 [] Emits /\ LastBit -> IF LineEnd /\ rowY = Rows - 1 THEN "IDLE" ELSE "READ_REQ"
                 [] OTHER -> reader
  /\ image' \in IF start THEN DOMAIN Images ELSE {image}
  /\ word' = IF reader = "LOAD_WORD" THEN port ELSE word
  /\ bit' = CASE start \/ reader = "LOAD_WORD" -> 0
              [] Emits -> (bit + 1) % WordBits
              [] OTHER -> bit
  /\ wordX' = CASE start -> 0
                [] Emits /\ LastBit -> (wordX + 1) % RowWords
                [] OTHER -> wordX
  /\ rowY' = CASE start -> 0
               [] Emits /\ LineEnd /\ rowY < Rows - 1 -> rowY + 1
               [] OTHER -> rowY
  /\ addr' = CASE start -> 0
               [] Emits /\ LastBit /\ ~(LineEnd /\ rowY = Rows - 1) -> addr + 1
               [] OTHER -> addr
  /\ readerRead' = IF Requests THEN addr ELSE NoRead
  /\ pixel' = IF Emits THEN [black |-> Dark(word, bit), x |-> wordX * WordBits + bit, y |-> rowY,
                             start |-> wordX = 0 /\ bit = 0, end |-> LineEnd]
              ELSE NoPixel
  /\ scanEnd' = (Emits /\ LineEnd /\ rowY = Rows - 1)

\* The five runs at a pixel that ends one: the last pixel of a line counts if it goes on.
SameColor == pixel.black = black
Five == Append(previous, length + (IF pixel.end /\ SameColor THEN 1 ELSE 0))
Continues == pixel # NoPixel /\ ~pixel.start /\ runActive
Found == Continues /\ (~SameColor \/ pixel.end) /\ completed = 4 /\ black /\ Ratio(Five)

RunScan ==
  /\ pattern' = IF Found
                THEN [x |-> pixel.x - length - previous[4] - previous[3] \div 2, y |-> pixel.y,
                      total |-> Total(Five)]
                ELSE NoPattern
  /\ \/ /\ pixel = NoPixel
        /\ UNCHANGED <<runActive, black, length, previous, completed>>
     \/ /\ pixel # NoPixel /\ ~Continues
        /\ runActive' = TRUE /\ black' = pixel.black /\ length' = 1
        /\ previous' = IF pixel.start THEN <<0, 0, 0, 0>> ELSE previous
        /\ completed' = IF pixel.start THEN 0 ELSE completed
     \/ /\ Continues /\ SameColor
        /\ length' = length + 1 /\ runActive' = ~pixel.end
        /\ UNCHANGED <<black, previous, completed>>
     \/ /\ Continues /\ ~SameColor
        /\ previous' = Append(Tail(previous), length)
        /\ completed' = IF completed < 4 THEN completed + 1 ELSE completed
        /\ black' = pixel.black /\ length' = 1 /\ runActive' = ~pixel.end

CandidateControl ==
  LET granted  == control = "WAIT_GRANT" /\ arbiter = "VCC_ACTIVE" /\ vcc = "IDLE"
      finished == control = "WAIT_DONE" /\ vcc = "IDLE"
  IN /\ pending' = CASE finished -> NoPattern
                     [] ~finished /\ pending = NoPattern -> pattern
                     [] OTHER -> pending
     /\ vccPattern' = granted /\ vccDone' = finished
     /\ control' = CASE control = "IDLE" /\ pending # NoPattern -> "WAIT_GRANT"
                     [] granted -> "WAIT_BUSY"
                     [] control = "WAIT_BUSY" /\ vcc # "IDLE" -> "WAIT_DONE"
                     [] finished -> "IDLE"
                     [] OTHER -> control

Arbiter ==
  LET read == IF arbiter = "VCC_ACTIVE" THEN vccRead ELSE readerRead
  IN /\ port' = IF read = NoRead THEN port ELSE read
     /\ arbiter' = CASE arbiter = "READER" /\ Request -> "WAIT_PAUSE"
                     [] arbiter = "WAIT_PAUSE" /\ Paused -> "VCC_ACTIVE"
                     [] arbiter = "VCC_ACTIVE" /\ vccDone -> "WAIT_REQUEST_LOW"
                     [] arbiter = "WAIT_REQUEST_LOW" /\ ~Request -> "READER"
                     [] OTHER -> arbiter
-----------------------------------------------------------------------------
\* The phases of the cross check: up from the centre, then down from below it, each time
\* the centre, the white and the outer run.
Upward == phase <= 3
Steps == IF Upward THEN counts[1] + counts[2] + counts[3] ELSE counts[4] + counts[5] + counts[6]
MaxSpan == IF cand.total > Rows THEN Rows ELSE cand.total
Vertical == <<counts[3], counts[2], counts[1] + counts[4], counts[5], counts[6]>>

Confirmed == /\ Total(Vertical) >= 7 /\ Ratio(Vertical)
             /\ Distance(Total(Vertical), cand.total) <= cand.total \div 2

\* What the pixel read means: the run goes on or ends, at the border of the frame too.
Belongs == Dark(port, cand.x % WordBits) = (phase \notin {2, 5})
Verdict ==
  IF Belongs /\ Steps + 1 >= MaxSpan THEN "reject"
  ELSE IF Belongs /\ cursor # (IF Upward THEN 0 ELSE Rows - 1) THEN "on"
  ELSE IF ~Belongs /\ counts[phase] = 0 /\ phase # 4 THEN "reject"
  ELSE CASE phase = 3       -> IF cand.y < Rows - 1 THEN "turn" ELSE "reject"
         [] phase = 6       -> "ratio"
         [] phase \notin {3, 6} -> IF Belongs THEN "reject" ELSE "phase"

\* Mutant of Accepts: the smallest pattern is refused.
AcceptsLarger == pending.x < Columns /\ pending.y < Rows /\ pending.total > 7

Accepts == pending.x < Columns /\ pending.y < Rows /\ pending.total >= 7

Check ==
  /\ vcc = "READ_CHECK"
  /\ vcc' = CASE Verdict = "reject" -> "IDLE" [] Verdict = "ratio" -> "RATIO"
              [] OTHER -> "READ_REQ"
  /\ phase' = CASE Verdict = "turn" -> 4 [] Verdict = "phase" -> phase + 1 [] OTHER -> phase
  /\ cursor' = CASE Verdict = "on" -> IF Upward THEN cursor - 1 ELSE cursor + 1
                 [] Verdict = "turn" -> cand.y + 1
                 [] OTHER -> cursor
  /\ counts' = IF Belongs THEN [counts EXCEPT ![phase] = @ + 1] ELSE counts
  /\ UNCHANGED cand

CrossCheck(ready) ==
  /\ vccRead' = IF vcc = "READ_REQ" THEN cursor * RowWords + cand.x \div WordBits ELSE NoRead
  /\ \/ Check
     \/ /\ vcc = "IDLE" /\ vccPattern /\ Accepts
        /\ vcc' = "READ_REQ" /\ phase' = 1 /\ cand' = pending /\ cursor' = pending.y
        /\ counts' = [p \in 1..6 |-> 0]
     \/ /\ vcc # "READ_CHECK" /\ ~(vcc = "IDLE" /\ vccPattern /\ Accepts)
        /\ vcc' = CASE vcc = "READ_REQ" -> "READ_WAIT" [] vcc = "READ_WAIT" -> "READ_CHECK"
                    [] vcc = "RATIO" -> IF Confirmed THEN "EVENT" ELSE "IDLE"
                    [] vcc = "EVENT" /\ ready -> "IDLE"
                    [] OTHER -> vcc
        /\ UNCHANGED <<phase, cand, cursor, counts>>

RowDoneControl(start, ready) ==
  LET first == start /\ ~frameActive /\ ~doneValid
      ended == frameActive /\ pixel.end /\ ~rowPending /\ ~rowValid
      last  == rowValid /\ ready /\ rowLine = Rows - 1
      done  == doneValid /\ ready
  IN /\ rowPending' = CASE rowPending /\ Settled -> FALSE
                        [] OTHER -> ended \/ (rowPending /\ ~first)
     /\ rowValid' = CASE rowValid /\ ready -> FALSE
                      [] OTHER -> (rowPending /\ Settled) \/ (rowValid /\ ~first)
     /\ rowLine' = CASE ended -> pixel.y [] first -> 0 [] OTHER -> rowLine
     /\ frameActive' = (~done /\ (first \/ frameActive))
     /\ scanComplete' = (~done /\ ((frameActive /\ scanEnd) \/ (scanComplete /\ ~first)))
     /\ lastRowSeen' = (~done /\ (last \/ (lastRowSeen /\ ~first)))
     /\ doneValid' = (~done /\ \/ doneValid
                               \/ frameActive /\ scanComplete /\ lastRowSeen
                                  /\ ~rowPending /\ ~rowValid /\ Settled)

Raised(err) ==
  \/ err = "candidateOverrun" /\ pattern # NoPattern /\ pending # NoPattern
  \/ err = "candidateDrop" /\ vccPattern /\ vcc # "IDLE"
  \/ err = "coordinate" /\ vccPattern /\ vcc = "IDLE" /\ ~Accepts
  \/ err = "arbiterProtocol" /\ \/ arbiter # "VCC_ACTIVE" /\ (vccRead # NoRead \/ vccDone)
                                \/ arbiter = "VCC_ACTIVE" /\ readerRead # NoRead
  \/ err = "rowDoneOverrun" /\ frameActive /\ pixel.end /\ (rowPending \/ rowValid)

\* For two of the errors a clear at the same edge wins.
ScanErrors(clear) ==
  errors' = {err \in ScanError :
               \/ err \in errors /\ ~clear
               \/ Raised(err) /\ (clear => err \notin {"candidateOverrun", "arbiterProtocol"})}

History(start, ready) ==
  /\ rowsTaken' = CASE start -> 0 [] rowValid /\ ready -> rowsTaken + 1 [] OTHER -> rowsTaken
  /\ sent' = CASE start -> <<>>
               [] vcc = "RATIO" /\ Confirmed -> Append(sent, [x |-> cand.x, y |-> cand.y])
               [] OTHER -> sent

\* One clock edge.  A start while a scan is under way goes nowhere (core_start).
Edge(start, ready, clear) ==
  LET coreStart == start /\ ~Busy
  IN /\ FrameReader(coreStart) /\ RunScan /\ CandidateControl /\ Arbiter /\ CrossCheck(ready)
     /\ RowDoneControl(coreStart, ready) /\ ScanErrors(clear) /\ History(coreStart, ready)

Run == Edge(FALSE, FALSE, FALSE)
Start == Edge(TRUE, FALSE, FALSE)
ErrorClear == Edge(FALSE, FALSE, TRUE)
\* The consumer takes what is on offer.
Taken == (vcc = "EVENT" \/ rowValid \/ doneValid) /\ Edge(FALSE, TRUE, FALSE)

Next == Run \/ Start \/ ErrorClear \/ Taken

Spec == Init /\ [][Next]_vars

\* The clock runs, and what is on offer is taken in the end.
FairSpec == Spec /\ WF_vars(Run) /\ WF_vars(Taken)
-----------------------------------------------------------------------------
Events == INSTANCE FeatureEvents WITH
  Width <- Columns, Height <- Rows, scanning <- frameActive, nextRow <- rowsTaken,
  offer <- IF vcc = "EVENT" THEN [type |-> "hit", x |-> cand.x, y |-> cand.y]
           ELSE IF rowValid THEN [type |-> "row", x |-> 0, y |-> rowLine]
           ELSE IF doneValid THEN [type |-> "frame", x |-> 0, y |-> Rows - 1]
           ELSE [type |-> "none", x |-> 0, y |-> 0]

\* The runs of a line (a function on 0..n-1 to colours) are the spans between its
\* borders.  Around(line, n, x) are the borders of the run at x and of the two runs on
\* either side of it, or <<>> if there are not as many.
Borders(line, n) == {e \in 0..n : e \in {0, n} \/ line[e] # line[e - 1]}
Before(line, n, e) == F!Max({-1} \cup {b \in Borders(line, n) : b < e})
After(line, n, e) == F!Min({n + 1} \cup {b \in Borders(line, n) : b > e})
Around(line, n, x) ==
  LET third  == Before(line, n, x + 1)
      second == Before(line, n, third)
      first  == Before(line, n, second)
      fourth == After(line, n, x)
      fifth  == After(line, n, fourth)
      sixth  == After(line, n, fifth)
  IN IF first >= 0 /\ sixth <= n THEN <<first, second, third, fourth, fifth, sixth>> ELSE <<>>
Lengths(b) == [k \in 1..5 |-> b[k + 1] - b[k]]

\* The runs of a row and of a column about a point.
RowRuns(x, y) == Around([i \in 0..(Columns - 1) |-> <<i, y>> \in Images[image]], Columns, x)
ColumnRuns(x, y) == Around([i \in 0..(Rows - 1) |-> <<x, i>> \in Images[image]], Rows, y)
RowSpan(x, y) == Total(Lengths(RowRuns(x, y)))

\* <<x, y>> lies on a black run that is with two runs on either side in proportion.
InPattern(x, y) ==
  LET h == RowRuns(x, y)
  IN <<x, y>> \in Images[image] /\ h # <<>> /\ Ratio(Lengths(h))

\* Where the scan departs from what its comments say: it gives the pixel to the right of the
\* middle of an odd run, and sees no pattern whose last run is one pixel at the end of a row.
CodeCentre(h) == h[4] - Lengths(h)[3] \div 2
Dropped(h) == h[6] = Columns /\ Lengths(h)[5] = 1

Across(x, y) ==
  LET h == RowRuns(x, y)
  IN InPattern(x, y) /\ x = CodeCentre(h) /\ ~Dropped(h)

\* y lies on a run that is with two runs on either side in proportion and of a similar size
\* as the row's, and not too far from their ends.
Down(x, y, total) ==
  LET v == ColumnRuns(x, y)
      runs == Lengths(v)
      span == IF total > Rows THEN Rows ELSE total
  IN /\ v # <<>>
     /\ Ratio(runs) /\ Distance(Total(runs), total) <= total \div 2
     /\ y - v[1] + 1 < span /\ v[6] - 1 - y < span

\* <<x, y>> is the centre of a finder pattern.
Finder(x, y) == Across(x, y) /\ Down(x, y, RowSpan(x, y))

\* No block meets what its error bit watches for: a second candidate, one that the cross
\* check cannot take, an access to the port by the one who does not own it, a line end
\* before the one before it is reported.
NoScanError == errors = {}

\* When a row is reported as done, the HITs offered so far are exactly the finder centres
\* of the rows up to it, in reading order: the stop for each cross check costs no pixel and
\* reads none twice, no candidate is lost at a line end or overtaken by its ROW_DONE; and
\* there is no error on the way.  Patterns that are Dropped are excepted, and a centre is the
\* CodeCentre: the next definitions state what the comments say of these two.
HitsAreFinders ==
  /\ NoScanError
  /\ rowValid =>
       /\ {sent[k] : k \in 1..Len(sent)} =
            {p \in [x : 0..(Columns - 1), y : 0..rowLine] : Finder(p.x, p.y)}
       /\ \A j, k \in 1..Len(sent) : j < k => \/ sent[j].y < sent[k].y
                                              \/ sent[j].y = sent[k].y /\ sent[j].x < sent[k].x

\* The final run of a line is flushed: a pattern across a row that ends with it is reported
\* like any other, by the time the row is done, if the column of every pixel of its middle
\* run confirms it ("Line-end run flush", with a fifth run "including the last pixel of the
\* row").
LastRunFlushed ==
  rowValid =>
    \A x \in 0..(Columns - 1) :
      LET h == RowRuns(x, rowLine)
      IN /\ InPattern(x, rowLine) /\ h[6] = Columns
         /\ \A c \in h[3]..(h[4] - 1) : Down(c, rowLine, Total(Lengths(h)))
         => \E k \in 1..Len(sent) : sent[k].y = rowLine /\ sent[k].x \in h[3]..(h[4] - 1)

\* The centre of a pattern that ends with its line is computed exactly ("the expression
\* below computes the centre coordinate exactly"): as many pixels of the middle run lie on
\* its left as on its right, give or take one.
CentreExact ==
  \A k \in 1..Len(sent) :
    LET h == RowRuns(sent[k].x, sent[k].y)
    IN h[6] = Columns => Distance(sent[k].x - h[3], h[4] - 1 - sent[k].x) <= 1

\* The comments say both of the end of a line; this says only that no frame refutes both.
\* Violated, so that neither is true: in one frame a pattern whose last run is a single pixel
\* is dropped, and a HIT in a run of odd length has two more pixels on its left than on its
\* right.
LineEndAsSaid == LastRunFlushed \/ CentreExact

\* The scanner behaves as the stages behind it rely on: one event at a time, held until it
\* is taken, rows in order, the end of the scan once, after the last of them.
ImplementsEvents == Events!Spec

\* A frame that was started is scanned to its end, whatever candidates it holds.
FrameScanned == frameActive ~> ~frameActive
=============================================================================
