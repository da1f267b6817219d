# Verification of the image-processing framework

TLA+ specifications, TLC configurations and TLAPS proofs for the frame path of the
QR image-processing framework: a Zynq design in which programmable logic (PL, Verilog
under `src/hardware/rtl`) captures camera frames, extracts QR finder candidates and
streams images, and an application on the processor (PS, C under `src/software/app/src`)
receives images and candidates and decodes them. What can go wrong there is ownership:
two binary-frame banks, two Gray8 image slots, two DMA engines and one processor loop
hand every frame to each other without locks. Beside this core the project models how the
application brings the design up (sensor, video path, restarts), the HUD it lays over the
picture, and the decoder: its routes and budgets, and the quirc library from the
thresholded image to the payload.

## 1. Inventory

| Part | Source | State | Operations | Talks to |
|---|---|---|---|---|
| camera receiver | `camera/ov7670_pclk_rx.v` | token FIFO, line and frame counters | one token per pixel clock, one pixel per AXI clock | tap (AXI stream) |
| camera tap | `bridge/qr_rgb565_gray8_axis_tap.v` | selected frame, reservation, output FIFO, sticky errors | accept or skip a frame at its start, convert, send | frontend, image DMA, frame buffer |
| vision frontend, binary writer | `frontend/*.v` | pixel pipelines; `frame_ready` | filter, pack, store a bank | frame buffer (`frontend_ready`), bank memory |
| frame buffer controller | `bridge/frame_buffer_controller.v` | owner, id, (mode, margin) of two banks; head, tail; credit, dispatch; counters; errors | commands, start of frame, image end, commit, grant, release | everything |
| runtime control | `runtime/qr_frame_completion_ctrl.v`, `qr_frame_ctrl_runtime.v`, `qr_frame_id_control.v` | active frame, done flags, launched/armed, ids | start once per presented frame, complete, release | frame buffer (consumer side), CSR, packet builder |
| runtime CSR | `runtime/qr_runtime_csr_core.v` | CONTROL, interrupt latches | pulses, status reads | PS |
| feature extraction | `qr_feature/*.v` | reader position and word, five run lengths, one pending candidate, owner of the memory port, cross check's counts, row and frame completion, packer's row and blocked word | per frame: scan rows, stop for each candidate and cross-check it, offer HIT, ROW_DONE, FRAME_DONE | bank memory (one shared port), event ingress (AXI stream) |
| post-processing | `runtime/qr_postprocess_axis_qrp1_core.v`, `qr_event_fifo.v`, `qr_sparse_ccl.v`, `qr_object_properties.v` | monitor registers, event FIFO, hit and label tables, property table | per frame: queue events, label, accumulate, offer records | packet builder |
| result packet builder | `runtime/qr_result_packet_builder_qrp1.v` | state machine, records, error flags | collect, wait, send | result DMA |
| DMA engines | AXI DMA, driven by `qr_dma.c` | idle / running / halted | arm, busy, status | DDR |
| Gray8 slot ring | `qr_gray_ring.h` | state and id of two slots, DMA slot, CPU slot | reserve, complete, take, release | frame receiver |
| frame receiver | `frame_receiver.c` | ring, counts, fault, `prepared` | init, service, take, release, dispatch | frame buffer registers, image DMA |
| frame loop | `vision_runtime.c` | position in the loop, packet, candidates | steps A to R, waits with timeouts | CSR, receiver, decoder |
| packet validation, geometry | `qr_candidate_*.c/h` | none | pure functions of one packet | frame loop |
| decoder routing | `qr_decode.c` | miss counter, throttle, profile | threshold route, guided route | quirc; calls the service between scans |
| quirc | `identify.c`, `decode.c`, `version_db.c` | one buffer that is image and region map; regions, capstones, grids | begin, end (plain or seeded), refine, decode, flip | decoder routing |
| UART log queue | `runtime_log.c` | byte ring | append a message, send a burst | UART |
| preview overlay | `video/video_preview_overlay.v`, `video_overlay.c` | two bitmap banks, active and pending configuration, age | write a word, publish a bank, scan out | preview service, video DMA |
| camera configuration | `ov7670.c`, `camera_control.c` | the sensor's registers, the bus divider | transfers in three nested loops of attempts | I2C controller |
| application start | `main.c`, `vision_runtime.c`, `display_ctrl.c`, `video_vdma.c`, ... | control bits of all blocks, both video channels, credit, armed DMA | the ordered start, each step of which may fail | everything |
| test programs | `image_capture_test.c`, `camera_live_preview.c`, ... | - | - | not part of the product |

Interaction of one frame. The receiver reserves a free image slot under the id the next
frame will get (`capture_next_id`), arms the image DMA into it and writes the *credit*
command. With a credit, a free bank and no error, the tap accepts the next whole camera
frame; the controller gives it a bank and the id. Its Gray8 image goes to the DMA, its
binary image to the bank; when both have ended the bank becomes READY. A *dispatch*
command hands the oldest READY bank to the runtime, which replays start of frame and end
of image, starts the feature pipeline once and builds the QRP1 packet. The application
waits for the packet, receives it, takes the image slot of the same id, acknowledges the
frame (which frees the bank), dispatches the next frame and only then decodes; releasing
the slot lets the receiver reserve it again.

What is hard: several events on one clock edge; register accesses of the PS between any
two edges; two independent frame numberings; 32-bit counters that wrap; DMA completion
later than the end of the stream; a service routine that runs only when some wait calls
it; faults of the camera and the DMA half-way; sticky errors. `PROJECT.json` lists each
hazard at its line with the properties that would catch it.

What makes each part correct:

- frame buffer: two owners never share a bank; banks are a FIFO; ids and counters agree
  across wrap; after an error nothing more is accepted or handed out;
- slot ring: DMA and CPU never share a slot, no slot is skipped or renamed;
- runtime control: a frame is held until its packet has left and the PS has acknowledged
  it; one packet per frame, under its id, with its errors;
- receiver and loop: no credit without a running DMA; the decoder reads one whole image
  that nobody writes to, together with the candidates of the same frame; frames are
  decoded in order, every accepted frame is, and the system never stops by itself;
- feature extraction: the HITs of a row are exactly its finder centres, whatever the stops for
  the cross checks, and come before its ROW_DONE; two readers never meet at the port; a frame
  is scanned to its end;
- post-processing: equal labels are exactly connected components, whatever the order of the
  HITs and the merges; the records of a packet describe those components; what is lost is
  reported; the stages never see an event they do not expect, and every frame ends;
- decoder routing: each scan works on a new copy of this frame, a result is of this frame or
  there is none, and the costly scans keep to their budget;
- quirc: painting regions over and back loses no pixel; no region is part of two finder
  patterns; a grid has three of them; a symbol damaged no more than its codes bear is read as
  it was made, mirrored or not, and anything else is refused;
- camera: a setup that succeeds leaves the sensor as the capture path was validated,
  whatever was lost or repeated; no transfer runs at the reset rate of the bus;
- start: capture is turned on last, over a path that this boot set up; the start ends, or waits
  for the pixel clock;
- overlay: a picture shows one drawing, whole.

## 2. Modules

| Module | Models | State and actions |
|---|---|---|
| `Word32` | registers that wrap | `Inc`, with the largest value `IdMax` as a parameter |
| `FrameQueue` | what the controller promises: a bounded FIFO of numbered frames | `queue`, `nextId`, `shown`; `Step` advances frames, lets one leave, lets one enter |
| `FrameBuffer` | `frame_buffer_controller.v` | one variable per register; `Edge(in)` is one clock edge with the inputs `in` |
| `GrayRing` | `qr_gray_ring.h` | one action per function; `Can...` is the test at its head |
| `RuntimeCtrl` | the three control blocks and the packet builder's machine | one operator per `always` block, conjoined in `RCEdge` |
| `RuntimeBlock` | `RuntimeCtrl` behind CONTROL / FRAME_ID and a well-behaved frame buffer | `Idle`, `WriteControl`, `WriteFrameId`, `WriteSoftReset` |
| `FrameSystem` | tap, writer, DMA engines, `FrameBuffer`, `RuntimeCtrl`, `GrayRing`, `frame_receiver.c` and the loop of `vision_runtime.c`, composed | `Tick` is a clock edge; one action per register access of the service and per step of the loop |
| `SparseCcl` | `qr_sparse_ccl.v` | one variable per register or memory; one action per state, `CclEdge(in)` is one clock edge |
| `ObjectProperties` | `qr_object_properties.v` | likewise, `OpEdge(in)` |
| `FeatureReader` | `qr_runlength_vcc_core.v`: frame reader, run-length scan, candidate control, port arbiter, vertical cross check, row and frame completion | one operator per `always` block, conjoined in `Edge(start, ready, clear)`; `Run`, `Start`, `ErrorClear`, `Taken` say what comes from outside |
| `FeatureEvents` | what the scanner promises its consumer: one event on offer, held until taken, rows in order | `scanning`, `offer`, `nextRow`; `Scanner(start, fire)` is one edge |
| `EventStream` | scanner (`FeatureEvents`), packer `qr_vcc_event_axis_packer.v`, ingress monitor of `qr_postprocess_axis_qrp1_core.v`, `qr_event_fifo.v` | `Packer`, `Ingress`, `Fifo`: one operator per `always` block, conjoined with `Scanner` in `StreamEdge` |
| `PostProcess` | the above three and the builder's collection of records, wired as in `qr_postprocess_axis_qrp1_core.v` | `Edge` is one clock edge of all stages; `Start`, `Run`, `ErrorClear`, `Send`, `LastBeat` say what comes from outside |
| `LogQueue` | `runtime_log.c` and the UART's FIFO | position in the function (`pc`), the static variables; one action per turn of a loop |
| `DecodeRoute` | `qr_decode.c`: scans of a frame and what follows from them | `plan` is the rest of the scans; one action per step of a scan and per exit |
| `FloodFill` | flood fill and corner search of `identify.c` | operators on an image; the state of a fill holds the C code's `stack`, `Step` is one round of its loop |
| `Identify` | `identify.c`: row scan, capstones, grids, seeded search | `px`, `regions`, `capstones`, `grids` are the decoder's arrays; one action per row, corner, group and seed row |
| `VersionTable`, `QrGrid`, `RsCode`, `QrPayload` | tables, cells, error correction and payload of `version_db.c`, `decode.c` | one operator per function |
| `QuircDecode` | `quirc_decode` and the retry of a mirrored symbol | one action per format copy, pair of columns, block and segment |
| `QrReference` | models no code: a QR encoder, written from the layout of the symbols, that the decoder is checked against | |
| `SensorTables`, `CameraSetup` | `ov7670.c`, `camera_control.c`, `runtime_prepare_camera` | `task`/`at` is the transfer to come; one action per transfer attempt |
| `VideoOverlay` | `video_preview_overlay.v`, `video_overlay.c`, the preview service | `ScanWord` reads a word of the bitmap, `SubmitWord` writes one |
| `BringUp` | `vision_runtime_run` up to its loop, with restarts; `CameraSetup` and `VideoOverlay` composed | one action per step of the start; a credit or armed transfer carries the boot that made it |
| `Once` | no code: operators that make TLC evaluate a value once | |
| `QueueProofs` (of frames and of messages), `FrameSystemProofs` (controller, slot ring and their composition), `RuntimeBlockProofs`, `PostProcessProofs`, `DecodeRouteProofs`, `IdentifyProofs`, `BringUpProofs`, `FeatureReaderProofs` | theorems | |

Conventions. A registered assignment is a conjunct for the next value in terms of the
current values; where several assignments of one block address the same register the
later one wins, as in Verilog. `Edge(in)` of `FrameBuffer` keeps the source order of the
four writes to `state[]` for this reason. A register write of the PS is fused with the
clock edge that carries its command (`Hw(cmd)`); between two register accesses any number
of edges may pass. A subroutine call of `frame_receiver_service` is the program counter
`svc`; the caller continues when it is `"off"`. The one-cycle delay of CSR pulses, AXI-Lite
handshakes and pixel arithmetic are abstracted.

The image DMA has four states: *running* (accepting the stream), *draining* (stream ended,
last writes under way), *idle* and *halted*. `ddr` and `bram` record which frame each
memory completely holds; a frame that is still being written is `Torn`.

Post-processing. `hits` is the part of the three HIT memories below `hit_count`; the rest
is never read. The parent table keeps what the frame before left in it, as in the code, so
two frames in a row are a case of its own. A component is defined without recursion: a
non-empty set of stored HITs that holds the neighbours of its members, of which no proper
non-empty subset does. The scanner is `FeatureEvents`: one event on offer at a time, held
until it is taken, rows in order, the end of the scan after the last row. `FeatureReader`
implements it (run `feature_reader`), so what holds behind the abstract scanner holds behind
the real one. The HITs of a row may be anywhere in the frame, which is more than the scanner
does. Packer and ingress see the same AXI word at the same
edge; tkeep and the reserved bits, which the packer ties off, are left out. The packet
builder appears twice: `RuntimeCtrl` has its machine, errors and frame id, `PostProcess`
the records it collects. A packet reports the sticky errors that are set when its frame
ends, including those of earlier frames, as in the code.

Feature reader. The bank is a set of black pixels that does not change during a scan
(`BinaryBankIntact` of `FrameSystem`), so a word that was read is its address, and `port` is the
address whose word the memory shows. `NoPixel` and `NoPattern` stand for the cycles in which
`pixel_valid` and `pattern_valid` are low; the words and counts are as wide as they need to be
(the largest, five runs of one row, fits its 13 bits). The reset is the initial state. `Finder`
defines a centre without any of the scanner's registers, from the borders of the runs in its row
and its column. In two points the scan departs from what its comments say. It is said to flush the
final run of a line (`qr_runlength_vcc_core.v:188`); it does so when the last pixel continues the
run, but a last run of a single pixel, whose colour changes at the very end, is dropped, and a
pattern that ends in it is not seen (`Dropped`). The centre, which the comment at line 199 calls
exact, is in a run of odd length the pixel to the right of the middle one (`CodeCentre`).
`LastRunFlushed` and `CentreExact` state what the comments say, and the run `line_end` refutes
both in one frame; `HitsAreFinders` excepts the two by name, so that everything else about the
HITs can still be checked and proved. One more observation: a cross check that refuses a candidate
before it starts would stop the scanner for ever (`C_WAIT_BUSY` waits for `vcc_busy`);
`FrameScanned` shows that it never does, since five runs of the right proportions have at least
seven pixels.

`LogQueue`. A byte is a record (message, place, length), so that what the UART sends can be
read as messages. Message numbers count accepted messages modulo `Numbers`, more than can be
in the ring. A message that does not fit the buffer of `printf` changes nothing but the
counter of dropped messages and is left out with that counter.

Decoder routing. quirc is the environment of `DecodeRoute`: it records any grids, and a grid
reads as any of four outcomes. What is kept of quirc is its buffer, because `image` and
`pixels` are one piece of memory and identification destroys the picture. `plan` holds the
scans still to come, which replaces the straight-line code of up to five scans.

quirc. A grid's perspective is floating-point arithmetic; what it decides (which capstones are
neighbours, whether lines meet, where the alignment pattern is looked for, whether a capstone
lies at a seed) is any outcome, so the bookkeeping is checked for every one of them. The flood
fill keeps the C code's order and its limited stack: the state of a fill has the stack of runs,
and a run's place in a line (`left_up`, `left_down`) is the first pixel that is still free
beside it. `decode.c` is modelled in full, with its tables. Two observations about it. The last
data codeword of a long block is read at `j * bc + i` (`decode.c:598`) although only the long
blocks have a codeword in that row, so that it should be `j * bc + i - ns`. Every long block
therefore starts with one wrong codeword, which the error correction repairs: it bears one error
less than the standard says (`Repairable` counts it; `TableSound` says that no block is misread
beyond repair). And `decode_eci` keeps the prefix bits of a two- or three-byte designator in the
number.

Start. `CameraSetup` runs transfer by transfer on the first boot of `BringUp`; later boots take it
in one step (`CamOutcome`), since it shares nothing but the conditioner with its surroundings. Any
transfer may fail before or after the sensor stored the byte, or be lost unnoticed; `lost` is the
set of registers that lost a write in the preparation under way. `COM8`, which turns the automatic
controls off and on, is never read back (`ov7670.c:985`, `1206`): a loss of one of its writes
leaves them on while they are set up, or off in the end, and nothing notices. `AutomaticsWait`
therefore has the premise that `COM8` lost nothing. The driver starts the pixel clock, and stops
and starts it again (`display_ctrl.c:359`, `186`, `187`), and each time waits for the RUNNING bit
without a limit (`dynclk.c:225`, `233`). `PixelClock` is the generator, which follows late or
never; a clock that does not lock hangs the start with the camera already set up and capture off.
The calls of other drivers, and the prints of the setup to the UART, are taken to return. The
scan-out is observed while the application runs or has just been reset; in between the two share
nothing. Observations: a failed SetSClk after an abort is only warned of, after a controller reset
it is ignored (`SccbAtRate` excepts both); the credit is granted before the input is validated, so
a validation that fails leaves it, and an ARM-only restart is then refused until the whole PL is
reset; the second test of `pending` in `video_overlay_submit` can never fail.

## 3. Runs

| Run | Question | Bounds | Properties |
|---|---|---|---|
| `frame_buffer` | any pulses on any edge; does the controller implement `FrameQueue` | two descriptors, ids modulo 2 starting at 1 (wrap is reached) | `BankExclusion`, `Accounting`, `FailClosed`, `ImplementsFrameQueue` |
| `runtime_block` | any CONTROL / FRAME_ID writes | ids modulo 2 | `CompletionOrder`, `PacketIdentity`, `HeldWhileProcessed`, `OnePacketPerFrame`, `ErrorsReported` |
| `frame_system` | the composition, in four worlds: no faults, with fairness; faults of image and DMA; of the feature path; of both | ids modulo 4 | `NoFault`, `DecodedInOrder`, `CpuImageIntact`, `GuidedOnlyIfSound`, `PairedDecode`, `BinaryBankIntact`, `FramesFlow` |
| `feature_reader` | does the scanner find the finder centres, in time, and implement `FeatureEvents`; the consumer takes an event after any delay | 22 images of 16 x 10 pixels, words of eight; fairness | `HitsAreFinders`, `ImplementsEvents`, `FrameScanned` |
| `post_process` | the whole way from scanner to packet, error clears at any edge; does every frame end | 3 x 2 points, up to four HITs, tables for three HITs, two labels, one record, FIFO of two; fairness | `RecordsAreComponents`, `NothingLostSilently`, `PacketComes` |
| `log_queue` | does the log keep messages whole, does it never wait while streaming, and does the final drain end | ring of three bytes, messages of up to two, UART FIFO of one, budget of two; the UART may stop | `WholeMessages`, `AsyncReturns`, `FinishEnds` |
| `decode_route` | calls of both routes, init and deinit in any order | two frames, up to two grids, retry after three misses, throttle of five as in the code | `FreshImage`, `ResultOfFrame`, `WorkBounded`, `Throttled` |
| `identify` | flawed finder patterns, full tables, a stack that runs out | 16 x 13 points, seven images, three regions of interest, stack of five, three capstones, two grids | `RegionsWhole`, `CapstonesDisjoint`, `GridsLinked` |
| `quirc_decode` | messages in, damage, messages out | the messages and damages below; every version when empty | `SymbolDecoded`, `TableSound` |
| `bring_up` | lost and failed transfers, failing steps, a pixel clock that is late or never locks, restarts | two attempts in each loop, one register at a time of ten that loses writes unnoticed, two sensors, a bitmap of two words, two boots | `SensorConfigured`, `SccbAtRate`, `AutomaticsWait`, `HudWhole`, `CaptureLast`, `StartReturns` |
| `line_end` | what the comments say of the end of a line | as `feature_reader` | `LineEndAsSaid` is violated |
| `sticky_cleared` | does step O clear the sticky diagnostics | ids modulo 4 | `StickyCleared` is violated |

The bounds: at most two frames are in the banks and one more image is in a slot, so ids
modulo 4 tell all live frames apart while the numbering wraps after four frames; nothing
else in the system grows. In the controller alone the head of the queue tells two frames
apart, so ids modulo 2 are enough there, and two descriptors show where a descriptor goes.
`runtime_block` has one live frame, ids modulo 2 are enough.
The grid of points has two rows for the boxes and the order of rows; `YLink` is 0 because
both coordinates are treated alike. The labeling itself is proved for all sizes.
In `post_process` every table is smaller than what one frame
may need (four HITs offered, three stored; three isolated points, two labels; two components,
one record; FIFO of two), so that each overflows and each is also exactly full. `MCPostProcess`
lets a HIT be of the row that is reported next only, as those of `FeatureReader` are; the proofs
take HITs anywhere. Count and
sum registers are large enough never to saturate, as in the code (19 and 28 bits for at most
256 HITs); the saturation is modelled but not reached. The threshold for a record is one HIT,
three in the code: the comparison is the same, and one makes the boundary of the record
memory reachable with three HITs.
In `feature_reader` two words make a row and ten rows hold a pattern of the smallest size with
room around it; each image has what one comparison decides: patterns at every edge and across
words, two in a row, proportions just inside and outside the tolerances, a centre at either
end of its column's run, runs that reach the border or are too long, a last run of one pixel
and of two. The frames follow each other in any order, so registers left by one meet the next.
In `identify` each image has a flaw that matters (a ring broken, a ring touching its stone,
two rings joined, a gap in a stone, a fourth pattern beyond the table); the stack of five
runs out in the middle of a ring. `quirc_decode` makes symbols of versions 1, 2, 3, 5, 7, 10 and
27 in all modes, with one and with two block lengths, with every set of up to four damaged
codewords among seven places of one symbol, every pair of flaws in the format word and a
choice of heavier ones; `TableSound` is about all forty versions and four levels. In
`bring_up` two attempts show both ends of a loop, two boots any state that one leaves to the
next; the bitmap has two words because a torn picture needs no more, and the tables are the
code's own. The ten registers that may lose writes (`Losable`) are those that the code reads back
or that a property looks at; the loss of another one only falsifies the premise `lost = {}` of
the last part of `SensorConfigured`. The proofs have no such bound.
`Torn` and the descriptors are model values; no symmetry is used (the properties are
temporal or the sets too small).

Faults are a set that does not change during a behaviour, one of those in `Environments`;
the empty one is `Calm`. `slowDma` lifts the assumption that the image DMA has finished its
writes when the frame's own packet is ready; the code relies on it (a take that finds the
engine busy disables the receiver for good), so the calm world assumes it and the others are
with and without it.

Fairness (`frame_system`), in the calm world only; `NoFault` and `FramesFlow` are about it, the
other properties about all worlds. The camera keeps sending whole frames and pipelines, streams
and engines end what they begin: an event that is possible does not stay possible for ever
without happening (`[]<>(e \notin Due)`). The clock runs and not every edge carries an
event (`QuietEdge`): pixels are many cycles apart. The processor runs (weak fairness of the
service and of the loop), and a decode ends although it may call the service any number of
times (strong fairness of `DecodeDone`). No fairness is assumed that an event is *late* or
*early* with respect to the software.

Fairness (`feature_reader`). The clock runs (`WF(Run)`), and an event that stays on offer is
taken in the end (`WF(Taken)`): the packer's ready depends on the FIFO alone, which the stages
behind it empty (`post_process`). No start is assumed.

Fairness (`post_process`). `WF_postVars(Run)`: the clock runs, and an edge without a command from
outside that changes something is taken in the end. `Scanner` may be late with its next event
for any number of edges; but when the stages behind it have nothing left to do, the edge of the
next event is the only one that changes anything, and so it comes. That the scanner does not
stop is `FrameScanned` of the run `feature_reader`; `MaxOffered` bounds the HITs of a frame. No
fairness of error clears, starts, stream commands or beats is assumed; the packet must come
without them.

Fairness (`bring_up`). The processor goes on in the start that it is in; nothing is assumed of
the camera, of resets or of the pixel clock. A start ends because its attempts are counted, not
because some transfer succeeds; its waits for the pixel clock are not counted, so
`StartReturns` leaves a start that waits there for ever, with the generator not following its
bit, as the one other outcome.

Fairness (`log_queue`). The processor goes on in the function it is in (`WF(Progress)`).
That the UART sends (`WF(Uart)`) is not assumed of the system; it is the premise of
`FinishEnds` alone, whose function blocks by design.

The divergences. Step O of the loop (`vision_runtime.c:2394`) is headed "Clear sticky per-frame
diagnostics"; with `QR_FRAME_RECEIVER` the pulse is compiled out, the bits stay, the code warns
and goes on, candidates of all later frames are disqualified, and a later wait that has to poll
ends the loop. `sticky_cleared` shows the shortest such run. The other two are those of the
feature reader. In the frame of `line_end` row 4 has a HIT that is not the centre of its run,
which `qr_runlength_vcc_core.v:199` says the expression computes exactly, and row 7 ends in a
pattern that is missed, although line 188 speaks of flushing the last run. `LineEndAsSaid` is
violated only where `LastRunFlushed` and `CentreExact` both are.

## 4. Proofs

`FrameSystemProofs` begins with the two memories by themselves. It proves for every register
width, every starting id and every set of descriptors what the run `frame_buffer` checks, and
besides that the registers keep their types, that the banks are always a FIFO (`RingOrder`),
that completions are counted once (`CompletionCount`), that a frame keeps its id and descriptor
(`DescriptorKept`) and that a bank takes one step of its life per edge (`OneStepPerEdge`). The
inductive invariant `FBInv` is `FBTypeOK /\ OwnerFlags /\ RingOrder`. `BankExclusion` alone is
not inductive: that the grant at `head` cannot hit the bank being captured into needs
`RingOrder`, and that a commit hits the bank that was reserved needs `OwnerFlags` (the `state[]`
entry is the image of `capturing`/`write_bank` and `consumer_active`/`read_bank`). `NextStateAt`
rewrites the four overriding assignments into one case per event, `EventGuards` shows which
events exclude each other at one bank, and the invariance proof has one step per conjunct.
`Accounting` and `CompletionCount` are proved relative to `FBInv` with the arithmetic of the
wrap isolated in `AheadInc`. The action properties follow from `FBInv` and the case lemma.

The refinement (`ControllerImplementsQueue`) shows that every edge of the controller is a step
of `FrameQueue` or a stutter. The abstract queue is the part of the ring between `head` and
`tail`, so its length is the number of owned banks; `RingOrder` leaves three shapes for it
(`OwnedShapes`), `OwnedShapesNext` says which shape follows which, and `BankFrameNext` what
the frame in each bank becomes. `EdgeIsQueueStep` then splits an edge by what leaves and what
enters; an advance of several frames at one edge is one step of the queue. Together with
`FifoOrder` it is what a user of the controller may rely on.

The same module proves ownership and the slot life cycle of `GrayRing` for any caller; the
invariant adds that the two indices name different slots.

`QueueProofs` proves `FifoOrder` of the abstract queue for any number of banks and any
ids. The invariant adds the types only; the work is in `AdvanceKeeps` (frames
advance, none twice) and in the three ways a step composes (advance, leave, enter).

The second part of `FrameSystemProofs` proves the six safety invariants of the run
`frame_system` for every width of the ids, every number of frames, and every set of faults the
surroundings may have. The first lemma, `Steps`, reduces the actions to two forms: a clock edge
with the inputs each block finds (`EdgeOf`, with or without a command of the software), and a
step of the software between two edges (`Between`). The invariant is built in layers, each
inductive relative to the ones below it:

| Layer | Says | Needed because |
|---|---|---|
| `SystemTypeOK` | types | |
| `CoreInv` | the logic, whatever the software commands and when: the controller's `FBInv`, `Accounting`, `CompletionCount`; the tap, the writer and the controller agree on the frame under way (`TapInv`); a bank that has left the camera side is whole (`BramInv`); what the runtime has done with the frame that is shown (`ConsumerInv`) | `BinaryBankIntact` speaks of the bank read, but whether it is whole was decided when it was written; and two counters in two blocks number the frames, which agree because both step at the same release |
| `ReceiverInv` | the slot ring; where the reserved slot stands tells the state of the image DMA, of the credit and of the service (`CreditInv`); a slot holds the whole image of its id or the tap has reported the damage (`DdrInv`) | that no credit is given without a DMA, and that the DMA writes no slot of the processor, depends on the order of the service's register accesses |
| `LoopInv` | where the loop stands tells where the runtime is with the frame | the loop acknowledges without looking again whether the frame is still the one it waited for |
| `NoRejections`, `ErrorsExplained` | no block rejects a handshake, in any world; every other error has its cause in the surroundings | |
| `DecodeInv` | the loop holds the slot of the shown frame from the take to the end of the decoding, its candidates are that frame's, and one image is taken per release | `PairedDecode`, `GuidedOnlyIfSound` and `DecodedInOrder` follow from it |
| `QuietInv` | without faults: a frame in a bank has its image in the ring or under way (`ImageInv`), and once its packet is collected the image is drained (`DrainedInv`) | the loop does not wait for the image: that `take` finds it is a matter of the order in which image, packet and credit end |

`CoreInv` does not mention the software: it holds whatever is written to the registers when.
`NoFault` needs all layers: nothing there is retried, so each place where the service or the
loop would give up (`GiveUp`) has to be shown unreachable.

`PostProcessProofs` begins with the labeling by itself. It proves type correctness,
`LabelsAreComponents`, `FlatForest` and `MaskComplete`, for every frame size, threshold and
table size and any neighbours. The inductive invariant `CclInv` joins them with `RoomLeft` (a
HIT is classified only while there is room): that a merge yields components needs the mask to
hold exactly the labels the HIT touches (`MaskComplete`), that all HITs of those labels follow
the merge needs the table to be flat (`FlatForest`), and that is kept because a merge redirects
whole labels. `StoredRoots` says what a stored HIT does to all final labels, for merge and new
label alike; `ComponentsKept` is then pure graph reasoning: the union of the touched components
with the new HIT is closed, and a closed subset of it that meets one component contains it,
hence the new HIT, hence everything. That `Selected` is a member of the mask rests on the
well-foundedness of the naturals.

The same module then proves both safety properties of the run `post_process`, for frames,
tables and a FIFO of any size, any progress of the scanner and error clears at any edge. An
edge moves all stages at once; `CclAlone` shows that an edge of the composition is an edge of
the labeling by itself, so that `CclInv` holds here too. The rest of the invariant is layered:

| Layer | Says | Needed because |
|---|---|---|
| `PhaseInv` | a frame is streaming, replayed, listed or answered; the three machines are in step | each handshake is between two machines of which neither looks at the other's state |
| `ScanInv`, `EndInv` | scanner, packer and ingress count the same row; an event that was refused once is offered unchanged; the completion flag comes once, before the result | the monitors compare an event with what they saw at the edge before |
| `FifoInv` | the queue holds events of this frame, and the last of them ends it | the labeling must not see the end of the frame before a HIT, or an event while it replays |
| `TableInv` | as many HITs are accumulated as were replayed, and counts and sums are bounded by that number | the registers are wide enough for as many HITs as fit into the memory, so nothing saturates |
| `ErrorInv` | only the three bits for full tables can be raised | |
| `DataInv` | the HITs sent are, in this order, those stored, the one in hand, those queued and the one on offer | a HIT is in one of four places, and moves between two of them at one edge while others move too |
| `RowInv` | every row describes the HITs of its label among those accumulated | |
| `ListInv` | the records are the rows of the labels gone through that have enough HITs, or the first `MaxRecords` of them and the overflow bit | |

`DataInv` says the places by a function `place` that numbers the queued events (`Places`):
rows and HITs share the queue, so position in the queue and number of the HIT differ.
`PlacesStep` shifts it when the head leaves or an event enters. It holds only while no HIT was
dropped: an error bit that was cleared in the middle of a frame has been latched before
(`frameErrors`), which `LosslessBefore` uses. From `RowInv` and `LabelsAreComponents` follows
that the rows are the components (`RowDescribes`); that there is no other component
(`ComponentHasLabel`) is graph reasoning again.

`RuntimeBlockProofs` proves all properties of the run `runtime_block`, for any width of the
ids. `BlockInv` adds two facts to them. `FrameLife` orders the stages of a frame: armed and
not launched, launched, acknowledged, released, of which exactly one holds; `OneLaunch` says
that a start pulse or a busy builder belongs to an active, launched frame whose end has not
been seen. Without them nothing excludes a second start for a frame whose packet has left,
and `PacketIdentity` needs that the active id does not change meanwhile. `ErrorsHeld` makes
`ErrorsReported` inductive: while records are collected an error is sticky or latched
already, since the builder looks at the sticky bits once more when it ends. `Steps` reduces
the three kinds of writes to one edge with admissible inputs; then there is one lemma per
controller.

`DecodeRouteProofs` proves the routing for any images, any number of grids and any
thresholds. The costs of a call cannot be bounded by its counters alone, so `Progress` ties
the scans made so far to what is left of the plan, one equation per route; `Outcome` says
that there is a result exactly while the scan looked at last has succeeded, and that it is of
this frame. There is one lemma per step. `Throttled` speaks of a history, the misses since the
last full scan, which `MCDecodeRoute` keeps beside the decoder. `CountInv` says that this
number and the decoder's cooldown add up to the five misses of the code, whatever calls,
restarts and successes came between; from it follows that the code's test of the cooldown is
the property's test of the history.

`IdentifyProofs` proves the three invariants of the run `identify`, for images of any size with
any black points, any stack of the flood fill, any tables and any points the alignment search
may look at. The difficult one is `RegionsWhole`: a fill that reaches the last entry of its
stack stops with pixels left over, and the finder's corners are found by painting its ring black
and back again, with two such fills, among the black pixels of other regions that have not been
looked at. Which pixels a fill paints is a matter of its whole course. The proof compares two
fills from one seed, round by round (`StepAlike`): if the second finds free only a part of what
the first found free, among it all that the first painted, then both do the same in each round
(`Refilled`), whatever the size of the stack, since a run can be no longer and no seed can be
found that was not there. A region painted black is free again together with black pixels beside
it; `WholeAt` therefore says of each region that from its seed a fill paints it exactly,
whichever other black pixels are free with it. `NewWhole` shows this of a region when it is
made, `PaintOver` and `PaintBack` of the two fills, and `SameImage` that the image is as before.
That a fill ends within the rounds that the model gives it is `FilledOver`: each run enters the
stack once and leaves it once. `FilledIs` turns the rounds, which the model makes in halves to spare
TLC's own stack, into one course of single rounds.

| Conjunct of `IInv` | Says | Needed because |
|---|---|---|
| `Coded` | no pixel has a code beyond the regions made | the code of a new region is that of no pixel yet |
| `Wholes` | `WholeAt` of every region, its count, and that its capstone exists | `RegionsWhole` alone does not tell what a fill would paint |
| `Finders` | the regions of a capstone are its ring and its stone, two different ones, and its corners lie on the ring | |
| `Linked` | types of the grids, and `GridsLinked` | |
| `Grouping`, `Matching` | the capstones about to be recorded are three different ones, and a seeded search has no grid before its end | `record_qr_grid` does not compare the three that it is given |

`TestCapstoneIs` follows the three look-ups, of which each may make a region; a region just
made belongs to no capstone. `RecordKeeps` has the three exits of `record_qr_grid`.

`BringUpProofs` proves that capture is turned on last and that a picture shows one whole
drawing, for any number of restarts, retries and words. `PathInv` lists per step of the
start what has been started before; it has to say that no frame enters meanwhile, or a
validated path could be stopped again. `HudInv` says that the published bank
and the one shown are whole and that the application writes the other one, word by word, only
while nothing is pending.

The same module proves the three invariants of the camera setup, with the real tables of the
driver, for any number of attempts, any sensors and any number of writes lost unnoticed, of any
registers: of the setup by itself (`CamSpec`) and within the start, with
restarts at any point (`Spec`). `CamInvAlone` and `CamAlways` say that one invariant does for
both. The tables are put together to one list of 134 transfers (`TablesAt`, `ConfigurationAt`);
the proofs need of it that no entry resets the sensor or touches its drive strength or PLL, that
`COM8` is written twice and the parameters of the automatic controls lie between the two
(`ConfigurationWrites`), and where a register is written last (`LastWrite`). `CamInv` has three
layers. `LeftInv` is what each routine that has ended leaves in the sensor. `ConfigureInv` and
`CheckInv` are what the position in the list tells of the routine under way: `COM8` is off between
its two writes, if none of them was lost; what was read back is what the sensor still holds, since
the comparison reads without writing in between; and when no write was lost every register past
its last write has its final value. The rate of the bus is the third. A lost write is thus no
concern of the invariant before the registers are read back.
`BackKeeps` says that a routine that gives up, at whatever transfer, owes nothing to the
invariant, so the nested attempts need no case of their own.

`QueueProofs` also proves the action property of the log, `WholeMessages`, for a ring and messages
of any size. It speaks of two bytes written one after the other, so `LogInv` has to follow the
bytes between: the byte written last and those in the ring, from `tail` on, form a chain
(`ChainInv`), which `Service` shortens at one end and `Put` lengthens at the other. That the
bytes put in do not run into those at the front is the arithmetic of `PutQueues`, the only
place where the room that `Fits` asks for is used. `ModeInv` says what the chain ends with and
that nothing is queued outside of the asynchronous mode, without which a direct message could
overtake. Remainders are done away with once, in `Remainder`.

`FeatureReaderProofs` proves, for frames and words of any size, that the scanner raises none
of its error bits (`NoScanError`), that reader and cross check share the memory port without
disturbing each other, that the HITs are the finder centres (`HitsAreFinders`) and that the
scanner implements `FeatureEvents`. `PortInv` goes through the
four states of the arbiter. That one candidate is never followed by another at the next edge
(`Found => ~Found'`) is what keeps `candidateOverrun` down: after a white pixel no black run
ends, and after the last pixel of a line the reader pauses. `ScanInv` adds the geometry: the
five runs counted lie left of the pixel on offer, so the centre of a pattern is in the frame,
and five runs in proportion have seven pixels, so the cross check refuses none.

The property says what a HIT is without the scanner's registers, from the borders of the runs of a
row (`Across`, with the two exceptions named in section 2) and of a column (`Down`). Between these
and the registers stand

| Part | Says | Needed because |
|---|---|---|
| `RowsInv` | a row is read, ends, is closed and is reported, one after the other | at a ROW_DONE nothing of the row is under way |
| `AddrInv` | the word read is the one of the row, and the pixel has its colour | the runs are those of the image |
| `RunInv` | the counters of the run scan are the last runs of what has been read | five counters in proportion are `Across`, when the last of the runs ends |
| `ControlInv` | the candidate control waits for the cross check when it begins | a candidate is decided once |
| `CheckInv` | the six counters of the cross check are the runs of the column it has walked | its verdict, a refusal on the way included, is `Down` |
| `FlightInv` | a candidate not yet decided is a pattern of the row, later than all HITs | HITs come in order |
| `SentInv` | the HITs are the centres that have been passed, but for the one not yet decided | the property, between ROW_DONEs |

Two lemmas of each kind carry it. `FoundAcross` and `AcrossFound`: a candidate is a pattern
across the row, and a pattern whose last run ends at the pixel on offer is found there and
then. `RatioDecides` and `RejectDecides`: the cross check confirms at the end of its walk just
the columns that are in proportion, and when it gives up before, at a border, at an empty run
or at the limit `MaxSpan`, no proportion could have been found. They rest on a theory of lines
that knows no hardware (`Borders`, `Around`, `Chain`). No refusal of the code turned out to
cost a centre that `Finder` promises. The k-th HIT lies at the k-th pixel or later in reading
order, so the sequence of HITs of a frame is bounded by its pixels; the refinement needs that,
since `FeatureEvents` offers no more than `MaxOffered` (`OfferedAssumption`).

Where a multiplexer of the code gives one input priority over another, the model uses nested
`IF`s and not a `CASE` whose arms overlap: TLC takes the first arm that is true, the logic
leaves open which one.

Assumptions: only those of the modules (`IdMax \in Nat`, the starting id is a register value; in
the composition ids start at 0, as both counters do at reset, and `IdMax > 0`, since one id for
all frames could not tell two of them apart: the registers have 32 bits; `NoDesc` is a
descriptor, `"none"` is no frame, the clock register of the sensor holds a byte and its drive
strength two bits; there are more message numbers than bytes in the log's ring; the count and
sum registers of the table are wide enough for all HITs the memory holds, which the parameters
of `qr_postprocess_axis_qrp1_core.v` see to (256 HITs, 19 and 28 bits), and a record needs at
least one HIT; the sizes of the labeling, of the bitmap, of the log's ring, of the scanned
frame, of the decoder's image and of its stack are positive, and so are the numbers of attempts;
a region of interest is one that `quirc_end_seeded` accepts); the theorem about `FrameQueue`
states the same of its own constants.

Sums and remainders are recursive functions, not operators, and what is proved of them is
proved by the least number at which it would fail (`SmallestLabel`, `TotalIs`): an induction
with a set in the place of the predicate.

Model-checked only: all liveness (`FramesFlow`, `FrameScanned`, `PacketComes`, `AsyncReturns`,
`FinishEnds`, `StartReturns`), which needs fairness and `ENABLED`, and the two properties of
`MCQuircDecode`, `SymbolDecoded` and `TableSound`: they are about what recursive operators
(polynomials over a finite field, the reading of a bit stream) compute from given data.

## 5. Not modelled

Pixel arithmetic of the tap and the frontend; the perspective
arithmetic and Otsu's threshold of quirc; the geometry of candidates and the validation of a
packet, pure functions of one packet; clock primitives, AXI shells and the vendor's drivers;
caches (the code cleans and invalidates a slot at each change of owner; `prepared` is kept,
the cache itself is not); drawing of the HUD; the build without `QR_FRAME_RECEIVER`, and with
it the double-buffered display of `hdmi_display.c` and the pipeline trace, which the default
build compiles out; the stand-alone test programs. Interrupts are not used by the application.

## 6. Plan

1. Done: frame buffer, slot ring, runtime control, composition, post-processing, log queue,
   first proofs.
2. Done: decoder routing, quirc, camera setup, start and restarts, overlay.
3. Done: `FeatureReader`, shown to implement the scanner that post-processing is checked behind.
   Open: `PclkReceiver` (token loss, end-of-line pixel, clear handshake between clock domains),
   the tap's FIFO in detail, as a refinement of the tap in `FrameSystem`; packet validation.
4. `PostProcess` shown to be the `Surroundings` of `RuntimeBlock`.
5. Proofs. Done: refinement of `FrameQueue`, safety of `FrameSystem`, the camera setup of
   `BringUp`, `WholeMessages` of `LogQueue`, both safety properties of `PostProcess`,
   `HitsAreFinders` of `FeatureReader` and its refinement of `FeatureEvents`, `Throttled` of
   `DecodeRoute`, the three invariants of `Identify`. Open: what the scanner guarantees together
   with post-processing in one theorem.
