------------------------------ MODULE BringUp ------------------------------
(***************************************************************************)
(* vision_runtime_run up to its frame loop: the order in which it quiesces *)
(* and starts the PL blocks, the camera, the video path and the frame      *)
(* receiver, and the ARM-only restarts after which the PL and the sensor   *)
(* keep their state ("ARM processor reset does not necessarily reset PL    *)
(* AXI registers").  Every step may fail; the program then returns and     *)
(* leaves everything as it is.  A credit or an armed transfer is named by  *)
(* the boot that granted it, 0 when there is none.  The frame loop itself  *)
(* is FrameSystem's; here it only keeps the credits coming and serves the  *)
(* preview.  The display's pixel clock is waited for without a limit; the  *)
(* generator may follow its START bit late or never.                       *)
(***************************************************************************)
EXTENDS CameraSetup, VideoOverlay

CONSTANT MaxBoots     \* bound of the model

VARIABLES
  boot, pc,
  captureEn, feOn, persistent,  \* control registers: camera, frontend, runtime
  credit, accepted, capturing,  \* frame buffer controller: its credit, the boots whose
                                \* frames it accepted, a frame on its way
  dma,                          \* image DMA
  s2mm, mm2s,                   \* the video DMA's channels
  clkStart, clkRunning          \* pixel clock generator: its bits START and RUNNING

plVars == <<captureEn, feOn, persistent, credit, accepted, capturing, dma, s2mm, mm2s>>
clkVars == <<clkStart, clkRunning>>
bringVars == <<boot, pc, plVars, clkVars, camVars, overlayVars>>

PlStart ==
  /\ captureEn = FALSE /\ feOn = FALSE /\ persistent = FALSE
  /\ credit = 0 /\ accepted = {} /\ capturing = FALSE /\ dma = 0
  /\ s2mm = "halted" /\ mm2s = "halted" /\ clkStart = FALSE /\ clkRunning = FALSE

Init == boot = 1 /\ pc = "start" /\ PlStart /\ CamStart /\ OverlayStart

Goto(l) == pc' = l /\ UNCHANGED boot
Stop == Goto("stopped")
-----------------------------------------------------------------------------
(* The steps, in the order of the program *)

capture_disable ==
  /\ pc = "start"
  /\ captureEn' = FALSE /\ Goto("frontend")
  /\ UNCHANGED <<clkVars, camVars, overlayVars, feOn, persistent, credit, accepted, capturing, dma, s2mm, mm2s>>

\* A frontend of another version is refused before it is touched.
FrontendQuiesce ==
  /\ pc = "frontend"
  /\ \/ feOn' = FALSE /\ Goto("csr")
     \/ Stop /\ UNCHANGED feOn
  /\ UNCHANGED <<clkVars, camVars, overlayVars, captureEn, persistent, credit, accepted, capturing, dma, s2mm, mm2s>>

CsrQuiesce ==
  /\ pc = "csr"
  /\ \/ persistent' = FALSE /\ Goto("camera")
     \/ Stop /\ UNCHANGED persistent
  /\ UNCHANGED <<clkVars, camVars, overlayVars, captureEn, feOn, credit, accepted, capturing, dma, s2mm, mm2s>>

\* Transfer by transfer on the first boot, in one step on the later ones.
PrepareCamera ==
  /\ pc = "camera"
  /\ \/ boot = 1 /\ CamNext /\ UNCHANGED <<boot, pc>>
     \/ boot > 1 /\ CamOutcome /\ UNCHANGED <<boot, pc>>
     \/ task = "ready" /\ Goto("s2mm") /\ CamReturn
     \/ task = "failed" /\ Stop /\ CamReturn
  /\ UNCHANGED <<plVars, clkVars, overlayVars>>

\* The driver's initialization halts both channels; the write channel is reset
\* again, configured, started and read back.
video_vdma_s2mm_init_start ==
  /\ pc = "s2mm"
  /\ \/ s2mm' = "running" /\ mm2s' = "halted" /\ Goto("hdmi")
     \/ Stop /\ UNCHANGED <<s2mm, mm2s>>
     \/ Stop /\ s2mm' \in {"halted", "running"} /\ mm2s' = "halted"
  /\ UNCHANGED <<clkVars, camVars, overlayVars, captureEn, feOn, persistent, credit, accepted, capturing, dma>>

\* hdmi_display_init: the overlay first, which then belongs to this run; ...
video_overlay_init ==
  /\ pc = "hdmi"
  /\ \/ initialized' = TRUE /\ Goto("display")
     \/ initialized' = FALSE /\ Stop
  /\ UNCHANGED <<clkVars, camVars, plOverlay, hpc, bank, word, drawing, plVars>>

\* ... the pixel clock, which is started, unless no dividers are found for its rate, and
\* waited for until it runs; then the timing generator, which may fail to be set up; ...
DisplayInitialize ==
  /\ \/ pc = "display" /\ Goto("locking") /\ clkStart' = TRUE
     \/ pc = "display" /\ Stop /\ UNCHANGED clkStart
     \/ pc = "locking" /\ clkRunning /\ (Goto("scanout") \/ Stop) /\ UNCHANGED clkStart
  /\ UNCHANGED <<clkRunning, camVars, overlayVars, plVars>>

\* ... the clock again, stopped, waited for, started and waited for ...
DisplayRestartClock ==
  /\ \/ pc = "scanout" /\ Goto("stopping") /\ clkStart' = FALSE
     \/ pc = "scanout" /\ Stop /\ UNCHANGED clkStart
     \/ pc = "stopping" /\ ~clkRunning /\ Goto("relocking") /\ clkStart' = TRUE
  /\ UNCHANGED <<clkRunning, camVars, overlayVars, plVars>>

\* ... and the read channel, which must follow the write channel: circular, genlocked
\* and on the internal source.  One that runs without these bits is refused, running.
DisplayStart ==
  /\ pc = "relocking" /\ clkRunning
  /\ \/ mm2s' = "genlock" /\ Goto("dma")
     \/ mm2s' \in {"halted", "free"} /\ Stop
  /\ UNCHANGED <<clkVars, camVars, overlayVars, captureEn, feOn, persistent, credit, accepted, capturing, dma, s2mm>>

\* Both AXI DMAs and the decoder's memory; the driver resets the engine.
DmaAndDecoderInit ==
  /\ pc = "dma"
  /\ \/ dma' = 0 /\ Goto("enable")
     \/ dma' \in {0, dma} /\ Stop
  /\ UNCHANGED <<clkVars, camVars, overlayVars, captureEn, feOn, persistent, credit, accepted, capturing, s2mm, mm2s>>

frontend_enable ==
  /\ pc = "enable"
  /\ feOn' = TRUE /\ Goto("receiver")
  /\ UNCHANGED <<clkVars, camVars, overlayVars, captureEn, persistent, credit, accepted, capturing, dma, s2mm, mm2s>>

\* Mutant of PlClean: the credit bit of the status register is not looked at.
PlCleanButCredit == accepted = {} /\ ~capturing
PlClean == accepted = {} /\ ~capturing /\ credit = 0

\* A credit that is granted twice stays the old one (and is an error of the PL).
Granted == IF credit = 0 THEN boot ELSE credit

\* The buffers are handed out only to a frame buffer without any history.
frame_receiver_init ==
  /\ pc = "receiver"
  /\ \/ PlClean /\ dma' = boot /\ credit' = Granted /\ Goto("persist")
     \/ Stop /\ UNCHANGED <<dma, credit>>
  /\ UNCHANGED <<clkVars, camVars, overlayVars, captureEn, feOn, persistent, accepted, capturing, s2mm, mm2s>>

CsrPersistent ==
  /\ pc = "persist"
  /\ persistent' = TRUE /\ Goto("validate")
  /\ UNCHANGED <<clkVars, camVars, overlayVars, captureEn, feOn, credit, accepted, capturing, dma, s2mm, mm2s>>

\* 500 ms of the receiver's own statistics, taken with capture still off.
camera_control_validate_input ==
  /\ pc = "validate"
  /\ Goto("capture") \/ Stop
  /\ UNCHANGED <<clkVars, camVars, overlayVars, plVars>>

\* The enable bit is read back.
capture_enable ==
  /\ pc = "capture"
  /\ \/ captureEn' = TRUE /\ Goto("active")
     \/ Stop /\ UNCHANGED captureEn
  /\ UNCHANGED <<clkVars, camVars, overlayVars, feOn, persistent, credit, accepted, capturing, dma, s2mm, mm2s>>

\* The frame loop: the receiver's service grants the next credit; any failure returns.
Rearm ==
  /\ pc = "active"
  /\ dma = 0
  /\ dma' = boot /\ credit' = Granted
  /\ UNCHANGED <<boot, pc, clkVars, camVars, overlayVars, captureEn, feOn, persistent, accepted, capturing, s2mm, mm2s>>
LoopFails == pc = "active" /\ Stop /\ UNCHANGED <<clkVars, camVars, overlayVars, plVars>>

Preview ==
  /\ pc = "active"
  /\ (\E e \in BOOLEAN : PreviewService(e)) \/ Submit \/ SubmitWord
  /\ UNCHANGED <<boot, pc, clkVars, camVars, plVars>>

Startup ==
  \/ capture_disable \/ FrontendQuiesce \/ CsrQuiesce \/ PrepareCamera
  \/ video_vdma_s2mm_init_start \/ video_overlay_init \/ DisplayInitialize
  \/ DisplayRestartClock \/ DisplayStart \/ DmaAndDecoderInit \/ frontend_enable
  \/ frame_receiver_init \/ CsrPersistent \/ camera_control_validate_input \/ capture_enable
-----------------------------------------------------------------------------
(* The PL, and resets *)

\* A sensor frame starts with capture on and a credit granted.
AcceptFrame ==
  /\ captureEn /\ credit # 0 /\ ~capturing
  /\ accepted' = accepted \cup {credit} /\ credit' = 0 /\ capturing' = TRUE
  /\ UNCHANGED <<boot, pc, clkVars, camVars, overlayVars, captureEn, feOn, persistent, dma, s2mm, mm2s>>

FrameArrives ==
  /\ capturing
  /\ capturing' = FALSE /\ dma' = 0
  /\ UNCHANGED <<boot, pc, clkVars, camVars, overlayVars, captureEn, feOn, persistent, credit, accepted, s2mm, mm2s>>

\* The scan-out is looked at while the application runs or has just been reset: in
\* between it shares nothing with the program.
ScanOut ==
  /\ mm2s # "halted" /\ pc \in {"active", "start"}
  /\ Scan
  /\ UNCHANGED <<boot, pc, clkVars, camVars, plVars>>

\* The generator follows its bit, in its own time.
PixelClock ==
  /\ clkRunning # clkStart
  /\ clkRunning' = clkStart
  /\ UNCHANGED <<boot, pc, clkStart, camVars, overlayVars, plVars>>

Again == boot < MaxBoots /\ boot' = boot + 1 /\ pc' = "start" /\ CamRestart /\ OverlayRestart

ArmRestart == Again /\ UNCHANGED <<plVars, clkVars, plOverlay, rxArmed>>

\* "Recovery requires quiescing DMA/camera and resetting the whole hardware design."
PlReset ==
  /\ Again /\ OverlayReset /\ rxArmed' = FALSE
  /\ captureEn' = FALSE /\ feOn' = FALSE /\ persistent' = FALSE
  /\ credit' = 0 /\ accepted' = {} /\ capturing' = FALSE /\ dma' = 0
  /\ s2mm' = "halted" /\ mm2s' = "halted" /\ clkStart' = FALSE /\ clkRunning' = FALSE

Next ==
  \/ Startup \/ Rearm \/ LoopFails \/ Preview
  \/ AcceptFrame \/ FrameArrives \/ ScanOut \/ PixelClock \/ ArmRestart \/ PlReset

Spec == Init /\ [][Next]_bringVars /\ WF_bringVars(Startup)
-----------------------------------------------------------------------------
(* Capture is turned on only over a complete path, all of it started by    *)
(* this run of the program: the sensor configured, the pixel clock running *)
(* and the display following the camera's DMA, frontend and runtime on,    *)
(* the image DMA armed and one credit granted, with no frame and no credit *)
(* of an earlier run left in the PL. Until then no frame can enter,        *)
(* although the run before may have left capture on; a start that fails    *)
(* leaves it off ("camera stream stays disabled").                         *)
PathArmed ==
  /\ task = "ready" /\ s2mm = "running" /\ mm2s = "genlock" /\ clkRunning /\ initialized
  /\ feOn /\ persistent /\ dma = boot /\ credit = boot /\ accepted = {} /\ ~capturing
Starting == pc \notin {"start", "active", "stopped"}
CaptureLast ==
  /\ [][captureEn' /\ ~captureEn => PathArmed]_bringVars
  /\ [](Starting => ~captureEn)

(* Once begun the start ends, in the frame loop or in a failure, or it     *)
(* waits for ever for the pixel clock, which is the one wait without a     *)
(* limit (ClkStart, ClkStop): no retry and no failure keeps it otherwise.  *)
ClockAwaited == pc \in {"locking", "stopping", "relocking"} /\ clkRunning # clkStart
StartReturns == Starting ~> (~Starting \/ []ClockAwaited)
=============================================================================
