--------------------------- MODULE BringUpProofs ---------------------------
(***************************************************************************)
(* The start of the application and its overlay, for any number of         *)
(* restarts, of words of the bitmap and of retries.  PathInv says what has *)
(* been started at each step of the start, which needs that no frame       *)
(* enters the PL meanwhile; HudInv says that the bank shown and the bank   *)
(* published are whole and that the application writes the other one.      *)
(*                                                                         *)
(* The camera setup comes last, for any number of attempts, of transfers   *)
(* lost unnoticed, any sensors and any restarts.  The tables are put       *)
(* together to one list of 134 transfers (TablesAt, ConfigurationAt), whose*)
(* entries are what the proofs look at.  CamInv says, per routine, what    *)
(* the ones before it have left in the sensor (LeftInv), and within a      *)
(* routine what the position in its list tells: what has been written and  *)
(* what has been read (ConfigureInv, CheckInv).                            *)
(***************************************************************************)
EXTENDS BringUp, FiniteSetTheorems, SequenceTheorems, WellFoundedInduction, TLAPS

USE OverlayAssumption

\* The steps that follow the one named, up to the enabling of capture.
FromPersist == {"persist", "validate", "capture"}
FromReceiver == {"receiver"} \cup FromPersist
FromDma == {"dma", "enable"} \cup FromReceiver
FromDisplay == {"display", "locking", "scanout", "stopping", "relocking"} \cup FromDma
FromS2mm == {"s2mm", "hdmi"} \cup FromDisplay
Steps == {"start", "frontend", "csr", "camera", "active", "stopped"} \cup FromS2mm

\* What the steps so far have started, with capture off.
PathInv ==
  /\ boot \in Nat \ {0} /\ pc \in Steps /\ clkStart \in BOOLEAN /\ clkRunning \in BOOLEAN
  /\ Starting => ~captureEn
  /\ pc \in FromS2mm => task = "ready"
  /\ pc \in FromS2mm \ {"s2mm"} => s2mm = "running"
  /\ pc \in FromDisplay => initialized
  /\ pc = "relocking" => clkStart
  /\ pc \in FromDma => clkStart /\ clkRunning /\ mm2s = "genlock"
  /\ pc \in FromReceiver => feOn
  /\ pc \in FromPersist \ {"persist"} => persistent
  /\ pc \in FromPersist => dma = boot /\ credit = boot /\ accepted = {} /\ ~capturing

\* All words of bank b come from one drawing.
Whole(b) == \A w \in 1..Words : bitmap[b][w] = bitmap[b][1]

HudTypes ==
  /\ DOMAIN bitmap = {0, 1} /\ \A b \in {0, 1} : DOMAIN bitmap[b] = 1..Words
  /\ active.bank \in {0, 1} /\ next.bank \in {0, 1} /\ column \in Nat \ {0}
  /\ hpc \in {"idle", "submit", "write"} /\ bank \in {0, 1} /\ word \in Nat \ {0}

HudInv ==
  /\ HudTypes
  /\ active.hud => Whole(active.bank)
  /\ pending => next.hud /\ Whole(next.bank)
  /\ shown \subseteq IF active.hud THEN {bitmap[active.bank][1]} ELSE {}
  /\ hpc = "write" => /\ ~pending /\ bank = 1 - active.bank /\ word <= Words + 1
                      /\ \A w \in 1..Words : w < word => bitmap[bank][w] = drawing
  /\ hpc = "submit" => ~pending
  /\ ~rejected

-----------------------------------------------------------------------------
\* The start begins with nothing started.
LEMMA PathInvInit == Init => PathInv
<1> SUFFICES ASSUME Init PROVE PathInv
  OBVIOUS
<1>1. boot = 1 /\ pc = "start" /\ clkStart = FALSE /\ clkRunning = FALSE
  BY DEF Init, PlStart
<1>2. boot \in Nat \ {0} /\ ~Starting
  BY <1>1 DEF Starting
<1>3. clkStart \in BOOLEAN /\ clkRunning \in BOOLEAN
  BY <1>1
<1>4. /\ pc \in Steps /\ pc # "relocking"
      /\ pc \notin FromS2mm /\ pc \notin FromDisplay /\ pc \notin FromDma
      /\ pc \notin FromReceiver /\ pc \notin FromPersist
  BY <1>1 DEF Steps, FromS2mm, FromDisplay, FromDma, FromReceiver, FromPersist
<1>5. QED
  BY <1>2, <1>3, <1>4 DEF PathInv

\* One step of the start.
LEMMA PathInvStartup ==
  ASSUME PathInv, Startup
  PROVE  PathInv'
<1> USE DEF PathInv, Steps, Starting, FromS2mm, FromDisplay, FromDma, FromReceiver, FromPersist,
            Goto, Stop, plVars, clkVars, camVars, overlayVars, psOverlay
<1>1. CASE capture_disable
  BY <1>1 DEF capture_disable
<1>2. CASE FrontendQuiesce
  BY <1>2 DEF FrontendQuiesce
<1>3. CASE CsrQuiesce
  BY <1>3 DEF CsrQuiesce
<1>4. CASE PrepareCamera
  BY <1>4 DEF PrepareCamera, CamReturn
<1>5. CASE video_vdma_s2mm_init_start
  BY <1>5 DEF video_vdma_s2mm_init_start
<1>6. CASE video_overlay_init
  BY <1>6 DEF video_overlay_init
<1>7. CASE DisplayInitialize
  BY <1>7 DEF DisplayInitialize
<1>8. CASE DisplayStart
  BY <1>8 DEF DisplayStart
<1>9. CASE DisplayRestartClock
  BY <1>9 DEF DisplayRestartClock
<1>10. CASE DmaAndDecoderInit
  BY <1>10 DEF DmaAndDecoderInit
<1>11. CASE frontend_enable
  BY <1>11 DEF frontend_enable
<1>12. CASE frame_receiver_init
  BY <1>12 DEF frame_receiver_init, PlClean, Granted
<1>13. CASE CsrPersistent
  BY <1>13 DEF CsrPersistent
<1>14. CASE camera_control_validate_input
  BY <1>14 DEF camera_control_validate_input
<1>15. CASE capture_enable
  BY <1>15 DEF capture_enable
<1>16. QED
  BY <1>1, <1>2, <1>3, <1>4, <1>5, <1>6, <1>7, <1>8, <1>9, <1>10, <1>11, <1>12, <1>13, <1>14,
     <1>15 DEF Startup

LEMMA PathInvNext == PathInv /\ [Next]_bringVars => PathInv'
<1> SUFFICES ASSUME PathInv, [Next]_bringVars PROVE PathInv'
  OBVIOUS
<1> USE DEF PathInv, Steps, Starting, FromS2mm, FromDisplay, FromDma, FromReceiver, FromPersist
<1>1. CASE UNCHANGED bringVars
  BY <1>1 DEF bringVars, plVars, clkVars, camVars, overlayVars, psOverlay
<1>2. CASE Startup
  BY <1>2, PathInvStartup
<1>3. CASE Rearm \/ LoopFails \/ Preview
  BY <1>3 DEF Rearm, LoopFails, Preview, Stop, Goto, plVars, clkVars, camVars
<1>4. CASE AcceptFrame
  BY <1>4 DEF AcceptFrame, clkVars, camVars, overlayVars, psOverlay
<1>5. CASE FrameArrives
  BY <1>5 DEF FrameArrives, clkVars, camVars, overlayVars, psOverlay
<1>6. CASE ScanOut
  BY <1>6 DEF ScanOut, Scan, camVars, clkVars, plVars, psOverlay
<1>7. CASE PixelClock
  BY <1>7 DEF PixelClock, camVars, plVars, overlayVars, psOverlay
<1>8. CASE ArmRestart \/ PlReset
  <2>1. /\ boot' = boot + 1 /\ pc' = "start"
        /\ clkStart' \in BOOLEAN /\ clkRunning' \in BOOLEAN
    BY <1>8 DEF ArmRestart, PlReset, Again, clkVars
  <2>2. QED
    BY <2>1
<1>9. QED
  BY <1>1, <1>2, <1>3, <1>4, <1>5, <1>6, <1>7, <1>8 DEF Next

\* Capture is only ever turned on by the step that ends the start.
LEMMA TurnedOn ==
  ASSUME PathInv, [Next]_bringVars, captureEn', ~captureEn
  PROVE  PathArmed
<1>1. capture_enable
  BY DEF Next, Startup, bringVars, plVars, capture_disable, FrontendQuiesce, CsrQuiesce,
         PrepareCamera, video_vdma_s2mm_init_start, video_overlay_init, DisplayInitialize,
         DisplayRestartClock, DisplayStart, DmaAndDecoderInit, frontend_enable, frame_receiver_init, CsrPersistent,
         camera_control_validate_input, Rearm, LoopFails, Preview, AcceptFrame, FrameArrives,
         ScanOut, PixelClock, ArmRestart, PlReset
<1>2. pc = "capture"
  BY <1>1 DEF capture_enable
<1>3. QED
  BY <1>2 DEF PathInv, PathArmed, FromS2mm, FromDisplay, FromDma, FromReceiver, FromPersist

\* Capture is turned on only over a complete path of this run, and is off until then.
THEOREM CaptureIsLast == Spec => CaptureLast
<1>1. PathInv /\ [Next]_bringVars => [captureEn' /\ ~captureEn => PathArmed]_bringVars
  BY TurnedOn
<1>2. PathInv => (Starting => ~captureEn)
  BY DEF PathInv
<1>3. QED
  BY <1>1, <1>2, PathInvInit, PathInvNext, PTL DEF Spec, CaptureLast

-----------------------------------------------------------------------------
LEMMA HudInvInit == Init => HudInv
BY DEF Init, OverlayStart, HudInv, HudTypes, Whole, NoHud

\* The scan-out: a new configuration is taken with the start of a frame only.
LEMMA HudInvScan ==
  ASSUME HudInv, Scan
  PROVE  HudInv'
<1> USE DEF HudInv, HudTypes, Whole
<1>1. CASE HudAges
  BY <1>1 DEF Scan, HudAges, psOverlay
<1>2. ASSUME NEW sof \in BOOLEAN, ScanWord(sof)
      PROVE  HudInv'
  <2>1. UNCHANGED <<bitmap, next, rejected, hpc, bank, word, drawing>>
    BY <1>2 DEF Scan, ScanWord, psOverlay
  <2>2. CASE sof
    <3>1. PICK config : config = IF pending THEN next ELSE active
      OBVIOUS
    <3>2. /\ active' = config /\ pending' = FALSE
          /\ shown' \subseteq IF config.hud THEN {bitmap[config.bank][1]} ELSE {}
          /\ column' = 2
      BY <1>2, <2>2, <3>1 DEF ScanWord, PixelConfig
    <3>3. config.bank \in {0, 1} /\ (config.hud => Whole(config.bank))
      BY <3>1
    <3>4. hpc = "write" => config = active
      BY <3>1
    <3>5. QED
      BY <2>1, <3>2, <3>3, <3>4
  <2>3. CASE ~sof
    <3>1. /\ column <= Words /\ column' = column + 1 /\ UNCHANGED <<active, pending>>
          /\ shown' \subseteq shown \cup
               (IF active.hud THEN {bitmap[active.bank][column]} ELSE {})
      BY <1>2, <2>3 DEF ScanWord, PixelConfig
    <3>2. active.hud => bitmap[active.bank][column] = bitmap[active.bank][1]
      BY <3>1
    <3>3. QED
      BY <2>1, <3>1, <3>2
  <2>4. QED
    BY <2>2, <2>3
<1>3. QED
  BY <1>1, <1>2 DEF Scan

\* A drawing is begun, a bank chosen, a word written or the bank published.
LEMMA HudInvPreview ==
  ASSUME HudInv, Preview
  PROVE  HudInv'
<1> USE DEF HudInv, HudTypes, Whole
<1>1. ASSUME NEW e \in BOOLEAN, PreviewService(e)
      PROVE  HudInv'
  BY <1>1 DEF PreviewService, plOverlay
<1>2. CASE Submit
  <2>1. ~pending /\ hpc' = "write" /\ bank' = 1 - active.bank /\ word' = 1
    BY <1>2 DEF Submit, FreeBank
  <2>2. UNCHANGED <<plOverlay, initialized, drawing>>
    BY <1>2 DEF Submit
  <2>3. QED
    BY <2>1, <2>2 DEF plOverlay
<1>3. CASE SubmitWord /\ word <= Words
  <2>1. /\ hpc = "write" /\ WriteWord(bank, word, drawing) /\ word' = word + 1
        /\ UNCHANGED <<hpc, initialized, bank, drawing>>
    BY <1>3 DEF SubmitWord
  <2>2. BitmapOk(bank)
    BY <2>1 DEF BitmapOk
  <2>3. /\ bitmap' = [bitmap EXCEPT ![bank][word] = drawing]
        /\ UNCHANGED <<active, next, pending, shown, column, rejected>>
    BY <2>1, <2>2 DEF WriteWord
  <2>4. word \in 1..Words /\ bank # active.bank
    BY <1>3, <2>1
  <2>5. /\ DOMAIN bitmap' = {0, 1} /\ \A b \in {0, 1} : DOMAIN bitmap'[b] = 1..Words
        /\ bitmap'[active.bank] = bitmap[active.bank]
        /\ \A w \in 1..Words :
             bitmap'[bank][w] = IF w = word THEN drawing ELSE bitmap[bank][w]
    BY <2>3, <2>4
  <2>6. \A w \in 1..Words : w < word + 1 => bitmap'[bank][w] = drawing
    BY <2>1, <2>4, <2>5
  <2>7. QED
    BY <2>1, <2>3, <2>4, <2>5, <2>6
<1>4. CASE SubmitWord /\ ~(word <= Words)
  <2>1. /\ hpc = "write" /\ PublishBank(bank) /\ hpc' = "idle"
        /\ UNCHANGED <<word, initialized, bank, drawing>>
    BY <1>4 DEF SubmitWord
  <2>2. /\ next' = [hud |-> TRUE, bank |-> bank] /\ pending' = TRUE
        /\ UNCHANGED <<bitmap, active, column, shown, rejected>>
    BY <2>1 DEF PublishBank
  <2>3. \A w \in 1..Words : bitmap[bank][w] = drawing
    BY <1>4, <2>1
  <2>4. QED
    BY <2>1, <2>2, <2>3
<1>5. QED
  BY <1>1, <1>2, <1>3, <1>4 DEF Preview

\* The processor or the whole device is reset: a half-written bank is not the one shown.
LEMMA HudInvReset ==
  ASSUME HudInv, ArmRestart \/ PlReset
  PROVE  HudInv'
<1> USE DEF HudInv, HudTypes, Whole
<1>1. hpc' = "idle" /\ bank' = 0 /\ word' = 1
  BY DEF ArmRestart, PlReset, Again, OverlayRestart
<1>2. CASE ArmRestart
  BY <1>1, <1>2 DEF ArmRestart, plOverlay
<1>3. CASE PlReset
  BY <1>1, <1>3 DEF PlReset, OverlayReset, NoHud
<1>4. QED
  BY <1>2, <1>3

LEMMA HudInvNext == HudInv /\ [Next]_bringVars => HudInv'
<1> SUFFICES ASSUME HudInv, [Next]_bringVars PROVE HudInv'
  OBVIOUS
<1>1. ASSUME UNCHANGED <<plOverlay, hpc, bank, word, drawing>>
      PROVE  HudInv'
  BY <1>1 DEF HudInv, HudTypes, Whole, plOverlay
<1>2. CASE UNCHANGED bringVars
  BY <1>1, <1>2 DEF bringVars, overlayVars, psOverlay
<1>3. CASE Startup \/ Rearm \/ LoopFails \/ AcceptFrame \/ FrameArrives \/ PixelClock
  BY <1>1, <1>3 DEF Startup, capture_disable, FrontendQuiesce, CsrQuiesce, PrepareCamera,
     video_vdma_s2mm_init_start, video_overlay_init, DisplayInitialize, DisplayRestartClock,
     DisplayStart, DmaAndDecoderInit, frontend_enable, frame_receiver_init, CsrPersistent,
     camera_control_validate_input, capture_enable, Rearm, LoopFails, AcceptFrame, FrameArrives,
     PixelClock, overlayVars, psOverlay
<1>4. CASE Preview
  BY <1>4, HudInvPreview
<1>5. CASE ScanOut
  BY <1>5, HudInvScan DEF ScanOut
<1>6. CASE ArmRestart \/ PlReset
  BY <1>6, HudInvReset
<1>7. QED
  BY <1>2, <1>3, <1>4, <1>5, <1>6 DEF Next

\* A scanned-out frame shows one drawing, whole, and no write is ever refused.
THEOREM HudIsWhole == Spec => []HudWhole
<1>1. ASSUME HudInv PROVE HudWhole
  <2>1. PICK d : shown \subseteq {d}
    BY <1>1 DEF HudInv
  <2>2. IsFiniteSet({d}) /\ Cardinality({d}) = 1
    BY FS_Singleton
  <2>3. Cardinality(shown) <= 1
    BY <2>1, <2>2, FS_Subset
  <2>4. QED
    BY <1>1, <2>3 DEF HudInv, HudWhole
<1>2. HudInv => HudWhole
  BY <1>1
<1>3. QED
  BY <1>2, HudInvInit, HudInvNext, PTL DEF Spec

-----------------------------------------------------------------------------
\* The camera needs nothing about the overlay.
HIDE OverlayAssumption

\* An entry of a table: a register and a value.
Pairs == (0..255) \X (0..255)
\* What the tables outside of the two writes of COM8 may address.
Entry(e) == /\ e[1] \in 0..255 /\ e[2] \in 0..255
            /\ e[1] \notin {COM2, COM8, CLKRC, PID, VER, PLL}
            /\ e[1] = COM7 => e[2] < 128

\* The parameters of the automatic controls.
LEMMA TuningRegs ==
  Tuning \subseteq {0, 16, 13, 20, 165, 171, 36, 37, 38, 159, 160, 161, 166, 167, 168, 169, 170,
                    67, 68, 69, 70, 71, 72, 89, 90, 91, 92, 93, 94, 108, 109, 110, 111, 106, 1, 2}
<1>1. \A i \in 2..18 : ov7670_aec_agc_regs[i][1] \in
        {0, 16, 13, 20, 165, 171, 36, 37, 38, 159, 160, 161, 166, 167, 168, 169, 170}
  BY DEF ov7670_aec_agc_regs
<1>2. Len(ov7670_aec_agc_regs) = 18 /\ DOMAIN ov7670_awb_regs = 1..19
  BY DEF ov7670_aec_agc_regs, ov7670_awb_regs
<1>3. \A i \in 1..19 : ov7670_awb_regs[i][1] \in
        {67, 68, 69, 70, 71, 72, 89, 90, 91, 92, 93, 94, 108, 109, 110, 111, 106, 1, 2}
  BY DEF ov7670_awb_regs
<1>4. QED
  BY <1>1, <1>2, <1>3 DEF Tuning

\* The tables, one by one: where the automatic controls are turned off and on, and
\* that no other entry touches them, resets the sensor or changes its drive strength.
LEMMA VgaAt ==
  /\ ov7670_vga_regs \in Seq(Pairs) /\ Len(ov7670_vga_regs) = 17
  /\ \A i \in 1..17 : Entry(ov7670_vga_regs[i]) /\ ov7670_vga_regs[i][1] \notin Tuning
  /\ ov7670_vga_regs[2][1] = COM7 /\ ov7670_vga_regs[11][1] = XSC /\ ov7670_vga_regs[12][1] = YSC
  /\ ov7670_vga_regs[10][1] = COM14 /\ ov7670_vga_regs[16][1] = COM10
<1> USE DEF ov7670_vga_regs
<1>1. ov7670_vga_regs \in Seq(Pairs) /\ Len(ov7670_vga_regs) = 17
  BY DEF Pairs
<1>2. \A i \in 1..17 : Entry(ov7670_vga_regs[i])
  BY DEF Entry, COM2, COM7, COM8, CLKRC, PID, VER, PLL
<1>3. \A i \in 1..17 : ov7670_vga_regs[i][1] \notin Tuning
  BY TuningRegs
<1>4. /\ ov7670_vga_regs[2][1] = COM7 /\ ov7670_vga_regs[11][1] = XSC
      /\ ov7670_vga_regs[12][1] = YSC /\ ov7670_vga_regs[10][1] = COM14
      /\ ov7670_vga_regs[16][1] = COM10
  BY DEF COM7, XSC, YSC, COM10, COM14
<1>5. QED
  BY <1>1, <1>2, <1>3, <1>4

\* The gamma curve.
LEMMA GammaAt ==
  /\ ov7670_gamma_regs \in Seq(Pairs) /\ Len(ov7670_gamma_regs) = 16
  /\ \A i \in 1..16 : Entry(ov7670_gamma_regs[i]) /\ ov7670_gamma_regs[i][1] \notin Tuning
<1> USE DEF ov7670_gamma_regs
<1>1. ov7670_gamma_regs \in Seq(Pairs) /\ Len(ov7670_gamma_regs) = 16
  BY DEF Pairs
<1>2. \A i \in 1..16 : Entry(ov7670_gamma_regs[i])
  BY DEF Entry, COM2, COM7, COM8, CLKRC, PID, VER, PLL
<1>3. \A i \in 1..16 : ov7670_gamma_regs[i][1] \notin Tuning
  BY TuningRegs
<1>4. QED
  BY <1>1, <1>2, <1>3

\* The exposure control.
LEMMA AecAt ==
  /\ ov7670_aec_agc_regs \in Seq(Pairs) /\ Len(ov7670_aec_agc_regs) = 18
  /\ ov7670_aec_agc_regs[1] = <<COM8, 224>>
  /\ \A i \in 2..18 : Entry(ov7670_aec_agc_regs[i])
<1> USE DEF ov7670_aec_agc_regs
<1>1. ov7670_aec_agc_regs \in Seq(Pairs) /\ Len(ov7670_aec_agc_regs) = 18
  BY DEF Pairs
<1>2. ov7670_aec_agc_regs[1] = <<COM8, 224>>
  BY DEF COM8
<1>3. \A i \in 2..18 : Entry(ov7670_aec_agc_regs[i])
  BY DEF Entry, COM2, COM7, COM8, CLKRC, PID, VER, PLL
<1>4. QED
  BY <1>1, <1>2, <1>3

\* The sensor array and the analogue part.
LEMMA SensorAt ==
  /\ ov7670_sensor_regs \in Seq(Pairs) /\ Len(ov7670_sensor_regs) = 29
  /\ \A i \in 1..29 : Entry(ov7670_sensor_regs[i])
<1>1. ov7670_sensor_regs \in Seq(Pairs) /\ Len(ov7670_sensor_regs) = 29
  BY DEF ov7670_sensor_regs, Pairs
<1>2. \A i \in 1..29 : Entry(ov7670_sensor_regs[i])
  BY DEF ov7670_sensor_regs, Entry, COM2, COM7, COM8, CLKRC, PID, VER, PLL
<1>3. QED
  BY <1>1, <1>2

\* The white balance.
LEMMA AwbAt ==
  /\ ov7670_awb_regs \in Seq(Pairs) /\ Len(ov7670_awb_regs) = 19
  /\ \A i \in 1..19 : Entry(ov7670_awb_regs[i])
<1>1. ov7670_awb_regs \in Seq(Pairs) /\ Len(ov7670_awb_regs) = 19
  BY DEF ov7670_awb_regs, Pairs
<1>2. \A i \in 1..19 : Entry(ov7670_awb_regs[i])
  BY DEF ov7670_awb_regs, Entry, COM2, COM7, COM8, CLKRC, PID, VER, PLL
<1>3. QED
  BY <1>1, <1>2

\* The signal processor.
LEMMA DspAt ==
  /\ ov7670_dsp_regs \in Seq(Pairs) /\ Len(ov7670_dsp_regs) = 11
  /\ \A i \in 1..11 : Entry(ov7670_dsp_regs[i])
  /\ ov7670_dsp_regs[11][1] = COM11
<1>1. ov7670_dsp_regs \in Seq(Pairs) /\ Len(ov7670_dsp_regs) = 11
  BY DEF ov7670_dsp_regs, Pairs
<1>2. \A i \in 1..11 : Entry(ov7670_dsp_regs[i])
  BY DEF ov7670_dsp_regs, Entry, COM2, COM7, COM8, CLKRC, PID, VER, PLL
<1>3. ov7670_dsp_regs[11][1] = COM11
  BY DEF ov7670_dsp_regs, COM11
<1>4. QED
  BY <1>1, <1>2, <1>3

\* The frame format.
LEMMA FormatAt ==
  /\ ov7670_rgb565_regs \in Seq(Pairs) /\ Len(ov7670_rgb565_regs) = 18
  /\ ov7670_rgb565_regs[15] = <<COM8, 231>> /\ ov7670_rgb565_regs[4][1] = COM15
  /\ \A i \in 1..14 \cup 16..18 : Entry(ov7670_rgb565_regs[i])
  /\ \A i \in 16..18 : ov7670_rgb565_regs[i][1] \notin Tuning
<1> USE DEF ov7670_rgb565_regs
<1>1. ov7670_rgb565_regs \in Seq(Pairs) /\ Len(ov7670_rgb565_regs) = 18
  BY DEF Pairs
<1>2. ov7670_rgb565_regs[15] = <<COM8, 231>> /\ ov7670_rgb565_regs[4][1] = COM15
  BY DEF COM8, COM15
<1>3. \A i \in 1..14 \cup 16..18 : Entry(ov7670_rgb565_regs[i])
  BY DEF Entry, COM2, COM7, COM8, CLKRC, PID, VER, PLL
<1>4. \A i \in 16..18 : ov7670_rgb565_regs[i][1] \notin Tuning
  BY TuningRegs
<1>5. QED
  BY <1>1, <1>2, <1>3, <1>4


\* Two sequences, one after the other.
LEMMA Glued ==
  ASSUME NEW S, NEW s \in Seq(S), NEW t \in Seq(S)
  PROVE  /\ s \o t \in Seq(S) /\ Len(s \o t) = Len(s) + Len(t)
         /\ \A i \in 1..Len(s) : (s \o t)[i] = s[i]
         /\ \A i \in 1..Len(t) : (s \o t)[Len(s) + i] = t[i]
<1>1. /\ s \o t \in Seq(S) /\ Len(s \o t) = Len(s) + Len(t)
      /\ \A i \in 1..(Len(s) + Len(t)) : (s \o t)[i] = IF i <= Len(s) THEN s[i] ELSE t[i - Len(s)]
  BY ConcatProperties
<1>2. Len(s) \in Nat /\ Len(t) \in Nat
  OBVIOUS
<1>3. \A i \in 1..Len(s) : i \in 1..(Len(s) + Len(t)) /\ i <= Len(s)
  BY <1>2
<1>4. \A i \in 1..Len(t) : Len(s) + i \in 1..(Len(s) + Len(t)) /\ ~(Len(s) + i <= Len(s))
                           /\ (Len(s) + i) - Len(s) = i
  BY <1>2
<1>5. \A i \in 1..Len(s) : (s \o t)[i] = s[i]
  BY <1>1, <1>3, Zenon
<1>6. \A i \in 1..Len(t) : (s \o t)[Len(s) + i] = t[i]
  BY <1>1, <1>4, Zenon
<1>7. QED
  BY <1>1, <1>5, <1>6, Zenon

\* A function on 1..n is a sequence of length n.
LEMMA Listed ==
  ASSUME NEW S, NEW n \in Nat, NEW f \in [1..n -> S]
  PROVE  f \in Seq(S) /\ Len(f) = n
OBVIOUS

\* The tables one after the other.
LEMMA TablesAt ==
  /\ Tables \in Seq(Pairs) /\ Len(Tables) = 128
  /\ Tables[34] = <<COM8, 224>> /\ Tables[125] = <<COM8, 231>>
  /\ \A i \in 1..128 \ {34, 125} : Entry(Tables[i])
  /\ \A i \in 1..128 : Tables[i][1] \in Tuning => i \in 35..124
  /\ Tables[2][1] = COM7 /\ Tables[114][1] = COM15 /\ Tables[11][1] = XSC /\ Tables[12][1] = YSC
  /\ Tables[16][1] = COM10 /\ Tables[110][1] = COM11 /\ Tables[10][1] = COM14
<1> DEFINE a == ov7670_vga_regs \o ov7670_gamma_regs
           b == a \o ov7670_aec_agc_regs
           c == b \o ov7670_sensor_regs
           d == c \o ov7670_awb_regs
           e == d \o ov7670_dsp_regs
<1>1. Tables = e \o ov7670_rgb565_regs
  BY DEF Tables
<1>2. /\ ov7670_vga_regs \in Seq(Pairs) /\ ov7670_gamma_regs \in Seq(Pairs)
      /\ ov7670_aec_agc_regs \in Seq(Pairs) /\ ov7670_sensor_regs \in Seq(Pairs)
      /\ ov7670_awb_regs \in Seq(Pairs) /\ ov7670_dsp_regs \in Seq(Pairs)
      /\ ov7670_rgb565_regs \in Seq(Pairs)
  BY VgaAt, GammaAt, AecAt, SensorAt, AwbAt, DspAt, FormatAt, Zenon
<1>3. /\ Len(ov7670_vga_regs) = 17 /\ Len(ov7670_gamma_regs) = 16
      /\ Len(ov7670_aec_agc_regs) = 18 /\ Len(ov7670_sensor_regs) = 29
      /\ Len(ov7670_awb_regs) = 19 /\ Len(ov7670_dsp_regs) = 11 /\ Len(ov7670_rgb565_regs) = 18
  BY VgaAt, GammaAt, AecAt, SensorAt, AwbAt, DspAt, FormatAt, Zenon
<1>4. /\ a \in Seq(Pairs) /\ Len(a) = 33
      /\ \A i \in 1..17 : a[i] = ov7670_vga_regs[i]
      /\ \A i \in 1..16 : a[17 + i] = ov7670_gamma_regs[i]
  <2>1. /\ a \in Seq(Pairs) /\ Len(a) = Len(ov7670_vga_regs) + Len(ov7670_gamma_regs)
        /\ \A i \in 1..Len(ov7670_vga_regs) : a[i] = ov7670_vga_regs[i]
        /\ \A i \in 1..Len(ov7670_gamma_regs) : a[Len(ov7670_vga_regs) + i] = ov7670_gamma_regs[i]
    BY <1>2, Glued
  <2> HIDE DEF a
  <2>2. QED
    BY <1>3, <2>1
<1> HIDE DEF a
<1>5. /\ b \in Seq(Pairs) /\ Len(b) = 51
      /\ \A i \in 1..33 : b[i] = a[i]
      /\ \A i \in 1..18 : b[33 + i] = ov7670_aec_agc_regs[i]
  <2>1. a \in Seq(Pairs)
    BY <1>4
  <2>2. /\ b \in Seq(Pairs) /\ Len(b) = Len(a) + Len(ov7670_aec_agc_regs)
        /\ \A i \in 1..Len(a) : b[i] = a[i]
        /\ \A i \in 1..Len(ov7670_aec_agc_regs) : b[Len(a) + i] = ov7670_aec_agc_regs[i]
    BY <1>2, <2>1, Glued
  <2> HIDE DEF b
  <2>3. QED
    BY <1>3, <1>4, <2>2
<1> HIDE DEF b
<1>6. /\ c \in Seq(Pairs) /\ Len(c) = 80
      /\ \A i \in 1..51 : c[i] = b[i]
      /\ \A i \in 1..29 : c[51 + i] = ov7670_sensor_regs[i]
  <2>1. b \in Seq(Pairs)
    BY <1>5
  <2>2. /\ c \in Seq(Pairs) /\ Len(c) = Len(b) + Len(ov7670_sensor_regs)
        /\ \A i \in 1..Len(b) : c[i] = b[i]
        /\ \A i \in 1..Len(ov7670_sensor_regs) : c[Len(b) + i] = ov7670_sensor_regs[i]
    BY <1>2, <2>1, Glued
  <2> HIDE DEF c
  <2>3. QED
    BY <1>3, <1>5, <2>2
<1> HIDE DEF c
<1>7. /\ d \in Seq(Pairs) /\ Len(d) = 99
      /\ \A i \in 1..80 : d[i] = c[i]
      /\ \A i \in 1..19 : d[80 + i] = ov7670_awb_regs[i]
  <2>1. c \in Seq(Pairs)
    BY <1>6
  <2>2. /\ d \in Seq(Pairs) /\ Len(d) = Len(c) + Len(ov7670_awb_regs)
        /\ \A i \in 1..Len(c) : d[i] = c[i]
        /\ \A i \in 1..Len(ov7670_awb_regs) : d[Len(c) + i] = ov7670_awb_regs[i]
    BY <1>2, <2>1, Glued
  <2> HIDE DEF d
  <2>3. QED
    BY <1>3, <1>6, <2>2
<1> HIDE DEF d
<1>8. /\ e \in Seq(Pairs) /\ Len(e) = 110
      /\ \A i \in 1..99 : e[i] = d[i]
      /\ \A i \in 1..11 : e[99 + i] = ov7670_dsp_regs[i]
  <2>1. d \in Seq(Pairs)
    BY <1>7
  <2>2. /\ e \in Seq(Pairs) /\ Len(e) = Len(d) + Len(ov7670_dsp_regs)
        /\ \A i \in 1..Len(d) : e[i] = d[i]
        /\ \A i \in 1..Len(ov7670_dsp_regs) : e[Len(d) + i] = ov7670_dsp_regs[i]
    BY <1>2, <2>1, Glued
  <2> HIDE DEF e
  <2>3. QED
    BY <1>3, <1>7, <2>2
<1> HIDE DEF e
<1>9. /\ Tables \in Seq(Pairs) /\ Len(Tables) = 128
      /\ \A i \in 1..110 : Tables[i] = e[i]
      /\ \A i \in 1..18 : Tables[110 + i] = ov7670_rgb565_regs[i]
  <2>1. e \in Seq(Pairs)
    BY <1>8
  <2>2. /\ Tables \in Seq(Pairs) /\ Len(Tables) = Len(e) + Len(ov7670_rgb565_regs)
        /\ \A i \in 1..Len(e) : Tables[i] = e[i]
        /\ \A i \in 1..Len(ov7670_rgb565_regs) : Tables[Len(e) + i] = ov7670_rgb565_regs[i]
    BY <1>1, <1>2, <2>1, Glued
  <2>3. QED
    BY <1>3, <1>8, <2>2
\* Every entry of Tables is the one of its table.
<1>10. /\ \A i \in 1..17 : Tables[i] = ov7670_vga_regs[i]
       /\ \A i \in 1..16 : Tables[17 + i] = ov7670_gamma_regs[i]
       /\ \A i \in 1..18 : Tables[33 + i] = ov7670_aec_agc_regs[i]
  BY <1>4, <1>5, <1>6, <1>7, <1>8, <1>9
<1>11. /\ \A i \in 1..29 : Tables[51 + i] = ov7670_sensor_regs[i]
       /\ \A i \in 1..19 : Tables[80 + i] = ov7670_awb_regs[i]
       /\ \A i \in 1..11 : Tables[99 + i] = ov7670_dsp_regs[i]
  BY <1>6, <1>7, <1>8, <1>9
<1>12. \A i \in 1..128 :
         \/ i \in 1..17
         \/ \E k \in 1..16 : i = 17 + k
         \/ \E k \in 1..18 : i = 33 + k
         \/ \E k \in 1..29 : i = 51 + k
         \/ \E k \in 1..19 : i = 80 + k
         \/ \E k \in 1..11 : i = 99 + k
         \/ \E k \in 1..18 : i = 110 + k
  <2>1. ASSUME NEW i \in 1..128, NEW m \in Nat, NEW n \in Nat, m < i, i <= m + n
        PROVE  \E k \in 1..n : i = m + k
    <3>1. i - m \in 1..n /\ i = m + (i - m)
      BY <2>1
    <3>2. QED
      BY <3>1, Zenon
  <2>2. ASSUME NEW i \in 1..128
        PROVE  \/ i \in 1..17 \/ (17 < i /\ i <= 17 + 16) \/ (33 < i /\ i <= 33 + 18)
               \/ (51 < i /\ i <= 51 + 29) \/ (80 < i /\ i <= 80 + 19)
               \/ (99 < i /\ i <= 99 + 11) \/ (110 < i /\ i <= 110 + 18)
    OBVIOUS
  <2>3. QED
    BY <2>1, <2>2
<1>13. COM8 \notin Tuning
  BY TuningRegs DEF COM8
<1>14. \A k \in 1..17 : Entry(Tables[k]) /\ Tables[k][1] \notin Tuning
  BY <1>10, VgaAt
<1>15. \A k \in 1..16 : Entry(Tables[17 + k]) /\ Tables[17 + k][1] \notin Tuning
  BY <1>10, GammaAt
<1>16. /\ \A k \in 2..18 : Entry(Tables[33 + k])
       /\ Tables[34] = <<COM8, 224>>
  <2>1. \A k \in 2..18 : k \in 1..18
    OBVIOUS
  <2>2. \A k \in 2..18 : Entry(Tables[33 + k])
    BY <1>10, <2>1, AecAt, Zenon
  <2>3. 1 \in 1..18 /\ 33 + 1 = 34
    OBVIOUS
  <2>4. Tables[34] = ov7670_aec_agc_regs[1]
    BY <1>10, <2>3, Zenon
  <2>5. QED
    BY <2>2, <2>4, AecAt, Zenon
<1>17. /\ \A k \in 1..29 : Entry(Tables[51 + k])
       /\ \A k \in 1..19 : Entry(Tables[80 + k])
       /\ \A k \in 1..11 : Entry(Tables[99 + k])
  BY <1>11, SensorAt, AwbAt, DspAt
<1>18. /\ \A k \in 1..14 \cup 16..18 : Entry(Tables[110 + k])
       /\ \A k \in 16..18 : Tables[110 + k][1] \notin Tuning
       /\ Tables[125] = <<COM8, 231>> /\ Tables[114][1] = COM15
  <2>1. \A k \in 1..14 \cup 16..18 : k \in 1..18
    OBVIOUS
  <2>2. \A k \in 16..18 : k \in 1..18
    OBVIOUS
  <2>3. \A k \in 1..18 : Tables[110 + k] = ov7670_rgb565_regs[k]
    BY <1>9, Zenon
  <2>4. Tables[125] = ov7670_rgb565_regs[15] /\ Tables[114] = ov7670_rgb565_regs[4]
    BY <2>3
  <2>5. \A k \in 1..14 \cup 16..18 : Entry(Tables[110 + k])
    BY <1>9, <2>1, FormatAt, Zenon
  <2>6. \A k \in 16..18 : Tables[110 + k][1] \notin Tuning
    BY <1>9, <2>2, FormatAt, Zenon
  <2>7. QED
    BY <2>4, <2>5, <2>6, FormatAt, Zenon
<1>19. ASSUME NEW i \in 1..128 \ {34, 125}
       PROVE  Entry(Tables[i])
  <2>1. CASE i \in 1..17
    BY <1>14, <2>1
  <2>2. CASE \E k \in 1..16 : i = 17 + k
    BY <1>15, <2>2
  <2>3. CASE \E k \in 1..18 : i = 33 + k
    <3>1. PICK k \in 1..18 : i = 33 + k
      BY <2>3
    <3>2. k \in 2..18
      BY <3>1
    <3>3. QED
      BY <1>16, <3>1, <3>2, Zenon
  <2>4. CASE \E k \in 1..29 : i = 51 + k
    BY <1>17, <2>4, Zenon
  <2>5. CASE \E k \in 1..19 : i = 80 + k
    BY <1>17, <2>5, Zenon
  <2>6. CASE \E k \in 1..11 : i = 99 + k
    BY <1>17, <2>6, Zenon
  <2>7. CASE \E k \in 1..18 : i = 110 + k
    <3>1. PICK k \in 1..18 : i = 110 + k
      BY <2>7
    <3>2. k \in 1..14 \cup 16..18
      BY <3>1
    <3>3. QED
      BY <1>18, <3>1, <3>2, Zenon
  <2>8. i \in 1..128
    OBVIOUS
  <2>9. QED
    BY <1>12, <2>1, <2>2, <2>3, <2>4, <2>5, <2>6, <2>7, <2>8, Zenon
<1>20. ASSUME NEW i \in 1..128, Tables[i][1] \in Tuning
       PROVE  i \in 35..124
  <2>1. i \notin 1..17
    BY <1>14, <1>20
  <2>2. ~\E k \in 1..16 : i = 17 + k
    BY <1>15, <1>20
  <2>3. i # 34 /\ i # 125
    <3>1. Tables[34] = <<COM8, 224>> /\ Tables[125] = <<COM8, 231>>
      BY <1>16, <1>18, Zenon
    <3>2. QED
      BY <1>13, <1>20, <3>1
  <2>4. ~\E k \in 16..18 : i = 110 + k
    BY <1>18, <1>20, Zenon
  <2>5. CASE \E k \in 1..18 : i = 110 + k
    <3>1. PICK k \in 1..18 : i = 110 + k
      BY <2>5
    <3>2. k \notin 16..18
      BY <2>4, <3>1, Zenon
    <3>3. QED
      BY <2>3, <3>1, <3>2
  <2>6. CASE \/ \E k \in 1..18 : i = 33 + k
             \/ \E k \in 1..29 : i = 51 + k
             \/ \E k \in 1..19 : i = 80 + k
             \/ \E k \in 1..11 : i = 99 + k
    BY <2>3, <2>6
  <2>7. QED
    BY <1>12, <2>1, <2>2, <2>5, <2>6, Zenon
<1>21. /\ Tables[2][1] = COM7 /\ Tables[11][1] = XSC /\ Tables[12][1] = YSC
       /\ Tables[10][1] = COM14 /\ Tables[16][1] = COM10
  <2>1. 2 \in 1..17 /\ 11 \in 1..17 /\ 12 \in 1..17 /\ 10 \in 1..17 /\ 16 \in 1..17
    OBVIOUS
  <2>2. QED
    BY <1>10, <2>1, VgaAt, Zenon
<1>22. Tables[110][1] = COM11
  <2>1. \A k \in 1..11 : Tables[99 + k] = ov7670_dsp_regs[k]
    BY <1>11, Zenon
  <2>2. Tables[110] = ov7670_dsp_regs[11]
    BY <2>1
  <2>3. QED
    BY <2>2, DspAt, Zenon
<1>23. QED
  BY <1>9, <1>16, <1>18, <1>19, <1>20, <1>21, <1>22, Zenon

\* A transfer over the control bus.
Transfers == [reg : 0..255, value : Nat, write : BOOLEAN]

\* The configuration: 130 writes, then the four reads of the comparison.
LEMMA ConfigurationAt ==
  /\ Configuration \in Seq(Transfers) /\ Len(Configuration) = 134
  /\ Configuration[1] = Write(CLKRC, Clkrc) /\ Configuration[130] = Write(CLKRC, Clkrc)
  /\ \A i \in 1..128 : Configuration[1 + i] = Write(Tables[i][1], Tables[i][2])
  /\ Configuration[131] = Read(COM7) /\ Configuration[132] = Read(COM15)
  /\ Configuration[133] = Read(XSC) /\ Configuration[134] = Read(YSC)
<1> DEFINE first == <<Write(CLKRC, Clkrc)>>
           b == first \o Writes(Tables)
           c == b \o first
           last == Reads(<<COM7, COM15, XSC, YSC>>)
<1>1. first \in Seq(Transfers) /\ Len(first) = 1 /\ first[1] = Write(CLKRC, Clkrc)
  BY CameraAssumption DEF Write, Transfers, CLKRC
<1>2. /\ Writes(Tables) \in Seq(Transfers) /\ Len(Writes(Tables)) = 128
      /\ \A i \in 1..128 : Writes(Tables)[i] = Write(Tables[i][1], Tables[i][2])
  <2>0. Tables \in Seq(Pairs) /\ Len(Tables) = 128
    BY TablesAt, Zenon
  <2>1. DOMAIN Tables = 1..128 /\ \A i \in 1..128 : Tables[i] \in Pairs
    <3>1. Tables \in [1..Len(Tables) -> Pairs]
      BY <2>0, LenProperties, Zenon
    <3>2. Tables \in [1..128 -> Pairs]
      BY <2>0, <3>1, Zenon
    <3>3. QED
      BY <3>2, Zenon
  <2>2. \A i \in 1..128 : Tables[i][1] \in 0..255 /\ Tables[i][2] \in 0..255
    BY <2>1 DEF Pairs
  <2>3. Writes(Tables) = [i \in 1..128 |-> Write(Tables[i][1], Tables[i][2])]
    BY <2>1 DEF Writes
  <2>4. ASSUME NEW i \in 1..128
        PROVE  Write(Tables[i][1], Tables[i][2]) \in Transfers
    <3>1. Tables[i][1] \in 0..255 /\ Tables[i][2] \in 0..255
      BY <2>2
    <3>2. QED
      BY <3>1 DEF Write, Transfers
  <2>5. Writes(Tables) \in [1..128 -> Transfers]
    BY <2>3, <2>4
  <2>6. Writes(Tables) \in Seq(Transfers) /\ Len(Writes(Tables)) = 128
    BY <2>5, Listed
  <2>7. QED
    BY <2>3, <2>6
<1>3. /\ last \in Seq(Transfers) /\ Len(last) = 4
      /\ last[1] = Read(COM7) /\ last[2] = Read(COM15)
      /\ last[3] = Read(XSC) /\ last[4] = Read(YSC)
  <2> DEFINE four == <<COM7, COM15, XSC, YSC>>
  <2>1. /\ DOMAIN four = 1..4 /\ four[1] = COM7 /\ four[2] = COM15
        /\ four[3] = XSC /\ four[4] = YSC
    OBVIOUS
  <2>2. \A i \in 1..4 : four[i] \in 0..255
    BY DEF COM7, COM15, XSC, YSC
  <2> HIDE DEF four
  <2>3. last = [i \in 1..4 |-> Read(four[i])]
    BY <2>1 DEF Reads, four
  <2>4. \A i \in 1..4 : Read(four[i]) \in Transfers
    BY <2>2 DEF Read, Transfers
  <2>5. last \in [1..4 -> Transfers]
    BY <2>3, <2>4
  <2>6. last \in Seq(Transfers) /\ Len(last) = 4
    BY <2>5, Listed
  <2>7. QED
    BY <2>1, <2>3, <2>6
<1> HIDE DEF first, last
<1>4. /\ b \in Seq(Transfers) /\ Len(b) = 129 /\ b[1] = Write(CLKRC, Clkrc)
      /\ \A i \in 1..128 : b[1 + i] = Write(Tables[i][1], Tables[i][2])
  <2>1. first \in Seq(Transfers) /\ Writes(Tables) \in Seq(Transfers)
    BY <1>1, <1>2
  <2>2. /\ b \in Seq(Transfers) /\ Len(b) = Len(first) + Len(Writes(Tables))
        /\ \A i \in 1..Len(first) : b[i] = first[i]
        /\ \A i \in 1..Len(Writes(Tables)) : b[Len(first) + i] = Writes(Tables)[i]
    BY <2>1, Glued
  <2> HIDE DEF b
  <2>3. QED
    BY <1>1, <1>2, <2>2
<1> HIDE DEF b
<1>5. /\ c \in Seq(Transfers) /\ Len(c) = 130
      /\ \A i \in 1..129 : c[i] = b[i]
      /\ c[130] = Write(CLKRC, Clkrc)
  <2>1. first \in Seq(Transfers) /\ b \in Seq(Transfers)
    BY <1>1, <1>4
  <2>2. /\ c \in Seq(Transfers) /\ Len(c) = Len(b) + Len(first)
        /\ \A i \in 1..Len(b) : c[i] = b[i]
        /\ \A i \in 1..Len(first) : c[Len(b) + i] = first[i]
    BY <2>1, Glued
  <2> HIDE DEF c
  <2>3. c[129 + 1] = first[1]
    BY <1>1, <1>4, <2>2
  <2>4. QED
    BY <1>1, <1>4, <2>2, <2>3
<1> HIDE DEF c
<1>6. /\ Configuration \in Seq(Transfers) /\ Len(Configuration) = 134
      /\ \A i \in 1..130 : Configuration[i] = c[i]
      /\ \A i \in 1..4 : Configuration[130 + i] = last[i]
  <2>1. last \in Seq(Transfers) /\ c \in Seq(Transfers)
    BY <1>3, <1>5
  <2>2. Configuration = c \o last
    BY DEF Configuration, c, b, first, last
  <2>3. /\ Configuration \in Seq(Transfers) /\ Len(Configuration) = Len(c) + Len(last)
        /\ \A i \in 1..Len(c) : Configuration[i] = c[i]
        /\ \A i \in 1..Len(last) : Configuration[Len(c) + i] = last[i]
    BY <2>1, <2>2, Glued
  <2>4. QED
    BY <1>3, <1>5, <2>3
<1>7. /\ Configuration[1] = b[1] /\ Configuration[130] = c[130]
      /\ \A i \in 1..128 : Configuration[1 + i] = b[1 + i]
  BY <1>5, <1>6
<1>8. /\ Configuration[131] = last[1] /\ Configuration[132] = last[2]
      /\ Configuration[133] = last[3] /\ Configuration[134] = last[4]
  <2>1. \A i \in 1..4 : Configuration[130 + i] = last[i]
    BY <1>6
  <2>2. QED
    BY <2>1
<1>9. QED
  BY <1>3, <1>4, <1>5, <1>6, <1>7, <1>8, Zenon

\* The position in the configuration of the last write of register r, as in Final.
LastOf(r) ==
  CHOOSE i \in DOMAIN Configuration :
    /\ Configuration[i].write /\ Configuration[i].reg = r
    /\ \A j \in DOMAIN Configuration :
         Configuration[j].write /\ Configuration[j].reg = r => j <= i

\* A bounded set of positions has a greatest one.
LEMMA Greatest ==
  ASSUME NEW n \in Nat, NEW T, T \subseteq 1..n, T # {}
  PROVE  \E i \in T : \A j \in T : j <= i
<1> DEFINE R == OpToRel(<, Nat)
           U == {n - i : i \in T}
<1>1. IsWellFoundedOn(R, Nat)
  BY NatLessThanWellFounded
<1>2. U \subseteq Nat /\ U # {}
  <2>1. \A i \in T : n - i \in Nat
    OBVIOUS
  <2>2. PICK i \in T : TRUE
    OBVIOUS
  <2>3. n - i \in U
    OBVIOUS
  <2>4. QED
    BY <2>1, <2>3
<1>3. PICK u \in U : \A v \in U : <<v, u>> \notin R
  BY <1>1, <1>2, WFMin
<1>4. \A v \in U : ~(v < u)
  BY <1>2, <1>3 DEF OpToRel
<1>5. PICK i \in T : u = n - i
  OBVIOUS
<1>6. \A j \in T : ~(n - j < n - i)
  BY <1>4, <1>5
<1>7. QED
  BY <1>6

\* Position by position: which registers are written, and which are read.
LEMMA ConfigurationSplit ==
  /\ DOMAIN Configuration = 1..134
  /\ \A i \in 1..130 : Configuration[i].write /\ Configuration[i].reg \in 0..255
  /\ \A i \in 131..134 : ~Configuration[i].write
  /\ \A i \in 2..129 : /\ Configuration[i].reg = Tables[i - 1][1]
                       /\ Configuration[i].value = Tables[i - 1][2]
  /\ \A i \in {1, 130} : Configuration[i].reg = CLKRC /\ Configuration[i].value = Clkrc
  /\ Configuration[131].reg = COM7 /\ Configuration[132].reg = COM15
  /\ Configuration[133].reg = XSC /\ Configuration[134].reg = YSC
<1>1. DOMAIN Configuration = 1..134
  <2>1. Configuration \in Seq(Transfers) /\ Len(Configuration) = 134
    BY ConfigurationAt, Zenon
  <2>2. Configuration \in [1..Len(Configuration) -> Transfers]
    BY <2>1, LenProperties, Zenon
  <2>3. Configuration \in [1..134 -> Transfers]
    BY <2>1, <2>2, Zenon
  <2>4. QED
    BY <2>3, Zenon
<1>2. /\ Configuration[1] = Write(CLKRC, Clkrc) /\ Configuration[130] = Write(CLKRC, Clkrc)
      /\ Configuration[131] = Read(COM7) /\ Configuration[132] = Read(COM15)
      /\ Configuration[133] = Read(XSC) /\ Configuration[134] = Read(YSC)
  BY ConfigurationAt, Zenon
<1>3. \A k \in 1..128 : Configuration[1 + k] = Write(Tables[k][1], Tables[k][2])
  BY ConfigurationAt, Zenon
<1>4. ASSUME NEW i \in 2..129
      PROVE  /\ Configuration[i].reg = Tables[i - 1][1]
             /\ Configuration[i].value = Tables[i - 1][2] /\ Configuration[i].write
  <2>1. i - 1 \in 1..128 /\ 1 + (i - 1) = i
    OBVIOUS
  <2>2. Configuration[i] = Write(Tables[i - 1][1], Tables[i - 1][2])
    BY <1>3, <2>1, Zenon
  <2>3. QED
    BY <2>2 DEF Write
<1>6. \A i \in {1, 130} : /\ Configuration[i].reg = CLKRC /\ Configuration[i].value = Clkrc
                          /\ Configuration[i].write
  BY <1>2 DEF Write
<1>7. /\ Configuration[131].reg = COM7 /\ Configuration[132].reg = COM15
      /\ Configuration[133].reg = XSC /\ Configuration[134].reg = YSC
      /\ ~Configuration[131].write /\ ~Configuration[132].write
      /\ ~Configuration[133].write /\ ~Configuration[134].write
  BY <1>2 DEF Read
<1>8. \A i \in 131..134 : ~Configuration[i].write
  BY <1>7
<1>9. ASSUME NEW i \in 2..129
      PROVE  Configuration[i].reg \in 0..255
  <2>1. Tables \in Seq(Pairs) /\ Len(Tables) = 128
    BY TablesAt, Zenon
  <2>2. Tables \in [1..Len(Tables) -> Pairs]
    BY <2>1, LenProperties, Zenon
  <2>3. Tables \in [1..128 -> Pairs]
    BY <2>1, <2>2, Zenon
  <2>4. \A k \in 1..128 : Tables[k][1] \in 0..255
    BY <2>3 DEF Pairs
  <2>5. i - 1 \in 1..128
    OBVIOUS
  <2>6. QED
    BY <1>4, <2>4, <2>5, Zenon
<1>10. ASSUME NEW i \in 1..130
       PROVE  Configuration[i].write /\ Configuration[i].reg \in 0..255
  <2>1. i \in 2..129 \/ i \in {1, 130}
    OBVIOUS
  <2>2. CLKRC \in 0..255
    BY DEF CLKRC
  <2>3. CASE i \in 2..129
    BY <1>4, <1>9, <2>3
  <2>4. CASE i \in {1, 130}
    BY <1>6, <2>2, <2>4
  <2>5. QED
    BY <2>1, <2>3, <2>4
<1>11. \A i \in 2..129 : /\ Configuration[i].reg = Tables[i - 1][1]
                         /\ Configuration[i].value = Tables[i - 1][2]
  BY <1>4, Zenon
<1>12. \A i \in {1, 130} : Configuration[i].reg = CLKRC /\ Configuration[i].value = Clkrc
  BY <1>6, Zenon
<1>13. \A i \in 1..130 : Configuration[i].write /\ Configuration[i].reg \in 0..255
  BY <1>10, Zenon
<1>14. QED
  BY <1>1, <1>7, <1>8, <1>11, <1>12, <1>13, Zenon

\* What the configuration writes: the automatic controls are turned off before their
\* parameters are written and on after them, the sensor is not reset, its drive strength
\* not changed, and the clock is written first and last.
LEMMA ConfigurationWrites ==
  /\ Configuration[35].reg = COM8 /\ Configuration[35].value = 224
  /\ Configuration[126].reg = COM8 /\ Configuration[126].value = 231
  /\ \A i \in 1..130 : Configuration[i].reg = COM8 => i \in {35, 126}
  /\ \A i \in 1..130 : Configuration[i].reg \in Tuning => i \in 36..125
  /\ \A i \in 1..130 : /\ Configuration[i].reg \notin {COM2, PID, VER, PLL}
                       /\ Configuration[i].reg = COM7 => Configuration[i].value < 128
<1>1. /\ \A i \in 2..129 : /\ Configuration[i].reg = Tables[i - 1][1]
                           /\ Configuration[i].value = Tables[i - 1][2]
      /\ \A i \in {1, 130} : Configuration[i].reg = CLKRC
  BY ConfigurationSplit, Zenon
<1>2. Tables[34] = <<COM8, 224>> /\ Tables[125] = <<COM8, 231>>
  BY TablesAt, Zenon
<1>3. \A k \in 1..128 \ {34, 125} : Entry(Tables[k])
  BY TablesAt, Zenon
<1>4. \A k \in 1..128 : Tables[k][1] \in Tuning => k \in 35..124
  BY TablesAt, Zenon
<1>5. /\ Configuration[35].reg = COM8 /\ Configuration[35].value = 224
      /\ Configuration[126].reg = COM8 /\ Configuration[126].value = 231
  BY <1>1, <1>2
<1>6. CLKRC \notin Tuning /\ CLKRC \notin {COM2, PID, VER, PLL, COM7, COM8}
  BY TuningRegs DEF CLKRC, COM2, PID, VER, PLL, COM7, COM8
<1>7. COM8 \notin {COM2, PID, VER, PLL, COM7}
  BY DEF COM2, PID, VER, PLL, COM7, COM8
<1>8. ASSUME NEW i \in 1..130, i \notin {35, 126}
      PROVE  /\ Configuration[i].reg # COM8
             /\ Configuration[i].reg \notin {COM2, PID, VER, PLL}
             /\ Configuration[i].reg = COM7 => Configuration[i].value < 128
  <2>1. CASE i \in {1, 130}
    BY <1>1, <1>6, <2>1
  <2>2. CASE i \in 2..129
    <3>1. i - 1 \in 1..128 \ {34, 125}
      BY <1>8, <2>2
    <3>2. Entry(Tables[i - 1])
      BY <1>3, <3>1, Zenon
    <3>3. QED
      BY <1>1, <2>2, <3>2 DEF Entry
  <2>3. QED
    BY <2>1, <2>2
<1>9. ASSUME NEW i \in 1..130, Configuration[i].reg \in Tuning
      PROVE  i \in 36..125
  <2>1. i \notin {1, 130}
    BY <1>1, <1>6, <1>9, Zenon
  <2>2. i - 1 \in 1..128 /\ i \in 2..129
    BY <2>1
  <2>3. i - 1 \in 35..124
    BY <1>1, <1>4, <1>9, <2>2, Zenon
  <2>4. QED
    BY <2>2, <2>3
<1>10. ASSUME NEW i \in 1..130
       PROVE  /\ Configuration[i].reg \notin {COM2, PID, VER, PLL}
              /\ Configuration[i].reg = COM7 => Configuration[i].value < 128
  <2>1. CASE i \in {35, 126}
    <3>1. Configuration[i].reg = COM8
      BY <1>5, <2>1
    <3>2. QED
      BY <1>7, <3>1, Zenon
  <2>2. CASE i \notin {35, 126}
    BY <1>8, <2>2, Zenon
  <2>3. QED
    BY <2>1, <2>2
<1>11. \A i \in 1..130 : Configuration[i].reg = COM8 => i \in {35, 126}
  BY <1>8, Zenon
<1>12. QED
  BY <1>5, <1>9, <1>10, <1>11, Zenon

\* Every register of the configuration is written, and Final is its last value.
LEMMA LastWrite ==
  ASSUME NEW r \in Written
  PROVE  /\ LastOf(r) \in 1..130 /\ Configuration[LastOf(r)].reg = r
         /\ \A j \in 1..130 : Configuration[j].reg = r => j <= LastOf(r)
         /\ Final[r] = Configuration[LastOf(r)].value
<1>1. /\ DOMAIN Configuration = 1..134
      /\ \A i \in 1..130 : Configuration[i].write
      /\ \A i \in 131..134 : ~Configuration[i].write
      /\ \A i \in 2..129 : Configuration[i].reg = Tables[i - 1][1]
      /\ Configuration[131].reg = COM7 /\ Configuration[132].reg = COM15
      /\ Configuration[133].reg = XSC /\ Configuration[134].reg = YSC
  BY ConfigurationSplit, Zenon
<1>2. /\ Tables[2][1] = COM7 /\ Tables[114][1] = COM15
      /\ Tables[11][1] = XSC /\ Tables[12][1] = YSC
  BY TablesAt, Zenon
<1>3. /\ Configuration[3].reg = COM7 /\ Configuration[115].reg = COM15
      /\ Configuration[12].reg = XSC /\ Configuration[13].reg = YSC
  BY <1>1, <1>2
<1>4. PICK k \in 1..134 : Configuration[k].reg = r
  BY <1>1 DEF Written
<1> DEFINE T == {i \in 1..130 : Configuration[i].reg = r}
<1>5. T # {}
  <2>1. \E i \in 1..130 : Configuration[i].reg = r
    <3>1. CASE k \in 1..130
      BY <1>4, <3>1
    <3>2. CASE k \notin 1..130
      <4>1. r \in {COM7, COM15, XSC, YSC}
        BY <1>1, <1>4, <3>2
      <4>2. 3 \in 1..130 /\ 115 \in 1..130 /\ 12 \in 1..130 /\ 13 \in 1..130
        OBVIOUS
      <4>3. QED
        BY <1>3, <4>1, <4>2, Zenon
    <3>3. QED
      BY <3>1, <3>2
  <2>2. QED
    BY <2>1
<1>6. PICK i \in T : \A j \in T : j <= i
  BY <1>5, Greatest
<1>7. /\ i \in DOMAIN Configuration /\ Configuration[i].write /\ Configuration[i].reg = r
      /\ \A j \in DOMAIN Configuration :
           Configuration[j].write /\ Configuration[j].reg = r => j <= i
  BY <1>1, <1>6
<1>8. /\ LastOf(r) \in DOMAIN Configuration
      /\ Configuration[LastOf(r)].write /\ Configuration[LastOf(r)].reg = r
      /\ \A j \in DOMAIN Configuration :
           Configuration[j].write /\ Configuration[j].reg = r => j <= LastOf(r)
  BY <1>7 DEF LastOf
<1>9. LastOf(r) \in 1..130
  BY <1>1, <1>8
<1>10. ASSUME NEW j \in 1..130, Configuration[j].reg = r
       PROVE  j <= LastOf(r)
  <2>1. j \in DOMAIN Configuration /\ Configuration[j].write
    BY <1>1
  <2>2. QED
    BY <1>8, <1>10, <2>1, Zenon
<1>11. Final[r] = Configuration[LastOf(r)].value
  BY Zenon DEF Final, LastOf
<1>12. QED
  BY <1>8, <1>9, <1>10, <1>11, Zenon

\* At the end the clock has its value and the automatic controls are on.
LEMMA FinalValues ==
  /\ {CLKRC, COM7, COM8, COM10, COM11, COM14, COM15, XSC, YSC} \subseteq Written
  /\ Final[CLKRC] = Clkrc /\ Final[COM8] = 231
  /\ COM2 \notin Written
<1>1. /\ DOMAIN Configuration = 1..134
      /\ \A i \in {1, 130} : Configuration[i].reg = CLKRC /\ Configuration[i].value = Clkrc
      /\ Configuration[131].reg = COM7 /\ Configuration[132].reg = COM15
      /\ Configuration[133].reg = XSC /\ Configuration[134].reg = YSC
  BY ConfigurationSplit, Zenon
<1>2. /\ Configuration[126].reg = COM8 /\ Configuration[126].value = 231
      /\ \A i \in 1..130 : Configuration[i].reg = COM8 => i \in {35, 126}
      /\ \A i \in 1..130 : Configuration[i].reg # COM2
  BY ConfigurationWrites
<1>0. /\ Configuration[17].reg = COM10 /\ Configuration[111].reg = COM11
      /\ Configuration[11].reg = COM14
  <2>1. \A i \in 2..129 : Configuration[i].reg = Tables[i - 1][1]
    BY ConfigurationSplit, Zenon
  <2>2. Tables[16][1] = COM10 /\ Tables[110][1] = COM11 /\ Tables[10][1] = COM14
    BY TablesAt, Zenon
  <2>3. QED
    BY <2>1, <2>2
<1>3. {CLKRC, COM7, COM8, COM10, COM11, COM14, COM15, XSC, YSC} \subseteq Written
  <2>1. \A i \in 1..134 : Configuration[i].reg \in Written
    BY <1>1 DEF Written
  <2>2. /\ Configuration[130].reg \in Written /\ Configuration[126].reg \in Written
        /\ Configuration[131].reg \in Written /\ Configuration[132].reg \in Written
        /\ Configuration[133].reg \in Written /\ Configuration[134].reg \in Written
        /\ Configuration[17].reg \in Written /\ Configuration[111].reg \in Written
        /\ Configuration[11].reg \in Written
    BY <2>1
  <2>3. QED
    BY <1>0, <1>1, <1>2, <2>2
<1>4. LastOf(CLKRC) = 130
  <2>1. /\ LastOf(CLKRC) \in 1..130
        /\ \A j \in 1..130 : Configuration[j].reg = CLKRC => j <= LastOf(CLKRC)
    BY <1>3, LastWrite
  <2>2. Configuration[130].reg = CLKRC /\ 130 \in 1..130
    BY <1>1
  <2>3. 130 <= LastOf(CLKRC)
    BY <2>1, <2>2, Zenon
  <2>4. LastOf(CLKRC) \in 1..130
    BY <2>1, Zenon
  <2>5. QED
    BY <2>3, <2>4
<1>5. LastOf(COM8) = 126
  <2>1. /\ LastOf(COM8) \in 1..130 /\ Configuration[LastOf(COM8)].reg = COM8
        /\ \A j \in 1..130 : Configuration[j].reg = COM8 => j <= LastOf(COM8)
    BY <1>3, LastWrite
  <2>2. LastOf(COM8) \in {35, 126}
    BY <1>2, <2>1, Zenon
  <2>3. 126 \in 1..130
    OBVIOUS
  <2>4. 126 <= LastOf(COM8)
    BY <1>2, <2>1, <2>3, Zenon
  <2>5. QED
    BY <2>2, <2>4
<1>6. COM2 \notin Written
  <2>1. ASSUME COM2 \in Written PROVE FALSE
    <3>1. LastOf(COM2) \in 1..130 /\ Configuration[LastOf(COM2)].reg = COM2
      BY <2>1, LastWrite
    <3>2. QED
      BY <1>2, <3>1
  <2>2. QED
    BY <2>1
<1>7. Final[CLKRC] = Configuration[130].value /\ Final[COM8] = Configuration[126].value
  BY <1>3, <1>4, <1>5, LastWrite
<1>8. QED
  BY <1>1, <1>2, <1>3, <1>6, <1>7

\* How many transfers a routine makes.
Count(t) ==
  CASE t = "probe" -> 2 [] t = "configure" -> 134 [] t = "check" -> 6 [] t = "drive" -> 2
    [] OTHER -> 1

\* A list of registers that are read.
LEMMA ReadsAt ==
  ASSUME NEW S, NEW regs \in Seq(S)
  PROVE  /\ Len(Reads(regs)) = Len(regs)
         /\ \A i \in 1..Len(regs) : Reads(regs)[i] = Read(regs[i])
<1>1. Len(regs) \in Nat /\ DOMAIN regs = 1..Len(regs)
  BY LenProperties
<1>2. Reads(regs) = [i \in 1..Len(regs) |-> Read(regs[i])]
  BY <1>1 DEF Reads
<1>3. Reads(regs) \in [1..Len(regs) -> {Read(regs[i]) : i \in 1..Len(regs)}]
  BY <1>2
<1>4. Len(Reads(regs)) = Len(regs)
  BY <1>1, <1>3, Listed
<1>5. QED
  BY <1>2, <1>4

\* The transfers of the short routines.
LEMMA ScriptAt ==
  /\ Len(Script("reset")) = 1 /\ Script("reset")[1] = Write(COM7, 128)
  /\ Len(Script("probe")) = 2 /\ Script("probe")[1] = Read(PID) /\ Script("probe")[2] = Read(VER)
  /\ Script("configure") = Configuration
  /\ Len(Script("clkrc")) = 1 /\ Script("clkrc")[1] = Read(CLKRC)
  /\ Len(Script("pll")) = 1 /\ Script("pll")[1] = Read(PLL)
  /\ Len(Script("check")) = 6
  /\ Script("check")[1] = Read(COM10) /\ Script("check")[2] = Read(COM11)
  /\ Script("check")[3] = Read(COM14) /\ Script("check")[4] = Read(PLL)
  /\ Script("check")[5] = Read(YSC) /\ Script("check")[6] = Read(COM2)
  /\ Len(Script("drive")) = 2 /\ Script("drive")[2] = Read(COM2)
  /\ Script("drive")[1] = Write(COM2, got[COM2] - (got[COM2] % 4) + Drive)
  /\ Len(Script("arm")) = 1 /\ Script("arm")[1] = Read(CLKRC)
<1>1. /\ Script("reset") = <<Write(COM7, 128)>> /\ Script("probe") = Reads(<<PID, VER>>)
      /\ Script("configure") = Configuration
      /\ Script("clkrc") = Reads(<<CLKRC>>) /\ Script("pll") = Reads(<<PLL>>)
      /\ Script("check") = Reads(<<COM10, COM11, COM14, PLL, YSC, COM2>>)
      /\ Script("drive") = <<Write(COM2, got[COM2] - (got[COM2] % 4) + Drive), Read(COM2)>>
      /\ Script("arm") = Reads(<<CLKRC>>)
  BY DEF Script
<1>2. /\ Len(Reads(<<PID, VER>>)) = 2
      /\ Reads(<<PID, VER>>)[1] = Read(PID) /\ Reads(<<PID, VER>>)[2] = Read(VER)
  <2> DEFINE regs == <<PID, VER>>
  <2>1. regs \in Seq(Nat) /\ Len(regs) = 2 /\ regs[1] = PID /\ regs[2] = VER
    BY DEF PID, VER
  <2> HIDE DEF regs
  <2>2. Len(Reads(regs)) = Len(regs) /\ \A i \in 1..Len(regs) : Reads(regs)[i] = Read(regs[i])
    BY <2>1, ReadsAt
  <2>3. QED
    BY <2>1, <2>2 DEF regs
<1>3. Len(Reads(<<CLKRC>>)) = 1 /\ Reads(<<CLKRC>>)[1] = Read(CLKRC)
  <2> DEFINE regs == <<CLKRC>>
  <2>1. regs \in Seq(Nat) /\ Len(regs) = 1 /\ regs[1] = CLKRC
    BY DEF CLKRC
  <2> HIDE DEF regs
  <2>2. Len(Reads(regs)) = Len(regs) /\ \A i \in 1..Len(regs) : Reads(regs)[i] = Read(regs[i])
    BY <2>1, ReadsAt
  <2>3. QED
    BY <2>1, <2>2 DEF regs
<1>4. Len(Reads(<<PLL>>)) = 1 /\ Reads(<<PLL>>)[1] = Read(PLL)
  <2> DEFINE regs == <<PLL>>
  <2>1. regs \in Seq(Nat) /\ Len(regs) = 1 /\ regs[1] = PLL
    BY DEF PLL
  <2> HIDE DEF regs
  <2>2. Len(Reads(regs)) = Len(regs) /\ \A i \in 1..Len(regs) : Reads(regs)[i] = Read(regs[i])
    BY <2>1, ReadsAt
  <2>3. QED
    BY <2>1, <2>2 DEF regs
<1>5. LET checked == Reads(<<COM10, COM11, COM14, PLL, YSC, COM2>>) IN
      /\ Len(checked) = 6
      /\ checked[1] = Read(COM10) /\ checked[2] = Read(COM11) /\ checked[3] = Read(COM14)
      /\ checked[4] = Read(PLL) /\ checked[5] = Read(YSC) /\ checked[6] = Read(COM2)
  <2> DEFINE regs == <<COM10, COM11, COM14, PLL, YSC, COM2>>
  <2>1. /\ regs \in Seq(Nat) /\ Len(regs) = 6
        /\ regs[1] = COM10 /\ regs[2] = COM11 /\ regs[3] = COM14 /\ regs[4] = PLL
        /\ regs[5] = YSC /\ regs[6] = COM2
    BY DEF COM10, COM11, COM14, PLL, YSC, COM2
  <2> HIDE DEF regs
  <2>2. Len(Reads(regs)) = Len(regs) /\ \A i \in 1..Len(regs) : Reads(regs)[i] = Read(regs[i])
    BY <2>1, ReadsAt
  <2>3. QED
    BY <2>1, <2>2 DEF regs
<1>6. QED
  BY <1>1, <1>2, <1>3, <1>4, <1>5

\* Every routine makes at least one transfer.
LEMMA Counted ==
  ASSUME NEW t \in Tasks
  PROVE  Len(Script(t)) = Count(t) /\ Count(t) \in Nat \ {0}
<1>1. Len(Script("configure")) = 134
  BY ScriptAt, ConfigurationAt, Zenon
<1>2. /\ Len(Script("reset")) = 1 /\ Len(Script("probe")) = 2 /\ Len(Script("clkrc")) = 1
      /\ Len(Script("pll")) = 1 /\ Len(Script("check")) = 6 /\ Len(Script("drive")) = 2
      /\ Len(Script("arm")) = 1
  BY ScriptAt, Zenon
<1>3. t \in {"reset", "probe", "configure", "clkrc", "pll", "check", "drive", "arm"}
  BY DEF Tasks, SetupTasks
<1>4. QED
  BY <1>1, <1>2, <1>3 DEF Count

-----------------------------------------------------------------------------
\* Types of what the setup keeps.
CamTypes ==
  /\ task \in Tasks \cup {"off", "init", "ready", "failed"}
  /\ task \in Tasks => at \in 1..Count(task)
  /\ DOMAIN sensor = Registers /\ DOMAIN got = Registers

\* While the sensor is configured: what has been written and read so far.
ConfigureInv ==
  task = "configure" =>
    /\ COM8 \notin lost /\ at \in 36..125 => sensor[COM8] = 224
    /\ COM8 \notin lost /\ at > 126 => sensor[COM8] = 231
    /\ at > 131 => got[COM7] = sensor[COM7]
    /\ at > 132 => got[COM15] = sensor[COM15]
    /\ at > 133 => got[XSC] = sensor[XSC]
    /\ lost = {} => \A r \in Written : LastOf(r) < at => sensor[r] = Final[r]

\* While its timing is checked: what has been read so far.
CheckInv ==
  task = "check" =>
    /\ at > 1 => got[COM10] = sensor[COM10]
    /\ at > 2 => got[COM11] = sensor[COM11]
    /\ at > 3 => got[COM14] = sensor[COM14]
    /\ at > 4 => got[PLL] = sensor[PLL]

\* What each routine that has ended leaves behind.
FromArm == {"arm", "ready"}
FromDrive == {"drive"} \cup FromArm
FromPll == {"pll", "check"} \cup FromDrive
FromClkrc == {"clkrc"} \cup FromPll

\* The sensor as the configuration leaves it.
AsConfigured ==
  /\ FormatSet(sensor) /\ (COM8 \notin lost => sensor[COM8] = 231)
  /\ lost = {} => \A r \in Written : sensor[r] = Final[r]

\* What is left behind by the routines before the one under way.
LeftInv ==
  /\ task \in FromClkrc => AsConfigured
  /\ task \in FromPll => sensor[CLKRC] = Clkrc
  /\ task \in FromDrive => TimingSet(sensor)
  /\ task \in FromArm => sensor[COM2] % 4 = Drive
  /\ task = "ready" => rxArmed

\* The inductive invariant of the camera setup.
CamInv == CamTypes /\ SccbAtRate /\ ConfigureInv /\ CheckInv /\ LeftInv

\* Nothing has been sent yet.
LEMMA CamInvInit == CamStart => CamInv
BY DEF CamStart, CamInv, CamTypes, SccbAtRate, ConfigureInv, CheckInv, LeftInv, Tasks,
       SetupTasks, FromClkrc, FromPll, FromDrive, FromArm, CameraAssumption, Default, Unknown

-----------------------------------------------------------------------------
\* What a transfer does to the position in the setup: it is made again, it is the last
\* that is tried and the setup goes back, the next one follows, or the routine ends.
Repeated == UNCHANGED <<task, at, got, rxArmed>>
Back == /\ task' \in {"reset", "init", "failed"} /\ at' = 1 /\ DOMAIN got' = Registers
Advanced(g) == /\ at < Count(task) /\ at' = at + 1 /\ got' = g /\ UNCHANGED <<task, rxArmed>>
Ended(g) ==
  /\ at = Count(task) /\ Accepts(task, g) /\ task' = After(task) /\ at' = 1 /\ got' = g
  /\ rxArmed' = (rxArmed \/ (task = "arm" /\ g[CLKRC] = 128))

\* A routine that fails sends the setup back to its reset, to the controller, or ends it.
LEMMA GoesBack ==
  ASSUME CamTypes, TaskFailed
  PROVE  Back
BY DEF CamTypes, TaskFailed, Back, PrepareAgain, SetupAgain, Prepare, Enter

\* A recovery of the bus sets the divider again.
LEMMA RateRestored ==
  ASSUME sccb_recover
  PROVE  sclk' # "reset"
BY DEF sccb_recover, AfterReset, AfterAbort

\* A transfer that is acknowledged.
LEMMA DoneShape ==
  ASSUME CamTypes, SccbAtRate, task \in Tasks, NEW g, Done(g)
  PROVE  /\ Back \/ Advanced(g) \/ Ended(g)
         /\ sclk' # "reset"
<1>1. Len(Script(task)) = Count(task) /\ at \in 1..Count(task) /\ Count(task) \in Nat
  BY Counted DEF CamTypes
<1>2. sclk # "reset"
  BY DEF SccbAtRate
<1>3. CASE at < Len(Script(task))
  BY <1>1, <1>2, <1>3 DEF Done, Advanced
<1>4. CASE ~(at < Len(Script(task))) /\ Accepts(task, g)
  BY <1>1, <1>2, <1>4 DEF Done, Ended, Enter
<1>5. CASE ~(at < Len(Script(task))) /\ ~Accepts(task, g)
  <2>1. TaskFailed /\ (sccb_recover \/ UNCHANGED sclk)
    BY <1>5 DEF Done
  <2>2. QED
    BY <1>2, <2>1, GoesBack, RateRestored
<1>6. QED
  BY <1>3, <1>4, <1>5

\* A transfer that is not.
LEMMA FailedShape ==
  ASSUME CamTypes, Failed
  PROVE  /\ Back \/ Repeated
         /\ sclk' # "reset"
<1>1. sccb_recover /\ UNCHANGED rxArmed /\ (TaskFailed \/ UNCHANGED <<task, at, got>>)
  BY DEF Failed, TryAgain
<1>2. QED
  BY <1>1, GoesBack, RateRestored DEF Repeated

\* A transfer that writes, and one that reads.
LEMMA WriteShape ==
  ASSUME CamTypes, SccbAtRate, WriteReg
  PROVE  /\ task \in Tasks /\ Transfer.write /\ sclk' # "reset"
         /\ \/ /\ Back \/ Repeated
               /\ sensor' = sensor \/ sensor' = Stored(Transfer)
               /\ lost' = LostBefore
            \/ /\ Back \/ Advanced(got) \/ Ended(got)
               /\ \/ sensor' = Stored(Transfer) /\ lost' = LostBefore
                  \/ sensor' = sensor /\ lost' = LostBefore \cup {Transfer.reg}
<1>1. PICK ok \in BOOLEAN, stored \in BOOLEAN :
        /\ sensor' = IF stored THEN Stored(Transfer) ELSE sensor
        /\ \/ ok /\ ~stored /\ lost' = LostBefore \cup {Transfer.reg}
           \/ ~(ok /\ ~stored) /\ lost' = LostBefore
        /\ IF ok THEN Done(got) ELSE Failed
  BY Zenon DEF WriteReg
<1>2. task \in Tasks /\ Transfer.write
  BY DEF WriteReg
<1>3. CASE ok
  <2>1. Done(got)
    BY <1>1, <1>3
  <2>2. (Back \/ Advanced(got) \/ Ended(got)) /\ sclk' # "reset"
    BY <1>2, <2>1, DoneShape
  <2>3. \/ sensor' = Stored(Transfer) /\ lost' = LostBefore
        \/ sensor' = sensor /\ lost' = LostBefore \cup {Transfer.reg}
    BY <1>1, <1>3
  <2>4. QED
    BY <1>2, <2>2, <2>3
<1>4. CASE ~ok
  <2>1. Failed
    BY <1>1, <1>4
  <2>2. (Back \/ Repeated) /\ sclk' # "reset"
    BY <2>1, FailedShape
  <2>3. (sensor' = sensor \/ sensor' = Stored(Transfer)) /\ lost' = LostBefore
    BY <1>1, <1>4
  <2>4. QED
    BY <1>2, <2>2, <2>3
<1>5. QED
  BY <1>3, <1>4

\* A transfer that reads.
LEMMA ReadShape ==
  ASSUME CamTypes, SccbAtRate, ReadReg,
         NEW g, g = [got EXCEPT ![Transfer.reg] = sensor[Transfer.reg]]
  PROVE  /\ task \in Tasks /\ ~Transfer.write /\ sclk' # "reset"
         /\ Back \/ Repeated \/ Advanced(g) \/ Ended(g)
         /\ UNCHANGED <<sensor, lost>>
<1>1. task \in Tasks /\ ~Transfer.write /\ UNCHANGED <<sensor, lost>> /\ (Done(g) \/ Failed)
  BY DEF ReadReg
<1>2. QED
  BY <1>1, DoneShape, FailedShape

\* The registers that are told apart are different ones.
LEMMA Distinct ==
  /\ COM2 \notin {COM7, COM8, COM10, COM11, COM14, COM15, XSC, YSC, PLL, CLKRC}
  /\ COM7 \notin {COM8, COM10, COM11, COM14, COM15, XSC, YSC, PLL, CLKRC}
  /\ COM8 \notin {COM10, COM11, COM14, COM15, XSC, YSC, PLL, CLKRC}
  /\ COM10 \notin {COM11, COM14, COM15, XSC, YSC, PLL, CLKRC}
  /\ COM11 \notin {COM14, COM15, XSC, YSC, PLL, CLKRC}
  /\ COM14 \notin {COM15, XSC, YSC, PLL, CLKRC}
  /\ COM15 \notin {XSC, YSC, PLL, CLKRC}
  /\ XSC \notin {YSC, PLL, CLKRC} /\ YSC \notin {PLL, CLKRC} /\ PLL # CLKRC
BY DEF COM2, COM7, COM8, COM10, COM11, COM14, COM15, XSC, YSC, PLL, CLKRC

\* The format rests on the registers that are read back.
LEMMA FormatSame ==
  ASSUME NEW f, NEW g, f[COM7] = g[COM7], f[COM15] = g[COM15], f[XSC] = g[XSC], f[YSC] = g[YSC],
         FormatSet(f)
  PROVE  FormatSet(g)
BY DEF FormatSet

\* So does the timing.
LEMMA TimingSame ==
  ASSUME NEW f, NEW g, f[COM10] = g[COM10], f[COM11] = g[COM11], f[COM14] = g[COM14],
         f[PLL] = g[PLL], TimingSet(f)
  PROVE  TimingSet(g)
BY DEF TimingSet

\* The registers that are read are registers of the sensor.
LEMMA ReadRegisters ==
  /\ Written \subseteq Registers
  /\ {COM2, PLL, PID, VER, CLKRC, COM7, COM8, COM10, COM11, COM14, COM15, XSC, YSC} \subseteq Registers
BY FinalValues DEF Registers

\* Before the configuration begins the invariant asks for types only.
LEMMA BeforeConfigure ==
  ASSUME task' \in {"off", "init", "reset", "probe", "failed"},
         task' \in Tasks => at' \in 1..Count(task'),
         DOMAIN sensor' = Registers, DOMAIN got' = Registers,
         task' \in Tasks => sclk' # "reset"
  PROVE  CamInv'
BY DEF CamInv, CamTypes, SccbAtRate, ConfigureInv, CheckInv, LeftInv, Tasks, SetupTasks,
       FromClkrc, FromPll, FromDrive, FromArm

\* Whatever is written, the sensor has a value for each register.
LEMMA StoredTypes ==
  ASSUME CamTypes
  PROVE  DOMAIN Stored(Transfer) = Registers
BY DEF CamTypes, Stored, Default

\* A transfer without an effect on the sensor is repeated.
LEMMA RepeatedKeeps ==
  ASSUME CamInv, Repeated, UNCHANGED <<sensor, lost>>, sclk' # "reset"
  PROVE  CamInv'
BY DEF Repeated, CamInv, CamTypes, SccbAtRate, ConfigureInv, CheckInv, LeftInv, FromClkrc, FromPll,
       FromDrive, FromArm, AsConfigured

\* Going back to the start of the setup.
LEMMA BackKeeps ==
  ASSUME CamTypes, Back, sensor' \in {sensor, Stored(Transfer)}, sclk' # "reset"
  PROVE  CamInv'
<1>1. /\ task' \in {"reset", "init", "failed"} /\ at' = 1 /\ DOMAIN got' = Registers
      /\ DOMAIN sensor' = Registers
  BY StoredTypes DEF Back, CamTypes
<1>2. Count("reset") = 1 /\ "init" \notin Tasks /\ "failed" \notin Tasks
  BY DEF Count, Tasks, SetupTasks
<1>3. task' \in Tasks => at' \in 1..Count(task')
  BY <1>1, <1>2
<1>4. QED
  BY <1>1, <1>3, BeforeConfigure

-----------------------------------------------------------------------------
\* The reset.
LEMMA WriteReset ==
  ASSUME CamInv, WriteReg, task = "reset"
  PROVE  CamInv'
<1> USE DEF CamInv
<1>1. /\ Back \/ Repeated \/ Advanced(got) \/ Ended(got)
      /\ sensor' \in {sensor, Stored(Transfer)} /\ sclk' # "reset"
  BY WriteShape
<1>2. Count("reset") = 1 /\ Count("probe") = 2 /\ After("reset") = "probe"
  BY DEF Count, After
<1>3. at = 1
  BY <1>2 DEF CamTypes, Tasks, SetupTasks
<1>4. CASE Back
  BY <1>1, <1>4, BackKeeps
<1>5. CASE ~Back
  <2>1. /\ task' \in {"reset", "probe"} /\ at' = 1 /\ got' = got
    BY <1>1, <1>2, <1>3, <1>5 DEF Repeated, Advanced, Ended
  <2>2. DOMAIN sensor' = Registers /\ DOMAIN got' = Registers
    BY <1>1, <2>1, StoredTypes DEF CamTypes
  <2>3. at' \in 1..Count(task')
    BY <1>2, <2>1
  <2>4. QED
    BY <1>1, <2>1, <2>2, <2>3, BeforeConfigure
<1>6. QED
  BY <1>4, <1>5

\* The drive strength.
LEMMA WriteDrive ==
  ASSUME CamInv, WriteReg, task = "drive"
  PROVE  CamInv'
<1> USE DEF CamInv
<1>1. /\ Back \/ Repeated \/ Advanced(got) \/ Ended(got)
      /\ sensor' \in {sensor, Stored(Transfer)} /\ lost \subseteq lost' /\ sclk' # "reset"
      /\ Transfer.write
  BY WriteShape DEF LostBefore
<1>2. Count("drive") = 2
  BY DEF Count
<1>3. at \in 1..2
  BY <1>2 DEF CamTypes, Tasks, SetupTasks
<1>4. at = 1 /\ Transfer.reg = COM2
  <2>1. Transfer = Script("drive")[at]
    BY DEF Transfer
  <2>2. /\ Script("drive")[1] = Write(COM2, got[COM2] - (got[COM2] % 4) + Drive)
        /\ Script("drive")[2] = Read(COM2)
    BY ScriptAt, Zenon
  <2>3. Script("drive")[1].reg = COM2 /\ ~Script("drive")[2].write
    BY <2>2 DEF Write, Read
  <2>4. QED
    BY <1>1, <1>3, <2>1, <2>3
<1>5. CASE Back
  BY <1>1, <1>5, BackKeeps
<1>6. CASE ~Back
  <2>1. task' = "drive" /\ at' \in 1..2 /\ got' = got
    BY <1>1, <1>2, <1>4, <1>6 DEF Repeated, Advanced, Ended
  <2>2. /\ DOMAIN sensor' = Registers /\ (lost' = {} => lost = {})
        /\ (COM8 \notin lost' => COM8 \notin lost)
    BY <1>1, StoredTypes DEF CamTypes
  <2>3. \A r \in Registers \ {COM2} : sensor'[r] = sensor[r]
    BY <1>1, <1>4, Distinct DEF Stored, CamTypes
  <2>4. /\ COM2 \notin Written
        /\ {CLKRC, COM7, COM8, COM10, COM11, COM14, COM15, XSC, YSC} \subseteq Written
    BY FinalValues
  <2>5. \A r \in Written \cup {PLL} : sensor'[r] = sensor[r]
    BY <2>3, <2>4, Distinct DEF Registers
  <2>7. task = "drive" => AsConfigured /\ sensor[CLKRC] = Clkrc /\ TimingSet(sensor)
    BY DEF LeftInv, FromClkrc, FromPll, FromDrive
  <2>8. FormatSet(sensor')
    BY <2>4, <2>5, <2>7, FormatSame DEF AsConfigured
  <2>9. TimingSet(sensor')
    BY <2>4, <2>5, <2>7, TimingSame
  <2>10. AsConfigured' /\ sensor'[CLKRC] = Clkrc
    BY <2>2, <2>4, <2>5, <2>7, <2>8 DEF AsConfigured
  <2>11. CamTypes' /\ SccbAtRate'
    BY <1>1, <1>2, <2>1, <2>2 DEF CamTypes, SccbAtRate, Tasks, SetupTasks
  <2>12. QED
    BY <2>1, <2>9, <2>10, <2>11 DEF ConfigureInv, CheckInv, LeftInv, FromClkrc, FromPll, FromDrive,
                                    FromArm
<1>7. QED
  BY <1>5, <1>6

\* A write of the configuration: it is stored, or lost, which is recorded, or fails, and
\* the next attempt or the next pass makes up for it.
LEMMA WriteConfigure ==
  ASSUME CamInv, WriteReg, task = "configure"
  PROVE  CamInv'
<1> USE DEF CamInv
<1> DEFINE op == Configuration[at]
<1>1. /\ \/ /\ Back \/ Repeated
            /\ sensor' = sensor \/ sensor' = Stored(Transfer)
            /\ lost' = lost
         \/ /\ Back \/ Advanced(got) \/ Ended(got)
            /\ \/ sensor' = Stored(Transfer) /\ lost' = lost
               \/ sensor' = sensor /\ lost' = lost \cup {Transfer.reg}
      /\ sclk' # "reset" /\ Transfer.write
  BY WriteShape DEF LostBefore
<1>2. sensor' \in {sensor, Stored(Transfer)} /\ lost \subseteq lost'
  BY <1>1
<1>3. CASE Back
  BY <1>1, <1>2, <1>3, BackKeeps
<1>4. Count("configure") = 134
  BY DEF Count
<1>5. Transfer = op
  BY ScriptAt, Zenon DEF Transfer
<1>6. at \in 1..130
  <2>1. at \in 1..134
    BY <1>4 DEF CamTypes, Tasks, SetupTasks
  <2>2. \A i \in 131..134 : ~Configuration[i].write
    BY ConfigurationSplit, Zenon
  <2>3. at \notin 131..134
    BY <1>1, <1>5, <2>2, Zenon
  <2>4. QED
    BY <2>1, <2>3
<1>7. op.reg \notin {COM2, PID, VER, PLL} /\ (op.reg = COM7 => op.value < 128)
  BY <1>6, ConfigurationWrites, Zenon
<1>8. op.reg \in Written
  <2>1. DOMAIN Configuration = 1..134
    BY ConfigurationSplit, Zenon
  <2>2. at \in DOMAIN Configuration
    BY <1>6, <2>1
  <2>3. QED
    BY <2>2, Zenon DEF Written
<1>9. Stored(Transfer) = [sensor EXCEPT ![op.reg] = op.value]
  <2>1. op.reg = COM7 => ~(op.value >= 128)
    <3>1. CASE op.reg = COM7
      <4>1. op.value < 128 /\ op.value \in Nat
        <5>1. Configuration \in Seq(Transfers) /\ Len(Configuration) = 134
          BY ConfigurationAt, Zenon
        <5>2. Configuration \in [1..Len(Configuration) -> Transfers]
          BY <5>1, LenProperties, Zenon
        <5>3. Configuration \in [1..134 -> Transfers]
          BY <5>1, <5>2, Zenon
        <5>4. op \in Transfers
          BY <1>6, <5>3
        <5>5. QED
          BY <1>7, <3>1, <5>4 DEF Transfers
      <4>2. QED
        BY <4>1
    <3>2. QED
      BY <3>1
  <2>2. QED
    BY <1>5, <2>1, Zenon DEF Stored
<1>10. ASSUME NEW r \in Registers, sensor' = Stored(Transfer)
       PROVE  sensor'[r] = IF r = op.reg THEN op.value ELSE sensor[r]
  BY <1>9, <1>10 DEF CamTypes
<1> HIDE DEF op
<1>11. Written \subseteq Registers
  BY ReadRegisters
<1>12. CASE ~Back
  <2>1. ~Ended(got)
    BY <1>4, <1>6 DEF Ended
  <2>2. /\ task' = "configure" /\ got' = got /\ at' \in {at, at + 1}
        /\ at' = at => lost' = lost
        /\ at' = at + 1 => \/ sensor' = Stored(Transfer) /\ lost' = lost
                           \/ sensor' = sensor /\ lost' = lost \cup {op.reg}
    BY <1>1, <1>5, <1>6, <1>12, <2>1 DEF Repeated, Advanced
  <2>3. /\ DOMAIN sensor' = Registers /\ DOMAIN got' = Registers
        /\ at' \in 1..131
    BY <1>2, <1>6, <2>2, StoredTypes DEF CamTypes
  <2>4. CamTypes' /\ SccbAtRate'
    BY <1>1, <1>4, <2>2, <2>3 DEF CamTypes, SccbAtRate, Tasks, SetupTasks
  <2>5. /\ COM8 \notin lost /\ at \in 36..125 => sensor[COM8] = 224
        /\ COM8 \notin lost /\ at > 126 => sensor[COM8] = 231
        /\ lost = {} => \A r \in Written : LastOf(r) < at => sensor[r] = Final[r]
    BY DEF ConfigureInv
  <2>6. ASSUME COM8 \notin lost'
        PROVE  /\ at' \in 36..125 => sensor'[COM8] = 224
               /\ at' > 126 => sensor'[COM8] = 231
    <3>1. COM8 \in Registers
      BY ReadRegisters
    <3>5. COM8 \notin lost
      BY <1>2, <2>6
    <3>2. CASE op.reg # COM8
      <4>1. sensor'[COM8] = sensor[COM8]
        BY <1>2, <1>10, <3>1, <3>2
      <4>2. at \notin {35, 126}
        <5>1. Configuration[35].reg = COM8 /\ Configuration[126].reg = COM8
          BY ConfigurationWrites, Zenon
        <5>2. QED
          BY <3>2, <5>1 DEF op
      <4>3. QED
        BY <1>6, <2>2, <2>5, <3>5, <4>1, <4>2
    <3>3. CASE op.reg = COM8
      <4>1. at \in {35, 126}
        BY <1>6, <3>3, ConfigurationWrites, Zenon DEF op
      <4>2. CASE at' = at
        BY <4>1, <4>2
      <4>3. CASE at' = at + 1
        <5>1. sensor' = Stored(Transfer)
          BY <2>2, <2>6, <3>3, <4>3
        <5>2. sensor'[COM8] = op.value
          BY <1>10, <2>2, <3>1, <3>3, <4>3, <5>1
        <5>3. op.value = IF at = 35 THEN 224 ELSE 231
          <6>1. Configuration[35].value = 224 /\ Configuration[126].value = 231
            BY ConfigurationWrites, Zenon
          <6>2. QED
            BY <4>1, <6>1 DEF op
        <5>4. QED
          BY <4>1, <4>3, <5>2, <5>3
      <4>4. QED
        BY <2>2, <4>2, <4>3
    <3>4. QED
      BY <3>2, <3>3
  <2>7. ASSUME lost' = {}, NEW r \in Written, LastOf(r) < at'
        PROVE  sensor'[r] = Final[r]
    <3>1. /\ LastOf(r) \in 1..130 /\ Configuration[LastOf(r)].reg = r
          /\ \A j \in 1..130 : Configuration[j].reg = r => j <= LastOf(r)
          /\ Final[r] = Configuration[LastOf(r)].value
      BY LastWrite
    <3>2. lost = {} /\ (at' = at + 1 => sensor' = Stored(Transfer))
      BY <1>2, <2>2, <2>7
    <3>3. r \in Registers
      BY <1>11
    <3>4. CASE r = op.reg
      <4>1. at <= LastOf(r)
        BY <1>6, <3>1, <3>4, Zenon DEF op
      <4>2. LastOf(r) \in Nat
        BY <3>1
      <4>3. at' = at + 1 /\ LastOf(r) = at
        BY <1>6, <2>2, <2>7, <4>1, <4>2
      <4>4. sensor'[r] = op.value
        BY <1>10, <3>2, <3>3, <3>4, <4>3
      <4>5. QED
        BY <3>1, <4>3, <4>4, Zenon DEF op
    <3>5. CASE r # op.reg
      <4>1. sensor'[r] = sensor[r]
        BY <1>2, <1>10, <3>3, <3>5
      <4>2. LastOf(r) # at
        BY <3>1, <3>5, Zenon DEF op
      <4>3. LastOf(r) \in Nat
        BY <3>1
      <4>4. LastOf(r) < at
        BY <1>6, <2>2, <2>7, <4>2, <4>3
      <4>5. QED
        BY <2>5, <3>2, <4>1, <4>4
    <3>6. QED
      BY <3>4, <3>5
  <2>8. ConfigureInv'
    <3>1. ~(at' > 131) /\ ~(at' > 132) /\ ~(at' > 133)
      BY <2>3
    <3>2. QED
      BY <2>6, <2>7, <3>1 DEF ConfigureInv
  <2>9. QED
    BY <2>2, <2>4, <2>8 DEF CheckInv, LeftInv, FromClkrc, FromPll, FromDrive, FromArm
<1>13. QED
  BY <1>3, <1>12

-----------------------------------------------------------------------------
\* What is read is what the sensor holds.
LEMMA ReadKeeps ==
  ASSUME CamInv, ReadReg, task \in SetupTasks \ {"configure"}
  PROVE  CamInv'
<1> USE DEF CamInv
<1> DEFINE g == [got EXCEPT ![Transfer.reg] = sensor[Transfer.reg]]
<1>1. /\ ~Transfer.write /\ sclk' # "reset"
      /\ Back \/ Repeated \/ Advanced(g) \/ Ended(g)
      /\ UNCHANGED <<sensor, lost>>
  BY ReadShape
<1>2. DOMAIN g = Registers
  BY DEF CamTypes
<1> HIDE DEF g
<1>3. CASE Back
  BY <1>1, <1>3, BackKeeps
<1>4. CASE Repeated
  BY <1>1, <1>4, RepeatedKeeps
<1>5. task = "probe"
  <2>1. CASE task = "reset"
    <3>1. at = 1
      BY <2>1 DEF CamTypes, Tasks, SetupTasks, Count
    <3>2. Script("reset")[1] = Write(COM7, 128)
      BY ScriptAt, Zenon
    <3>3. Transfer = Write(COM7, 128)
      BY <2>1, <3>1, <3>2, Zenon DEF Transfer
    <3>4. QED
      BY <1>1, <3>3 DEF Write
  <2>2. QED
    BY <2>1 DEF SetupTasks
<1>6. CASE Advanced(g)
  <2>1. task' = "probe" /\ at' \in 1..Count("probe") /\ got' = g
    BY <1>5, <1>6 DEF Advanced, CamTypes, Count, Tasks, SetupTasks
  <2>2. QED
    BY <1>1, <1>2, <2>1, BeforeConfigure DEF CamTypes
<1>7. CASE Ended(g)
  <2>1. task' = "configure" /\ at' = 1 /\ got' = g
    BY <1>5, <1>7 DEF Ended, After
  <2>2. CamTypes' /\ SccbAtRate'
    BY <1>1, <1>2, <2>1 DEF CamTypes, SccbAtRate, Tasks, SetupTasks, Count
  <2>3. ConfigureInv'
    <3>1. \A r \in Written : ~(LastOf(r) < 1)
      <4>1. \A r \in Written : LastOf(r) \in 1..130
        BY LastWrite, Zenon
      <4>2. QED
        BY <4>1
    <3>2. at' \notin 36..125 /\ ~(at' > 126) /\ ~(at' > 131) /\ ~(at' > 132) /\ ~(at' > 133)
      BY <2>1
    <3>3. QED
      BY <2>1, <3>1, <3>2 DEF ConfigureInv
  <2>4. QED
    BY <2>1, <2>2, <2>3 DEF CheckInv, LeftInv, FromClkrc, FromPll, FromDrive, FromArm
<1>8. QED
  BY <1>1, <1>3, <1>4, <1>6, <1>7

\* The comparison at the end of the configuration.
LEMMA ReadConfigure ==
  ASSUME CamInv, ReadReg, task = "configure"
  PROVE  CamInv'
<1> USE DEF CamInv
<1> DEFINE g == [got EXCEPT ![Transfer.reg] = sensor[Transfer.reg]]
<1>1. /\ ~Transfer.write /\ sclk' # "reset"
      /\ Back \/ Repeated \/ Advanced(g) \/ Ended(g)
      /\ UNCHANGED <<sensor, lost>>
  BY ReadShape
<1>2. DOMAIN g = Registers /\ \A r \in Registers :
        g[r] = IF r = Transfer.reg THEN sensor[r] ELSE got[r]
  BY DEF CamTypes
<1> HIDE DEF g
<1>3. CASE Back
  BY <1>1, <1>3, BackKeeps
<1>4. CASE Repeated
  BY <1>1, <1>4, RepeatedKeeps
<1>5. Count("configure") = 134
  BY DEF Count
<1>6. at \in 131..134
  <2>1. at \in 1..134
    BY <1>5 DEF CamTypes, Tasks, SetupTasks
  <2>2. \A i \in 1..130 : Configuration[i].write
    BY ConfigurationSplit, Zenon
  <2>3. Transfer = Configuration[at]
    BY ScriptAt, Zenon DEF Transfer
  <2>4. at \notin 1..130
    BY <1>1, <2>2, <2>3, Zenon
  <2>5. QED
    BY <2>1, <2>4
<1>7. /\ at = 131 => Transfer.reg = COM7
      /\ at = 132 => Transfer.reg = COM15
      /\ at = 133 => Transfer.reg = XSC
      /\ at = 134 => Transfer.reg = YSC
  <2>1. Transfer = Configuration[at]
    BY ScriptAt, Zenon DEF Transfer
  <2>2. /\ Configuration[131].reg = COM7 /\ Configuration[132].reg = COM15
        /\ Configuration[133].reg = XSC /\ Configuration[134].reg = YSC
    BY ConfigurationSplit, Zenon
  <2>3. QED
    BY <2>1, <2>2
<1>8. /\ COM8 \notin lost => sensor[COM8] = 231
      /\ at > 131 => got[COM7] = sensor[COM7]
      /\ at > 132 => got[COM15] = sensor[COM15]
      /\ at > 133 => got[XSC] = sensor[XSC]
      /\ lost = {} => \A r \in Written : LastOf(r) < at => sensor[r] = Final[r]
  BY <1>6 DEF ConfigureInv
<1>9. /\ g[COM7] = sensor[COM7] /\ (at > 131 => g[COM15] = sensor[COM15])
      /\ (at > 132 => g[XSC] = sensor[XSC]) /\ (at > 133 => g[YSC] = sensor[YSC])
  BY <1>2, <1>6, <1>7, <1>8, Distinct, ReadRegisters
<1>10. lost = {} => \A r \in Written : sensor[r] = Final[r]
  <2>1. \A r \in Written : LastOf(r) \in 1..130
    BY LastWrite, Zenon
  <2>2. \A r \in Written : LastOf(r) < at
    BY <1>6, <2>1
  <2>3. QED
    BY <1>8, <2>2, Zenon
<1>11. CASE Advanced(g)
  <2>1. task' = "configure" /\ at' = at + 1 /\ at' \in 132..134 /\ got' = g
    BY <1>5, <1>6, <1>11 DEF Advanced
  <2>2. CamTypes' /\ SccbAtRate'
    BY <1>1, <1>2, <1>5, <2>1 DEF CamTypes, SccbAtRate, Tasks, SetupTasks
  <2>3. ConfigureInv'
    BY <1>1, <1>6, <1>8, <1>9, <1>10, <2>1 DEF ConfigureInv
  <2>4. QED
    BY <2>1, <2>2, <2>3 DEF CheckInv, LeftInv, FromClkrc, FromPll, FromDrive, FromArm
<1>12. CASE Ended(g)
  <2>1. task' = "clkrc" /\ at' = 1 /\ got' = g /\ at = 134
    BY <1>5, <1>12 DEF Ended, After
  <2>2. FormatSet(g)
    BY <1>12 DEF Ended, Accepts
  <2>3. FormatSet(sensor)
    BY <1>9, <2>1, <2>2, FormatSame
  <2>4. AsConfigured'
    BY <1>1, <1>8, <1>10, <2>3 DEF AsConfigured
  <2>5. CamTypes' /\ SccbAtRate'
    BY <1>1, <1>2, <2>1 DEF CamTypes, SccbAtRate, Tasks, SetupTasks, Count
  <2>6. QED
    BY <2>1, <2>4, <2>5 DEF ConfigureInv, CheckInv, LeftInv, FromClkrc, FromPll, FromDrive, FromArm
<1>13. QED
  BY <1>1, <1>3, <1>4, <1>11, <1>12

\* A register that is read back after the configuration: the sensor stays as it is.
LEMMA ReadBack ==
  ASSUME CamInv, ReadReg, task \in {"clkrc", "pll", "check", "drive", "arm"}
  PROVE  CamInv'
<1> USE DEF CamInv
<1> DEFINE g == [got EXCEPT ![Transfer.reg] = sensor[Transfer.reg]]
<1>1. /\ ~Transfer.write /\ sclk' # "reset"
      /\ Back \/ Repeated \/ Advanced(g) \/ Ended(g)
      /\ UNCHANGED <<sensor, lost>>
  BY ReadShape
<1>2. DOMAIN g = Registers /\ \A r \in Registers :
        g[r] = IF r = Transfer.reg THEN sensor[r] ELSE got[r]
  BY DEF CamTypes
<1> HIDE DEF g
<1>3. CASE Back
  BY <1>1, <1>3, BackKeeps
<1>4. CASE Repeated
  BY <1>1, <1>4, RepeatedKeeps
<1>5. at \in 1..Count(task) /\ Transfer = Script(task)[at]
  BY DEF CamTypes, Tasks, SetupTasks, Transfer
<1>6. AsConfigured /\ (AsConfigured' <=> AsConfigured)
  BY <1>1 DEF LeftInv, FromClkrc, FromPll, FromDrive, FromArm, AsConfigured
<1>7. ASSUME Advanced(g) \/ Ended(g), task' \in Tasks => at' \in 1..Count(task'),
             task' \in Tasks \cup {"ready"}
      PROVE  CamTypes' /\ SccbAtRate'
  BY <1>1, <1>2, <1>7 DEF CamTypes, SccbAtRate, Advanced, Ended
<1>8. CASE task = "clkrc"
  <2>1. Transfer.reg = CLKRC /\ at = 1
    <3>1. at = 1
      BY <1>5, <1>8 DEF Count
    <3>2. Script("clkrc")[1] = Read(CLKRC)
      BY ScriptAt, Zenon
    <3>3. Transfer = Read(CLKRC)
      BY <1>5, <1>8, <3>1, <3>2, Zenon
    <3>4. QED
      BY <3>1, <3>3 DEF Read
  <2>2. CASE Ended(g)
    <3>1. task' = "pll" /\ at' = 1 /\ g[CLKRC] = Clkrc
      BY <1>8, <2>2 DEF Ended, After, Accepts
    <3>2. sensor[CLKRC] = Clkrc
      BY <1>2, <2>1, <3>1, ReadRegisters
    <3>3. CamTypes' /\ SccbAtRate'
      BY <1>7, <2>2, <3>1 DEF Tasks, SetupTasks, Count
    <3>4. QED
      BY <1>1, <1>6, <3>1, <3>2, <3>3
         DEF ConfigureInv, CheckInv, LeftInv, FromClkrc, FromPll, FromDrive, FromArm
  <2>3. ~Advanced(g)
    BY <1>8, <2>1 DEF Advanced, Count
  <2>4. QED
    BY <1>1, <1>3, <1>4, <2>2, <2>3
<1>9. CASE task = "pll"
  <2>1. at = 1
    BY <1>5, <1>9 DEF Count
  <2>2. sensor[CLKRC] = Clkrc
    BY <1>9 DEF LeftInv, FromClkrc, FromPll
  <2>3. CASE Ended(g)
    <3>1. task' = "check" /\ at' = 1
      BY <1>9, <2>3 DEF Ended, After
    <3>2. CamTypes' /\ SccbAtRate'
      BY <1>7, <2>3, <3>1 DEF Tasks, SetupTasks, Count
    <3>3. QED
      BY <1>1, <1>6, <2>2, <3>1, <3>2
         DEF ConfigureInv, CheckInv, LeftInv, FromClkrc, FromPll, FromDrive, FromArm
  <2>4. ~Advanced(g)
    BY <1>9, <2>1 DEF Advanced, Count
  <2>5. QED
    BY <1>1, <1>3, <1>4, <2>3, <2>4
<1>10. CASE task = "check"
  <2>1. at \in 1..6 /\ Count("check") = 6
    BY <1>5, <1>10 DEF Count
  <2>2. /\ sensor[CLKRC] = Clkrc
        /\ at > 1 => got[COM10] = sensor[COM10]
        /\ at > 2 => got[COM11] = sensor[COM11]
        /\ at > 3 => got[COM14] = sensor[COM14]
        /\ at > 4 => got[PLL] = sensor[PLL]
    BY <1>10 DEF LeftInv, FromClkrc, FromPll, CheckInv
  <2>3. /\ at = 1 => Transfer.reg = COM10
        /\ at = 2 => Transfer.reg = COM11
        /\ at = 3 => Transfer.reg = COM14
        /\ at = 4 => Transfer.reg = PLL
        /\ at = 5 => Transfer.reg = YSC
        /\ at = 6 => Transfer.reg = COM2
    <3>1. Transfer = Script("check")[at]
      BY <1>5, <1>10, Zenon
    <3>2. /\ Script("check")[1] = Read(COM10) /\ Script("check")[2] = Read(COM11)
          /\ Script("check")[3] = Read(COM14) /\ Script("check")[4] = Read(PLL)
          /\ Script("check")[5] = Read(YSC) /\ Script("check")[6] = Read(COM2)
      BY ScriptAt, Zenon
    <3>3. /\ Script("check")[1].reg = COM10 /\ Script("check")[2].reg = COM11
          /\ Script("check")[3].reg = COM14 /\ Script("check")[4].reg = PLL
          /\ Script("check")[5].reg = YSC /\ Script("check")[6].reg = COM2
      BY <3>2 DEF Read
    <3>4. QED
      BY <3>1, <3>3
  <2>4. {COM2, COM10, COM11, COM14, PLL, YSC} \subseteq Registers
    BY ReadRegisters
  <2>5. /\ g[COM10] = sensor[COM10]
        /\ at > 1 => g[COM11] = sensor[COM11]
        /\ at > 2 => g[COM14] = sensor[COM14]
        /\ at > 3 => g[PLL] = sensor[PLL]
    <3>1. g[COM10] = sensor[COM10]
      BY <1>2, <2>1, <2>2, <2>3, <2>4
    <3>2. at > 1 => g[COM11] = sensor[COM11]
      BY <1>2, <2>1, <2>2, <2>3, <2>4
    <3>3. at > 2 => g[COM14] = sensor[COM14]
      BY <1>2, <2>1, <2>2, <2>3, <2>4
    <3>4. at > 3 => g[PLL] = sensor[PLL]
      BY <1>2, <2>1, <2>2, <2>3, <2>4
    <3>5. QED
      BY <3>1, <3>2, <3>3, <3>4
  <2>6. CASE Advanced(g)
    <3>1. task' = "check" /\ at' = at + 1 /\ at' \in 2..6 /\ got' = g
      BY <1>10, <2>1, <2>6 DEF Advanced
    <3>2. CamTypes' /\ SccbAtRate'
      BY <1>7, <2>1, <2>6, <3>1 DEF Tasks, SetupTasks
    <3>3. CheckInv'
      BY <1>1, <2>1, <2>5, <3>1 DEF CheckInv
    <3>4. QED
      BY <1>1, <1>6, <2>2, <3>1, <3>2, <3>3
         DEF ConfigureInv, LeftInv, FromClkrc, FromPll, FromDrive, FromArm
  <2>7. CASE Ended(g)
    <3>1. task' = "drive" /\ at' = 1 /\ at = 6 /\ TimingSet(g)
      BY <1>10, <2>1, <2>7 DEF Ended, After, Accepts
    <3>2. TimingSet(sensor)
      BY <2>5, <3>1, TimingSame
    <3>3. CamTypes' /\ SccbAtRate'
      BY <1>7, <2>7, <3>1 DEF Tasks, SetupTasks, Count
    <3>4. QED
      BY <1>1, <1>6, <2>2, <3>1, <3>2, <3>3
         DEF ConfigureInv, CheckInv, LeftInv, FromClkrc, FromPll, FromDrive, FromArm
  <2>8. QED
    BY <1>1, <1>3, <1>4, <2>6, <2>7
<1>11. CASE task = "drive"
  <2>1. at \in 1..2 /\ Count("drive") = 2
    BY <1>5, <1>11 DEF Count
  <2>2. sensor[CLKRC] = Clkrc /\ TimingSet(sensor)
    BY <1>11 DEF LeftInv, FromClkrc, FromPll, FromDrive
  <2>3. at = 2 /\ Transfer.reg = COM2
    <3>1. Transfer = Script("drive")[at]
      BY <1>5, <1>11, Zenon
    <3>2. /\ Script("drive")[1] = Write(COM2, got[COM2] - (got[COM2] % 4) + Drive)
          /\ Script("drive")[2] = Read(COM2)
      BY ScriptAt, Zenon
    <3>3. Script("drive")[1].write /\ Script("drive")[2].reg = COM2
      BY <3>2 DEF Read, Write
    <3>4. QED
      BY <1>1, <2>1, <3>1, <3>3
  <2>4. CASE Ended(g)
    <3>1. task' = "arm" /\ at' = 1 /\ g[COM2] % 4 = Drive
      BY <1>11, <2>4 DEF Ended, After, Accepts
    <3>2. sensor[COM2] % 4 = Drive
      BY <1>2, <2>3, <3>1, ReadRegisters
    <3>3. CamTypes' /\ SccbAtRate'
      BY <1>7, <2>4, <3>1 DEF Tasks, SetupTasks, Count
    <3>4. QED
      BY <1>1, <1>6, <2>2, <3>1, <3>2, <3>3
         DEF ConfigureInv, CheckInv, LeftInv, FromClkrc, FromPll, FromDrive, FromArm
  <2>5. ~Advanced(g)
    BY <1>11, <2>1, <2>3 DEF Advanced
  <2>6. QED
    BY <1>1, <1>3, <1>4, <2>4, <2>5
<1>12. CASE task = "arm"
  <2>1. at = 1
    BY <1>5, <1>12 DEF Count
  <2>2. sensor[CLKRC] = Clkrc /\ TimingSet(sensor) /\ sensor[COM2] % 4 = Drive
    BY <1>12 DEF LeftInv, FromClkrc, FromPll, FromDrive, FromArm
  <2>3. CASE Ended(g)
    <3>1. task' = "ready" /\ at' = 1 /\ rxArmed'
      BY <1>12, <2>3 DEF Ended, After, Accepts
    <3>2. CamTypes' /\ SccbAtRate'
      BY <1>7, <2>3, <3>1 DEF Tasks, SetupTasks
    <3>3. QED
      BY <1>1, <1>6, <2>2, <3>1, <3>2
         DEF ConfigureInv, CheckInv, LeftInv, FromClkrc, FromPll, FromDrive, FromArm
  <2>4. ~Advanced(g)
    BY <1>12, <2>1 DEF Advanced, Count
  <2>5. QED
    BY <1>1, <1>3, <1>4, <2>3, <2>4
<1>13. QED
  BY <1>8, <1>9, <1>10, <1>11, <1>12

\* The short form of the setup leaves the sensor as the long one does.
LEMMA OutcomeKeeps ==
  ASSUME CamInv, CamOutcome
  PROVE  CamInv'
<1> USE DEF CamInv
<1>1. /\ sensor' = [r \in Registers |->
           IF r \in Written THEN Final[r] ELSE IF r = COM2 THEN Drive ELSE Default[r]]
      /\ task = "off" /\ UNCHANGED <<at, got>> /\ sclk' = "requested"
      /\ task' \in {"ready", "failed"}
      /\ task' = "ready" => FormatSet(sensor') /\ TimingSet(sensor') /\ rxArmed' = TRUE
  BY DEF CamOutcome
<1>2. /\ {CLKRC, COM8} \subseteq Written /\ Written \subseteq Registers
      /\ COM2 \in Registers /\ COM2 \notin Written
      /\ Final[CLKRC] = Clkrc /\ Final[COM8] = 231
  BY FinalValues, ReadRegisters
<1>3. /\ \A r \in Written : sensor'[r] = Final[r]
      /\ sensor'[COM2] = Drive /\ DOMAIN sensor' = Registers
  BY <1>1, <1>2
<1>4. sensor'[CLKRC] = Clkrc /\ sensor'[COM8] = 231
  BY <1>2, <1>3
<1>5. sensor'[COM2] % 4 = Drive
  BY <1>3, CameraAssumption
<1>6. CASE task' = "ready"
  <2>1. AsConfigured'
    BY <1>1, <1>3, <1>4, <1>6 DEF AsConfigured
  <2>2. CamTypes' /\ SccbAtRate'
    BY <1>1, <1>3, <1>6 DEF CamTypes, SccbAtRate, Tasks, SetupTasks
  <2>3. QED
    BY <1>1, <1>4, <1>5, <1>6, <2>1, <2>2
       DEF ConfigureInv, CheckInv, LeftInv, FromClkrc, FromPll, FromDrive, FromArm
<1>7. CASE task' = "failed"
  BY <1>1, <1>3, <1>7, BeforeConfigure DEF CamTypes, Tasks, SetupTasks
<1>8. QED
  BY <1>1, <1>6, <1>7

\* The controller is initialized, or the clock is missing.
LEMMA InitKeeps ==
  ASSUME CamInv, camera_control_check \/ ov7670_init
  PROVE  CamInv'
<1> USE DEF CamInv
<1>1. Count("reset") = 1 /\ "init" \notin Tasks /\ "failed" \notin Tasks /\ "reset" \in Tasks
  BY DEF Count, Tasks, SetupTasks
<1>2. CASE camera_control_check
  <2>1. task' \in {"init", "failed"} /\ UNCHANGED <<sensor, lost, got>>
    BY <1>2 DEF camera_control_check, Enter
  <2>2. QED
    BY <1>1, <2>1, BeforeConfigure DEF CamTypes
<1>3. CASE ov7670_init
  <2>1. /\ UNCHANGED <<sensor, lost>> /\ DOMAIN got' = Registers
        /\ \/ task' = "reset" /\ at' = 1 /\ sclk' = "requested"
           \/ task' \in {"init", "failed"}
    BY <1>3 DEF ov7670_init, Prepare, SetupAgain, Enter, CamTypes
  <2>2. task' \in {"reset", "init", "failed"} /\ DOMAIN sensor' = Registers
    BY <2>1 DEF CamTypes
  <2>3. /\ task' \in Tasks => at' \in 1..Count(task')
        /\ task' \in Tasks => sclk' # "reset"
    BY <1>1, <2>1
  <2>4. QED
    BY <2>1, <2>2, <2>3, BeforeConfigure
<1>4. QED
  BY <1>2, <1>3

\* One step of the camera setup.
LEMMA CamNextKeeps ==
  ASSUME CamInv, CamNext
  PROVE  CamInv'
<1>1. CASE WriteReg
  <2>1. task \in Tasks /\ Transfer.write /\ task \in {"reset", "configure", "drive"}
    <3>1. task \in Tasks /\ Transfer.write
      BY <1>1 DEF WriteReg
    <3>2. at \in 1..Count(task)
      BY <3>1 DEF CamInv, CamTypes
    <3>3. /\ Script("probe")[1] = Read(PID) /\ Script("probe")[2] = Read(VER)
          /\ Script("clkrc")[1] = Read(CLKRC) /\ Script("pll")[1] = Read(PLL)
          /\ Script("check")[1] = Read(COM10) /\ Script("check")[2] = Read(COM11)
          /\ Script("check")[3] = Read(COM14) /\ Script("check")[4] = Read(PLL)
          /\ Script("check")[5] = Read(YSC) /\ Script("check")[6] = Read(COM2)
          /\ Script("arm")[1] = Read(CLKRC)
      BY ScriptAt, Zenon
    <3>4. \A r : ~Read(r).write
      BY DEF Read
    <3>5. task # "probe"
      <4>1. task = "probe" => at \in 1..2
        BY <3>2 DEF Count
      <4>2. task = "probe" => Transfer \in {Read(PID), Read(VER)}
        BY <3>3, <4>1 DEF Transfer
      <4>3. QED
        BY <3>1, <3>4, <4>2
    <3>6. task \notin {"clkrc", "pll", "arm"}
      <4>1. task \in {"clkrc", "pll", "arm"} => at = 1
        BY <3>2 DEF Count
      <4>2. task \in {"clkrc", "pll", "arm"} => Transfer \in {Read(CLKRC), Read(PLL)}
        BY <3>3, <4>1 DEF Transfer
      <4>3. QED
        BY <3>1, <3>4, <4>2
    <3>7. task # "check"
      <4>1. task = "check" => at \in 1..6
        BY <3>2 DEF Count
      <4>2. task = "check" => Transfer \in {Read(COM10), Read(COM11), Read(COM14), Read(PLL),
                                            Read(YSC), Read(COM2)}
        BY <3>3, <4>1 DEF Transfer
      <4>3. QED
        BY <3>1, <3>4, <4>2
    <3>8. QED
      BY <3>1, <3>5, <3>6, <3>7 DEF Tasks, SetupTasks
  <2>2. QED
    BY <1>1, <2>1, WriteReset, WriteConfigure, WriteDrive
<1>2. CASE ReadReg
  <2>1. task \in Tasks
    BY <1>2 DEF ReadReg
  <2>2. QED
    BY <1>2, <2>1, ReadKeeps, ReadConfigure, ReadBack DEF Tasks, SetupTasks
<1>3. CASE camera_control_check \/ ov7670_init
  BY <1>3, InitKeeps
<1>4. QED
  BY <1>1, <1>2, <1>3 DEF CamNext

\* No other step of the start touches the sensor; a restart begins anew.
LEMMA CamInvNext == CamInv /\ [Next]_bringVars => CamInv'
<1> SUFFICES ASSUME CamInv, [Next]_bringVars PROVE CamInv'
  OBVIOUS
<1>1. ASSUME UNCHANGED camVars
      PROVE  CamInv'
  BY <1>1 DEF camVars, CamInv, CamTypes, SccbAtRate, ConfigureInv, CheckInv, LeftInv, AsConfigured
<1>2. CASE UNCHANGED bringVars
  BY <1>1, <1>2 DEF bringVars
<1>3. CASE PrepareCamera
  <2>1. CASE CamNext
    BY <2>1, CamNextKeeps
  <2>2. CASE CamOutcome
    BY <2>2, OutcomeKeeps
  <2>3. CASE CamReturn /\ task \in {"ready", "failed"}
    <3>1. UNCHANGED <<sensor, sclk, lost, rxArmed, task>> /\ DOMAIN got' = Registers
      BY <2>3 DEF CamReturn
    <3>2. task \notin Tasks
      BY <2>3 DEF Tasks, SetupTasks
    <3>3. QED
      BY <2>3, <3>1, <3>2 DEF CamInv, CamTypes, SccbAtRate, ConfigureInv, CheckInv, LeftInv, AsConfigured,
         FromClkrc, FromPll, FromDrive, FromArm
  <2>4. QED
    BY <1>3, <2>1, <2>2, <2>3 DEF PrepareCamera
<1>4. CASE Startup /\ ~PrepareCamera
  BY <1>1, <1>4 DEF Startup, capture_disable, FrontendQuiesce, CsrQuiesce,
     video_vdma_s2mm_init_start, video_overlay_init, DisplayInitialize, DisplayRestartClock,
     DisplayStart, DmaAndDecoderInit, frontend_enable, frame_receiver_init, CsrPersistent,
     camera_control_validate_input, capture_enable
<1>5. CASE Rearm \/ LoopFails \/ Preview \/ AcceptFrame \/ FrameArrives \/ ScanOut \/ PixelClock
  BY <1>1, <1>5 DEF Rearm, LoopFails, Preview, AcceptFrame, FrameArrives, ScanOut, PixelClock
<1>6. CASE ArmRestart \/ PlReset
  <2>1. task' = "off" /\ UNCHANGED <<sensor, lost>> /\ DOMAIN got' = Registers
    BY <1>6 DEF ArmRestart, PlReset, Again, CamRestart, Enter
  <2>2. "off" \notin Tasks
    BY DEF Tasks, SetupTasks
  <2>3. QED
    BY <2>1, <2>2, BeforeConfigure DEF CamInv, CamTypes
<1>7. QED
  BY <1>2, <1>3, <1>4, <1>5, <1>6 DEF Next

\* The setup by itself keeps it too.
LEMMA CamInvAlone == CamInv /\ [CamNext]_camVars => CamInv'
<1> SUFFICES ASSUME CamInv, [CamNext]_camVars PROVE CamInv'
  OBVIOUS
<1>1. CASE CamNext
  BY <1>1, CamNextKeeps
<1>2. CASE UNCHANGED camVars
  BY <1>2 DEF camVars, CamInv, CamTypes, SccbAtRate, ConfigureInv, CheckInv, LeftInv, AsConfigured
<1>3. QED
  BY <1>1, <1>2

\* What the invariant implies holds of the setup, by itself and within the start.
LEMMA CamAlways == (CamSpec => []CamInv) /\ (Spec => []CamInv)
<1>1. Init => CamStart
  BY DEF Init
<1>2. QED
  BY <1>1, CamInvInit, CamInvAlone, CamInvNext, PTL DEF CamSpec, Spec

-----------------------------------------------------------------------------
\* A setup that succeeds leaves the sensor as the capture path was validated, whatever
\* failed, was repeated or was lost on the way (runtime_prepare_camera).
THEOREM SensorIsConfigured == (CamSpec => []SensorConfigured) /\ (Spec => []SensorConfigured)
<1>1. CamInv => SensorConfigured
  BY DEF CamInv, LeftInv, AsConfigured, SensorConfigured, FromClkrc, FromPll, FromDrive, FromArm
<1>2. QED
  BY <1>1, CamAlways, PTL

\* No transfer runs at the reset rate of the bus: every way out of a failed transfer
\* sets the divider again (ov7670.c, sccb_recover).
THEOREM SccbRateIsKept == (CamSpec => []SccbAtRate) /\ (Spec => []SccbAtRate)
<1>1. CamInv => SccbAtRate
  BY DEF CamInv
<1>2. QED
  BY <1>1, CamAlways, PTL

\* The automatic controls are off while their parameters are written, although every
\* reset turns them on, and on when the setup succeeds; whatever failed, was repeated or
\* was lost on the way, but for the writes of COM8 themselves (ov7670.c, the tables for
\* exposure and for the output format).
THEOREM AutomaticsDoWait == (CamSpec => []AutomaticsWait) /\ (Spec => []AutomaticsWait)
<1>1. ASSUME CamInv, COM8 \notin lost
      PROVE  /\ task = "configure" /\ Transfer.write /\ Transfer.reg \in Tuning
                  => sensor[COM8] % 8 = 0
             /\ task = "ready" => sensor[COM8] % 8 = 7
  <2>1. ASSUME task = "configure", Transfer.write, Transfer.reg \in Tuning
        PROVE  sensor[COM8] % 8 = 0
    <3>1. Transfer = Configuration[at]
      BY <2>1, ScriptAt, Zenon DEF Transfer
    <3>2. at \in 1..134
      BY <1>1, <2>1 DEF CamInv, CamTypes, Tasks, SetupTasks, Count
    <3>3. \A i \in 131..134 : ~Configuration[i].write
      BY ConfigurationSplit, Zenon
    <3>4. at \in 1..130
      BY <2>1, <3>1, <3>2, <3>3
    <3>5. at \in 36..125
      BY <2>1, <3>1, <3>4, ConfigurationWrites, Zenon
    <3>6. sensor[COM8] = 224
      BY <1>1, <2>1, <3>5 DEF CamInv, ConfigureInv
    <3>7. QED
      BY <3>6
  <2>2. ASSUME task = "ready" PROVE sensor[COM8] % 8 = 7
    <3>1. sensor[COM8] = 231
      BY <1>1, <2>2 DEF CamInv, LeftInv, AsConfigured, FromClkrc, FromPll, FromDrive, FromArm
    <3>2. QED
      BY <3>1
  <2>3. QED
    BY <2>1, <2>2
<1>2. CamInv => AutomaticsWait
  BY <1>1 DEF AutomaticsWait
<1>3. QED
  BY <1>2, CamAlways, PTL
=============================================================================
