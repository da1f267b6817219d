---------------------------- MODULE CameraSetup ----------------------------
(***************************************************************************)
(* runtime_prepare_camera: the sensor is reset, identified and configured  *)
(* over the SCCB bus (ov7670.c), its clock and timing registers are read   *)
(* back, and the conditioner of its pixel clock is armed                   *)
(* (camera_control.c).  Three loops of retries are nested: of one          *)
(* register, of the preparation from the reset on, and of the setup from   *)
(* the controller's initialization on.  External: the bus, on which any    *)
(* transfer may fail before or after the sensor stored the byte or be lost *)
(* unnoticed, the I2C controller's driver, and the sensor.                 *)
(***************************************************************************)
EXTENDS SensorTables, FiniteSets

CONSTANTS SccbTries,     \* OV7670_SCCB_RETRY_COUNT, 3
          PrepareTries,  \* of ov7670_prepare_vga_rgb565, 3
          SetupTries,    \* RUNTIME_CAMERA_OUTER_RETRIES, 5
          Clkrc, Drive,  \* QR_CAMERA_CLKRC, 128, and QR_CAMERA_DRIVE, 1
          Pids, Plls,    \* what the sensor that is fitted may answer
          Losable,       \* bounds of the model: registers a write of which may be lost
          MaxLost        \* unnoticed, and how many of them in one preparation

ASSUME CameraAssumption ==
  /\ SccbTries \in Nat \ {0} /\ PrepareTries \in Nat \ {0} /\ SetupTries \in Nat \ {0}
  /\ Clkrc \in 0..255 /\ Drive \in 0..3 /\ MaxLost \in Nat

VARIABLES
  chip, sensor,           \* the fitted sensor and its registers
  sclk,                   \* the controller's divider: at the requested rate, at its
                          \* reset value, or left there by a refusal of SetSClk
  lost,                   \* history: registers a write of which was lost unnoticed
                          \* in this preparation
  rxArmed,                \* the PCLK conditioner, register 0x34
  task, at,               \* the routine that talks to the sensor and its next transfer
  try, prep, setup,       \* the attempts of the three loops
  got                     \* the local variables that hold what was read

camVars == <<chip, sensor, sclk, lost, rxArmed, task, at, try, prep, setup, got>>

SetupTasks == {"reset", "probe", "configure"}
Tasks == SetupTasks \cup {"clkrc", "pll", "check", "drive", "arm"}
-----------------------------------------------------------------------------
(* What each routine transfers *)

Write(r, v) == [reg |-> r, value |-> v, write |-> TRUE]
Read(r) == [reg |-> r, value |-> 0, write |-> FALSE]

Writes(table) == [i \in DOMAIN table |-> Write(table[i][1], table[i][2])]
Reads(regs) == [i \in DOMAIN regs |-> Read(regs[i])]

\* Mutant of Tables: the output format, which turns the automatic controls on, first.
TablesFormatFirst ==
  ov7670_vga_regs \o ov7670_gamma_regs \o ov7670_rgb565_regs \o ov7670_aec_agc_regs
  \o ov7670_sensor_regs \o ov7670_awb_regs \o ov7670_dsp_regs
Tables ==
  ov7670_vga_regs \o ov7670_gamma_regs \o ov7670_aec_agc_regs \o ov7670_sensor_regs
  \o ov7670_awb_regs \o ov7670_dsp_regs \o ov7670_rgb565_regs

Configuration ==
  <<Write(CLKRC, Clkrc)>> \o Writes(Tables) \o <<Write(CLKRC, Clkrc)>>
  \o Reads(<<COM7, COM15, XSC, YSC>>)

\* The drive strength is the low bits of COM2, the others are kept.
Script(t) ==
  CASE t = "reset"     -> <<Write(COM7, 128)>>
    [] t = "probe"     -> Reads(<<PID, VER>>)
    [] t = "configure" -> Configuration
    [] t = "clkrc"     -> Reads(<<CLKRC>>)
    [] t = "pll"       -> Reads(<<PLL>>)
    [] t = "check"     -> Reads(<<COM10, COM11, COM14, PLL, YSC, COM2>>)
    [] t = "drive"     -> <<Write(COM2, got[COM2] - (got[COM2] % 4) + Drive), Read(COM2)>>
    [] t = "arm"       -> Reads(<<CLKRC>>)

Bits(v, low, n) == (v \div 2^low) % (2^n)

FormatSet(g) ==
  /\ g[COM7] % 8 = 4 /\ Bits(g[COM15], 4, 2) = 1
  /\ Bits(g[XSC], 7, 1) = 0 /\ Bits(g[YSC], 7, 1) = 0
TimingSet(g) ==
  /\ Bits(g[COM10], 1, 1) = 0 /\ Bits(g[COM10], 4, 2) = 0
  /\ Bits(g[COM11], 7, 1) = 0 /\ Bits(g[COM14], 3, 2) = 0 /\ Bits(g[PLL], 6, 2) = 0

\* Mutant of Accepts: the format is not read back.
AcceptsAnyFormat(t, g) ==
  CASE t = "probe"     -> g[PID] = 118 /\ g[VER] = 115
    [] t = "clkrc"     -> g[CLKRC] = Clkrc
    [] t = "check"     -> TimingSet(g)
    [] t = "drive"     -> g[COM2] % 4 = Drive
    [] t = "arm"       -> g[CLKRC] = 128 /\ Bits(g[PLL], 6, 2) = 0
    [] OTHER           -> TRUE
Accepts(t, g) ==
  CASE t = "probe"     -> g[PID] = 118 /\ g[VER] = 115
    [] t = "configure" -> FormatSet(g)
    [] t = "clkrc"     -> g[CLKRC] = Clkrc
    [] t = "check"     -> TimingSet(g)
    [] t = "drive"     -> g[COM2] % 4 = Drive
    [] t = "arm"       -> g[CLKRC] = 128 /\ Bits(g[PLL], 6, 2) = 0
    [] OTHER           -> TRUE
-----------------------------------------------------------------------------
(* The sensor and the bus *)

Written == {Configuration[i].reg : i \in DOMAIN Configuration}
Registers == Written \cup {COM2, PID, VER, PLL}

\* The last value each register is given.
Final == [r \in Written |->
  LET last == CHOOSE i \in DOMAIN Configuration :
                /\ Configuration[i].write /\ Configuration[i].reg = r
                /\ \A j \in DOMAIN Configuration :
                     Configuration[j].write /\ Configuration[j].reg = r => j <= i
  IN Configuration[last].value]

\* After a reset the automatic controls run; registers that tell nothing apart are 0.
Default == [r \in Registers |->
  CASE r = PID -> chip.pid [] r = VER -> 115 [] r = PLL -> chip.pll
    [] r = COM2 -> 1 [] r = COM8 -> 143 [] OTHER -> 0]

\* An earlier run of the application may have left anything in the others.
Unknown == [r \in Registers |-> IF r \in {PID, VER, PLL} THEN Default[r] ELSE 255]

Stored(op) ==
  IF op.reg = COM7 /\ op.value >= 128 THEN Default
  ELSE [sensor EXCEPT ![op.reg] = op.value]

\* A preparation begins with its reset.
LostBefore == IF task = "reset" THEN {} ELSE lost
MayBeLost(op) ==
  /\ op.reg \in Losable
  /\ op.reg \in LostBefore \/ Cardinality(LostBefore) < MaxLost

\* Mutant of AfterAbort: the divider is restored after a controller reset only.
AfterAbortOnly(granted) == "reset"
AfterAbort(granted) == IF granted THEN "requested" ELSE "refused"
AfterReset(granted) == IF granted THEN "requested" ELSE "refused"

\* Abort resets the divider too; a bus that stays busy gets a controller reset.
sccb_recover ==
  \E busy, granted \in BOOLEAN :
    sclk' = IF busy THEN AfterReset(granted) ELSE AfterAbort(granted)
-----------------------------------------------------------------------------
CamStart ==
  /\ chip \in [pid : Pids, pll : Plls]
  /\ sensor \in {Default, Unknown}
  /\ sclk = "reset" /\ lost = {} /\ rxArmed = FALSE
  /\ task = "off" /\ at = 1 /\ try = 1 /\ prep = 1 /\ setup = 1
  /\ got = [r \in Registers |-> 0]

Enter(t) == task' = t /\ at' = 1 /\ try' = 1

\* A preparation starts from the reset, with its local variables cleared.
Prepare == Enter("reset") /\ got' = [r \in Registers |-> 0]

SetupAgain ==
  /\ IF setup < SetupTries THEN Enter("init") /\ setup' = setup + 1
     ELSE Enter("failed") /\ UNCHANGED setup
  /\ UNCHANGED <<prep, got>>

PrepareAgain ==
  IF prep < PrepareTries THEN Prepare /\ prep' = prep + 1 /\ UNCHANGED setup
  ELSE SetupAgain

TaskFailed ==
  CASE task \in SetupTasks      -> PrepareAgain
    [] task \in {"clkrc", "pll"} -> SetupAgain
    [] OTHER                     -> Enter("failed") /\ UNCHANGED <<prep, setup, got>>

After(t) ==
  CASE t = "reset" -> "probe" [] t = "probe" -> "configure" [] t = "configure" -> "clkrc"
    [] t = "clkrc" -> "pll"   [] t = "pll" -> "check"       [] t = "check" -> "drive"
    [] t = "drive" -> "arm"   [] t = "arm" -> "ready"

\* The transfer succeeded and the variables read are now g.  A comparison that
\* fails at the end of the configuration recovers the bus like a transfer does.
Done(g) ==
  IF at < Len(Script(task))
  THEN /\ at' = at + 1 /\ try' = 1 /\ got' = g
       /\ UNCHANGED <<task, prep, setup, sclk, rxArmed>>
  ELSE /\ rxArmed' = (rxArmed \/ (task = "arm" /\ g[CLKRC] = 128))
       /\ IF Accepts(task, g)
          THEN Enter(After(task)) /\ got' = g /\ UNCHANGED <<prep, setup, sclk>>
          ELSE /\ TaskFailed
               /\ IF task = "configure" THEN sccb_recover ELSE UNCHANGED sclk

\* Mutant of TryAgain: an attempt whose bus is recovered is not counted.
TryAgainUncounted == UNCHANGED <<task, at, try, prep, setup, got>>
TryAgain ==
  IF try < SccbTries THEN try' = try + 1 /\ UNCHANGED <<task, at, prep, setup, got>>
  ELSE TaskFailed

Failed == sccb_recover /\ TryAgain /\ UNCHANGED rxArmed

Transfer == Script(task)[at]

\* One turn of the loop of ov7670_write_reg.
WriteReg ==
  /\ task \in Tasks
  /\ Transfer.write
  /\ \E ok, stored \in BOOLEAN :
       /\ sensor' = IF stored THEN Stored(Transfer) ELSE sensor
       /\ \/ ok /\ ~stored /\ MayBeLost(Transfer) /\ lost' = LostBefore \cup {Transfer.reg}
          \/ ~(ok /\ ~stored) /\ lost' = LostBefore
       /\ IF ok THEN Done(got) ELSE Failed
  /\ UNCHANGED chip

\* One turn of the loop of ov7670_read_reg: the value is stored on success only.
ReadReg ==
  /\ task \in Tasks
  /\ ~Transfer.write
  /\ \E ok \in BOOLEAN :
       IF ok THEN Done([got EXCEPT ![Transfer.reg] = sensor[Transfer.reg]]) ELSE Failed
  /\ UNCHANGED <<chip, sensor, lost>>

\* ov7670_init and the call of ov7670_prepare_vga_rgb565 that follows it.
ov7670_init ==
  /\ task = "init"
  /\ \/ sclk' = "requested" /\ Prepare /\ prep' = 1 /\ UNCHANGED setup
     \/ sclk' = "reset" /\ SetupAgain
  /\ UNCHANGED <<chip, sensor, lost, rxArmed>>

\* camera_control_check refuses hardware without the clock before any SCCB transfer.
camera_control_check ==
  /\ task = "off"
  /\ \/ Enter("init") /\ setup' = 1
     \/ Enter("failed") /\ UNCHANGED setup
  /\ UNCHANGED <<chip, sensor, sclk, lost, rxArmed, prep, got>>

CamNext == camera_control_check \/ ov7670_init \/ WriteReg \/ ReadReg

\* The camera by itself.
CamSpec == CamStart /\ [][CamNext]_camVars

\* The function returns: its variables are gone.
CamReturn ==
  /\ try' = 1 /\ at' = 1 /\ prep' = 1 /\ setup' = 1 /\ got' = [r \in Registers |-> 0]
  /\ UNCHANGED <<chip, sensor, sclk, lost, rxArmed, task>>

\* A reset starts the program again; the sensor and the divider keep their state.
CamRestart ==
  /\ Enter("off") /\ prep' = 1 /\ setup' = 1 /\ got' = [r \in Registers |-> 0]
  /\ UNCHANGED <<chip, sensor, sclk, lost>>

\* The whole setup in one step, for a composition that looks at its outcome only:
\* it shares nothing with its surroundings but the conditioner, and a sensor in any
\* state is reset first.
CamOutcome ==
  /\ task = "off"
  /\ sensor' = [r \in Registers |->
       IF r \in Written THEN Final[r] ELSE IF r = COM2 THEN Drive ELSE Default[r]]
  /\ \/ FormatSet(sensor') /\ TimingSet(sensor') /\ sensor'[PID] = 118
        /\ task' = "ready" /\ rxArmed' = TRUE
     \/ task' = "failed" /\ UNCHANGED rxArmed
  /\ sclk' = "requested" /\ lost' = {}
  /\ UNCHANGED <<chip, at, try, prep, setup, got>>
-----------------------------------------------------------------------------
(* When the setup succeeds, whatever failed, was repeated or was lost on   *)
(* the way, the registers that decide the format, the timing and the clock *)
(* hold what the PL capture path was validated with, and the conditioner   *)
(* is armed; and if the last preparation lost no write every register      *)
(* holds the last value the tables give it, whatever the failed ones lost: *)
(* they leave nothing behind.                                              *)
SensorConfigured ==
  task = "ready" =>
    /\ FormatSet(sensor) /\ TimingSet(sensor) /\ sensor[CLKRC] = Clkrc
    /\ sensor[COM2] % 4 = Drive /\ rxArmed
    /\ lost = {} => \A r \in Written : sensor[r] = Final[r]

(* No transfer runs at the reset rate of the controller, which is far too  *)
(* fast for the sensor, unless the driver refused to restore the divider   *)
(* (a case the code only warns of, or does not notice).                    *)
SccbAtRate == task \in Tasks => sclk # "reset"

\* Exposure, gain and white balance parameters.
Tuning == {ov7670_aec_agc_regs[i][1] : i \in 2..Len(ov7670_aec_agc_regs)}
          \cup {ov7670_awb_regs[i][1] : i \in DOMAIN ov7670_awb_regs}

(* The automatic controls are off while their parameters are written, and  *)
(* on at the end ("temporarily disabled while operating parameters are     *)
(* configured", "enabled LAST"), although every reset turns them on;       *)
(* unless this preparation loses a write of COM8, which turns them off and *)
(* on and is never read back, so that nothing notices.                     *)
AutomaticsWait ==
  COM8 \notin lost =>
    /\ task = "configure" /\ Transfer.write /\ Transfer.reg \in Tuning
         => sensor[COM8] % 8 = 0
    /\ task = "ready" => sensor[COM8] % 8 = 7
=============================================================================
