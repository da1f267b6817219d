SPECIFICATION Spec
CONSTANTS
  SccbTries = 2
  PrepareTries = 2
  SetupTries = 2
  Clkrc = 128
  Drive = 1
  Pids = {118, 119}
  Plls = {10}
  \* COM2, CLKRC, COM7, COM8, COM10, COM11, COM14, COM15, XSC, YSC
  Losable = {9, 17, 18, 19, 21, 59, 62, 64, 112, 113}
  MaxLost = 1
  Words = 2
  Drawings = {d1, d2, d3, d4, d5}
  MaxBoots = 2
INVARIANTS SensorConfigured SccbAtRate AutomaticsWait HudWhole
PROPERTIES CaptureLast StartReturns
CHECK_DEADLOCK FALSE
