SPECIFICATION FBSpec
CONSTANTS
  IdMax = 1
  InitialId = 1
  Descs = {d0, d1}
  NoDesc = d0
INVARIANTS
  BankExclusion
  Accounting
PROPERTIES
  FailClosed
  ImplementsFrameQueue
