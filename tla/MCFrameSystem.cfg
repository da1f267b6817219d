SPECIFICATION FairSpec
CONSTANTS
  IdMax = 3
  InitialId = 0
  Descs = {d0}
  NoDesc = d0
  Torn = torn
  Environments <- Worlds
INVARIANTS
  NoFault
  DecodedInOrder
  CpuImageIntact
  GuidedOnlyIfSound
  PairedDecode
  BinaryBankIntact
PROPERTIES
  FramesFlow
