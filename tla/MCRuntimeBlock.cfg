SPECIFICATION BlockSpec
CONSTANTS
  IdMax = 1
INVARIANTS
  CompletionOrder
  PacketIdentity
  HeldWhileProcessed
  OnePacketPerFrame
  ErrorsReported
