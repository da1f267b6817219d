SPECIFICATION MCSpec
CONSTANTS
  Width = 3
  Height = 2
  XLink = 1
  YLink = 0
  MaxHits = 3
  MaxLabels = 2
  EventDepth = 2
  MaxOffered = 4
  CountMax = 7
  SumMax = 15
  MinRecordHits = 1
  MaxRecords = 1
INVARIANTS
  RecordsAreComponents
  NothingLostSilently
PROPERTIES
  PacketComes
