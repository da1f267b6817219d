SPECIFICATION MCSpec
CONSTANTS
  MaxPoly = 64
  MaxPayload = 8896
  Symbols <- MCSymbols
INVARIANTS
  SymbolDecoded
  TableSound
CHECK_DEADLOCK FALSE
