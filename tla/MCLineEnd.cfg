SPECIFICATION Spec
CONSTANTS
  WordBits = 8
  RowWords = 2
  Rows = 10
  MaxOffered = 160
  Images <- MCImages
INVARIANTS
  LineEndAsSaid
