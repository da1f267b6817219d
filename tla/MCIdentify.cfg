SPECIFICATION Spec
CONSTANTS
  Width = 16
  Height = 13
  Images <- MCImages
  Rois <- MCRois
  Probes <- MCProbes
  MaxProbes = 2
  MaxRegions = 12
  MaxCapstones = 3
  MaxGrids = 2
  StackLimit = 5
INVARIANTS
  RegionsWhole
  CapstonesDisjoint
  GridsLinked
