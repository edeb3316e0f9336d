SPECIFICATION Spec
CONSTANTS
  plain = plain
  fast = fast
  Width = 3
  Height = 1
  Terrain <- AllKinds
  Genomes <- MCGenomes
  Traits <- ThriftyTraits
  NoParent = NoParent
  InitialAgents = 1
  InitialFood = 0
  StartingEnergy = 6
  StartingHydration = 7
  FoodSpawns = FALSE
  MaxRegrowth = 1
  MaxTicks = 6
INVARIANTS
  StarvationBound
CHECK_DEADLOCK FALSE
