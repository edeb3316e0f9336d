SPECIFICATION Spec
CONSTANTS
  plain = plain
  fast = fast
  Width = 2
  Height = 1
  Terrain <- LakeAndRock
  Genomes <- MCGenomes
  Traits <- MCTraits
  NoParent = NoParent
  InitialAgents = 1
  InitialFood = 1
  StartingEnergy = 4
  StartingHydration = 2
  FoodSpawns = TRUE
  MaxRegrowth = 1
  MaxTicks = 3
INVARIANTS
  SurvivorsHaveReserves
  LogTellsPopulation
  LivesLoggedOnce
  GenealogyIsForest
  IndexCacheValid
  SnapshotsArrive
  EnvironmentInOrder
CHECK_DEADLOCK FALSE
