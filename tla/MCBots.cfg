SPECIFICATION FairBrainsSpec
CONSTANTS
  Programs <- MCPrograms
  Sources <- MCSources
  HalfWord = 128
  MaxStack = 4
  MaxLocals = 256
  MaxCallDepth = 2
  IntrinsicCost = 3
  Budget = 24
  Width = 2
  Height = 2
  Terrain <- MCTerrain
  Traits <- MCTraits
  MaxReserve = 7
  Nets <- MCNets
  Energies <- MCEnergies
  Interval = 4
  Outset <- MCOutset
INVARIANTS
  TypeOK
  BudgetBoundsActions
  CompiledMeansSource
  CompiledRunsClean
PROPERTIES
  EnergyIsNotMade
  ImplementsVm
  LearnsWhatItTried
  TickEnds
CHECK_DEADLOCK FALSE
