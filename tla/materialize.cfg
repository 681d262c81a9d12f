SPECIFICATION Spec
CONSTANTS
  Inputs <- MCInputs
  LoadBatchSize = 2
  MinNumVotes = 5
  DatasetYear = 2
  MaxActors = 3
  MaxProducers = 1
  MaxDirectors = 1
  MaxWriters = 1
  BatchSize = 2
CHECK_DEADLOCK FALSE
INVARIANTS
  StagedIsSelection
  WantedAreBuilt
  CreditsMatch
  AkasMatch
  SeasonsMatch
PROPERTY
  LoadEnds
