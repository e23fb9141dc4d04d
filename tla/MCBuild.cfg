SPECIFICATION FairSpec
CONSTANTS
  Procs = {"p", "q"}
  Commands = {"check", "build", "test"}
  Sources <- AllSources
CHECK_DEADLOCK FALSE
INVARIANTS TypeOK EmittedWasGated TestPredictsBuild SuccessMeansBuilt
PROPERTY CommandsEnd
