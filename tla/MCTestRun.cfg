SPECIFICATION MCSpec
CONSTANTS
  Hosts = {"h1", "h2"}
  Descriptors <- MCDescriptors
  MaxCases = 2
  Sizes <- MCSizes
  Excluded <- MCExcluded
  NumFunctions = 2
  MaxRerun = 1
  MaxRuns = 3
  Threads = {"w", "v"}
  Tables = {1, 2}
  Requests <- MCRequests
  Wrap = 4
  Switches <- MCSwitches
  MaxUpdates = 4
  Modes <- MCModes
  Rates <- MCRates
  MaxSweeps = 2
  MaxSaves = 2
  MaxLog = 1
INVARIANTS VerdictTrue ResultsKept MeasuredTrue SweepTrue FixtureTrue
PROPERTY EndsClean
CHECK_DEADLOCK FALSE
