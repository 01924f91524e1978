SPECIFICATION Spec
CONSTANTS
  Installed <- MCInstalled
  Ask <- MCAsk
  Absent = Absent
  Err = Err
  Generated = "new"
  MaxRecords = 1
  MaxRequests = 3
  MaxReverts = 1
  MaxFaults = 1
  Handlers = {h1, h2, h3}
SYMMETRY Symmetry
INVARIANTS
  TypeOK
  AnswersWereTrue
  RecordsAreGenuine
  LiveUnlessCached
CHECK_DEADLOCK FALSE
