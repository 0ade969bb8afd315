\* A DFSP caller walks through pages while rows are inserted and updated.
SPECIFICATION SearchSpec
CONSTANTS
  MaxId = 6
  f1 = f1
  f2 = f2
  Fsp = {f1, f2}
  Filter = {f2}
  NoFsp = NoFsp
  Arrival <- MCArrival
  Update <- MCUpdate
  Present = {1, 2, 3, 4, 5}
  Caller = f1
  Size = 2
  ReportPage = 2
  FileRows = 3
  ReportLimit = 4
  MaxAsked = 1
  MaxSearches = 2
  MaxChanges = 1
INVARIANTS WalkComplete PageIsWindow ReportComplete
CHECK_DEADLOCK FALSE
