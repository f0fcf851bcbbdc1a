CONSTANTS
  MaxRules = 3
  MaxEndpoints = 2
  EmptyVersions = {3}
SPECIFICATION Spec
INVARIANT TypeOK
PROPERTIES
  FileStaysWhole
  Saved
  SavedBySync
CHECK_DEADLOCK FALSE
