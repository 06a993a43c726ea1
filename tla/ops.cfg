SPECIFICATION FairSpec
CONSTANTS
  MaxVersion = 2
  MaxRows = 2
  MaxExits = 1
  MaxFaults = 1
INVARIANTS TypeOK SchemaMatches
PROPERTIES DataSurvives BackupHasAll RestoreIsExact ServiceBack RefinesDatabase ComesUp
