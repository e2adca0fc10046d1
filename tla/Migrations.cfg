\* Two processes, the ten migrations of the repository, three crashes, and four
\* roll-backs: past version 8, the one whose scripts cannot be run twice.
SPECIFICATION FairSpec
CONSTANTS
  Process <- Daemons
  None <- Nobody
  MaxCrashes = 3
  MaxRollbacks = 4
INVARIANTS
  TypeOK
  RecordMatchesSchema
  OpenIsComplete
PROPERTIES
  EventuallyMigrated
