SPECIFICATION Spec
CONSTANTS
  Sites = {s1, s2}
  Fields = {f1, f2}
  NoConfig = none
  MaxMoves = 2
  MaxHides = 2
INVARIANTS TypeOK OneSitePerPage FieldReportedOnce SnapshotsCoverTheVisit
PROPERTIES RulesFetchEnds
\* A page that is gone does nothing any more.
CHECK_DEADLOCK FALSE
