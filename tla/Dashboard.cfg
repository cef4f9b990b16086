SPECIFICATION Spec
CONSTANTS
  SiteIds = {1, 2}
  Requests <- MCRequests
  None = None
  Mounts = 2
  MaxCalls = 3
  MaxLoads = 2
  MayLose = TRUE
INVARIANTS TypeOK ShownIsCurrent SpinnerHasALoad SelectedIsListed
\* When the bounds are used up and nobody selects or loses anything, the page rests.
CHECK_DEADLOCK FALSE
