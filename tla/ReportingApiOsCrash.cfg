SPECIFICATION Spec
CONSTANTS
  s1 = s1
  s2 = s2
  e1 = e1
  e2 = e2
  p1 = p1
  p2 = p2
  SiteIds = {s1, s2}
  EventIds = {e1, e2}
  Payloads = {p1, p2}
  Malformed = malformed
  Requests <- MCRequests
  MaxCommits = 3
  MaxCrashes = 2
PROPERTY LosesAtMostLastTransaction
