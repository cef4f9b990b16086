SPECIFICATION Spec
CONSTANTS
  site1 = site1
  site2 = site2
  alice = alice
  bob = bob
  EventIds = {e1, e2, e3}
  Sites = {site1, site2}
  Sessions = {alice, bob}
  Rows <- MCRows
  Sec = 2
  MaxRange = 2
  DefaultLimit = 1
  MaxLimit = 2
  Start = 6
  MaxNow = 9
INVARIANTS SummaryAddsUp WindowWithinASecond ListWithinASecond HoneypotIsBot
PROPERTIES LateEventsNeverClear
