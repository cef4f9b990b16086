SPECIFICATION Spec
CONSTANTS
  a = a
  b = b
  c = c
  hp = hp
  rl = rl
  Ids = {a, b, c}
  Signals = {hp, rl}
  Empty = empty
  U32Max = 255
  RuleSets <- MCRuleSets
  MaxSignals = 4
INVARIANTS ScoreIsReference TriggeredIdsAttribute
