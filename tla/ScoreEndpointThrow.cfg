SPECIFICATION Spec
CONSTANTS
  ScoreReqs = {p1, p2, p3}
  RulesReqs = {g1}
  RefusedReqs = {x1}
  Accepted = {ok1}
  ApiOnly = {}
  Broken = {bad}
  MaxEdits = 1
  MaxBoots = 2
PROPERTY ThrowIsAnswered
