SPECIFICATION Spec
CONSTANTS
  ScoreReqs = {p1, p2, p3}
  RulesReqs = {g1}
  RefusedReqs = {x1}
  Accepted = {ok1}
  ApiOnly = {wide}
  Broken = {bad}
  MaxEdits = 1
  MaxBoots = 2
INVARIANTS TypeOK LoadedOnce AsFreshAsTheRequest
PROPERTIES EngineVerdictStays ScoresNeverGoBack EveryRequestAnswered
