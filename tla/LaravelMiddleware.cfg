SPECIFICATION Spec
CONSTANTS
  Workers = {w1, w2}
  Requests = {{"login", "filled"}, {"api", "decoy"}}
  LoginMax = 2
  ApiMax = 1
  Window = 2
  BlockHoneypot = TRUE
  CacheMayThrow = TRUE
  ReporterMayThrow = TRUE
  MaxNow = 2
  MaxUncounted = 1
  MaxApi = 2
INVARIANTS TypeOK AtMostMaxPlusRacing FilledFormPassesOnlyByThrow
PROPERTIES NeverRefusedEarly DetectionsAreReported
