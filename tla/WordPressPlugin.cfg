SPECIFICATION Spec
CONSTANTS
  w1 = w1
  w2 = w2
  Workers = {w1, w2}
  Requests = {{"login"}, {"login", "right"}, {"comment", "filled"}, {"rest"}, {"rest", "cookie", "decoy"}, {"comment"}}
  LoginMax = 2
  RestMax = 1
  Window = 2
  BlockHoneypot = TRUE
  CacheMayThrow = TRUE
  MaxNow = 3
  MaxCounted = 3
INVARIANTS TypeOK SerialClientsReported FilledCommentNeverPosted EveryDetectionReported
PROPERTIES NeverRefusedEarly
SYMMETRY Symmetry
