------------------------------ MODULE MCScoring ------------------------------
(***************************************************************************)
(* Sessions with every list of at most two rules from a pool that has the  *)
(* weights at the edges (0, 30 and 31 around a band, 100, u32::MAX),       *)
(* shared signals, shared ids and blank fields.                            *)
(***************************************************************************)
EXTENDS ScoringSession

CONSTANTS a, b, c, hp, rl

ARule(id, signal, weight) == [id |-> id, signal |-> signal, weight |-> weight]

Pool ==
  {ARule(a, hp, 80), ARule(a, rl, 31), ARule(b, rl, 30), ARule(b, hp, 0),
   ARule(c, hp, U32Max), ARule(c, rl, 40), ARule(Empty, rl, 100), ARule(a, Empty, 100)}

MCRuleSets == SeqOf(Pool, 2)
=============================================================================
