---------------------------- MODULE ScoringSession ----------------------------
(***************************************************************************)
(* A session that observes signals while its rule set may be replaced, and *)
(* is scored after every step.                                             *)
(***************************************************************************)
EXTENDS Scoring

CONSTANTS
  RuleSets,     \* the rule sets that callers try to load
  MaxSignals    \* bound: signals of one session

ASSUME SessionAssumption ==
  /\ RuleSets \subseteq Seq(Rule)
  /\ MaxSignals \in Nat

vars == <<rules, signals>>

Init == rules = <<>> /\ signals = <<>>

\* from_json_str, or the reload of a file: an invalid rule set changes nothing.
Load(rs) ==
  /\ ValidateRules(rs)
  /\ rules' = rs
  /\ UNCHANGED signals

Observe(s) ==
  /\ Len(signals) < MaxSignals
  /\ signals' = Append(signals, s)
  /\ UNCHANGED rules

Next == (\E rs \in RuleSets : Load(rs)) \/ (\E s \in Signals : Observe(s))

Spec == Init /\ [][Next]_vars

=============================================================================
