------------------------------- MODULE Scoring -------------------------------
(***************************************************************************)
(* The scoring engine, packages/core/src/scoring.rs, with the checks that  *)
(* rules.rs makes of a rule set before it may be scored with, as operators *)
(* on rules and signals, and what it promises of their result.  How rules  *)
(* and signals come about is in module ScoringSession.                     *)
(*                                                                         *)
(* A sum of weights is a u64 in the code, which no rule set that fits in   *)
(* memory overflows: a natural number here.  total_weight is a u32.        *)
(***************************************************************************)
EXTENDS Naturals, Sequences, FiniteSets, SequencesExt

CONSTANTS
  Ids,          \* rule ids
  Signals,      \* signal names
  Empty,        \* an id or a signal that is empty once trimmed
  U32Max        \* u32::MAX

Rule == [id : Ids \cup {Empty}, signal : Signals \cup {Empty}, weight : 0..U32Max]

ASSUME ScoringAssumption ==
  /\ Empty \notin Ids \cup Signals
  /\ U32Max \in Nat

VARIABLES
  rules,    \* RuleSet.rules
  signals   \* the signals of a session

-----------------------------------------------------------------------------
BaselineScore == 100

ScoreBand(score) ==
  CASE score <= 39 -> "likely_bot"
    [] score \in 40..69 -> "suspicious"
    [] score >= 70 -> "likely_human"

Sum(weights) == SumFunction(weights)

\* Defect: the sum is kept in a u32 and wraps.
WrappingScore(weights) ==
  LET total == Sum(weights) % (U32Max + 1)
  IN  IF total < BaselineScore THEN BaselineScore - total ELSE 0

\* baseline.saturating_sub(total).
ScoreFromWeights(weights) ==
  IF Sum(weights) < BaselineScore THEN BaselineScore - Sum(weights) ELSE 0

\* Everything a list of triggered rules gives.
ScoreFromTriggeredRules(triggered) ==
  LET weights == [i \in DOMAIN triggered |-> triggered[i].weight]
      score   == ScoreFromWeights(weights)
  IN  [score              |-> score,
       band               |-> ScoreBand(score),
       triggered_rule_ids |-> [i \in DOMAIN triggered |-> triggered[i].id],
       total_weight       |-> IF Sum(weights) <= U32Max THEN Sum(weights) ELSE U32Max]

\* The double loop of score_signals: signals outside, the rules of
\* rules_for_signal inside, each pushed as it is met.
PushRulesForSignal(rs, triggered, signal) ==
  FoldLeft(LAMBDA acc, rule : IF rule.signal = signal THEN Append(acc, rule) ELSE acc,
           triggered, rs)

TriggeredRules(rs, sigs) ==
  FoldLeft(LAMBDA acc, signal : PushRulesForSignal(rs, acc, signal), <<>>, sigs)

ScoreSignals(rs, sigs) == ScoreFromTriggeredRules(TriggeredRules(rs, sigs))

\* Defect: duplicate ids are let through.
ValidIgnoringDuplicates(rs) ==
  \A i \in DOMAIN rs : rs[i].id # Empty /\ rs[i].signal # Empty

\* validate_rules returns Ok.
ValidateRules(rs) ==
  /\ \A i \in DOMAIN rs : rs[i].id # Empty /\ rs[i].signal # Empty
  /\ \A i, j \in DOMAIN rs : rs[i].id = rs[j].id => i = j

result == ScoreSignals(rules, signals)

-----------------------------------------------------------------------------
Occurrences(seq, x) == Cardinality({i \in DOMAIN seq : seq[i] = x})

\* The score does not depend on the order of the signals: 100 less the weight
\* of every rule times the number of times its signal was observed, at least 0,
\* however far the weights run over 100 or over u32::MAX.
ScoreIsReference ==
  LET penalty == SumFunction(
        [i \in DOMAIN rules |-> rules[i].weight * Occurrences(signals, rules[i].signal)])
  IN  /\ result.score = IF penalty <= 100 THEN 100 - penalty ELSE 0
      /\ result.total_weight = Min({U32Max, penalty})

\* An id in triggered_rule_ids names one rule, and is there once for each
\* occurrence of that rule's signal: the dashboard can attribute the penalty.
TriggeredIdsAttribute ==
  \A i \in DOMAIN rules :
    Occurrences(result.triggered_rule_ids, rules[i].id)
      = Occurrences(signals, rules[i].signal)
=============================================================================
