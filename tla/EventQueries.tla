----------------------------- MODULE EventQueries -----------------------------
(***************************************************************************)
(* The read side of the reporting API: GET /sites/:id/summary and          *)
(* GET /sites/:id/events, the SQL of db/index.ts under them, over a table  *)
(* that ingestion fills in any order while the server's clock runs.        *)
(*                                                                         *)
(* Rows carry the client's clock as text, and the queries compare text.    *)
(* Browsers write milliseconds ("...:05.250Z", toISOString), the PHP       *)
(* packages whole seconds ("...:05Z", gmdate).  "." sorts before "Z", so   *)
(* that a whole second sorts after every millisecond of that second.       *)
(* Times are in units of which Sec make a second; one second stands for    *)
(* the hour that is the unit of ?range.                                    *)
(***************************************************************************)
EXTENDS Integers, Sequences, FiniteSets, SequencesExt

CONSTANTS
  EventIds, Sites, Sessions,
  Rows,          \* the events that clients send, of any delta
  Sec,           \* units in a second
  MaxRange,      \* greatest n of ?range=<n>h (1000 in the code)
  DefaultLimit,  \* ?limit when absent or not a number (100)
  MaxLimit,      \* cap of ?limit (500)
  Start, MaxNow  \* bounds: the server's clock

Types == {"honeypot_triggered", "canary_embedded", "rate_limit_exceeded",
          "behavioral_score", "attestation_failed", "request_fingerprint"}

ASSUME QueryAssumption ==
  /\ Sec \in Nat \ {0}
  /\ Rows \subseteq [site : Sites, session : Sessions, type : Types, delta : Int,
                     instant : Nat, millis : BOOLEAN]
  /\ \A row \in Rows : ~row.millis => row.instant % Sec = 0
  /\ {MaxRange, DefaultLimit, MaxLimit, Start, MaxNow} \subseteq Nat
  /\ DefaultLimit <= MaxLimit

VARIABLES
  table,  \* event_id |-> row, for the event_ids stored
  now     \* Date.now()

vars == <<table, now>>

Init == table = <<>> /\ now = Start

\* POST /events (module ReportingApi), events of any age or from the future; an
\* event_id that is stored is refused.
Ingest(e, row) ==
  /\ table' = [d \in DOMAIN table \cup {e} |-> IF d \in DOMAIN table THEN table[d] ELSE row]
  /\ UNCHANGED now

Tick == now < MaxNow /\ now' = now + 1 /\ UNCHANGED table

Next == (\E e \in EventIds, row \in Rows : Ingest(e, row)) \/ Tick

Spec == Init /\ [][Next]_vars

-----------------------------------------------------------------------------
\* Place of a timestamp in the order of its text.
TextKey(instant, millis) ==
  (instant \div Sec) * (Sec + 1) + IF millis THEN instant % Sec ELSE Sec

RowKey(e) == TextKey(table[e].instant, table[e].millis)

\* parseRange: n of ?range=<n>h, or refused with 400.
RangeOk(n) == n > 0 /\ n <= MaxRange

\* sinceIso is written by toISOString.
Since(n) == TextKey(now - n * Sec, TRUE)

\* Defect: strictly after.
StrictlyInWindow(site, n) ==
  {e \in DOMAIN table : table[e].site = site /\ RowKey(e) > Since(n)}

\* WHERE site_id = ? AND timestamp >= ?, of the three queries of a summary.
InWindow(site, n) ==
  {e \in DOMAIN table : table[e].site = site /\ RowKey(e) >= Since(n)}

SumDelta(E) == SumFunction([e \in E |-> table[e].delta])

\* Defect: only the mildest delta of a session counts.
WorstDeltaOnly(E) == 100 + Max({table[e].delta : e \in E})

\* MAX(0, MIN(100, 100 + SUM(score_delta))).
SessionScore(E) == Max({0, Min({100, 100 + SumDelta(E)})})

BandOf(score) ==
  IF score >= 70 THEN "likely_human" ELSE IF score >= 40 THEN "suspicious" ELSE "likely_bot"

OfSession(E, s) == {e \in E : table[e].session = s}

SessionsIn(E) == {table[e].session : e \in E}

\* Defect: the bands count events.
EventsPerBand(site, n) ==
  LET E == InWindow(site, n)
  IN  [band \in {"likely_human", "suspicious", "likely_bot"} |->
         Cardinality({e \in E : BandOf(SessionScore({e})) = band})]

ScoreBands(site, n) ==
  LET E == InWindow(site, n)
  IN  [band \in {"likely_human", "suspicious", "likely_bot"} |->
         Cardinality({s \in SessionsIn(E) : BandOf(SessionScore(OfSession(E, s))) = band})]

Summary(site, n) ==
  LET E == InWindow(site, n)
  IN  [total_events |-> Cardinality(E),
       by_type      |-> [t \in Types |-> Cardinality({e \in E : table[e].type = t})],
       score_bands  |-> ScoreBands(site, n)]

\* ?limit: an absent or malformed one is -1 here.
Limit(param) == IF param >= 0 THEN Min({param, MaxLimit}) ELSE DefaultLimit

\* Defect: oldest first.
OldestFirst(E, limit) ==
  {list \in SetToAllKPermutations(E) :
     /\ Len(list) = Min({limit, Cardinality(E)})
     /\ \A i \in DOMAIN list :
          /\ \A j \in DOMAIN list : i < j => RowKey(list[i]) <= RowKey(list[j])
          /\ \A e \in E \ ToSet(list) : RowKey(list[i]) <= RowKey(e)}

\* ORDER BY timestamp DESC LIMIT ?: any of the orders of equal timestamps.
NewestFirst(E, limit) ==
  {list \in SetToAllKPermutations(E) :
     /\ Len(list) = Min({limit, Cardinality(E)})
     /\ \A i \in DOMAIN list :
          /\ \A j \in DOMAIN list : i < j => RowKey(list[i]) >= RowKey(list[j])
          /\ \A e \in E \ ToSet(list) : RowKey(list[i]) >= RowKey(e)}

\* listEvents: types is one type, or all of them when ?type is absent.
ListEvents(site, types, param) ==
  NewestFirst({e \in DOMAIN table : table[e].site = site /\ table[e].type \in types},
              Limit(param))

-----------------------------------------------------------------------------
(***************************************************************************)
(* What the engine says of the same events: rules/core-rules.yaml, scored  *)
(* as score_signals does.                                                  *)
(***************************************************************************)
CoreRules ==
  LET rule(id, signal, weight) == [id |-> id, signal |-> signal, weight |-> weight]
  IN  <<rule("honeypot-field-fill", "honeypot_triggered", 80),
        rule("rate-limit-exceeded", "rate_limit_exceeded", 40),
        rule("canary-embedded", "canary_embedded", 0),
        rule("behavioral-score-low", "behavioral_score", 30),
        rule("attestation-failed", "attestation_failed", 60),
        rule("request-fingerprint-mismatch", "request_fingerprint", 50)>>

Engine == INSTANCE Scoring WITH
  Ids <- {CoreRules[i].id : i \in 1..6}, Signals <- Types, Empty <- "", U32Max <- 255,
  rules <- CoreRules, signals <- <<>>

EngineBand(E) ==
  Engine!ScoreSignals(CoreRules,
    LET ids == SetToSeq(E) IN [i \in DOMAIN ids |-> table[ids[i]].type]).band

-----------------------------------------------------------------------------
Queries == Sites \X {n \in 0..MaxRange : RangeOk(n)}

\* The three queries of a summary agree: the types add up to the events, the
\* bands to the sessions that had an event.
SummaryAddsUp ==
  \A q \in Queries :
    LET s == Summary(q[1], q[2])
        E == InWindow(q[1], q[2])
    IN  /\ SumFunction(s.by_type) = s.total_events
        /\ SumFunction(s.score_bands) = Cardinality(SessionsIn(E))

\* Comparing text never leaves out an event of the window asked for, and counts
\* none that is a whole second older.
WindowWithinASecond ==
  \A q \in Queries :
    LET since == now - q[2] * Sec
        newerThan(t) == {e \in DOMAIN table : table[e].site = q[1] /\ table[e].instant > t}
        total == Summary(q[1], q[2]).total_events
    IN  /\ Cardinality(newerThan(since - 1)) <= total
        /\ total <= Cardinality(newerThan(since - Sec))

\* The list is newest first, and what the limit cuts off is older than what it
\* keeps, up to one second.
ListWithinASecond ==
  \A site \in Sites, types \in {Types} \cup {{t} : t \in Types}, param \in -1..MaxLimit :
    \A list \in ListEvents(site, types, param) :
      /\ Len(list) <= MaxLimit
      /\ \A i \in DOMAIN list, e \in DOMAIN table :
           (/\ table[e].site = site
            /\ table[e].type \in types
            /\ \A j \in 1..i : list[j] # e)
           => table[e].instant < table[list[i]].instant + Sec

\* What the clients of this repository send: no delta lifts a score, and every
\* honeypot costs 80 (index.ts:52, ReverseShieldMiddleware.php:137,
\* DecoyController.php:28, reverseshield.php:245 and 311).  The API takes any
\* integer (validators.ts:40).
ClientDelta(row) ==
  row.delta <= 0 /\ (row.type = "honeypot_triggered" => row.delta = -80)

\* A session with a honeypot hit in the window is a likely bot for the engine,
\* whatever else it did, in whatever order it came in and whatever its deltas; for
\* the summary, which adds up the deltas it was sent, it is one when those of the
\* session are the clients'.
HoneypotIsBot ==
  \A q \in Queries :
    LET E == InWindow(q[1], q[2])
        caught == {s \in SessionsIn(E) :
                     \E e \in OfSession(E, s) : table[e].type = "honeypot_triggered"}
        charged == {s \in caught : \A e \in OfSession(E, s) : ClientDelta(table[e])}
    IN  /\ ScoreBands(q[1], q[2])["likely_bot"] >= Cardinality(charged)
        /\ \A s \in caught : EngineBand(OfSession(E, s)) = "likely_bot"

\* Only time, or an event whose delta lifts the score, takes a likely bot off a
\* summary: no other event does, however late it arrives, whatever its type and
\* whatever was stored before it.
LateEventsNeverClear ==
  [][(\A e \in DOMAIN table' \ DOMAIN table : table'[e].delta <= 0) /\ now' = now =>
       \A q \in Queries :
         ScoreBands(q[1], q[2])["likely_bot"] <= ScoreBands(q[1], q[2])["likely_bot"]']_vars
=============================================================================
