----------------------------- MODULE Agent_proofs -----------------------------
(***************************************************************************)
(* Proofs about Agent, for any set of sites and fields and however often   *)
(* the visitor acts, leaves and comes back.                                *)
(***************************************************************************)
EXTENDS Agent, FiniteSetTheorems, SequenceTheorems, TLAPS

-----------------------------------------------------------------------------
(* Types.                                                                  *)

PageTypes ==
  /\ page \in {"loading", "open", "hidden", "gone"}
  /\ config \in Config \cup {NoConfig}
  /\ ready \in {"no", "waiting", "done"}
  /\ ready = "no" <=> config = NoConfig
  /\ triggered \subseteq Fields /\ filled \subseteq Fields
  /\ moves \in 0..MaxMoves
  /\ left \in 0..NotLeft /\ hides \in 0..MaxHides
  /\ sent \in Seq(Event)

FlagTypes ==
  /\ timer \in BOOLEAN /\ listening \in BOOLEAN
  /\ ready # "done" => timer = FALSE /\ listening = FALSE

ScorerTypes ==
  \/ abort = TRUE /\ scorer \in {"fetch", "body"}
  \/ abort = FALSE /\ scorer \in {"none", "wasm", "null", "scorer"}

TypeInv == PageTypes /\ FlagTypes /\ ScorerTypes

LEMMA Parts == TypeInv => TypeOK
  BY DEF TypeInv, PageTypes, FlagTypes, ScorerTypes, TypeOK

LEMMA Bounds == MaxMoves \in Nat /\ MaxHides \in Nat /\ NoConfig \notin Config /\ NotLeft \in Nat
  BY AgentAssumption DEF NotLeft

\* The events that are sent.
LEMMA Events ==
  ASSUME PageTypes, config # NoConfig
  PROVE  /\ CanaryEvent(config) \in Event /\ Snapshot \in Event
         /\ \A f \in Fields : FieldEvent(f) \in Event
  BY DEF PageTypes, Config, CanaryEvent, Snapshot, FieldEvent, Event

LEMMA InitTypes == Init => TypeInv
<1> SUFFICES ASSUME Init PROVE TypeInv
  OBVIOUS
<1>1. PageTypes
  <2>1. sent = <<>> /\ sent \in Seq(Event)
    BY DEF Init
  <2> QED BY <2>1, Bounds DEF Init, PageTypes, NotLeft
<1>2. FlagTypes
  BY DEF Init, FlagTypes
<1>3. ScorerTypes
  BY DEF Init, ScorerTypes
<1> QED BY <1>1, <1>2, <1>3 DEF TypeInv

-----------------------------------------------------------------------------
(* The steps in groups: those that send, and those that do not.            *)

Begins == (\E c \in Config : CallInit(c)) \/ DOMContentLoaded

Quiet == \/ \E f \in Fields : SetValue(f)
         \/ Interact \/ Return \/ Discard

Rules == UseScoring \/ RulesResponse \/ RulesBody \/ RulesTimeout \/ WasmInit

LEMMA NextCases ==
  Next => Begins \/ Quiet \/ Rules \/ FlushByTimer \/ Leave \/ \E f \in Fields : Input(f)
  BY DEF Next, Script, Visitor, Network, Begins, Quiet, Rules

\* The steps that begin set up the agent: not at all, later, or now.
LEMMA BeginsFrame ==
  ASSUME TypeInv, Begins
  PROVE  /\ UNCHANGED <<filled, triggered, moves, left, hides>>
         /\ page' \in {page, "open"}
         /\ \/ UNCHANGED <<config, ready, sent, timer, listening>>
            \/ /\ config = NoConfig /\ config' \in Config /\ ready' = "waiting"
               /\ UNCHANGED <<sent, timer, listening>>
            \/ /\ ready # "done" /\ ready' = "done"
               /\ config' \in Config /\ config \in {NoConfig, config'}
               /\ timer' = TRUE /\ listening' = TRUE
               /\ sent' = Append(sent, CanaryEvent(config'))
<1>1. ASSUME NEW c \in Config, CallInit(c)
      PROVE  /\ UNCHANGED <<filled, triggered, moves, left, hides, page>>
             /\ config = NoConfig /\ config' = c /\ ready # "done"
             /\ \/ ready' = "waiting" /\ UNCHANGED <<sent, timer, listening>>
                \/ /\ ready' = "done" /\ timer' = TRUE /\ listening' = TRUE
                   /\ sent' = Append(sent, CanaryEvent(c))
  BY <1>1 DEF CallInit, Setup, Send, honeypots, TypeInv, PageTypes
<1>2. ASSUME DOMContentLoaded
      PROVE  /\ UNCHANGED <<filled, triggered, moves, left, hides, config>> /\ page' = "open"
             /\ \/ UNCHANGED <<ready, sent, timer, listening>>
                \/ /\ ready = "waiting" /\ ready' = "done" /\ timer' = TRUE /\ listening' = TRUE
                   /\ sent' = Append(sent, CanaryEvent(config))
  BY <1>2 DEF DOMContentLoaded, Setup, Send, honeypots
<1>3. ready = "waiting" => config \in Config
  BY DEF TypeInv, PageTypes
<1> QED BY <1>1, <1>2, <1>3 DEF Begins

LEMMA TypeStep == TypeInv /\ [Next]_vars => TypeInv'
<1> SUFFICES ASSUME TypeInv, [Next]_vars PROVE TypeInv'
  OBVIOUS
<1> USE Bounds
<1>0. PageTypes /\ FlagTypes /\ ScorerTypes
  BY DEF TypeInv
<1>1. CASE Begins
  <2>1. PageTypes'
    <3>1. ASSUME UNCHANGED sent PROVE sent' \in Seq(Event)
      BY <1>0, <3>1 DEF PageTypes
    <3>2. ASSUME config' \in Config, sent' = Append(sent, CanaryEvent(config'))
          PROVE  sent' \in Seq(Event)
      <4>1. CanaryEvent(config') \in Event
        BY <3>2 DEF CanaryEvent, Event, Config
      <4>2. sent \in Seq(Event)
        BY <1>0 DEF PageTypes
      <4> QED BY <3>2, <4>1, <4>2, AppendProperties
    <3>3. sent' \in Seq(Event)
      BY <1>1, <3>1, <3>2, BeginsFrame
    <3> QED BY <1>0, <1>1, <3>3, BeginsFrame DEF PageTypes
  <2>2. FlagTypes'
    <3>1. CASE UNCHANGED <<ready, timer, listening>>
      BY <1>0, <3>1 DEF FlagTypes
    <3>2. CASE config = NoConfig /\ UNCHANGED <<timer, listening>>
      BY <1>0, <3>2 DEF PageTypes, FlagTypes
    <3>3. CASE ready' = "done" /\ timer' = TRUE /\ listening' = TRUE
      BY <3>3 DEF FlagTypes
    <3> QED BY <1>1, <3>1, <3>2, <3>3, BeginsFrame
  <2>3. ScorerTypes'
    <3>1. InitScoring \/ UNCHANGED scoring
      BY <1>1 DEF Begins, CallInit, DOMContentLoaded, Setup
    <3> QED BY <1>0, <3>1 DEF InitScoring, scoring, ScorerTypes
  <2> QED BY <2>1, <2>2, <2>3 DEF TypeInv
<1>2. CASE Quiet
  <2>1. UNCHANGED <<config, ready, triggered, timer, listening, scorer, abort, sent, left, hides>>
    BY <1>2 DEF Quiet, SetValue, Interact, Return, Discard, telemetry, honeypots, scoring
  <2>2. /\ page' \in {page, "open", "gone"} /\ filled' \subseteq Fields
        /\ moves' \in 0..MaxMoves
    BY <1>0, <1>2 DEF Quiet, SetValue, Interact, Return, Discard, telemetry, honeypots, PageTypes
  <2> QED BY <1>0, <2>1, <2>2 DEF TypeInv, PageTypes, FlagTypes, ScorerTypes
<1>3. CASE Rules
  <2>1. UNCHANGED <<page, config, ready, filled, triggered, moves, timer, listening, sent, left, hides>>
    BY <1>3 DEF Rules, UseScoring, RulesResponse, RulesBody, RulesTimeout, WasmInit,
                telemetry, honeypots
  <2>2. ScorerTypes'
    <3>1. CASE UseScoring
      BY <1>0, <3>1 DEF UseScoring, InitScoring, scoring, ScorerTypes
    <3>2. CASE RulesResponse
      BY <1>0, <3>2 DEF RulesResponse, ScorerTypes
    <3>3. CASE RulesBody
      BY <1>0, <3>3 DEF RulesBody, ScorerTypes
    <3>4. CASE RulesTimeout
      BY <1>0, <3>4 DEF RulesTimeout, ScorerTypes
    <3>5. CASE WasmInit
      BY <1>0, <3>5 DEF WasmInit, ScorerTypes
    <3> QED BY <1>3, <3>1, <3>2, <3>3, <3>4, <3>5 DEF Rules
  <2> QED BY <1>0, <2>1, <2>2 DEF TypeInv, PageTypes, FlagTypes
<1>4. CASE FlushByTimer
  <2>1. ready = "done"
    BY <1>0, <1>4 DEF FlushByTimer, PageTypes, FlagTypes
  <2>2. sent' \in Seq(Event)
    BY <1>0, <1>4, <2>1, Events, AppendProperties DEF FlushByTimer, Send, PageTypes
  <2> QED BY <1>0, <1>4, <2>1, <2>2
          DEF FlushByTimer, honeypots, scoring, TypeInv, PageTypes, FlagTypes, ScorerTypes
<1>5. CASE Leave
  <2>1. sent' \in Seq(Event)
    <3>1. listening = TRUE => config # NoConfig
      BY <1>0 DEF PageTypes, FlagTypes
    <3>2. CASE UNCHANGED sent
      BY <1>0, <3>2 DEF PageTypes
    <3>3. CASE listening = TRUE /\ sent' = Append(sent, Snapshot)
      BY <1>0, <3>1, <3>3, Events, AppendProperties DEF PageTypes
    <3> QED BY <1>0, <1>5, <3>2, <3>3 DEF Leave, Send, FlagTypes
  <2>2. left' \in 0..NotLeft
    BY <1>0, <1>5 DEF Leave, PageTypes, NotLeft
  <2>3. hides' \in 0..MaxHides /\ page' \in {"gone", "hidden"}
    BY <1>0, <1>5 DEF Leave, PageTypes
  <2>4. listening' = FALSE /\ UNCHANGED timer
    BY <1>0, <1>5 DEF Leave, FlagTypes
  <2>5. UNCHANGED <<config, ready, filled, triggered, moves, scorer, abort>>
    BY <1>5 DEF Leave, honeypots, scoring
  <2> QED BY <1>0, <2>1, <2>2, <2>3, <2>4, <2>5 DEF TypeInv, PageTypes, FlagTypes, ScorerTypes
<1>6. ASSUME NEW f \in Fields, Input(f) PROVE TypeInv'
  <2>1. triggered' \subseteq Fields /\ sent' \in {sent, Append(sent, FieldEvent(f))}
    BY <1>0, <1>6 DEF Input, Handler, Send, PageTypes
  <2>2. sent' \in Seq(Event)
    <3>1. config # NoConfig
      BY <1>0, <1>6 DEF Input, PageTypes
    <3>2. FieldEvent(f) \in Event
      BY <1>0, <3>1, Events
    <3> QED BY <1>0, <2>1, <3>2, AppendProperties DEF PageTypes
  <2>3. UNCHANGED <<page, config, ready, filled, moves, timer, listening, scorer, abort, left, hides>>
    BY <1>6 DEF Input, telemetry, scoring
  <2> QED BY <1>0, <2>1, <2>2, <2>3 DEF TypeInv, PageTypes, FlagTypes, ScorerTypes
<1>7. CASE UNCHANGED vars
  BY <1>0, <1>7 DEF vars, TypeInv, PageTypes, FlagTypes, ScorerTypes
<1> QED BY <1>1, <1>2, <1>3, <1>4, <1>5, <1>6, <1>7, NextCases

\* Every variable keeps its type; in particular the timer of the rules fetch is
\* armed exactly while an answer is awaited.
THEOREM TypeCorrect == Spec => []TypeOK
  BY InitTypes, TypeStep, Parts, PTL DEF Spec

-----------------------------------------------------------------------------
(* What is sent.                                                           *)

OneSite ==
  /\ OneSitePerPage
  /\ config = NoConfig => sent = <<>>

\* A field that was reported is triggered, and one report is all there is.
Once ==
  /\ FieldReportedOnce
  /\ \A i \in DOMAIN sent : sent[i].type = "honeypot_triggered" => sent[i].field \in triggered

\* Those that were sent and those that the timer and the listener may send.
Armed == (IF timer THEN 1 ELSE 0) + (IF listening THEN 1 ELSE 0)

Covered ==
  /\ SnapshotsCoverTheVisit
  /\ Cardinality(Snapshots) + Armed <= 2
  /\ \A i \in Snapshots : sent[i].moves <= moves
  /\ ready # "done" => left = NotLeft /\ Snapshots = {}
  /\ ready = "done" /\ left = NotLeft => listening

SentInv == TypeInv /\ OneSite /\ Once /\ Covered

\* A list of events, one longer.
LEMMA Longer ==
  ASSUME TypeInv, NEW e \in Event, sent' = Append(sent, e)
  PROVE  /\ DOMAIN sent = 1..Len(sent) /\ Len(sent) \in Nat
         /\ DOMAIN sent' = DOMAIN sent \cup {Len(sent) + 1} /\ Len(sent) + 1 \notin DOMAIN sent
         /\ \A i \in DOMAIN sent : sent'[i] = sent[i] /\ i < Len(sent) + 1 /\ i \in Nat
         /\ sent'[Len(sent) + 1] = e
<1>1. sent \in Seq(Event)
  BY DEF TypeInv, PageTypes
<1> QED BY <1>1, AppendProperties, LenProperties

LEMMA SnapshotsFinite ==
  ASSUME TypeInv
  PROVE  /\ IsFiniteSet(Snapshots) /\ Cardinality(Snapshots) \in Nat
         /\ \A i \in Snapshots : i \in Nat /\ sent[i].moves \in Nat
<1>1. sent \in Seq(Event) /\ DOMAIN sent = 1..Len(sent) /\ Len(sent) \in Nat
  BY LenProperties DEF TypeInv, PageTypes
<1>2. IsFiniteSet(DOMAIN sent)
  BY <1>1, FS_Interval
<1>3. Snapshots \subseteq DOMAIN sent
  BY DEF Snapshots
<1>4. \A i \in DOMAIN sent : sent[i] \in Event
  BY <1>1, ElementOfSeq
<1>5. \A i \in Snapshots : sent[i].moves \in Nat
  BY <1>4, Bounds DEF Snapshots, Event
<1> QED BY <1>1, <1>2, <1>3, <1>5, FS_Subset, FS_CardinalityType

\* Sending something else leaves the snapshots alone; sending one adds it.
LEMMA OtherSent ==
  ASSUME TypeInv, NEW e \in Event, sent' = Append(sent, e), e.type # "behavioral_score"
  PROVE  Snapshots' = Snapshots /\ \A i \in Snapshots : sent'[i] = sent[i]
  BY Longer DEF Snapshots

LEMMA SnapshotSent ==
  ASSUME TypeInv, config # NoConfig, sent' = Append(sent, Snapshot)
  PROVE  /\ Snapshots' = Snapshots \cup {Len(sent) + 1}
         /\ Cardinality(Snapshots') = Cardinality(Snapshots) + 1
         /\ \A i \in Snapshots : sent'[i] = sent[i] /\ i < Len(sent) + 1
         /\ sent'[Len(sent) + 1].moves = moves
<1>1. Snapshot \in Event /\ Snapshot.type = "behavioral_score" /\ Snapshot.moves = moves
  BY Events DEF TypeInv, Snapshot
<1>2. Snapshots' = Snapshots \cup {Len(sent) + 1} /\ Len(sent) + 1 \notin Snapshots
  BY <1>1, Longer DEF Snapshots
<1>3. Cardinality(Snapshots \cup {Len(sent) + 1}) = Cardinality(Snapshots) + 1
  BY <1>2, SnapshotsFinite, FS_AddElement
<1>4. /\ \A i \in Snapshots : sent'[i] = sent[i] /\ i < Len(sent) + 1
      /\ sent'[Len(sent) + 1].moves = moves
  BY <1>1, Longer DEF Snapshots
<1> QED BY <1>2, <1>3, <1>4

LEMMA InitSent == Init => SentInv
<1> SUFFICES ASSUME Init PROVE SentInv
  OBVIOUS
<1>1. DOMAIN sent = {} /\ sent = <<>> /\ left = NotLeft /\ ready = "no"
  BY DEF Init
<1>2. Snapshots = {} /\ Cardinality(Snapshots) = 0
  BY <1>1, FS_EmptySet DEF Snapshots
<1>3. Armed = 0
  BY DEF Init, Armed
<1>4. OneSite
  BY <1>1 DEF OneSite, OneSitePerPage
<1>5. Once
  BY <1>1 DEF Once, FieldReportedOnce
<1>6. Covered
  BY <1>1, <1>2, <1>3 DEF Covered, SnapshotsCoverTheVisit
<1> QED BY <1>4, <1>5, <1>6, InitTypes DEF SentInv

\* Who sends what: one event at most, of the site of the page.
LEMMA Sends ==
  ASSUME TypeInv, [Next]_vars
  PROVE  \/ UNCHANGED sent
         \/ ready # "done" /\ config' \in Config /\ sent' = Append(sent, CanaryEvent(config'))
         \/ config # NoConfig /\ sent' = Append(sent, Snapshot)
         \/ /\ config # NoConfig
            /\ \E f \in filled \ triggered : /\ sent' = Append(sent, FieldEvent(f))
                                            /\ triggered' = triggered \cup {f}
<1>1. CASE Begins
  BY <1>1, BeginsFrame
<1>2. CASE Quiet \/ Rules \/ UNCHANGED vars
  BY <1>2 DEF Quiet, Rules, SetValue, Interact, Return, Discard, UseScoring, RulesResponse,
              RulesBody, RulesTimeout, WasmInit, vars
<1>3. CASE FlushByTimer
  <2>1. ready = "done" /\ config # NoConfig
    BY <1>3 DEF FlushByTimer, TypeInv, PageTypes, FlagTypes
  <2> QED BY <1>3, <2>1 DEF FlushByTimer, Send
<1>4. CASE Leave
  <2>1. listening = TRUE => config # NoConfig
    BY DEF TypeInv, PageTypes, FlagTypes
  <2> QED BY <1>4, <2>1 DEF Leave, Send
<1>5. ASSUME NEW f \in Fields, Input(f)
      PROVE  \/ UNCHANGED sent
             \/ /\ config # NoConfig /\ f \in filled \ triggered
                /\ sent' = Append(sent, FieldEvent(f)) /\ triggered' = triggered \cup {f}
  BY <1>5 DEF Input, Handler, Send, TypeInv, PageTypes
<1> QED BY <1>1, <1>2, <1>3, <1>4, <1>5, NextCases

LEMMA ConfigStays ==
  ASSUME TypeInv, [Next]_vars
  PROVE  config # NoConfig => config' = config
  BY BeginsFrame, NextCases
     DEF Quiet, Rules, SetValue, Interact, Return, Discard, UseScoring, RulesResponse,
         RulesBody, RulesTimeout, WasmInit, FlushByTimer, Leave, Input, vars

LEMMA OneSiteStep == TypeInv /\ OneSite /\ [Next]_vars => OneSite'
<1> SUFFICES ASSUME TypeInv, OneSite, [Next]_vars PROVE OneSite'
  OBVIOUS
<1>1. CASE UNCHANGED sent
  <2>1. config = NoConfig => DOMAIN sent = {}
    BY DEF OneSite
  <2>2. config' = NoConfig => config = NoConfig
    BY ConfigStays
  <2> QED BY <1>1, <2>1, <2>2, ConfigStays DEF OneSite, OneSitePerPage
<1>2. ASSUME NEW e \in Event, sent' = Append(sent, e), config' # NoConfig, e.site = config'.site
      PROVE  OneSite'
  <2>1. \A i \in DOMAIN sent : sent[i].site = config'.site
    BY ConfigStays DEF OneSite, OneSitePerPage
  <2> QED BY <1>2, <2>1, Longer DEF OneSite, OneSitePerPage
<1>3. CASE config' \in Config /\ sent' = Append(sent, CanaryEvent(config'))
  <2>1. CanaryEvent(config') \in Event /\ CanaryEvent(config').site = config'.site
    BY <1>3 DEF CanaryEvent, Event, Config
  <2> QED BY <1>2, <1>3, <2>1, Bounds
<1>4. ASSUME config # NoConfig,
             \/ sent' = Append(sent, Snapshot)
             \/ \E f \in Fields : sent' = Append(sent, FieldEvent(f))
      PROVE  OneSite'
  <2>1. config' = config
    BY <1>4, ConfigStays
  <2>2. Snapshot \in Event /\ \A f \in Fields : FieldEvent(f) \in Event
    BY <1>4, Events DEF TypeInv
  <2>3. Snapshot.site = config.site /\ \A f \in Fields : FieldEvent(f).site = config.site
    BY DEF Snapshot, FieldEvent
  <2> QED BY <1>2, <1>4, <2>1, <2>2, <2>3
<1>5. triggered \subseteq Fields /\ filled \subseteq Fields
  BY DEF TypeInv, PageTypes
<1> QED BY <1>1, <1>3, <1>4, <1>5, Sends

LEMMA TriggeredStays ==
  ASSUME TypeInv, [Next]_vars
  PROVE  triggered \subseteq triggered'
<1>1. CASE Begins
  BY <1>1, BeginsFrame
<1>2. CASE ~Begins
  BY <1>2, NextCases
     DEF Quiet, Rules, SetValue, Interact, Return, Discard, UseScoring, RulesResponse,
         RulesBody, RulesTimeout, WasmInit, FlushByTimer, Leave, Input, Handler, vars, honeypots
<1> QED BY <1>1, <1>2

LEMMA OnceStep == TypeInv /\ Once /\ [Next]_vars => Once'
<1> SUFFICES ASSUME TypeInv, Once, [Next]_vars PROVE Once'
  OBVIOUS
<1>1. CASE UNCHANGED sent
  BY <1>1, TriggeredStays DEF Once, FieldReportedOnce
<1>2. ASSUME NEW e \in Event, sent' = Append(sent, e), e.type # "honeypot_triggered" PROVE Once'
  BY <1>2, Longer, TriggeredStays DEF Once, FieldReportedOnce
<1>3. CASE config' \in Config /\ sent' = Append(sent, CanaryEvent(config'))
  <2>1. CanaryEvent(config') \in Event /\ CanaryEvent(config').type # "honeypot_triggered"
    BY <1>3 DEF CanaryEvent, Event, Config
  <2> QED BY <1>2, <1>3, <2>1
<1>4. CASE config # NoConfig /\ sent' = Append(sent, Snapshot)
  <2>1. Snapshot \in Event /\ Snapshot.type # "honeypot_triggered"
    BY <1>4, Events DEF TypeInv, Snapshot
  <2> QED BY <1>2, <1>4, <2>1
<1>5. ASSUME config # NoConfig, NEW f \in filled \ triggered,
             sent' = Append(sent, FieldEvent(f)), triggered' = triggered \cup {f}
      PROVE  Once'
  <2>1. FieldEvent(f) \in Event /\ FieldEvent(f).field = f
    BY <1>5, Events DEF TypeInv, PageTypes, FieldEvent
  <2>2. \A i \in DOMAIN sent : sent[i].type = "honeypot_triggered" => sent[i].field # f
    BY DEF Once
  <2> QED BY <1>5, <2>1, <2>2, Longer DEF Once, FieldReportedOnce
<1> QED BY <1>1, <1>3, <1>4, <1>5, Sends

\* A step that sends no snapshot, arms nothing and does not leave the page.
LEMMA SameSnapshots ==
  ASSUME TypeInv, Covered, Snapshots' = Snapshots,
         \A i \in Snapshots : sent'[i].moves = sent[i].moves,
         UNCHANGED <<timer, listening, left>>, moves' \in Nat, moves' >= moves,
         ready' # "done" => ready # "done", ready' = "done" => ready = "done"
  PROVE  Covered'
<1>1. Armed' = Armed
  BY DEF Armed
<1>2. \A i \in Snapshots : sent[i].moves \in Nat /\ moves \in Nat
  BY SnapshotsFinite, Bounds DEF TypeInv, PageTypes
<1>3. Cardinality(Snapshots') = Cardinality(Snapshots)
  OBVIOUS
<1>4. SnapshotsCoverTheVisit'
  BY <1>3 DEF Covered, SnapshotsCoverTheVisit
<1>5. \A i \in Snapshots' : sent'[i].moves <= moves'
  BY <1>2 DEF Covered
<1> QED BY <1>1, <1>3, <1>4, <1>5 DEF Covered

\* A step that sends a snapshot, for the timer or the listener.
LEMMA OneMore ==
  ASSUME TypeInv, Covered, ready = "done", config # NoConfig, sent' = Append(sent, Snapshot),
         Armed' = Armed - 1, UNCHANGED <<ready, moves>>,
         left' = left \/ left' = moves,
         left' = NotLeft => left = NotLeft /\ listening'
  PROVE  Covered'
<1>0. /\ moves \in Nat /\ Armed \in Nat /\ Cardinality(Snapshots) \in Nat /\ Len(sent) + 1 \in Nat
      /\ \A i \in Snapshots : i \in Nat /\ sent[i].moves \in Nat
  <2>1. moves \in Nat /\ Len(sent) \in Nat
    BY Bounds, LenProperties DEF TypeInv, PageTypes
  <2>2. Armed \in Nat
    BY DEF Armed
  <2> QED BY <2>1, <2>2, SnapshotsFinite
<1>1. /\ Snapshots' = Snapshots \cup {Len(sent) + 1}
      /\ Cardinality(Snapshots') = Cardinality(Snapshots) + 1
      /\ \A i \in Snapshots : sent'[i] = sent[i] /\ i < Len(sent) + 1
      /\ sent'[Len(sent) + 1].moves = moves
  BY SnapshotSent
<1>2. Cardinality(Snapshots') + Armed' <= 2 /\ Cardinality(Snapshots') <= 2
  <2>1. Armed' \in Nat
    BY DEF Armed
  <2> QED BY <1>0, <1>1, <2>1 DEF Covered
<1>a. \A i \in Snapshots : sent[i].moves <= moves
  BY DEF Covered
<1>b. \A i, j \in Snapshots : i <= j => sent[i].moves <= sent[j].moves
  BY DEF Covered, SnapshotsCoverTheVisit
<1>c. \A i \in Snapshots : sent'[i].moves = sent[i].moves
  BY <1>1
<1>e. \A i \in Snapshots' : i \in Snapshots \/ i = Len(sent) + 1
  BY <1>1
<1>3. \A i \in Snapshots' : sent'[i].moves <= moves
  <2> SUFFICES ASSUME NEW i \in Snapshots' PROVE sent'[i].moves <= moves
    OBVIOUS
  <2>1. CASE i \in Snapshots
    BY <1>a, <1>c, <2>1
  <2>2. CASE i = Len(sent) + 1
    BY <1>0, <1>1, <2>2
  <2> QED BY <1>e, <2>1, <2>2
<1>4. \A i, j \in Snapshots' : i <= j => sent'[i].moves <= sent'[j].moves
  <2> SUFFICES ASSUME NEW i \in Snapshots', NEW j \in Snapshots', i <= j
               PROVE  sent'[i].moves <= sent'[j].moves
    OBVIOUS
  <2>1. CASE j = Len(sent) + 1
    BY <1>1, <1>3, <2>1
  <2>2. CASE i \in Snapshots /\ j \in Snapshots
    BY <1>b, <1>c, <2>2
  <2>3. CASE i = Len(sent) + 1 /\ j \in Snapshots
    BY <1>0, <1>1, <2>3
  <2> QED BY <1>e, <2>1, <2>2, <2>3
<1>5. left' # NotLeft => \E i \in Snapshots' : sent'[i].moves >= left'
  <2>1. CASE left' = moves
    BY <1>0, <1>1, <2>1
  <2>2. CASE left' = left /\ left # NotLeft
    <3>1. PICK i \in Snapshots : sent[i].moves >= left
      BY <2>2 DEF Covered, SnapshotsCoverTheVisit
    <3> QED BY <1>1, <2>2, <3>1
  <2> QED BY <2>1, <2>2
<1>6. SnapshotsCoverTheVisit'
  BY <1>2, <1>4, <1>5 DEF SnapshotsCoverTheVisit
<1> QED BY <1>2, <1>3, <1>6 DEF Covered

LEMMA CoveredStep == TypeInv /\ Covered /\ [Next]_vars => Covered'
<1> SUFFICES ASSUME TypeInv, Covered, [Next]_vars PROVE Covered'
  OBVIOUS
<1>0. moves \in Nat /\ moves' \in Nat
  BY TypeStep, Bounds DEF TypeInv, PageTypes
<1>1. CASE Begins
  <2>1. CASE UNCHANGED <<ready, sent, timer, listening, moves, left>>
    BY <1>0, <2>1, SameSnapshots DEF Snapshots
  <2>2. CASE /\ config = NoConfig /\ ready' = "waiting"
             /\ UNCHANGED <<sent, timer, listening, moves, left>>
    <3>1. ready # "done"
      BY <2>2 DEF TypeInv, PageTypes
    <3> QED BY <1>0, <2>2, <3>1, SameSnapshots DEF Snapshots
  <2>3. CASE /\ ready # "done" /\ ready' = "done" /\ config' \in Config
             /\ timer' = TRUE /\ listening' = TRUE
             /\ sent' = Append(sent, CanaryEvent(config')) /\ UNCHANGED left
    <3>1. CanaryEvent(config') \in Event /\ CanaryEvent(config').type # "behavioral_score"
      BY <2>3 DEF CanaryEvent, Event, Config
    <3>2. Snapshots' = {} /\ left' = NotLeft
      BY <2>3, <3>1, OtherSent DEF Covered
    <3>3. Cardinality(Snapshots') = 0
      BY <3>2, FS_EmptySet
    <3>4. Armed' = 2 /\ listening'
      BY <2>3 DEF Armed
    <3>5. SnapshotsCoverTheVisit'
      BY <3>2, <3>3 DEF SnapshotsCoverTheVisit, NotLeft
    <3> QED BY <2>3, <3>2, <3>3, <3>4, <3>5 DEF Covered, NotLeft
  <2> QED BY <1>1, <2>1, <2>2, <2>3, BeginsFrame
<1>2. CASE Quiet \/ Rules \/ UNCHANGED vars
  <2>1. UNCHANGED <<ready, sent, timer, listening, left>> /\ moves' \in {moves, moves + 1}
    BY <1>2 DEF Quiet, Rules, SetValue, Interact, Return, Discard, UseScoring, RulesResponse,
                RulesBody, RulesTimeout, WasmInit, vars, telemetry
  <2> QED BY <1>0, <2>1, SameSnapshots DEF Snapshots
<1>3. CASE FlushByTimer
  <2>1. ready = "done" /\ config # NoConfig
    BY <1>3 DEF FlushByTimer, TypeInv, PageTypes, FlagTypes
  <2>2. timer = TRUE /\ timer' = FALSE /\ UNCHANGED <<listening, left, ready, moves>>
    BY <1>3 DEF FlushByTimer, TypeInv, FlagTypes
  <2>3. Armed' = Armed - 1
    BY <2>2 DEF Armed
  <2>4. left = NotLeft => listening'
    BY <2>1, <2>2 DEF Covered
  <2> QED BY <1>3, <2>1, <2>2, <2>3, <2>4, OneMore DEF FlushByTimer, Send
<1>4. CASE Leave
  <2>1. CASE listening
    <3>1. ready = "done" /\ config # NoConfig
      BY <2>1 DEF TypeInv, PageTypes, FlagTypes
    <3>2. listening = TRUE /\ listening' = FALSE /\ UNCHANGED <<timer, ready, moves>>
      BY <1>4, <2>1 DEF Leave, TypeInv, FlagTypes
    <3>3. Armed' = Armed - 1
      BY <3>2 DEF Armed
    <3>4. /\ left' = left \/ left' = moves
          /\ left' # NotLeft
      BY <1>4, <3>1, Bounds DEF Leave, TypeInv, PageTypes, NotLeft
    <3>5. sent' = Append(sent, Snapshot)
      BY <1>4, <2>1 DEF Leave, Send
    <3> QED BY <3>1, <3>2, <3>3, <3>4, <3>5, OneMore
  <2>2. CASE ~listening
    <3>1. UNCHANGED <<sent, listening, timer, ready, moves>>
      BY <1>4, <2>2 DEF Leave
    <3>2. left' = left
      BY <1>4, <2>2 DEF Leave, Covered
    <3> QED BY <1>0, <3>1, <3>2, SameSnapshots DEF Snapshots
  <2> QED BY <2>1, <2>2
<1>5. ASSUME NEW f \in Fields, Input(f) PROVE Covered'
  <2>1. UNCHANGED <<ready, timer, listening, left, moves>>
    BY <1>5 DEF Input, telemetry
  <2>2. CASE UNCHANGED sent
    BY <1>0, <2>1, <2>2, SameSnapshots DEF Snapshots
  <2>3. CASE sent' = Append(sent, FieldEvent(f))
    <3>1. FieldEvent(f) \in Event /\ FieldEvent(f).type # "behavioral_score"
      BY <1>5, Events DEF Input, TypeInv, PageTypes, FieldEvent
    <3>2. Snapshots' = Snapshots /\ \A i \in Snapshots : sent'[i].moves = sent[i].moves
      BY <2>3, <3>1, OtherSent
    <3>3. moves' >= moves
      BY <1>0, <2>1
    <3> QED BY <1>0, <2>1, <3>2, <3>3, SameSnapshots
  <2> QED BY <1>5, <2>2, <2>3 DEF Input, Handler, Send
<1> QED BY <1>1, <1>2, <1>3, <1>4, <1>5, NextCases

LEMMA SentInvariant == Spec => []SentInv
<1>1. SentInv /\ [Next]_vars => SentInv'
  BY TypeStep, OneSiteStep, OnceStep, CoveredStep DEF SentInv
<1> QED BY <1>1, InitSent, PTL DEF Spec

\* A page speaks for the site of the first call of init.
THEOREM FirstSite == Spec => []OneSitePerPage
<1>1. SentInv => OneSitePerPage
  BY DEF SentInv, OneSite
<1> QED BY <1>1, SentInvariant, PTL

\* A honeypot field is reported once, however often it is filled.
THEOREM ReportedOnce == Spec => []FieldReportedOnce
<1>1. SentInv => FieldReportedOnce
  BY DEF SentInv, Once
<1> QED BY <1>1, SentInvariant, PTL

\* Two snapshots at most, in order, and one that covers the first visit.
THEOREM VisitCovered == Spec => []SnapshotsCoverTheVisit
<1>1. SentInv => SnapshotsCoverTheVisit
  BY DEF SentInv, Covered
<1> QED BY <1>1, SentInvariant, PTL
=============================================================================
