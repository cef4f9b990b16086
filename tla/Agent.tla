-------------------------------- MODULE Agent --------------------------------
(***************************************************************************)
(* One page with the browser agent, packages/agent-js: init, its honeypots,*)
(* canary and telemetry, and the local scorer.  JavaScript runs callback   *)
(* after callback, so each callback is one action; the page's script, the  *)
(* visitor, timers and the network decide their order.                     *)
(*                                                                         *)
(* sent is what transport.send was given.  Whether the browser queues it,  *)
(* refuses it or loses it changes nothing in the page: send does not retry *)
(* and reports nothing back.  The server's side of it is ReportingApi.     *)
(*                                                                         *)
(* A hidden page is in the back/forward cache: frozen, until it is shown   *)
(* again or dropped.  A config that resolveConfig refuses throws before    *)
(* anything is touched and is left out.                                    *)
(***************************************************************************)
EXTENDS Naturals, Sequences, FiniteSets

CONSTANTS
  Sites,      \* sites that calls of init name
  Fields,     \* honeypot fields
  NoConfig,   \* init has not been called
  MaxMoves,   \* bound: the visitor's interactions
  MaxHides    \* bound: times the page is left

Config == [site : Sites, localScoring : BOOLEAN]

ASSUME AgentAssumption == NoConfig \notin Config /\ MaxMoves \in Nat /\ MaxHides \in Nat

VARIABLES
  page,       \* "loading", "open", "hidden" or "gone"
  config,     \* initialized, and the config of the init that set it
  ready,      \* setup: "no", "waiting" for DOMContentLoaded, "done"
  filled,     \* fields whose input has a value
  triggered,  \* fields whose triggered flag is set
  moves,      \* telemetry: interactions counted
  timer,      \* the snapshot's timer is armed
  listening,  \* the pagehide listener, registered with once, is there
  scorer,     \* initPromise: "none", at "fetch", "body" or "wasm", or settled
  abort,      \* the timer of fetchRules is armed
  sent,       \* events given to transport.send
  left,       \* history: moves when the page was first left after the setup
  hides       \* times the page was left

telemetry == <<moves, timer, listening>>
honeypots == <<filled, triggered>>
scoring   == <<scorer, abort>>
vars == <<page, config, ready, filled, triggered, moves, timer, listening, scorer,
          abort, sent, left, hides>>

NotLeft == MaxMoves + 1

Running == page \in {"loading", "open"}

Init ==
  /\ page \in {"loading", "open"}
  /\ config = NoConfig /\ ready = "no"
  /\ filled = {} /\ triggered = {}
  /\ moves = 0 /\ timer = FALSE /\ listening = FALSE
  /\ scorer = "none" /\ abort = FALSE
  /\ sent = <<>> /\ left = NotLeft /\ hides = 0

-----------------------------------------------------------------------------
CanaryEvent(c) == [type |-> "canary_embedded", site |-> c.site]
FieldEvent(f)  == [type |-> "honeypot_triggered", site |-> config.site, field |-> f]
Snapshot       == [type |-> "behavioral_score", site |-> config.site, moves |-> moves]

\* transport.send, for which the browser queues the event or not.
Send(e) == sent' = Append(sent, e)

\* initScoring: the first call fetches, all others get its promise.
InitScoring ==
  \/ scorer = "none" /\ scorer' = "fetch" /\ abort' = TRUE
  \/ scorer # "none" /\ UNCHANGED scoring

\* The function ready of init, run for config c.
Setup(c) ==
  /\ ready' = "done"
  /\ Send(CanaryEvent(c))
  /\ timer' = TRUE
  /\ listening' = TRUE
  /\ IF c.localScoring THEN InitScoring ELSE UNCHANGED scoring

\* Defect: initialized is not looked at.
CallInitAgain(c) ==
  /\ Running /\ config # c
  /\ config' = c
  /\ \/ page = "loading" /\ ready' = "waiting" /\ UNCHANGED <<sent, timer, listening, scoring>>
     \/ page = "open" /\ Setup(c)
  /\ UNCHANGED <<page, honeypots, moves, left, hides>>

\* A first call of init.  Later ones return at once.
CallInit(c) ==
  /\ Running /\ config = NoConfig
  /\ config' = c
  /\ \/ page = "loading" /\ ready' = "waiting" /\ UNCHANGED <<sent, timer, listening, scoring>>
     \/ page = "open" /\ Setup(c)
  /\ UNCHANGED <<page, honeypots, moves, left, hides>>

DOMContentLoaded ==
  /\ page = "loading"
  /\ page' = "open"
  /\ \/ ready = "waiting" /\ Setup(config)
     \/ ready = "no" /\ UNCHANGED <<ready, sent, timer, listening, scoring>>
  /\ UNCHANGED <<config, honeypots, moves, left, hides>>

\* A script of the page calls the exported initScoring itself.
UseScoring ==
  /\ Running
  /\ InitScoring
  /\ UNCHANGED <<page, config, ready, honeypots, telemetry, sent, left, hides>>

-----------------------------------------------------------------------------
\* A field is filled or emptied, by hand or by a script; the event for it may
\* follow at once, later, more than once or not at all.
SetValue(f) ==
  /\ page = "open" /\ ready = "done"
  /\ filled' \in {filled \cup {f}, filled \ {f}}
  /\ UNCHANGED <<page, config, ready, triggered, telemetry, scoring, sent, left, hides>>

\* Defect: a field that was emptied is watched anew.
HandlerForgets(f) ==
  /\ triggered' = IF f \in filled THEN triggered \cup {f} ELSE triggered \ {f}
  /\ sent' = IF f \in filled \ triggered THEN Append(sent, FieldEvent(f)) ELSE sent

\* The handler of installHoneypots.
Handler(f) ==
  \/ /\ f \in filled \ triggered
     /\ triggered' = triggered \cup {f}
     /\ Send(FieldEvent(f))
  \/ f \notin filled \ triggered /\ UNCHANGED <<triggered, sent>>

\* An "input" or a "change" event.
Input(f) ==
  /\ page = "open" /\ ready = "done"
  /\ Handler(f)
  /\ UNCHANGED <<page, config, ready, filled, telemetry, scoring, left, hides>>

\* mousemove, scroll, keydown or click.
Interact ==
  /\ page = "open" /\ ready = "done" /\ moves < MaxMoves
  /\ moves' = moves + 1
  /\ UNCHANGED <<page, config, ready, honeypots, timer, listening, scoring, sent, left, hides>>

\* Defect: the snapshot of the timer is taken for the last one.
TimerUnregisters ==
  /\ page = "open" /\ timer
  /\ timer' = FALSE
  /\ listening' = FALSE
  /\ Send(Snapshot)
  /\ UNCHANGED <<page, config, ready, honeypots, moves, scoring, left, hides>>

\* flushTelemetry from the timer.
FlushByTimer ==
  /\ page = "open" /\ timer
  /\ timer' = FALSE
  /\ Send(Snapshot)
  /\ UNCHANGED <<page, config, ready, honeypots, moves, listening, scoring, left, hides>>

\* The page is left: into the cache, or for good.  pagehide comes first and may
\* find its listener.
Leave ==
  /\ Running /\ hides < MaxHides
  /\ page' \in {"gone"} \cup IF page = "open" THEN {"hidden"} ELSE {}
  /\ \/ /\ listening
        /\ listening' = FALSE
        /\ Send(Snapshot)
     \/ ~listening /\ UNCHANGED <<listening, sent>>
  /\ left' = IF ready = "done" /\ left = NotLeft THEN moves ELSE left
  /\ hides' = hides + 1
  /\ UNCHANGED <<config, ready, honeypots, moves, timer, scoring>>

\* The visitor comes back: the page goes on where it was.
Return ==
  /\ page = "hidden"
  /\ page' = "open"
  /\ UNCHANGED <<config, ready, honeypots, telemetry, scoring, sent, left, hides>>

\* The tab crashes, or the cache drops the page: no pagehide.
Discard ==
  /\ page # "gone"
  /\ page' = "gone"
  /\ UNCHANGED <<config, ready, honeypots, telemetry, scoring, sent, left, hides>>

-----------------------------------------------------------------------------
\* Defect: the timer is cleared once the headers are there.
HeadersClearTimer ==
  /\ Running /\ scorer = "fetch"
  /\ scorer' \in {"body", "null"} /\ abort' = FALSE
  /\ UNCHANGED <<page, config, ready, honeypots, telemetry, sent, left, hides>>

\* The response: its status is a 2xx, or it is not, or the network fails.
RulesResponse ==
  /\ Running /\ scorer = "fetch"
  /\ \/ scorer' = "body" /\ UNCHANGED abort
     \/ scorer' = "null" /\ abort' = FALSE
  /\ UNCHANGED <<page, config, ready, honeypots, telemetry, sent, left, hides>>

\* Defect: the timer is only cleared when the fetch fails.
BodyLeavesTimer ==
  /\ Running /\ scorer = "body"
  /\ scorer' \in {"wasm", "null"} /\ abort' = (scorer' = "wasm")
  /\ UNCHANGED <<page, config, ready, honeypots, telemetry, sent, left, hides>>

\* The body, which is JSON or not.
RulesBody ==
  /\ Running /\ scorer = "body"
  /\ scorer' \in {"wasm", "null"} /\ abort' = FALSE
  /\ UNCHANGED <<page, config, ready, honeypots, telemetry, sent, left, hides>>

\* The timeout aborts the fetch, its body included.
RulesTimeout ==
  /\ Running /\ abort
  /\ scorer' = "null" /\ abort' = FALSE
  /\ UNCHANGED <<page, config, ready, honeypots, telemetry, sent, left, hides>>

\* The .wasm is there and instantiated, or it fails.
WasmInit ==
  /\ Running /\ scorer = "wasm"
  /\ scorer' \in {"scorer", "null"}
  /\ UNCHANGED <<page, config, ready, honeypots, telemetry, abort, sent, left, hides>>

Script   == (\E c \in Config : CallInit(c)) \/ DOMContentLoaded \/ UseScoring
Visitor  == (\E f \in Fields : SetValue(f) \/ Input(f)) \/ Interact \/ Leave \/ Return
Network  == RulesResponse \/ RulesBody \/ WasmInit

Next == Script \/ Visitor \/ FlushByTimer \/ Discard \/ RulesTimeout \/ Network

\* Timers fire in a page that runs; nobody answers a fetch for certain.
Spec == Init /\ [][Next]_vars /\ WF_vars(RulesTimeout)

-----------------------------------------------------------------------------
Event ==
  [type : {"canary_embedded"}, site : Sites]
    \cup [type : {"honeypot_triggered"}, site : Sites, field : Fields]
    \cup [type : {"behavioral_score"}, site : Sites, moves : 0..MaxMoves]

TypeOK ==
  /\ page \in {"loading", "open", "hidden", "gone"}
  /\ config \in Config \cup {NoConfig}
  /\ ready \in {"no", "waiting", "done"}
  /\ triggered \subseteq Fields /\ filled \subseteq Fields
  /\ moves \in 0..MaxMoves
  /\ timer \in BOOLEAN /\ listening \in BOOLEAN /\ abort \in BOOLEAN
  /\ scorer \in {"none", "fetch", "body", "wasm", "null", "scorer"}
  /\ sent \in Seq(Event)
  /\ left \in 0..NotLeft /\ hides \in 0..MaxHides
  /\ ready = "no" <=> config = NoConfig
  /\ abort <=> scorer \in {"fetch", "body"}

\* However often and with whatever configs init is called, before or after
\* DOMContentLoaded, a page speaks for the site of the first call.
OneSitePerPage ==
  \A i \in DOMAIN sent : sent[i].site = config.site

\* A field that is filled, emptied and filled again, with any number of events
\* for it, is reported once.
FieldReportedOnce ==
  \A i, j \in DOMAIN sent :
    /\ sent[i].type = "honeypot_triggered"
    /\ sent[j].type = "honeypot_triggered"
    /\ sent[i].field = sent[j].field
    => i = j

Snapshots == {i \in DOMAIN sent : sent[i].type = "behavioral_score"}

\* Whichever of timer and pagehide comes first, no more than two snapshots are
\* sent, the later one with the greater count; and once a page was left, the
\* last one has all that the visitor did before that.
SnapshotsCoverTheVisit ==
  /\ Cardinality(Snapshots) <= 2
  /\ \A i, j \in Snapshots : i <= j => sent[i].moves <= sent[j].moves
  /\ left # NotLeft => \E i \in Snapshots : sent[i].moves >= left

\* A rules server that never answers, or stops in the middle of the body, does
\* not keep the callers of initScoring waiting (rulesTimeoutMs), in a page that
\* stays on the screen.
RulesFetchEnds ==
  scorer \in {"fetch", "body"} ~> scorer \notin {"fetch", "body"} \/ ~Running
=============================================================================
