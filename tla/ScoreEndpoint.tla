---------------------------- MODULE ScoreEndpoint ----------------------------
(***************************************************************************)
(* The Node process of the reporting API serving POST /api/v1/score and    *)
(* GET /sites/:id/rules.json: routes/score.ts, routes/rules.ts, the lazy   *)
(* WASM loader scoring/engine.ts and the shutdown of index.ts.             *)
(*                                                                         *)
(* A handler runs to its first await; what follows the await is a          *)
(* microtask.  Microtasks run in the order in which they became ready, and *)
(* all of them before the event loop takes the next request or the end of  *)
(* the import.  The rules file and the WASM build belong to the operator,  *)
(* who may change them at any time.                                        *)
(***************************************************************************)
EXTENDS Naturals, Sequences

CONSTANTS
  ScoreReqs,     \* well-formed POST /score of a registered site
  RulesReqs,     \* GET rules.json of a registered site
  RefusedReqs,   \* malformed requests (400) and unknown sites (404)
  Accepted,      \* rules files that the API and the engine accept
  ApiOnly,       \* files that only the API accepts: weight over u32::MAX, blank id
  Broken,        \* files the API refuses, a missing one included
  MaxEdits, MaxBoots  \* bounds: changes of the rules file, starts of the process

Requests == ScoreReqs \cup RulesReqs \cup RefusedReqs
Content  == Accepted \cup ApiOnly \cup Broken

ASSUME RequestAssumption ==
  /\ ScoreReqs \cap RulesReqs = {}
  /\ ScoreReqs \cap RefusedReqs = {}
  /\ RulesReqs \cap RefusedReqs = {}
ASSUME ContentAssumption ==
  /\ Accepted \cap (ApiOnly \cup Broken) = {}
  /\ ApiOnly \cap Broken = {}
ASSUME BoundAssumption == MaxEdits \in Nat /\ MaxBoots \in Nat \ {0}

VARIABLES
  process,   \* "up", "closing" (after SIGTERM) or "down"
  boots,     \* starts of the process so far
  file,      \* the rules file: content and number of edits
  built,     \* the .wasm and its JS glue are on disk
  cached,    \* engine.ts: "undefined", "null" or "engine"
  loading,   \* loadingPromise: "none", "pending", or settled: "null", "engine"
  awaiting,  \* handlers awaiting loadingPromise; the first one is its owner
  ready,     \* microtasks: handlers whose await has its value
  reply,     \* what each request was answered
  arrival,   \* history: edits made when a score request arrived
  loads      \* history: calls of loadOnce in this process

engine == <<cached, loading, awaiting, loads>>
disk   == <<file, built>>
vars   == <<process, boots, file, built, cached, loading, awaiting, ready,
            reply, arrival, loads>>

File == [content : Content, edit : 0..MaxEdits]

\* A suspended handler holds the rules it read: rulesJson.
Handler(r) == [req |-> r, rules |-> file]
Handlers   == [req : ScoreReqs, rules : File]

Reply == [status : {"none", "200", "refused", "rules_unavailable", "scoring_unavailable",
                    "scoring_failed", "internal_error", "lost"},
          edit : 0..MaxEdits]
Plain(status) == [status |-> status, edit |-> 0]

\* Requests whose handler is suspended.
InFlight == {awaiting[i].req : i \in DOMAIN awaiting} \cup {ready[i].req : i \in DOMAIN ready}

Init ==
  /\ process = "up" /\ boots = 1
  /\ \E c \in Content : file = [content |-> c, edit |-> 0]
  /\ built \in BOOLEAN
  /\ cached = "undefined" /\ loading = "none" /\ awaiting = <<>> /\ loads = 0
  /\ ready = <<>>
  /\ reply = [r \in Requests |-> Plain("none")]
  /\ arrival = [r \in ScoreReqs |-> 0]

-----------------------------------------------------------------------------
\* The operator.
EditRules(c) ==
  /\ file.edit < MaxEdits
  /\ file' = [content |-> c, edit |-> file.edit + 1]
  /\ UNCHANGED <<process, boots, built, engine, ready, reply, arrival>>

\* build-wasm.sh, or a clean checkout.
Build ==
  /\ built' = ~built
  /\ UNCHANGED <<process, boots, file, engine, ready, reply, arrival>>

-----------------------------------------------------------------------------
\* getEngine and loadOnce, as far as they run without awaiting, for handler h.
UseCached(h) ==
  /\ cached # "undefined"
  /\ ready' = Append(ready, h)
  /\ UNCHANGED engine

\* Defect: a second caller does not see that a load is in flight.
JoinByLoadingAgain(h) ==
  /\ cached = "undefined" /\ loading # "none"
  /\ awaiting' = Append(awaiting, h)
  /\ loads' = loads + 1
  /\ UNCHANGED <<cached, loading, ready>>

JoinLoad(h) ==
  /\ cached = "undefined" /\ loading # "none"
  /\ awaiting' = Append(awaiting, h)
  /\ UNCHANGED <<cached, loading, ready, loads>>

\* loadOnce returns null at once when a file is missing; otherwise it awaits the
\* import of the glue.
StartLoad(h) ==
  /\ cached = "undefined" /\ loading = "none"
  /\ loads' = loads + 1
  /\ awaiting' = <<h>>
  /\ loading' = IF built THEN "pending" ELSE "null"
  /\ UNCHANGED <<cached, ready>>

\* Between two callbacks no microtask is left.
EventLoop == process # "down" /\ ready = <<>> /\ loading \notin {"null", "engine"}

New(r) == reply[r].status = "none" /\ r \notin InFlight

Respond(r, what) == reply' = [reply EXCEPT ![r] = what]

\* Defect: rules once parsed are kept while requests are in flight.
PostScoreOldRules(r) ==
  /\ file.content \notin Broken
  /\ LET h == IF awaiting = <<>> THEN Handler(r) ELSE [awaiting[1] EXCEPT !.req = r]
     IN  UseCached(h) \/ JoinLoad(h) \/ StartLoad(h)
  /\ UNCHANGED reply

\* The rules are read and parsed before the await.
PostScore(r) ==
  /\ file.content \notin Broken
  /\ UseCached(Handler(r)) \/ JoinLoad(Handler(r)) \/ StartLoad(Handler(r))
  /\ UNCHANGED reply

RulesUnavailable(r) ==
  /\ file.content \in Broken
  /\ Respond(r, Plain("rules_unavailable"))
  /\ UNCHANGED <<engine, ready>>

\* The rules are served as the file is now.
GetRules(r) ==
  /\ file.content \notin Broken
  /\ Respond(r, [status |-> "200", edit |-> file.edit])
  /\ UNCHANGED <<engine, ready>>

\* getSite throws (SQLite error) in a handler that is not async: Express
\* answers 500.
LookupFails(r) == Respond(r, Plain("internal_error")) /\ UNCHANGED <<engine, ready>>

Refuse(r) == Respond(r, Plain("refused")) /\ UNCHANGED <<engine, ready>>

\* A closing server still takes requests on connections that are open.
Arrive(r) ==
  /\ EventLoop /\ New(r)
  /\ arrival' = [q \in ScoreReqs |-> IF q = r THEN file.edit ELSE arrival[q]]
  /\ \/ r \in ScoreReqs /\ (PostScore(r) \/ RulesUnavailable(r))
     \/ r \in RulesReqs /\ (GetRules(r) \/ RulesUnavailable(r) \/ LookupFails(r))
     \/ r \in RefusedReqs /\ Refuse(r)
  /\ UNCHANGED <<process, boots, disk>>

\* The import and the instantiation end: with null when they throw.
LoadSettles ==
  /\ EventLoop
  /\ loading = "pending"
  /\ loading' \in {"null", "engine"}
  /\ UNCHANGED <<process, boots, disk, cached, awaiting, loads, ready, reply, arrival>>

\* Defect: only the owner's await continues.
OwnerAlone ==
  /\ loading \in {"null", "engine"}
  /\ cached' = loading
  /\ loading' = "none"
  /\ ready' = Append(ready, Head(awaiting))
  /\ awaiting' = Tail(awaiting)
  /\ UNCHANGED <<process, boots, disk, loads, reply, arrival>>

\* Defect: a failed load is not cached.
OwnerRetries ==
  /\ loading \in {"null", "engine"}
  /\ cached' = IF loading = "null" THEN "undefined" ELSE loading
  /\ loading' = "none"
  /\ ready' = ready \o awaiting
  /\ awaiting' = <<>>
  /\ UNCHANGED <<process, boots, disk, loads, reply, arrival>>

\* Defect: loadingPromise is never reset.
OwnerKeepsPromise ==
  /\ loading \in {"null", "engine"}
  /\ cached' = loading
  /\ loading' = "pending"
  /\ ready' = ready \o awaiting
  /\ awaiting' = <<>>
  /\ UNCHANGED <<process, boots, disk, loads, reply, arrival>>

\* getEngine of the owner continues: it caches the result; then its handler
\* and those that joined have their value, in the order in which they came.
OwnerContinues ==
  /\ loading \in {"null", "engine"}
  /\ cached' = loading
  /\ loading' = "none"
  /\ ready' = ready \o awaiting
  /\ awaiting' = <<>>
  /\ UNCHANGED <<process, boots, disk, loads, reply, arrival>>

\* What a handler answers once it has the engine.
Verdict(h) ==
  IF cached = "null" THEN Plain("scoring_unavailable")
  ELSE IF h.rules.content \in ApiOnly THEN Plain("scoring_failed")
  ELSE [status |-> "200", edit |-> h.rules.edit]

\* Defect: the handler that became ready last runs first.
LastHandlerContinues ==
  /\ ready # <<>>
  /\ Respond(ready[Len(ready)].req, Verdict(ready[Len(ready)]))
  /\ ready' = SubSeq(ready, 1, Len(ready) - 1)
  /\ UNCHANGED <<process, boots, disk, engine, arrival>>

HandlerContinues ==
  /\ ready # <<>>
  /\ Respond(Head(ready).req, Verdict(Head(ready)))
  /\ ready' = Tail(ready)
  /\ UNCHANGED <<process, boots, disk, engine, arrival>>

-----------------------------------------------------------------------------
\* The process ends: what was in flight is lost, what it had in memory too.
Die(inFlight) ==
  /\ process' = "down"
  /\ reply' = [r \in Requests |-> IF r \in inFlight THEN Plain("lost") ELSE reply[r]]
  /\ cached' = "undefined" /\ loading' = "none" /\ awaiting' = <<>> /\ loads' = 0
  /\ ready' = <<>>
  /\ UNCHANGED <<boots, disk>>

Sigterm ==
  /\ process = "up"
  /\ process' = "closing"
  /\ UNCHANGED <<boots, disk, engine, ready, reply, arrival>>

\* The callback of server.close: every connection has ended.
Exit == process = "closing" /\ InFlight = {} /\ Die({}) /\ UNCHANGED arrival

\* kill -9, or the 10 s timer of shutdown.
Kill == process # "down" /\ Die(InFlight) /\ UNCHANGED arrival

\* getSite throws in the async handler of POST /score: Express 4 does not see
\* the rejection, and Node ends a process that has no handler for it.
AsyncLookupFails(r) ==
  /\ EventLoop /\ New(r)
  /\ Die(InFlight \cup {r})
  /\ arrival' = [q \in ScoreReqs |-> IF q = r THEN file.edit ELSE arrival[q]]

\* The supervisor starts the process again.
Boot ==
  /\ process = "down" /\ boots < MaxBoots
  /\ process' = "up" /\ boots' = boots + 1
  /\ UNCHANGED <<disk, engine, ready, reply, arrival>>

Operator   == (\E c \in Content : EditRules(c)) \/ Build
EngineStep == LoadSettles \/ OwnerContinues \/ HandlerContinues
Stop       == Sigterm \/ Exit \/ Kill \/ (\E r \in ScoreReqs : AsyncLookupFails(r))

Next == Operator \/ (\E r \in Requests : Arrive(r)) \/ EngineStep \/ Stop \/ Boot

\* Node runs every microtask, and an import ends one way or the other.
Spec == Init /\ [][Next]_vars /\ WF_vars(EngineStep)

-----------------------------------------------------------------------------
TypeOK ==
  /\ process \in {"up", "closing", "down"}
  /\ boots \in 1..MaxBoots
  /\ file \in File
  /\ built \in BOOLEAN
  /\ cached \in {"undefined", "null", "engine"}
  /\ loading \in {"none", "pending", "null", "engine"}
  /\ awaiting \in Seq(Handlers)
  /\ ready \in Seq(Handlers)
  /\ reply \in [Requests -> Reply]
  /\ arrival \in [ScoreReqs -> 0..MaxEdits]
  /\ loads \in Nat
  /\ awaiting # <<>> <=> loading # "none"

\* However many requests come before the first load ends, the binary is read
\* and instantiated at most once in the life of a process.
LoadedOnce == loads <= 1

\* One verdict per process: while it lives the cached engine is never replaced,
\* so that no request finds an engine where an earlier one found none.
EngineVerdictStays ==
  [][(cached # "undefined" \/ loading \in {"null", "engine"}) /\ process' # "down"
       => \/ cached' = cached /\ loading' = loading
          \/ cached = "undefined" /\ cached' = loading]_vars

\* A score answered with 200 is never computed with rules older than the request.
AsFreshAsTheRequest ==
  \A r \in ScoreReqs : reply[r].status = "200" => reply[r].edit >= arrival[r]

\* Although handlers wait for the engine with the rules they read before,
\* successive scores never go back to an older rules file.
ScoresNeverGoBack ==
  [][\A q, r \in ScoreReqs :
       (/\ reply[q].status = "200"
        /\ reply[r] # reply'[r] /\ reply'[r].status = "200")
       => reply'[r].edit >= reply[q].edit]_vars

\* Every request whose handler waits for the engine is answered, or lost with
\* the process: those that joined another request's load included.
EveryRequestAnswered ==
  \A r \in ScoreReqs : r \in InFlight ~> reply[r].status # "none"

-----------------------------------------------------------------------------
\* A line of the docs that a run refutes.

\* docs/api-reference.md:378: "internal_error | 500 | Uncaught exception in a
\* route handler": a request is lost only if its handler was suspended when the
\* process was stopped, never because the handler itself threw.
ThrowIsAnswered ==
  [][\A r \in ScoreReqs : New(r) => reply'[r].status # "lost"]_vars
=============================================================================
