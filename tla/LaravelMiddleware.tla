-------------------------- MODULE LaravelMiddleware --------------------------
(***************************************************************************)
(* packages/middleware-laravel, ReverseShieldMiddleware::handle around the *)
(* application and DecoyController, run by several PHP workers at once for *)
(* the requests of one client IP.  The workers share only the counters of  *)
(* Laravel's RateLimiter, which live in the cache: each call on them is    *)
(* one step, and between two of them other workers run and time passes,    *)
(* most of all in sendWithScore, which waits for the reporting API.        *)
(*                                                                         *)
(* A request is the set of what the code looks at: "login" (a POST to a    *)
(* login path), "filled" (a POST with the honeypot field filled), "api" (a *)
(* path below api/), "decoy" (one of the decoy routes).                    *)
(***************************************************************************)
EXTENDS Naturals, FiniteSets, Sequences

CONSTANTS
  Workers,
  Requests,           \* the requests of the client
  LoginMax, ApiMax,   \* rate_limits.login.max, rate_limits.api.max
  Window,             \* window_seconds of both
  BlockHoneypot,      \* config reverseshield.block_honeypot
  CacheMayThrow,      \* TRUE when the cache behind RateLimiter may be down
  ReporterMayThrow,   \* TRUE when an EventReporter is bound that may throw
  MaxNow, MaxApi,     \* bounds: the clock, API calls in a window
  MaxUncounted        \* bound: login POSTs let through by an exception

ASSUME LaravelAssumption ==
  /\ IsFiniteSet(Workers) /\ Workers # {}
  /\ Requests \subseteq SUBSET {"login", "filled", "api", "decoy"}
  /\ {LoginMax, ApiMax, Window, MaxNow, MaxApi, MaxUncounted} \subseteq Nat
  /\ LoginMax > 0 /\ Window > 0
  /\ {BlockHoneypot, CacheMayThrow, ReporterMayThrow} \subseteq BOOLEAN

VARIABLES
  now,      \* seconds
  logins,   \* RateLimiter counter rs_login_<ip>
  api,      \* RateLimiter counter rs_api_<ip>
  at,       \* where in handle() each worker is, "idle" between requests
  req,      \* the request of each worker
  sent,     \* its detections: a filled form, a decoy, whose event was sent
  thrown,   \* ... and those at whose event the reporter threw
  passed    \* history: the login POSTs that the limiter let through

vars == <<now, logins, api, at, req, sent, thrown, passed>>

Steps == {"idle", "login", "breach", "hit", "honeypot", "fill", "api", "attempts",
          "excess", "next", "decoy", "answer", "429", "403"}

Detections == {"fill", "decoy"}

-----------------------------------------------------------------------------
(***************************************************************************)
(* Laravel's RateLimiter: the first hit starts a window, the counter is    *)
(* forgotten when it ends.                                                 *)
(***************************************************************************)
Counter == [hits : Nat, until : Nat]

Attempts(c) == IF now < c.until THEN c.hits ELSE 0

Hit(c) ==
  IF now < c.until THEN [c EXCEPT !.hits = @ + 1]
                   ELSE [hits |-> 1, until |-> now + Window]

-----------------------------------------------------------------------------
Init ==
  /\ now = 0
  /\ logins = [hits |-> 0, until |-> 0]
  /\ api = [hits |-> 0, until |-> 0]
  /\ at = [w \in Workers |-> "idle"]
  /\ req = [w \in Workers |-> {}]
  /\ sent = [w \in Workers |-> {}]
  /\ thrown = [w \in Workers |-> {}]
  /\ passed = <<>>

Go(w, from, to) == at[w] = from /\ at' = [at EXCEPT ![w] = to]

Tick == now < MaxNow /\ now' = now + 1 /\ UNCHANGED <<logins, api, at, req, sent, thrown, passed>>

\* handle() is entered with the middleware enabled.
Receive(w, r) ==
  /\ "api" \in r => Attempts(api) < MaxApi
  /\ Go(w, "idle", "login")
  /\ req' = [req EXCEPT ![w] = r]
  /\ UNCHANGED <<now, logins, api, sent, thrown, passed>>

NotALogin(w) ==
  /\ "login" \notin req[w]
  /\ Go(w, "login", "honeypot")
  /\ UNCHANGED <<now, logins, api, req, sent, thrown, passed>>

\* Defect: every request counts as a login.
LimitEveryRequest(w) ==
  /\ Go(w, "login", IF Attempts(logins) >= LoginMax THEN "breach" ELSE "hit")
  /\ UNCHANGED <<now, logins, api, req, sent, thrown, passed>>

\* Defect: one attempt too many.
TooManyOffByOne(w) ==
  /\ "login" \in req[w]
  /\ Go(w, "login", IF Attempts(logins) > LoginMax THEN "breach" ELSE "hit")
  /\ UNCHANGED <<now, logins, api, req, sent, thrown, passed>>

\* Defect: the last attempt is refused.
LimitTooEarly(w) ==
  /\ "login" \in req[w]
  /\ Go(w, "login", IF Attempts(logins) + 1 >= LoginMax THEN "breach" ELSE "hit")
  /\ UNCHANGED <<now, logins, api, req, sent, thrown, passed>>

\* RateLimiter::tooManyAttempts.
TooManyAttempts(w) ==
  /\ "login" \in req[w]
  /\ Go(w, "login", IF Attempts(logins) >= LoginMax THEN "breach" ELSE "hit")
  /\ UNCHANGED <<now, logins, api, req, sent, thrown, passed>>

\* sendWithScore: the score is asked for, then the event is sent, with it or
\* without.  ScoringClient and the EventReporter of the package wait for an answer
\* up to a timeout and catch all that they throw, so the check goes on in any case.
SendWithScore(w, from, to) ==
  /\ Go(w, from, to)
  /\ sent' = [sent EXCEPT ![w] = @ \cup ({from} \cap Detections)]
  /\ UNCHANGED <<now, logins, api, req, thrown, passed>>

\* The event, then availableIn, and 429.
ReportBreach(w) == SendWithScore(w, "breach", "429")

HitLogin(w) ==
  /\ Go(w, "hit", "honeypot")
  /\ logins' = Hit(logins)
  /\ passed' = Append(passed, [time |-> now, counted |-> TRUE])
  /\ UNCHANGED <<now, api, req, sent, thrown>>

\* Defect: only requests that are no login attempts are looked at.
HoneypotUnlessLogin(w) ==
  /\ Go(w, "honeypot", IF "filled" \in req[w] /\ "login" \notin req[w]
                       THEN "fill" ELSE "api")
  /\ UNCHANGED <<now, logins, api, req, sent, thrown, passed>>

\* checkHoneypot.
CheckHoneypot(w) ==
  /\ Go(w, "honeypot", IF "filled" \in req[w] THEN "fill" ELSE "api")
  /\ UNCHANGED <<now, logins, api, req, sent, thrown, passed>>

ReportFill(w) == SendWithScore(w, "fill", IF BlockHoneypot THEN "403" ELSE "api")

NotAnApiCall(w) ==
  /\ "api" \notin req[w]
  /\ Go(w, "api", "next")
  /\ UNCHANGED <<now, logins, api, req, sent, thrown, passed>>

\* monitorApiRate counts first and reads the counter afterwards.
HitApi(w) ==
  /\ "api" \in req[w]
  /\ Go(w, "api", "attempts")
  /\ api' = Hit(api)
  /\ UNCHANGED <<now, logins, req, sent, thrown, passed>>

ReadAttempts(w) ==
  /\ Go(w, "attempts", IF Attempts(api) > ApiMax THEN "excess" ELSE "next")
  /\ UNCHANGED <<now, logins, api, req, sent, thrown, passed>>

ReportExcess(w) == SendWithScore(w, "excess", "next")

-----------------------------------------------------------------------------
(***************************************************************************)
(* Exceptions: of the cache, in tooManyAttempts, availableIn, hit and      *)
(* attempts, or of an EventReporter that was bound in place of the         *)
(* package's (FailOpenTest.php:92-107).  safeCheck and safeExecute catch   *)
(* them: a check that throws decides nothing, and the next one follows.    *)
(***************************************************************************)
MayThrow ==
  (IF CacheMayThrow THEN {"login", "breach", "hit", "api", "attempts"} ELSE {})
    \cup (IF ReporterMayThrow THEN {"breach", "fill", "excess", "decoy"} ELSE {})

\* The call at one of the steps throws, without having had an effect.
Throw(w, steps, to) ==
  /\ at[w] \in steps \cap MayThrow
  /\ at[w] \in {"login", "api"} => at[w] \in req[w]
  /\ at' = [at EXCEPT ![w] = to]
  /\ UNCHANGED <<now, logins, api, req, sent>>

Uncounted == {i \in DOMAIN passed : ~passed[i].counted}

\* Defect: an exception ends all the checks, not the one that threw.
LimitThrowsPastAll(w) ==
  /\ Cardinality(Uncounted) < MaxUncounted
  /\ Throw(w, {"login", "breach", "hit"}, "next")
  /\ passed' = Append(passed, [time |-> now, counted |-> FALSE])
  /\ UNCHANGED thrown

\* checkLoginRateLimit throws: the login POST goes on, and is not counted.
LimitThrows(w) ==
  /\ Cardinality(Uncounted) < MaxUncounted
  /\ Throw(w, {"login", "breach", "hit"}, "honeypot")
  /\ passed' = Append(passed, [time |-> now, counted |-> FALSE])
  /\ UNCHANGED thrown

\* checkHoneypot throws before it could answer 403.
HoneypotThrows(w) ==
  /\ Throw(w, {"fill"}, "api")
  /\ thrown' = [thrown EXCEPT ![w] = @ \cup {"fill"}]
  /\ UNCHANGED passed

ApiRateThrows(w) ==
  /\ Throw(w, {"api", "attempts", "excess"}, "next")
  /\ UNCHANGED <<thrown, passed>>

\* DecoyController catches for itself, and answers all the same.
DecoyThrows(w) ==
  /\ Throw(w, {"decoy"}, "answer")
  /\ thrown' = [thrown EXCEPT ![w] = @ \cup {"decoy"}]
  /\ UNCHANGED passed

\* $next: the application answers; the decoy routes belong to DecoyController.
Application(w) ==
  /\ Go(w, "next", IF "decoy" \in req[w] THEN "decoy" ELSE "answer")
  /\ UNCHANGED <<now, logins, api, req, sent, thrown, passed>>

\* The event, without a score, then an empty list in JSON.
DecoyController(w) ==
  /\ Go(w, "decoy", "answer")
  /\ sent' = [sent EXCEPT ![w] = @ \cup {"decoy"}]
  /\ UNCHANGED <<now, logins, api, req, thrown, passed>>

\* The client has its answer; injectSnippet puts the agent into an HTML page on
\* the way, and leaves the answer alone should it throw.
Respond(w) ==
  /\ at[w] \in {"answer", "429", "403"}
  /\ at' = [at EXCEPT ![w] = "idle"]
  /\ req' = [req EXCEPT ![w] = {}]
  /\ sent' = [sent EXCEPT ![w] = {}]
  /\ thrown' = [thrown EXCEPT ![w] = {}]
  /\ UNCHANGED <<now, logins, api, passed>>

Handle(w) ==
  \/ NotALogin(w) \/ TooManyAttempts(w) \/ ReportBreach(w) \/ HitLogin(w)
  \/ CheckHoneypot(w) \/ ReportFill(w)
  \/ NotAnApiCall(w) \/ HitApi(w) \/ ReadAttempts(w) \/ ReportExcess(w)
  \/ Application(w) \/ DecoyController(w)
  \/ LimitThrows(w) \/ HoneypotThrows(w) \/ ApiRateThrows(w) \/ DecoyThrows(w)
  \/ Respond(w)

Next == Tick \/ \E w \in Workers : Handle(w) \/ \E r \in Requests : Receive(w, r)

Spec == Init /\ [][Next]_vars /\ \A w \in Workers : WF_vars(Handle(w))
-----------------------------------------------------------------------------
TypeOK ==
  /\ now \in 0..MaxNow
  /\ logins \in Counter /\ api \in Counter
  /\ at \in [Workers -> Steps]
  /\ req \in [Workers -> Requests \cup {{}}]
  /\ sent \in [Workers -> SUBSET Detections] /\ thrown \in [Workers -> SUBSET Detections]
  /\ passed \in Seq([time : 0..now, counted : BOOLEAN])
  /\ \A w \in Workers : at[w] \in {"breach", "hit", "429"} => "login" \in req[w]

\* How many login POSTs were let through at the times T: all of them, and those
\* that were counted.
Passed(T) == Cardinality({i \in DOMAIN passed : passed[i].time \in T})
Counted(T) == Cardinality({i \in DOMAIN passed \ Uncounted : passed[i].time \in T})

\* The window of the limiter, and the window of seconds that ends now.
LimiterWindow == {t \in 0..now : t + Window >= logins.until}
LastWindow == {t \in 0..now : t + Window > now}

\* Checking and counting are two steps, and a check that throws lets the login
\* POST through.  On top of the maximum the limiter lets through at most one more
\* per further worker and one more per exception in that very window, and no more
\* than that: no other worker profits from an exception.
AtMostMaxPlusRacing ==
  now < logins.until =>
    Passed(LimiterWindow)
      <= LoginMax + (Cardinality(Workers) - 1)
           + Cardinality({i \in Uncounted : passed[i].time \in LimiterWindow})

\* A client is refused only when the maximum of its login POSTs was counted within
\* the window of seconds that ends now.
NeverRefusedEarly ==
  [][\A w \in Workers : at[w] = "login" /\ at'[w] = "breach" => Counted(LastWindow) >= LoginMax]_vars

\* A form with the honeypot field filled reaches the application only when a bound
\* reporter threw in the honeypot check itself (FailOpenTest.php:92-107 expects 200
\* then): not when another check threw, the request was a login or the API is down.
FilledFormPassesOnlyByThrow ==
  BlockHoneypot =>
    \A w \in Workers :
      at[w] \in {"next", "decoy", "answer"} /\ "filled" \in req[w] => "fill" \in thrown[w]

\* Every form with the honeypot field filled, and every hit on a decoy, ends up
\* refused by the limiter or reported to the API, unless the reporter threw when it
\* was told of just that: no failure of one check keeps the next from looking.
DetectionsAreReported ==
  \A w \in Workers :
    at[w] = "login" /\ req[w] \cap {"filled", "decoy"} # {}
      ~> at[w] = "429" \/ sent[w] \cup thrown[w] # {}
=============================================================================
