--------------------------- MODULE WordPressPlugin ---------------------------
(***************************************************************************)
(* packages/middleware-wordpress/reverseshield.php: the hooks that decide  *)
(* over a request or watch it, run by several PHP workers at once for one  *)
(* client IP.  The login limiter and the REST monitor keep their counts in *)
(* WordPress transients: reading one and writing it back are two calls,    *)
(* and other workers run in between.  send_event waits for the score first *)
(* and ships the event afterwards.                                         *)
(*                                                                         *)
(* A request is the set of what the hooks look at: "login", "comment" or   *)
(* "rest", "decoy" (a decoy REST route), "cookie" (it carries the client's *)
(* rs_session), "right" (the right password), "filled" (the honeypot field *)
(* of the form is filled).  wp_json_encode is taken to succeed, as it does *)
(* for what is passed here.                                                *)
(***************************************************************************)
EXTENDS Naturals, FiniteSets, Sequences, TLC

CONSTANTS
  Workers,
  Requests,          \* the requests of the client
  LoginMax,          \* REVERSESHIELD_RATE_LOGIN_MAX
  RestMax,           \* REVERSESHIELD_RATE_REST_MAX
  Window,            \* REVERSESHIELD_RATE_LOGIN_WINDOW and .._REST_WINDOW
  BlockHoneypot,     \* REVERSESHIELD_BLOCK_HONEYPOT
  CacheMayThrow,     \* TRUE when an object cache behind the transients may
  MaxNow, MaxCounted \* bounds: the clock, requests that are counted

ASSUME WordPressAssumption ==
  /\ Workers # {}
  /\ Requests \subseteq SUBSET {"login", "comment", "rest", "decoy", "cookie", "right", "filled"}
  /\ \A r \in Requests : r \cap {"login", "comment", "rest"} # {}
  /\ {LoginMax, RestMax, Window, MaxNow, MaxCounted} \subseteq Nat
  /\ LoginMax > 0 /\ Window > 0
  /\ {BlockHoneypot, CacheMayThrow} \subseteq BOOLEAN

Counters == {"login", "ip", "session"}
Kinds    == {"login", "comment", "rest", "decoy"}

VARIABLES
  now,       \* seconds
  transient, \* rs_rl_login_<ip>, rs_rl_rest_ip_<ip>, rs_rl_rest_ses_<session>
  at,        \* the step each worker is at, "idle" between requests
  req,       \* its request
  seen,      \* the counts that it has read and not yet written back
  reported,  \* the kinds of the events that its request has posted
  checked,   \* history: the times at which WordPress checked a wrong password
  rests,     \* history: the times at which a REST request was counted
  run,       \* history: for each counter, the uses without a pause, see NextRun
  last,      \* history: for each counter, when it was last written
  lenient    \* history: an excuse, see Receive and Throw

worker  == <<seen, reported>>
history == <<checked, rests, run, last, lenient>>
vars    == <<now, transient, at, req, worker, history>>

Steps == {"idle", "authenticate", "refuse", "refused", "credentials", "failed", "increment",
          "honeypot", "fill", "rest", "session", "setIp", "setSession", "excess", "route",
          "decoy", "in", "out", "posted", "served", "403", "200"}

\* get_transient, an expired one being 0 for every caller here.
GetTransient(k) == IF now < transient[k].until THEN transient[k].count ELSE 0

\* set_transient, whose expiry starts anew.
SetTransient(k, n) == transient' = [transient EXCEPT ![k] = [count |-> n, until |-> now + Window]]

Idle == [k \in Counters |-> 0]

Init ==
  /\ now = 0
  /\ transient = [k \in Counters |-> [count |-> 0, until |-> 0]]
  /\ at = [w \in Workers |-> "idle"]
  /\ req = [w \in Workers |-> {}]
  /\ seen = [w \in Workers |-> Idle]
  /\ reported = [w \in Workers |-> {}]
  /\ checked = <<>> /\ rests = <<>>
  /\ run = Idle /\ last = Idle
  /\ lenient = FALSE

Go(w, from, to) == at[w] = from /\ at' = [at EXCEPT ![w] = to]

\* Somebody is between its read of a counter and what it does with it.
InUse(k) ==
  \E w \in Workers :
    \/ k = "login" /\ at[w] = "increment"
    \/ k = "ip" /\ at[w] \in {"session", "setIp", "setSession"}
    \/ k = "session" /\ at[w] \in {"setIp", "setSession"} /\ "cookie" \in req[w]

\* One more use of a counter: the run goes on while the uses overlap, or follow
\* each other within Window.
NextRun(k) == run' = [run EXCEPT ![k] = IF InUse(k) \/ now < last[k] + Window THEN @ + 1 ELSE 1]

WrittenNow(k) == last' = [last EXCEPT ![k] = now]

Tick == now < MaxNow /\ now' = now + 1 /\ UNCHANGED <<transient, at, req, worker, history>>

\* WordPress calls the hook registered for the request.  Requests of one kind
\* that overlap are an excuse.
Receive(w, r) ==
  /\ r \cap {"login", "rest"} = {}
       \/ /\ Cardinality({v \in Workers : req[v] \cap {"login", "rest"} # {}})
               + Len(checked) + Len(rests) < MaxCounted
          /\ \A k \in Counters : run[k] < MaxCounted
  /\ Go(w, "idle", IF "login" \in r THEN "authenticate"
                   ELSE IF "rest" \in r THEN "rest" ELSE "honeypot")
  /\ req' = [req EXCEPT ![w] = r]
  /\ lenient' = (lenient \/ \E v \in Workers : r \cap req[v] \cap {"login", "rest"} # {})
  /\ UNCHANGED <<now, transient, worker, checked, rests, run, last>>

-----------------------------------------------------------------------------
(***************************************************************************)
(* send_event: fetch_score asks for the score, and gets it or null, then   *)
(* the event is posted with what it got, without waiting for the answer.   *)
(* Neither call touches what workers share, nor throws, so that they are   *)
(* one step and the hook goes on.                                          *)
(***************************************************************************)

\* Defect: without a score there is no event.
NoScoreNoEvent(w, from, kind, to) ==
  /\ Go(w, from, to)
  /\ \E scored \in BOOLEAN :
       reported' = [reported EXCEPT ![w] = IF scored THEN @ \cup {kind} ELSE @]
  /\ UNCHANGED <<now, transient, req, seen, history>>

SendEvent(w, from, kind, to) ==
  /\ Go(w, from, to)
  /\ reported' = [reported EXCEPT ![w] = @ \cup {kind}]
  /\ UNCHANGED <<now, transient, req, seen, history>>

-----------------------------------------------------------------------------
(***************************************************************************)
(* Logins.  check_login_rate_limit comes at priority 5 of "authenticate",  *)
(* the password check of WordPress at 20.  The latter is skipped for a     *)
(* WP_User only, so that the WP_Error of a refused attempt is no refusal:  *)
(* the password is checked all the same, and the right one logs in.        *)
(***************************************************************************)
CheckLoginRateLimit(w) ==
  /\ Go(w, "authenticate", IF GetTransient("login") >= LoginMax THEN "refuse" ELSE "credentials")
  /\ UNCHANGED <<now, transient, req, worker, history>>

\* The event, then the WP_Error.
RefuseLogin(w) == SendEvent(w, "refuse", "login", "refused")

\* WordPress checks the password.
Credentials(w) ==
  /\ at[w] \in {"credentials", "refused"}
  /\ at' = [at EXCEPT ![w] = IF "right" \in req[w] THEN "in" ELSE "failed"]
  /\ checked' = IF "right" \in req[w] THEN checked ELSE Append(checked, now)
  /\ UNCHANGED <<now, transient, req, worker, rests, run, last, lenient>>

\* Defect: successes are counted too.
AlwaysCount(w) ==
  /\ at[w] \in {"failed", "in"}
  /\ at' = [at EXCEPT ![w] = "increment"]
  /\ seen' = [seen EXCEPT ![w].login = GetTransient("login")]
  /\ IF at[w] = "failed" THEN NextRun("login") ELSE UNCHANGED run
  /\ UNCHANGED <<now, transient, req, reported, checked, rests, last, lenient>>

\* on_login_failed: get_transient.
OnLoginFailed(w) ==
  /\ Go(w, "failed", "increment")
  /\ seen' = [seen EXCEPT ![w].login = GetTransient("login")]
  /\ NextRun("login")
  /\ UNCHANGED <<now, transient, req, reported, checked, rests, last, lenient>>

\* ... and set_transient.
Increment(w) ==
  /\ Go(w, "increment", "out")
  /\ SetTransient("login", seen[w].login + 1)
  /\ seen' = [seen EXCEPT ![w] = Idle]
  /\ WrittenNow("login")
  /\ UNCHANGED <<now, req, reported, checked, rests, run, lenient>>

-----------------------------------------------------------------------------
(***************************************************************************)
(* monitor_rest_rate, before the route is dispatched.  A request without a *)
(* cookie is given a new session, whose counter nobody else has: it is 0   *)
(* when read, and nobody sees what is written.                             *)
(***************************************************************************)
MonitorIp(w) ==
  /\ Go(w, "rest", "session")
  /\ seen' = [seen EXCEPT ![w].ip = GetTransient("ip")]
  /\ NextRun("ip")
  /\ UNCHANGED <<now, transient, req, reported, checked, rests, last, lenient>>

MonitorSession(w) ==
  /\ Go(w, "session", "setIp")
  /\ seen' = [seen EXCEPT ![w].session =
                IF "cookie" \in req[w] THEN GetTransient("session") ELSE 0]
  /\ IF "cookie" \in req[w] THEN NextRun("session") ELSE UNCHANGED run
  /\ UNCHANGED <<now, transient, req, reported, checked, rests, last, lenient>>

\* Defect: only the first request gives the transient its expiry.
CountIpKeepingExpiry(w) ==
  /\ Go(w, "setIp", "setSession")
  /\ transient' = [transient EXCEPT !.ip =
                     [count |-> seen[w].ip + 1,
                      until |-> IF now < @.until THEN @.until ELSE now + Window]]
  /\ rests' = Append(rests, now)
  /\ WrittenNow("ip")
  /\ UNCHANGED <<now, req, worker, checked, run, lenient>>

CountIp(w) ==
  /\ Go(w, "setIp", "setSession")
  /\ SetTransient("ip", seen[w].ip + 1)
  /\ rests' = Append(rests, now)
  /\ WrittenNow("ip")
  /\ UNCHANGED <<now, req, worker, checked, run, lenient>>

\* The session's count is written, and the counts as read decide.
CountSession(w) ==
  /\ Go(w, "setSession", IF seen[w].ip + 1 > RestMax \/ seen[w].session + 1 > RestMax
                         THEN "excess" ELSE "route")
  /\ \/ "cookie" \in req[w] /\ SetTransient("session", seen[w].session + 1)
                           /\ WrittenNow("session")
     \/ "cookie" \notin req[w] /\ UNCHANGED <<transient, last>>
  /\ seen' = [seen EXCEPT ![w] = Idle]
  /\ UNCHANGED <<now, req, reported, checked, rests, run, lenient>>

\* Reported only: the request is dispatched.
ReportExcess(w) == SendEvent(w, "excess", "rest", "route")

\* WordPress dispatches the request: a decoy route has handle_decoy_hit.
Route(w) ==
  /\ Go(w, "route", IF "decoy" \in req[w] THEN "decoy" ELSE "served")
  /\ UNCHANGED <<now, transient, req, worker, history>>

\* Defect: a decoy dies with 403, too.
DecoyForbidden(w) == SendEvent(w, "decoy", "decoy", "403")

\* handle_decoy_hit: an empty list, with 200.
HandleDecoyHit(w) == SendEvent(w, "decoy", "decoy", "200")

-----------------------------------------------------------------------------
\* check_comment_honeypot: the field is there and not blank.
CheckCommentHoneypot(w) ==
  /\ Go(w, "honeypot", IF "filled" \in req[w] THEN "fill" ELSE "posted")
  /\ UNCHANGED <<now, transient, req, worker, history>>

\* Defect: the comment is let through when the API gave no score.
BlockOnlyIfScored(w) ==
  /\ \E scored \in BOOLEAN :
       Go(w, "fill", IF BlockHoneypot /\ scored THEN "403" ELSE "posted")
  /\ reported' = [reported EXCEPT ![w] = @ \cup {"comment"}]
  /\ UNCHANGED <<now, transient, req, seen, history>>

\* The event, then wp_die.
ReportFill(w) == SendEvent(w, "fill", "comment", IF BlockHoneypot THEN "403" ELSE "posted")

-----------------------------------------------------------------------------
\* A transient throws, and its call had no effect: the hook gives up and the
\* request goes on, which is an excuse.
Throw(w) ==
  /\ CacheMayThrow
  /\ \/ Go(w, "authenticate", "credentials")
     \/ \E s \in {"failed", "increment"} : Go(w, s, "out")
     \/ \E s \in {"rest", "session", "setIp", "setSession"} : Go(w, s, "route")
  /\ seen' = [seen EXCEPT ![w] = Idle]
  /\ lenient' = TRUE
  /\ UNCHANGED <<now, transient, req, reported, checked, rests, run, last>>

\* WordPress answers.
Respond(w) ==
  /\ at[w] \in {"in", "out", "posted", "served", "403", "200"}
  /\ at' = [at EXCEPT ![w] = "idle"]
  /\ req' = [req EXCEPT ![w] = {}]
  /\ reported' = [reported EXCEPT ![w] = {}]
  /\ UNCHANGED <<now, transient, seen, history>>

Handle(w) ==
  \/ CheckLoginRateLimit(w) \/ RefuseLogin(w) \/ Credentials(w)
  \/ OnLoginFailed(w) \/ Increment(w)
  \/ MonitorIp(w) \/ MonitorSession(w) \/ CountIp(w) \/ CountSession(w) \/ ReportExcess(w)
  \/ Route(w) \/ HandleDecoyHit(w)
  \/ CheckCommentHoneypot(w) \/ ReportFill(w)
  \/ Throw(w) \/ Respond(w)

Next == Tick \/ \E w \in Workers : Handle(w) \/ \E r \in Requests : Receive(w, r)

Spec == Init /\ [][Next]_vars

\* Workers are interchangeable.
Symmetry == Permutations(Workers)

-----------------------------------------------------------------------------
TypeOK ==
  /\ now \in 0..MaxNow
  /\ transient \in [Counters -> [count : Nat, until : Nat]]
  /\ at \in [Workers -> Steps]
  /\ req \in [Workers -> Requests \cup {{}}]
  /\ seen \in [Workers -> [Counters -> Nat]]
  /\ reported \in [Workers -> SUBSET Kinds]
  /\ checked \in Seq(0..now) /\ rests \in Seq(0..now)
  /\ run \in [Counters -> Nat] /\ last \in [Counters -> 0..now]
  /\ lenient \in BOOLEAN
  /\ \A w \in Workers : at[w] \in {"honeypot", "403"} => "comment" \in req[w]

\* How many of the times lie in the window that ends now.
LastWindow(times) == Cardinality({i \in DOMAIN times : times[i] + Window > now})

\* As long as requests come one after the other and the cache works, nobody is past
\* a limit unnoticed: a password is checked without the attempt being refused, and
\* reported, only while fewer wrong ones than the limit were checked in the window
\* that ends now, and a REST request over its limit is reported.
SerialClientsReported ==
  lenient \/
    \A w \in Workers :
      /\ at[w] = "credentials" => LastWindow(checked) < LoginMax
      /\ at[w] = "route" /\ "rest" \notin reported[w] => LastWindow(rests) <= RestMax

\* An attempt is refused only within Window of the last failure, after as many of
\* them as the limit without a pause of Window in between, and a REST client is
\* reported only after more requests than the limit without such a pause, whatever
\* is lost or written in between.  A failure lasts from its read to its write: one
\* that is written late prolongs the run, and may have an attempt refused that
\* a counter counted up in one step would let pass.
NeverRefusedEarly ==
  [][\A w \in Workers :
       /\ at[w] = "authenticate" /\ at'[w] = "refuse" =>
            run["login"] >= LoginMax /\ now < last["login"] + Window
       /\ at[w] = "setSession" /\ at'[w] = "excess" =>
            run["ip"] > RestMax \/ run["session"] > RestMax]_vars

\* A comment with the honeypot field filled is never posted, whatever the
\* reporting API does (docs/architecture.md:185).
FilledCommentNeverPosted ==
  BlockHoneypot => \A w \in Workers : at[w] = "posted" => "filled" \notin req[w]

\* Scoring is only an enrichment: every refusal, of a login or a comment, and every
\* decoy answer comes after the event for it was sent, with a score or without.
EveryDetectionReported ==
  \A w \in Workers :
    /\ at[w] = "refused" => "login" \in reported[w]
    /\ at[w] = "403" => "comment" \in reported[w]
    /\ at[w] = "200" => "decoy" \in reported[w]
=============================================================================
