------------------------ MODULE WordPressPlugin_proofs ------------------------
(***************************************************************************)
(* Proofs about WordPressPlugin, for any number of workers, requests and   *)
(* limits, with the reporting API and the cache failing at any call.       *)
(***************************************************************************)
EXTENDS WordPressPlugin, FiniteSetTheorems, SequenceTheorems, TLAPS

-----------------------------------------------------------------------------
(* Types, in two parts: what the workers share, and what each one has.     *)

SharedTypes ==
  /\ now \in 0..MaxNow
  /\ transient \in [Counters -> [count : Nat, until : Nat]]
  /\ checked \in Seq(0..now) /\ rests \in Seq(0..now)
  /\ run \in [Counters -> Nat] /\ last \in [Counters -> 0..now]
  /\ lenient \in BOOLEAN

WorkerTypes ==
  /\ at \in [Workers -> Steps]
  /\ req \in [Workers -> Requests \cup {{}}]
  /\ seen \in [Workers -> [Counters -> Nat]]
  /\ reported \in [Workers -> SUBSET Kinds]

\* A worker at a step for comments has a comment.
CommentSteps == \A w \in Workers : at[w] \in {"honeypot", "fill", "403"} => "comment" \in req[w]

TypeInv == SharedTypes /\ WorkerTypes /\ CommentSteps

LEMMA Parts == TypeInv => TypeOK
  BY DEF TypeInv, SharedTypes, WorkerTypes, CommentSteps, TypeOK

LEMMA Limits ==
  /\ LoginMax \in Nat \ {0} /\ RestMax \in Nat /\ Window \in Nat \ {0} /\ MaxNow \in Nat
  /\ BlockHoneypot \in BOOLEAN /\ CacheMayThrow \in BOOLEAN
<1>1. BlockHoneypot \in BOOLEAN /\ CacheMayThrow \in BOOLEAN
  BY WordPressAssumption
<1> QED BY <1>1, WordPressAssumption

LEMMA Reading ==
  ASSUME SharedTypes, NEW k \in Counters
  PROVE  GetTransient(k) \in Nat /\ GetTransient(k) <= transient[k].count
  BY Limits DEF GetTransient, SharedTypes

LEMMA Writing ==
  ASSUME SharedTypes, NEW k \in Counters, NEW n \in Nat, SetTransient(k, n)
  PROVE  /\ transient' \in [Counters -> [count : Nat, until : Nat]]
         /\ transient'[k] = [count |-> n, until |-> now + Window]
         /\ \A j \in Counters \ {k} : transient'[j] = transient[j]
<1>1. now + Window \in Nat
  BY Limits DEF SharedTypes
<1>2. [count |-> n, until |-> now + Window] \in [count : Nat, until : Nat]
  BY <1>1
<1> QED BY <1>2 DEF SetTransient, SharedTypes

-----------------------------------------------------------------------------
(* The steps of a worker, those that are alike in groups.                  *)

Checks(w) == CheckLoginRateLimit(w) \/ Route(w) \/ CheckCommentHoneypot(w)
Reads(w)  == OnLoginFailed(w) \/ MonitorIp(w) \/ MonitorSession(w)
Writes(w) == Increment(w) \/ CountIp(w) \/ CountSession(w)
Sends(w)  == RefuseLogin(w) \/ ReportExcess(w) \/ HandleDecoyHit(w) \/ ReportFill(w)

Moves(w) ==
  \/ Checks(w) \/ Reads(w) \/ Writes(w) \/ Credentials(w)
  \/ Sends(w) \/ Throw(w) \/ Respond(w)
  \/ \E r \in Requests : Receive(w, r)

LEMMA NextCases ==
  Next => Tick \/ \E w \in Workers : Moves(w)
  BY DEF Next, Handle, Moves, Checks, Reads, Writes, Sends

LEMMA InitTypes == Init => TypeInv
<1> SUFFICES ASSUME Init PROVE TypeInv
  OBVIOUS
<1>1. checked \in Seq(0..now) /\ rests \in Seq(0..now)
  BY DEF Init
<1>2. SharedTypes
  <2>1. now \in 0..MaxNow
    BY Limits DEF Init
  <2>2. transient \in [Counters -> [count : Nat, until : Nat]]
    BY DEF Init
  <2>3. run \in [Counters -> Nat] /\ last \in [Counters -> 0..now] /\ lenient \in BOOLEAN
    <3>1. now = 0 /\ 0 \in 0..now /\ lenient = FALSE
      BY DEF Init
    <3>2. run = [k \in Counters |-> 0] /\ last = [k \in Counters |-> 0]
      BY DEF Init, Idle
    <3> QED BY <3>1, <3>2
  <2> QED BY <1>1, <2>1, <2>2, <2>3 DEF SharedTypes
<1>3. WorkerTypes
  BY DEF Init, WorkerTypes, Steps, Idle, Counters
<1>4. CommentSteps
  BY DEF Init, CommentSteps
<1> QED BY <1>2, <1>3, <1>4 DEF TypeInv

\* What the histories of a use and of a write become.
LEMMA Using ==
  ASSUME SharedTypes, NEW k \in Counters, NextRun(k)
  PROVE  /\ run' \in [Counters -> Nat]
         /\ run' = [run EXCEPT ![k] = run'[k]]
         /\ run'[k] = IF InUse(k) \/ now < last[k] + Window THEN run[k] + 1 ELSE 1
<1> DEFINE n == IF InUse(k) \/ now < last[k] + Window THEN run[k] + 1 ELSE 1
<1>1. run' = [run EXCEPT ![k] = n]
  BY DEF NextRun
<1>2. n \in Nat
  BY DEF SharedTypes
<1> HIDE DEF n
<1>3. run' \in [Counters -> Nat] /\ run'[k] = n
  BY <1>1, <1>2 DEF SharedTypes
<1> QED BY <1>1, <1>3 DEF n

LEMMA Stamping ==
  ASSUME SharedTypes, NEW k \in Counters, WrittenNow(k)
  PROVE  /\ last' \in [Counters -> 0..now] /\ last'[k] = now
         /\ \A j \in Counters \ {k} : last'[j] = last[j]
  BY Limits DEF WrittenNow, SharedTypes

LEMMA SharedStep ==
  ASSUME TypeInv, [Next]_vars
  PROVE  SharedTypes'
<1> USE DEF TypeInv
<1>0. now \in Nat /\ now \in 0..now /\ {"login", "ip", "session"} = Counters /\ SharedTypes
  BY Limits DEF SharedTypes, Counters
<1>1. CASE Tick
  <2>1. now' \in 0..MaxNow /\ 0..now \subseteq 0..now'
    BY <1>0, <1>1, Limits DEF Tick, SharedTypes
  <2>2. checked' \in Seq(0..now') /\ rests' \in Seq(0..now')
    BY <1>1, <2>1, SeqDef DEF Tick, SharedTypes, history
  <2>3. last' \in [Counters -> 0..now']
    BY <1>1, <2>1 DEF Tick, SharedTypes, history
  <2> QED BY <1>1, <2>1, <2>2, <2>3 DEF Tick, SharedTypes, history
<1>2. CASE UNCHANGED vars
  BY <1>2 DEF vars, history, SharedTypes
<1>3. ASSUME NEW w \in Workers, Checks(w) \/ Sends(w) \/ Respond(w)
      PROVE  SharedTypes'
  <2>1. UNCHANGED <<now, transient, history>>
    BY <1>3 DEF Checks, CheckLoginRateLimit, Route, CheckCommentHoneypot, Sends, RefuseLogin,
                ReportExcess, HandleDecoyHit, ReportFill, SendEvent, Respond
  <2> QED BY <2>1 DEF history, SharedTypes
<1>4. ASSUME NEW w \in Workers, Reads(w)
      PROVE  SharedTypes'
  <2>1. /\ UNCHANGED <<now, transient, checked, rests, last, lenient>>
        /\ UNCHANGED run \/ \E k \in Counters : NextRun(k)
    BY <1>0, <1>4 DEF Reads, OnLoginFailed, MonitorIp, MonitorSession
  <2>2. run' \in [Counters -> Nat]
    BY <1>0, <2>1, Using DEF SharedTypes
  <2> QED BY <2>1, <2>2 DEF SharedTypes
<1>5. ASSUME NEW w \in Workers, Increment(w) \/ CountSession(w)
      PROVE  SharedTypes'
  <2>1. seen[w].login + 1 \in Nat /\ seen[w].session + 1 \in Nat
    BY DEF WorkerTypes, Counters
  <2>2. \/ UNCHANGED <<transient, last>>
        \/ SetTransient("login", seen[w].login + 1) /\ WrittenNow("login")
        \/ SetTransient("session", seen[w].session + 1) /\ WrittenNow("session")
    BY <1>5 DEF Increment, CountSession
  <2>3. /\ transient' \in [Counters -> [count : Nat, until : Nat]]
        /\ last' \in [Counters -> 0..now]
    <3>1. CASE UNCHANGED <<transient, last>>
      BY <3>1 DEF SharedTypes
    <3>2. CASE SetTransient("login", seen[w].login + 1) /\ WrittenNow("login")
      BY <1>0, <2>1, <3>2, Writing, Stamping
    <3>3. CASE SetTransient("session", seen[w].session + 1) /\ WrittenNow("session")
      BY <1>0, <2>1, <3>3, Writing, Stamping
    <3> QED BY <2>2, <3>1, <3>2, <3>3
  <2>4. UNCHANGED <<now, checked, rests, run, lenient>>
    BY <1>5 DEF Increment, CountSession
  <2> QED BY <2>3, <2>4 DEF SharedTypes
<1>6. ASSUME NEW w \in Workers, CountIp(w)
      PROVE  SharedTypes'
  <2>1. seen[w].ip + 1 \in Nat
    BY DEF WorkerTypes, Counters
  <2>2. /\ transient' \in [Counters -> [count : Nat, until : Nat]]
        /\ last' \in [Counters -> 0..now]
    BY <1>0, <1>6, <2>1, Writing, Stamping DEF CountIp
  <2>3. rests' \in Seq(0..now)
    BY <1>0, <1>6, AppendProperties DEF CountIp, SharedTypes
  <2>4. UNCHANGED <<now, checked, run, lenient>>
    BY <1>6 DEF CountIp
  <2> QED BY <2>2, <2>3, <2>4 DEF SharedTypes
<1>7. ASSUME NEW w \in Workers, Credentials(w)
      PROVE  SharedTypes'
  <2>1. checked' \in Seq(0..now)
    BY <1>0, <1>7, AppendProperties DEF Credentials, SharedTypes
  <2>2. UNCHANGED <<now, transient, rests, run, last, lenient>>
    BY <1>7 DEF Credentials
  <2> QED BY <2>1, <2>2 DEF SharedTypes
<1>8. ASSUME NEW w \in Workers, Throw(w)
      PROVE  SharedTypes'
  BY <1>8 DEF Throw, SharedTypes
<1>9. ASSUME NEW w \in Workers, NEW r \in Requests, Receive(w, r)
      PROVE  SharedTypes'
  <2>1. lenient' \in BOOLEAN
    BY <1>9 DEF Receive, SharedTypes
  <2>2. UNCHANGED <<now, transient, checked, rests, run, last>>
    BY <1>9 DEF Receive
  <2> QED BY <2>1, <2>2 DEF SharedTypes
<1> QED BY <1>1, <1>2, <1>3, <1>4, <1>5, <1>6, <1>7, <1>8, <1>9, NextCases
        DEF Moves, Writes

\* Where a worker may go, and with what; nobody else moves.
LEMMA WorkerMoves ==
  ASSUME TypeInv, NEW w \in Workers, Moves(w)
  PROVE  /\ at' = [at EXCEPT ![w] = at'[w]] /\ at'[w] \in Steps
         /\ req' = [req EXCEPT ![w] = req'[w]] /\ req'[w] \in Requests \cup {{}}
         /\ at'[w] \in {"honeypot", "fill", "403"} => "comment" \in req'[w]
<1>0. /\ at \in [Workers -> Steps] /\ req \in [Workers -> Requests \cup {{}}] /\ CommentSteps
  BY DEF TypeInv, WorkerTypes
<1>1. CASE Checks(w)
  BY <1>0, <1>1
     DEF Checks, CheckLoginRateLimit, Route, CheckCommentHoneypot, Go, Steps, CommentSteps
<1>2. CASE Reads(w)
  BY <1>0, <1>2 DEF Reads, OnLoginFailed, MonitorIp, MonitorSession, Go, Steps
<1>3. CASE Writes(w)
  BY <1>0, <1>3 DEF Writes, Increment, CountIp, CountSession, Go, Steps, worker
<1>4. CASE Credentials(w)
  BY <1>0, <1>4 DEF Credentials, Steps, worker
<1>5. CASE Sends(w)
  BY <1>0, <1>5 DEF Sends, RefuseLogin, ReportExcess, HandleDecoyHit, ReportFill, SendEvent, Go,
                    Steps, CommentSteps
<1>6. CASE Throw(w)
  BY <1>0, <1>6 DEF Throw, Go, Steps
<1>7. CASE Respond(w)
  BY <1>0, <1>7 DEF Respond, Steps
<1>8. ASSUME NEW r \in Requests, Receive(w, r) PROVE
         /\ at' = [at EXCEPT ![w] = at'[w]] /\ at'[w] \in Steps \ {"fill", "403"}
         /\ req' = [req EXCEPT ![w] = r]
         /\ at'[w] = "honeypot" => "comment" \in r
  <2>1. r \cap {"login", "comment", "rest"} # {}
    BY WordPressAssumption
  <2> QED BY <1>0, <1>8, <2>1 DEF Receive, Go, Steps
<1> QED BY <1>0, <1>1, <1>2, <1>3, <1>4, <1>5, <1>6, <1>7, <1>8 DEF Moves

LEMMA SeenType ==
  ASSUME TypeInv, NEW w \in Workers, Moves(w)
  PROVE  seen' = [seen EXCEPT ![w] = seen'[w]] /\ seen'[w] \in [Counters -> Nat]
<1>0. seen \in [Workers -> [Counters -> Nat]] /\ Idle \in [Counters -> Nat] /\ SharedTypes
  BY DEF TypeInv, WorkerTypes, Idle
<1>1. CASE Reads(w)
  <2>1. GetTransient("login") \in Nat /\ GetTransient("ip") \in Nat
        /\ GetTransient("session") \in Nat
    BY <1>0, Reading DEF Counters
  <2>2. CASE OnLoginFailed(w)
    BY <1>0, <2>1, <2>2 DEF OnLoginFailed, Counters
  <2>3. CASE MonitorIp(w)
    BY <1>0, <2>1, <2>3 DEF MonitorIp, Counters
  <2>4. CASE MonitorSession(w)
    BY <1>0, <2>1, <2>4 DEF MonitorSession, Counters
  <2> QED BY <1>1, <2>2, <2>3, <2>4 DEF Reads
<1>2. CASE Increment(w) \/ CountSession(w) \/ Throw(w)
  BY <1>0, <1>2 DEF Increment, CountSession, Throw
<1>3. CASE UNCHANGED seen
  BY <1>0, <1>3
<1> QED BY <1>1, <1>2, <1>3
        DEF Moves, Checks, CheckLoginRateLimit, Route, CheckCommentHoneypot, Writes, CountIp,
            Credentials, Sends, RefuseLogin, ReportExcess, HandleDecoyHit, ReportFill, SendEvent,
            Respond, Receive, worker

LEMMA ReportedType ==
  ASSUME TypeInv, NEW w \in Workers, Moves(w)
  PROVE  /\ reported' \in [Workers -> SUBSET Kinds]
         /\ reported' = [reported EXCEPT ![w] = reported'[w]]
<1>0. reported \in [Workers -> SUBSET Kinds]
  BY DEF TypeInv, WorkerTypes
<1>1. CASE Sends(w)
  <2>1. PICK kind \in Kinds : reported' = [reported EXCEPT ![w] = @ \cup {kind}]
    BY <1>1 DEF Sends, RefuseLogin, ReportExcess, HandleDecoyHit, ReportFill, SendEvent, Kinds
  <2> QED BY <1>0, <2>1
<1>2. CASE Respond(w)
  BY <1>0, <1>2 DEF Respond
<1>3. CASE UNCHANGED reported
  BY <1>0, <1>3
<1> QED BY <1>1, <1>2, <1>3
        DEF Moves, Checks, CheckLoginRateLimit, Route, CheckCommentHoneypot, Reads, OnLoginFailed,
            MonitorIp, MonitorSession, Writes, Increment, CountIp, CountSession, Credentials,
            Throw, Receive, worker

LEMMA TypeStep == TypeInv /\ [Next]_vars => TypeInv'
<1> SUFFICES ASSUME TypeInv, [Next]_vars PROVE TypeInv'
  OBVIOUS
<1>0. SharedTypes'
  BY SharedStep
<1>1. CASE Tick \/ UNCHANGED vars
  <2>1. UNCHANGED <<at, req, seen, reported>>
    BY <1>1 DEF Tick, vars, worker
  <2> QED BY <1>0, <2>1 DEF TypeInv, WorkerTypes, CommentSteps
<1>2. ASSUME NEW w \in Workers, Moves(w) PROVE TypeInv'
  <2>1. WorkerTypes'
    <3>1. at' \in [Workers -> Steps]
      BY <1>2, WorkerMoves DEF TypeInv, WorkerTypes
    <3>2. req' \in [Workers -> Requests \cup {{}}]
      BY <1>2, WorkerMoves DEF TypeInv, WorkerTypes
    <3>3. seen' \in [Workers -> [Counters -> Nat]]
      BY <1>2, SeenType DEF TypeInv, WorkerTypes
    <3> QED BY <1>2, <3>1, <3>2, <3>3, ReportedType DEF WorkerTypes
  <2>2. CommentSteps'
    <3>1. \A v \in Workers \ {w} : at'[v] = at[v] /\ req'[v] = req[v]
      BY <1>2, WorkerMoves DEF TypeInv, WorkerTypes
    <3>2. CommentSteps
      BY DEF TypeInv
    <3> QED BY <1>2, <3>1, <3>2, WorkerMoves DEF CommentSteps
  <2> QED BY <1>0, <2>1, <2>2 DEF TypeInv
<1> QED BY <1>1, <1>2, NextCases

\* Every variable keeps its type; in particular nobody but a comment is refused
\* with 403.
THEOREM TypeCorrect == Spec => []TypeOK
  BY InitTypes, TypeStep, Parts, PTL DEF Spec

\* What the step of a worker leaves to the others.
LEMMA OthersStay ==
  ASSUME TypeInv, NEW w \in Workers, Moves(w)
  PROVE  \A v \in Workers \ {w} : /\ at'[v] = at[v] /\ req'[v] = req[v]
                                 /\ seen'[v] = seen[v] /\ reported'[v] = reported[v]
<1>1. /\ at \in [Workers -> Steps] /\ req \in [Workers -> Requests \cup {{}}]
      /\ seen \in [Workers -> [Counters -> Nat]] /\ reported \in [Workers -> SUBSET Kinds]
  BY DEF TypeInv, WorkerTypes
<1>2. at' = [at EXCEPT ![w] = at'[w]] /\ req' = [req EXCEPT ![w] = req'[w]]
  BY WorkerMoves
<1>3. seen' = [seen EXCEPT ![w] = seen'[w]]
  BY SeenType
<1>4. reported' = [reported EXCEPT ![w] = reported'[w]]
  BY ReportedType
<1> QED BY <1>1, <1>2, <1>3, <1>4

-----------------------------------------------------------------------------
(* What becomes of a detection.                                            *)

DetectionInv == TypeInv /\ FilledCommentNeverPosted /\ EveryDetectionReported

\* The four steps that a detection ends at, as they are reached.
LEMMA Endings ==
  ASSUME TypeInv, NEW w \in Workers, Moves(w)
  PROVE  /\ at'[w] = "posted" /\ BlockHoneypot => "filled" \notin req'[w]
         /\ at'[w] = "refused" => "login" \in reported'[w]
         /\ at'[w] = "403" => "comment" \in reported'[w]
         /\ at'[w] = "200" => "decoy" \in reported'[w]
<1>0. /\ at \in [Workers -> Steps] /\ req \in [Workers -> Requests \cup {{}}]
      /\ reported \in [Workers -> SUBSET Kinds]
  BY DEF TypeInv, WorkerTypes
<1>1. CASE Sends(w)
  BY <1>0, <1>1 DEF Sends, RefuseLogin, ReportExcess, HandleDecoyHit, ReportFill, SendEvent, Go
<1>2. CASE Checks(w)
  BY <1>0, <1>2 DEF Checks, CheckLoginRateLimit, Route, CheckCommentHoneypot, Go
<1>3. CASE Reads(w)
  BY <1>0, <1>3 DEF Reads, OnLoginFailed, MonitorIp, MonitorSession, Go
<1>4. CASE Writes(w)
  BY <1>0, <1>4 DEF Writes, Increment, CountIp, CountSession, Go
<1>5. CASE Credentials(w) \/ Throw(w) \/ Respond(w)
  BY <1>0, <1>5 DEF Credentials, Throw, Respond, Go
<1>6. CASE \E r \in Requests : Receive(w, r)
  BY <1>0, <1>6 DEF Receive, Go
<1> QED BY <1>1, <1>2, <1>3, <1>4, <1>5, <1>6 DEF Moves

LEMMA DetectionStep == DetectionInv /\ [Next]_vars => DetectionInv'
<1> SUFFICES ASSUME TypeInv, FilledCommentNeverPosted, EveryDetectionReported, [Next]_vars
             PROVE  DetectionInv'
  BY DEF DetectionInv
<1>0. TypeInv'
  BY TypeStep
<1>1. CASE Tick \/ UNCHANGED vars
  <2>1. UNCHANGED <<at, req, reported>>
    BY <1>1 DEF Tick, vars, worker
  <2> QED BY <1>0, <2>1 DEF DetectionInv, FilledCommentNeverPosted, EveryDetectionReported
<1>2. ASSUME NEW w \in Workers, Moves(w) PROVE DetectionInv'
  <2>1. FilledCommentNeverPosted'
    BY <1>2, OthersStay, Endings DEF FilledCommentNeverPosted
  <2>2. EveryDetectionReported'
    BY <1>2, OthersStay, Endings DEF EveryDetectionReported
  <2> QED BY <1>0, <2>1, <2>2 DEF DetectionInv
<1> QED BY <1>1, <1>2, NextCases

LEMMA DetectionInvariant == Spec => []DetectionInv
<1>1. Init => DetectionInv
  BY InitTypes DEF Init, DetectionInv, FilledCommentNeverPosted, EveryDetectionReported
<1> QED BY <1>1, DetectionStep, PTL DEF Spec

\* No comment with the honeypot field filled is posted, with or without a score.
THEOREM FilledStopped == Spec => []FilledCommentNeverPosted
<1>1. DetectionInv => FilledCommentNeverPosted
  BY DEF DetectionInv
<1> QED BY <1>1, DetectionInvariant, PTL

\* Every refused login, every 403 and every decoy answer comes after its event.
THEOREM Reports == Spec => []EveryDetectionReported
<1>1. DetectionInv => EveryDetectionReported
  BY DEF DetectionInv
<1> QED BY <1>1, DetectionInvariant, PTL

-----------------------------------------------------------------------------
(* The counters.                                                           *)

\* What a worker has read of a counter and still uses is less than the run of
\* uses, its own among them.
Earned(w) ==
  /\ at[w] = "increment" => seen[w].login < run["login"]
  /\ at[w] \in {"session", "setIp", "setSession"} => seen[w].ip < run["ip"]
  /\ at[w] \in {"setIp", "setSession"} =>
       IF "cookie" \in req[w] THEN seen[w].session < run["session"] ELSE seen[w].session = 0

\* A transient expires a Window after it was last written, and counts no more than
\* the run until then: a lost update only lowers a count.
CountsEarned ==
  /\ \A k \in Counters :
       /\ transient[k].until <= last[k] + Window
       /\ now < transient[k].until => transient[k].count <= run[k]
  /\ \A w \in Workers : Earned(w)

CountsInv == TypeInv /\ CountsEarned

LEMMA Naturals ==
  ASSUME TypeInv
  PROVE  /\ now \in Nat
         /\ \A k \in Counters : /\ transient[k].count \in Nat /\ transient[k].until \in Nat
                                /\ run[k] \in Nat /\ last[k] \in Nat /\ last[k] <= now
         /\ \A w \in Workers, k \in Counters : seen[w][k] \in Nat
<1>1. now \in Nat /\ SharedTypes /\ WorkerTypes
  BY Limits DEF TypeInv, SharedTypes
<1>2. \A k \in Counters : last[k] \in 0..now
  BY <1>1 DEF SharedTypes
<1> QED BY <1>1, <1>2 DEF SharedTypes, WorkerTypes

LEMMA InitCounts == Init => CountsInv
<1> SUFFICES ASSUME Init PROVE CountsEarned
  BY InitTypes DEF CountsInv
<1>1. \A k \in Counters : transient[k] = [count |-> 0, until |-> 0] /\ last[k] = 0 /\ run[k] = 0
  BY DEF Init, Idle
<1>2. \A w \in Workers : at[w] = "idle"
  BY DEF Init
<1> QED BY <1>1, <1>2, Limits DEF Init, CountsEarned, Earned

\* A use of a counter: what it reads and what is stored is covered by the run, which
\* falls only when nobody else uses the counter.
LEMMA Used ==
  ASSUME TypeInv, CountsEarned, NEW k \in Counters, NextRun(k)
  PROVE  /\ run'[k] \in Nat /\ \A j \in Counters \ {k} : run'[j] = run[j]
         /\ GetTransient(k) < run'[k]
         /\ InUse(k) => run[k] <= run'[k]
         /\ now < transient[k].until => transient[k].count <= run'[k]
<1>0. SharedTypes /\ run \in [Counters -> Nat]
  BY DEF TypeInv, SharedTypes
<1>1. /\ run' = [run EXCEPT ![k] = run'[k]] /\ run'[k] \in Nat
      /\ run'[k] = IF InUse(k) \/ now < last[k] + Window THEN run[k] + 1 ELSE 1
  BY <1>0, Using
<1>2. \A j \in Counters \ {k} : run'[j] = run[j]
  BY <1>0, <1>1
<1>3. /\ transient[k].until <= last[k] + Window
      /\ now < transient[k].until => transient[k].count <= run[k]
  BY DEF CountsEarned
<1>4. CASE InUse(k) \/ now < last[k] + Window
  BY <1>1, <1>2, <1>3, <1>4, Naturals, Limits DEF GetTransient
<1>5. CASE ~(InUse(k) \/ now < last[k] + Window)
  <2>1. ~(now < transient[k].until)
    BY <1>3, <1>5, Naturals, Limits
  <2> QED BY <1>1, <1>2, <1>5, <2>1 DEF GetTransient
<1> QED BY <1>4, <1>5

\* A write of a counter: what is stored is covered by the run of the writer's use.
LEMMA Written ==
  ASSUME TypeInv, CountsEarned, NEW k \in Counters, NEW n \in Nat,
         SetTransient(k, n), WrittenNow(k), n <= run[k], UNCHANGED <<now, run>>
  PROVE  \A j \in Counters : /\ transient'[j].until <= last'[j] + Window
                             /\ now' < transient'[j].until => transient'[j].count <= run'[j]
<1>0. SharedTypes
  BY DEF TypeInv
<1>1. /\ transient'[k] = [count |-> n, until |-> now + Window] /\ last'[k] = now
      /\ \A j \in Counters \ {k} : transient'[j] = transient[j] /\ last'[j] = last[j]
  BY <1>0, Writing, Stamping
<1>2. now + Window <= now + Window
  BY Naturals, Limits
<1> QED BY <1>1, <1>2 DEF CountsEarned

\* The others keep what they have earned as long as the run of a counter that is
\* used does not fall.
LEMMA OthersEarned ==
  ASSUME TypeInv, TypeInv', CountsEarned, NEW w \in Workers, Moves(w),
         \A k \in Counters : InUse(k) => run[k] <= run'[k]
  PROVE  \A v \in Workers \ {w} : Earned(v)'
<1> SUFFICES ASSUME NEW v \in Workers \ {w} PROVE Earned(v)'
  OBVIOUS
<1>0. {"login", "ip", "session"} = Counters
  BY DEF Counters
<1>1. at'[v] = at[v] /\ req'[v] = req[v] /\ seen'[v] = seen[v] /\ Earned(v)
  BY OthersStay DEF CountsEarned
<1>2. \A k \in Counters : run[k] \in Nat /\ run'[k] \in Nat /\ seen[v][k] \in Nat
  BY Naturals DEF TypeInv, SharedTypes
<1>3. at[v] = "increment" => run["login"] <= run'["login"]
  BY <1>0 DEF InUse
<1>4. at[v] \in {"session", "setIp", "setSession"} => run["ip"] <= run'["ip"]
  BY <1>0 DEF InUse
<1>5. at[v] \in {"setIp", "setSession"} /\ "cookie" \in req[v] => run["session"] <= run'["session"]
  BY <1>0 DEF InUse
<1>6. /\ seen[v].login \in Nat /\ seen[v].ip \in Nat /\ seen[v].session \in Nat
      /\ run["login"] \in Nat /\ run["ip"] \in Nat /\ run["session"] \in Nat
      /\ run'["login"] \in Nat /\ run'["ip"] \in Nat /\ run'["session"] \in Nat
  BY <1>0, <1>2
<1> QED BY <1>1, <1>3, <1>4, <1>5, <1>6 DEF Earned

LEMMA CountsStep == CountsInv /\ [Next]_vars => CountsInv'
<1> SUFFICES ASSUME TypeInv, TypeInv', CountsEarned, [Next]_vars PROVE CountsEarned'
  BY TypeStep DEF CountsInv
<1> DEFINE Stored == \A k \in Counters :
             /\ transient[k].until <= last[k] + Window
             /\ now < transient[k].until => transient[k].count <= run[k]
<1> USE Naturals
<1>0. /\ at \in [Workers -> Steps] /\ seen \in [Workers -> [Counters -> Nat]]
      /\ {"login", "ip", "session"} = Counters /\ Stored
      /\ \A w \in Workers : Earned(w)
      /\ \A k \in Counters : run[k] \in Nat
  BY DEF TypeInv, SharedTypes, WorkerTypes, Counters, CountsEarned
<1>1. CASE Tick
  <2>1. now' = now + 1 /\ UNCHANGED <<transient, run, last, at, req, seen>>
    BY <1>1 DEF Tick, worker, history
  <2>2. Stored'
    BY <1>0, <2>1
  <2> QED BY <1>0, <2>1, <2>2 DEF CountsEarned, Earned
<1>2. CASE UNCHANGED vars
  <2>1. UNCHANGED <<now, transient, run, last, at, req, seen>>
    BY <1>2 DEF vars, worker, history
  <2> QED BY <1>0, <2>1 DEF CountsEarned, Earned
<1>3. ASSUME NEW w \in Workers, Moves(w), Earned(w)', Stored',
             \A k \in Counters : InUse(k) => run[k] <= run'[k]
      PROVE  CountsEarned'
  BY <1>3, OthersEarned DEF CountsEarned
<1>4. ASSUME NEW w \in Workers, Moves(w), Earned(w)', Stored', UNCHANGED run
      PROVE  CountsEarned'
  BY <1>0, <1>3, <1>4
<1>5. ASSUME NEW w \in Workers, Moves(w), Earned(w)', NEW k \in Counters, NextRun(k),
             UNCHANGED <<now, transient, last>>
      PROVE  CountsEarned'
  <2>1. \A j \in Counters : InUse(j) => run[j] <= run'[j]
    BY <1>0, <1>5, Used
  <2>2. Stored'
    BY <1>0, <1>5, Used
  <2> QED BY <1>3, <1>5, <2>1, <2>2
<1>6. ASSUME NEW w \in Workers,
             Checks(w) \/ Sends(w) \/ Credentials(w) \/ Throw(w) \/ Respond(w)
               \/ \E r \in Requests : Receive(w, r)
      PROVE  CountsEarned'
  <2>0. Moves(w)
    BY <1>6 DEF Moves
  <2>1. UNCHANGED <<now, transient, run, last>>
    BY <1>6 DEF Checks, CheckLoginRateLimit, Route, CheckCommentHoneypot, Sends, RefuseLogin,
                ReportExcess, HandleDecoyHit, ReportFill, SendEvent, Credentials, Throw, Respond,
                Receive, history
  <2>2. at'[w] \notin {"increment", "session", "setIp", "setSession"}
    BY <1>0, <1>6 DEF Checks, CheckLoginRateLimit, Route, CheckCommentHoneypot, Sends, RefuseLogin,
                      ReportExcess, HandleDecoyHit, ReportFill, SendEvent, Credentials, Throw,
                      Respond, Receive, Go
  <2>3. Earned(w)'
    BY <2>2 DEF Earned
  <2>4. Stored'
    BY <1>0, <2>1
  <2> QED BY <1>4, <2>0, <2>1, <2>3, <2>4
<1>7. ASSUME NEW w \in Workers, OnLoginFailed(w) PROVE CountsEarned'
  <2>0. Moves(w) /\ NextRun("login") /\ UNCHANGED <<now, transient, last>>
    BY <1>7 DEF Moves, Reads, OnLoginFailed
  <2>1. at'[w] = "increment" /\ seen'[w].login = GetTransient("login")
    BY <1>0, <1>7 DEF OnLoginFailed, Go
  <2>2. Earned(w)'
    BY <1>0, <2>0, <2>1, Used DEF Earned
  <2> QED BY <1>0, <1>5, <2>0, <2>2
<1>8. ASSUME NEW w \in Workers, MonitorIp(w) PROVE CountsEarned'
  <2>0. Moves(w) /\ NextRun("ip") /\ UNCHANGED <<now, transient, last>>
    BY <1>8 DEF Moves, Reads, MonitorIp
  <2>1. at'[w] = "session" /\ seen'[w].ip = GetTransient("ip")
    BY <1>0, <1>8 DEF MonitorIp, Go
  <2>2. Earned(w)'
    BY <1>0, <2>0, <2>1, Used DEF Earned
  <2> QED BY <1>0, <1>5, <2>0, <2>2
<1>9. ASSUME NEW w \in Workers, MonitorSession(w) PROVE CountsEarned'
  <2>0. /\ Moves(w) /\ UNCHANGED <<now, transient, last, req>>
        /\ at[w] = "session" /\ at'[w] = "setIp" /\ seen'[w].ip = seen[w].ip
        /\ seen[w].ip < run["ip"]
    BY <1>0, <1>9 DEF Moves, Reads, MonitorSession, Go, Earned
  <2>1. CASE "cookie" \in req[w]
    <3>1. NextRun("session") /\ seen'[w].session = GetTransient("session")
      BY <1>0, <1>9, <2>1 DEF MonitorSession
    <3>2. run'["ip"] = run["ip"] /\ GetTransient("session") < run'["session"]
      BY <1>0, <3>1, Used
    <3>3. Earned(w)'
      BY <2>0, <2>1, <3>1, <3>2 DEF Earned
    <3> QED BY <1>0, <1>5, <2>0, <3>1, <3>3
  <2>2. CASE "cookie" \notin req[w]
    <3>1. UNCHANGED run /\ seen'[w].session = 0
      BY <1>0, <1>9, <2>2 DEF MonitorSession
    <3>2. Earned(w)'
      BY <2>0, <2>2, <3>1 DEF Earned
    <3>3. Stored'
      BY <1>0, <2>0, <3>1
    <3> QED BY <1>4, <2>0, <3>1, <3>2, <3>3
  <2> QED BY <2>1, <2>2
<1>10. ASSUME NEW w \in Workers, Increment(w) PROVE CountsEarned'
  <2>0. /\ Moves(w) /\ UNCHANGED <<now, run>> /\ at[w] = "increment" /\ at'[w] = "out"
        /\ SetTransient("login", seen[w].login + 1) /\ WrittenNow("login")
    BY <1>0, <1>10 DEF Moves, Writes, Increment, Go
  <2>1. seen[w].login \in Nat /\ run["login"] \in Nat /\ seen[w].login < run["login"]
    BY <1>0, <2>0 DEF Earned
  <2>2. seen[w].login + 1 \in Nat /\ seen[w].login + 1 <= run["login"]
    BY <2>1
  <2>3. Stored'
    BY <1>0, <2>0, <2>2, Written
  <2>4. Earned(w)'
    BY <2>0 DEF Earned
  <2> QED BY <1>4, <2>0, <2>3, <2>4
<1>11. ASSUME NEW w \in Workers, CountIp(w) PROVE CountsEarned'
  <2>0. /\ Moves(w) /\ UNCHANGED <<now, run, req, seen>> /\ at[w] = "setIp"
        /\ at'[w] = "setSession"
        /\ SetTransient("ip", seen[w].ip + 1) /\ WrittenNow("ip")
    BY <1>0, <1>11 DEF Moves, Writes, CountIp, Go, worker
  <2>1. seen[w].ip \in Nat /\ run["ip"] \in Nat /\ seen[w].ip < run["ip"]
    BY <1>0, <2>0 DEF Earned
  <2>2. seen[w].ip + 1 \in Nat /\ seen[w].ip + 1 <= run["ip"]
    BY <2>1
  <2>3. Stored'
    BY <1>0, <2>0, <2>2, Written
  <2>4. Earned(w)'
    BY <1>0, <2>0 DEF Earned
  <2> QED BY <1>4, <2>0, <2>3, <2>4
<1>12. ASSUME NEW w \in Workers, CountSession(w) PROVE CountsEarned'
  <2>0. /\ Moves(w) /\ UNCHANGED <<now, run>> /\ at[w] = "setSession"
        /\ at'[w] \in {"excess", "route"}
    BY <1>0, <1>12 DEF Moves, Writes, CountSession, Go
  <2>1. Earned(w)'
    BY <2>0 DEF Earned
  <2>2. CASE "cookie" \notin req[w]
    <3>1. UNCHANGED <<transient, last>>
      BY <1>12, <2>2 DEF CountSession
    <3>2. Stored'
      BY <1>0, <2>0, <3>1
    <3> QED BY <1>4, <2>0, <2>1, <3>2
  <2>3. CASE "cookie" \in req[w]
    <3>1. SetTransient("session", seen[w].session + 1) /\ WrittenNow("session")
      BY <1>12, <2>3 DEF CountSession
    <3>2. /\ seen[w].session \in Nat /\ run["session"] \in Nat
          /\ seen[w].session < run["session"]
      BY <1>0, <2>0, <2>3 DEF Earned
    <3>3. seen[w].session + 1 \in Nat /\ seen[w].session + 1 <= run["session"]
      BY <3>2
    <3>4. Stored'
      BY <1>0, <2>0, <3>1, <3>3, Written
    <3> QED BY <1>4, <2>0, <2>1, <3>4
  <2> QED BY <2>2, <2>3
<1> QED BY <1>1, <1>2, <1>6, <1>7, <1>8, <1>9, <1>10, <1>11, <1>12, NextCases
        DEF Moves, Reads, Writes

\* Nobody is refused a login, and no REST client reported, who did not earn it by
\* as many uses without a pause of Window, whatever is read, lost or written late
\* in between.
THEOREM RefusedInTime == Spec => NeverRefusedEarly
<1> DEFINE Step == \A w \in Workers :
             /\ at[w] = "authenticate" /\ at'[w] = "refuse" =>
                  run["login"] >= LoginMax /\ now < last["login"] + Window
             /\ at[w] = "setSession" /\ at'[w] = "excess" =>
                  run["ip"] > RestMax \/ run["session"] > RestMax
<1>1. CountsInv /\ [Next]_vars => [Step]_vars
  <2> SUFFICES ASSUME TypeInv, CountsEarned, [Next]_vars, NEW w \in Workers, at'[w] # at[w]
               PROVE  /\ at[w] = "authenticate" /\ at'[w] = "refuse" =>
                           run["login"] >= LoginMax /\ now < last["login"] + Window
                      /\ at[w] = "setSession" /\ at'[w] = "excess" =>
                           run["ip"] > RestMax \/ run["session"] > RestMax
    BY DEF CountsInv
  <2>0. at \in [Workers -> Steps] /\ {"login", "ip", "session"} = Counters
    BY DEF TypeInv, WorkerTypes, Counters
  <2>1. PICK v \in Workers : Moves(v)
    BY NextCases DEF Tick, vars
  <2>2. w = v
    BY <2>1, OthersStay
  <2>3. ASSUME CheckLoginRateLimit(w), at'[w] = "refuse"
        PROVE  run["login"] >= LoginMax /\ now < last["login"] + Window
    <3>1. GetTransient("login") >= LoginMax
      BY <2>0, <2>3 DEF CheckLoginRateLimit, Go
    <3>2. now < transient["login"].until /\ transient["login"].count >= LoginMax
      BY <3>1, Limits DEF GetTransient
    <3>3. /\ transient["login"].until <= last["login"] + Window
          /\ transient["login"].count <= run["login"]
      BY <2>0, <3>2 DEF CountsEarned
    <3>4. /\ now \in Nat /\ transient["login"].until \in Nat /\ last["login"] \in Nat
          /\ transient["login"].count \in Nat /\ run["login"] \in Nat
      BY <2>0, Naturals
    <3> QED BY <3>2, <3>3, <3>4, Limits
  <2>4. ASSUME CountSession(w), at'[w] = "excess"
        PROVE  run["ip"] > RestMax \/ run["session"] > RestMax
    <3>1. /\ at[w] = "setSession"
          /\ seen[w].ip + 1 > RestMax \/ seen[w].session + 1 > RestMax
      BY <2>0, <2>4 DEF CountSession, Go
    <3>2. /\ seen[w].ip \in Nat /\ seen[w].session \in Nat
          /\ run["ip"] \in Nat /\ run["session"] \in Nat
      BY <2>0, Naturals
    <3>3. /\ seen[w].ip < run["ip"]
          /\ seen[w].session < run["session"] \/ seen[w].session = 0
      BY <3>1 DEF CountsEarned, Earned
    <3> QED BY <3>1, <3>2, <3>3, Limits
  <2>5. /\ at[w] = "authenticate" /\ at'[w] = "refuse" => CheckLoginRateLimit(w)
        /\ at[w] = "setSession" /\ at'[w] = "excess" => CountSession(w)
    <3>1. CASE Checks(w)
      BY <2>0, <3>1 DEF Checks, Route, CheckCommentHoneypot, CheckLoginRateLimit, Go
    <3>2. CASE Reads(w)
      BY <2>0, <3>2 DEF Reads, OnLoginFailed, MonitorIp, MonitorSession, Go
    <3>3. CASE Writes(w)
      BY <2>0, <3>3 DEF Writes, Increment, CountIp, Go, CountSession
    <3>4. CASE Sends(w)
      BY <2>0, <3>4 DEF Sends, RefuseLogin, ReportExcess, HandleDecoyHit, ReportFill, SendEvent, Go
    <3>5. CASE Credentials(w) \/ Throw(w) \/ Respond(w) \/ \E r \in Requests : Receive(w, r)
      BY <2>0, <3>5 DEF Credentials, Throw, Respond, Receive, Go
    <3> QED BY <2>1, <2>2, <3>1, <3>2, <3>3, <3>4, <3>5 DEF Moves
  <2> QED BY <2>3, <2>4, <2>5
<1>2. Spec => []CountsInv
  BY InitCounts, CountsStep, PTL DEF Spec
<1> QED BY <1>1, <1>2, PTL DEF Spec, NeverRefusedEarly

-----------------------------------------------------------------------------
(* The limits, as long as requests of a kind do not overlap.               *)

\* LastWindow at any time.
Live(s, t)   == {i \in DOMAIN s : s[i] + Window > t}
Within(s, t) == Cardinality(Live(s, t))

LEMMA WithinNow == \A s : LastWindow(s) = Within(s, now)
  BY DEF LastWindow, Within, Live

LEMMA WithinType ==
  ASSUME NEW s \in Seq(Nat), NEW t \in Nat
  PROVE  /\ DOMAIN s = 1..Len(s) /\ Len(s) \in Nat /\ \A i \in DOMAIN s : s[i] \in Nat
         /\ IsFiniteSet(Live(s, t)) /\ Within(s, t) \in Nat
<1>1. DOMAIN s = 1..Len(s) /\ Len(s) \in Nat /\ \A i \in DOMAIN s : s[i] \in Nat
  BY LenProperties, ElementOfSeq
<1>2. IsFiniteSet(DOMAIN s)
  BY <1>1, FS_Interval
<1>3. Live(s, t) \subseteq DOMAIN s
  BY DEF Live
<1> QED BY <1>1, <1>2, <1>3, FS_Subset, FS_CardinalityType DEF Within

LEMMA WithinShrinks ==
  ASSUME NEW s \in Seq(Nat), NEW t \in Nat
  PROVE  Within(s, t + 1) <= Within(s, t)
<1>1. Live(s, t + 1) \subseteq Live(s, t)
  BY WithinType, Limits DEF Live
<1> QED BY <1>1, WithinType, FS_Subset DEF Within

LEMMA WithinAppend ==
  ASSUME NEW s \in Seq(Nat), NEW e \in Nat, NEW t \in Nat
  PROVE  Within(Append(s, e), t) <= Within(s, t) + 1
<1>1. /\ DOMAIN Append(s, e) = 1..(Len(s) + 1)
      /\ \A i \in 1..Len(s) : Append(s, e)[i] = s[i]
  BY AppendProperties
<1>2. Live(Append(s, e), t) \subseteq Live(s, t) \cup {Len(s) + 1}
  BY <1>1, WithinType DEF Live
<1>3. /\ IsFiniteSet(Live(s, t) \cup {Len(s) + 1})
      /\ Cardinality(Live(s, t) \cup {Len(s) + 1}) <= Within(s, t) + 1
  <2>1. IsFiniteSet(Live(s, t)) /\ Within(s, t) \in Nat
    BY WithinType
  <2>2. /\ IsFiniteSet(Live(s, t) \cup {Len(s) + 1})
        /\ Cardinality(Live(s, t) \cup {Len(s) + 1}) =
             IF Len(s) + 1 \in Live(s, t) THEN Cardinality(Live(s, t))
                                          ELSE Cardinality(Live(s, t)) + 1
    BY <2>1, FS_AddElement
  <2> QED BY <2>1, <2>2 DEF Within
<1>4. Cardinality(Live(Append(s, e), t)) <= Cardinality(Live(s, t) \cup {Len(s) + 1})
  BY <1>2, <1>3, FS_Subset
<1>5. Append(s, e) \in Seq(Nat)
  BY AppendProperties
<1>6. Within(Append(s, e), t) \in Nat /\ Within(s, t) \in Nat
  BY <1>5, WithinType
<1>7. Cardinality(Live(s, t) \cup {Len(s) + 1}) \in Nat
  BY <1>3, FS_CardinalityType
<1> QED BY <1>3, <1>4, <1>6, <1>7 DEF Within

LEMMA WithinNone ==
  ASSUME NEW s, NEW t \in Nat, \A i \in DOMAIN s : ~(s[i] + Window > t)
  PROVE  Within(s, t) = 0
<1>1. Live(s, t) = {}
  BY DEF Live
<1> QED BY <1>1, FS_EmptySet DEF Within

LEMMA WithinLast ==
  ASSUME NEW s \in Seq(Nat), NEW t \in Nat, \A i \in DOMAIN s \ {Len(s)} : ~(s[i] + Window > t)
  PROVE  Within(s, t) <= 1
<1>1. Live(s, t) \subseteq {Len(s)}
  BY DEF Live
<1>2. IsFiniteSet({Len(s)}) /\ Cardinality({Len(s)}) = 1
  BY FS_Singleton
<1>3. Cardinality(Live(s, t)) <= Cardinality({Len(s)})
  BY <1>1, <1>2, FS_Subset
<1> QED BY <1>2, <1>3 DEF Within

-----------------------------------------------------------------------------
\* A worker at a step of the login limiter has a login, at one of the monitor a
\* REST request.
LoginSteps == {"authenticate", "refuse", "refused", "credentials", "failed", "increment"}
RestSteps  == {"rest", "session", "setIp", "setSession", "excess", "route"}

OfKind ==
  \A w \in Workers : /\ at[w] \in LoginSteps => "login" \in req[w]
                     /\ at[w] \in RestSteps => "rest" \in req[w]

Alone ==
  \A v, w \in Workers : v # w =>
    /\ "login" \in req[v] => "login" \notin req[w]
    /\ "rest" \in req[v] => "rest" \notin req[w]

\* The transient outlives every wrong password checked, and has them counted.
LoginsCounted ==
  /\ \A i \in DOMAIN checked : checked[i] + Window <= transient["login"].until
  /\ LastWindow(checked) <= GetTransient("login")

\* ... all but the last one, for which the hook has yet to be called.
LastUncounted ==
  /\ \A i \in DOMAIN checked \ {Len(checked)} :
       checked[i] + Window <= transient["login"].until
  /\ LastWindow(checked) <= GetTransient("login") + 1

LoginsLimited ==
  /\ \A w \in Workers :
       /\ at[w] = "credentials" => LastWindow(checked) < LoginMax
       /\ at[w] = "failed" => LastUncounted
       /\ at[w] = "increment" => LastWindow(checked) <= seen[w].login + 1
  /\ (\A w \in Workers : at[w] \notin {"failed", "increment"}) => LoginsCounted

RestsCounted ==
  /\ \A i \in DOMAIN rests : rests[i] + Window <= transient["ip"].until
  /\ LastWindow(rests) <= GetTransient("ip")

RestsReported ==
  /\ RestsCounted
  /\ \A w \in Workers :
       /\ at[w] \in {"session", "setIp"} => LastWindow(rests) <= seen[w].ip
       /\ at[w] = "setSession" => LastWindow(rests) <= seen[w].ip + 1
       /\ at[w] = "route" => LastWindow(rests) <= RestMax \/ "rest" \in reported[w]

SerialInv == TypeInv /\ OfKind /\ (~lenient => Alone /\ LoginsLimited /\ RestsReported)

LEMMA WindowTypes ==
  ASSUME TypeInv
  PROVE  /\ checked \in Seq(Nat) /\ rests \in Seq(Nat) /\ now \in Nat
         /\ LastWindow(checked) \in Nat /\ LastWindow(rests) \in Nat
         /\ \A i \in DOMAIN checked : checked[i] \in 0..now
         /\ \A i \in DOMAIN rests : rests[i] \in 0..now
         /\ \A k \in Counters : /\ transient[k].until \in Nat /\ transient[k].count \in Nat
                                /\ GetTransient(k) \in Nat
<1>0. SharedTypes
  BY DEF TypeInv
<1>1. now \in Nat /\ 0..now \subseteq Nat
  BY <1>0, Limits DEF SharedTypes
<1>2. checked \in Seq(Nat) /\ rests \in Seq(Nat)
  BY <1>0, <1>1, SeqDef DEF SharedTypes
<1>3. LastWindow(checked) \in Nat /\ LastWindow(rests) \in Nat
  BY <1>1, <1>2, WithinNow, WithinType
<1>4. /\ \A i \in DOMAIN checked : checked[i] \in 0..now
      /\ \A i \in DOMAIN rests : rests[i] \in 0..now
  BY <1>0, ElementOfSeq, LenProperties DEF SharedTypes
<1>5. \A k \in Counters : /\ transient[k].until \in Nat /\ transient[k].count \in Nat
                         /\ GetTransient(k) \in Nat
  BY <1>0, Reading DEF SharedTypes
<1> QED BY <1>1, <1>2, <1>3, <1>4, <1>5

LEMMA OfKindStep == TypeInv /\ OfKind /\ [Next]_vars => OfKind'
<1> SUFFICES ASSUME TypeInv, OfKind, [Next]_vars PROVE OfKind'
  OBVIOUS
<1> USE DEF LoginSteps, RestSteps
<1>1. CASE Tick \/ UNCHANGED vars
  <2>1. UNCHANGED <<at, req>>
    BY <1>1 DEF Tick, vars, worker
  <2> QED BY <2>1 DEF OfKind
<1>2. ASSUME NEW w \in Workers, Moves(w) PROVE OfKind'
  <2>0. at \in [Workers -> Steps] /\ req \in [Workers -> Requests \cup {{}}]
    BY DEF TypeInv, WorkerTypes
  <2>1. /\ at'[w] \in LoginSteps => "login" \in req'[w]
        /\ at'[w] \in RestSteps => "rest" \in req'[w]
    <3>1. CASE Checks(w)
      BY <2>0, <3>1 DEF Checks, CheckLoginRateLimit, Route, CheckCommentHoneypot, Go, OfKind
    <3>2. CASE Reads(w)
      BY <2>0, <3>2 DEF Reads, OnLoginFailed, MonitorIp, MonitorSession, Go, OfKind
    <3>3. CASE Writes(w)
      BY <2>0, <3>3 DEF Writes, Increment, CountIp, CountSession, Go, worker, OfKind
    <3>4. CASE Credentials(w) \/ Throw(w) \/ Respond(w)
      BY <2>0, <3>4 DEF Credentials, Throw, Respond, Go, worker, OfKind
    <3>5. CASE Sends(w)
      BY <2>0, <3>5 DEF Sends, RefuseLogin, ReportExcess, HandleDecoyHit, ReportFill, SendEvent,
                        Go, OfKind
    <3>6. CASE \E r \in Requests : Receive(w, r)
      BY <2>0, <3>6 DEF Receive, Go, OfKind
    <3> QED BY <1>2, <3>1, <3>2, <3>3, <3>4, <3>5, <3>6 DEF Moves
  <2> QED BY <1>2, <2>1, OthersStay DEF OfKind
<1> QED BY <1>1, <1>2, NextCases

LEMMA LenientStays ==
  ASSUME TypeInv, [Next]_vars, ~lenient'
  PROVE  /\ ~lenient
         /\ \A w \in Workers : ~Throw(w)
<1>1. \A w \in Workers : ~Throw(w)
  BY DEF Throw
<1>2. CASE Tick \/ UNCHANGED vars
  BY <1>1, <1>2 DEF Tick, vars, history
<1>3. ASSUME NEW w \in Workers, Moves(w) PROVE ~lenient
  <2>1. CASE Checks(w) \/ Sends(w) \/ Respond(w)
    BY <2>1 DEF Checks, CheckLoginRateLimit, Route, CheckCommentHoneypot, Sends, RefuseLogin,
                ReportExcess, HandleDecoyHit, ReportFill, SendEvent, Respond, history
  <2>2. CASE Reads(w) \/ Writes(w) \/ Credentials(w)
    BY <2>2 DEF Reads, OnLoginFailed, MonitorIp, MonitorSession, Writes, Increment, CountIp,
                CountSession, Credentials, history
  <2>3. CASE \E r \in Requests : Receive(w, r)
    BY <2>3 DEF Receive
  <2> QED BY <1>1, <1>3, <2>1, <2>2, <2>3 DEF Moves
<1> QED BY <1>1, <1>2, <1>3, NextCases

LEMMA AloneStep == TypeInv /\ Alone /\ [Next]_vars /\ ~lenient' => Alone'
<1> SUFFICES ASSUME TypeInv, Alone, [Next]_vars, ~lenient' PROVE Alone'
  OBVIOUS
<1>1. CASE UNCHANGED req
  BY <1>1 DEF Alone
<1>2. ASSUME NEW w \in Workers, NEW r \in Requests, Receive(w, r) PROVE Alone'
  <2>1. req' = [req EXCEPT ![w] = r] /\ \A v \in Workers : r \cap req[v] \cap {"login", "rest"} = {}
    BY <1>2 DEF Receive
  <2>2. req \in [Workers -> Requests \cup {{}}]
    BY DEF TypeInv, WorkerTypes
  <2>3. \A v \in Workers : /\ "login" \in r => "login" \notin req[v]
                           /\ "rest" \in r => "rest" \notin req[v]
    BY <2>1
  <2> QED BY <2>1, <2>2, <2>3 DEF Alone
<1>3. ASSUME NEW w \in Workers, Respond(w) PROVE Alone'
  <2>1. req \in [Workers -> Requests \cup {{}}] /\ req' = [req EXCEPT ![w] = {}]
    BY <1>3 DEF Respond, TypeInv, WorkerTypes
  <2> QED BY <2>1 DEF Alone
<1> QED BY <1>1, <1>2, <1>3, NextCases
        DEF Moves, Checks, CheckLoginRateLimit, Route, CheckCommentHoneypot, Reads, OnLoginFailed,
            MonitorIp, MonitorSession, Writes, Increment, CountIp, CountSession, Credentials,
            Sends, RefuseLogin, ReportExcess, HandleDecoyHit, ReportFill, SendEvent, Throw, Tick,
            vars, worker

\* A step that is none of the login limiter's.
LEMMA LoginsFrame ==
  ASSUME TypeInv, LoginsLimited, NEW w \in Workers, Moves(w),
         UNCHANGED <<now, checked>>, transient'["login"] = transient["login"],
         at[w] \notin {"failed", "increment"},
         at'[w] \notin {"credentials", "failed", "increment"}
  PROVE  LoginsLimited'
<1>1. LastWindow(checked)' = LastWindow(checked) /\ GetTransient("login")' = GetTransient("login")
  BY DEF LastWindow, GetTransient
<1>2. LoginsCounted' = LoginsCounted
  BY <1>1 DEF LoginsCounted
<1>3. LastUncounted' = LastUncounted
  BY <1>1 DEF LastUncounted
<1> QED BY <1>1, <1>2, <1>3, OthersStay DEF LoginsLimited

LEMMA RestsFrame ==
  ASSUME TypeInv, RestsReported, NEW w \in Workers, Moves(w),
         UNCHANGED <<now, rests>>, transient'["ip"] = transient["ip"],
         at'[w] \notin {"session", "setIp", "setSession", "route"}
  PROVE  RestsReported'
<1>1. LastWindow(rests)' = LastWindow(rests) /\ GetTransient("ip")' = GetTransient("ip")
  BY DEF LastWindow, GetTransient
<1>2. RestsCounted'
  BY <1>1 DEF RestsCounted, RestsReported
<1> QED BY <1>1, <1>2, OthersStay DEF RestsReported

\* A step of the worker that has the login: the others are not in the limiter.
LEMMA LoginsAlone ==
  ASSUME TypeInv, OfKind, Alone, NEW w \in Workers, Moves(w), "login" \in req[w],
         at'[w] = "credentials" => LastWindow(checked)' < LoginMax,
         at'[w] = "failed" => LastUncounted',
         at'[w] = "increment" => LastWindow(checked)' <= seen'[w].login + 1,
         at'[w] \notin {"failed", "increment"} => LoginsCounted'
  PROVE  LoginsLimited'
<1>1. \A v \in Workers \ {w} : at'[v] \notin {"credentials", "failed", "increment"}
  BY OthersStay DEF OfKind, Alone, LoginSteps, RestSteps
<1> QED BY <1>1 DEF LoginsLimited

\* ... nor is anybody else in the monitor while a worker has a REST request.
LEMMA RestsAlone ==
  ASSUME TypeInv, OfKind, Alone, NEW w \in Workers, Moves(w), "rest" \in req[w],
         RestsCounted',
         at'[w] \in {"session", "setIp"} => LastWindow(rests)' <= seen'[w].ip,
         at'[w] = "setSession" => LastWindow(rests)' <= seen'[w].ip + 1,
         at'[w] = "route" =>
           LastWindow(rests)' <= RestMax \/ "rest" \in reported'[w]
  PROVE  RestsReported'
<1>1. \A v \in Workers \ {w} : at'[v] \notin {"session", "setIp", "setSession", "route"}
  BY OthersStay DEF OfKind, Alone, LoginSteps, RestSteps
<1> QED BY <1>1 DEF RestsReported

LEMMA LoginsTick == TypeInv /\ LoginsLimited /\ Tick => LoginsLimited'
<1> SUFFICES ASSUME TypeInv, LoginsLimited, Tick PROVE LoginsLimited'
  OBVIOUS
<1>0. /\ now' = now + 1 /\ UNCHANGED <<transient, checked, at, seen>>
      /\ "login" \in Counters
  BY DEF Tick, worker, history, Counters
<1>1. /\ LastWindow(checked)' <= LastWindow(checked)
      /\ LastWindow(checked)' = Within(checked, now + 1) /\ LastWindow(checked)' \in Nat
  <2>1. LastWindow(checked)' = Within(checked, now + 1)
    BY <1>0 DEF LastWindow, Within, Live
  <2> QED BY <2>1, WindowTypes, WithinNow, WithinShrinks, WithinType
<1>2. CASE now + 1 < transient["login"].until
  <2>1. GetTransient("login")' = GetTransient("login")
    BY <1>0, <1>2, WindowTypes DEF GetTransient
  <2>2. LoginsCounted => LoginsCounted'
    BY <1>0, <1>1, <2>1, WindowTypes DEF LoginsCounted
  <2>3. LastUncounted => LastUncounted'
    BY <1>0, <1>1, <2>1, WindowTypes DEF LastUncounted
  <2> QED BY <1>0, <1>1, <2>2, <2>3, WindowTypes, Naturals, Limits DEF LoginsLimited
<1>3. CASE ~(now + 1 < transient["login"].until)
  <2>0. GetTransient("login")' = 0
    BY <1>0, <1>3, WindowTypes DEF GetTransient
  <2>2. ASSUME LoginsCounted PROVE LoginsCounted'
    <3>1. \A i \in DOMAIN checked : ~(checked[i] + Window > now + 1)
      BY <1>0, <1>3, <2>2, WindowTypes, Limits DEF LoginsCounted
    <3>2. Within(checked, now + 1) = 0
      BY <3>1, WindowTypes, WithinNone
    <3> QED BY <1>0, <1>1, <2>0, <2>2, <3>2 DEF LoginsCounted
  <2>3. ASSUME LastUncounted PROVE LastUncounted'
    <3>1. \A i \in DOMAIN checked \ {Len(checked)} : ~(checked[i] + Window > now + 1)
      BY <1>0, <1>3, <2>3, WindowTypes, Limits DEF LastUncounted
    <3>2. Within(checked, now + 1) <= 1
      BY <3>1, WindowTypes, WithinLast
    <3> QED BY <1>0, <1>1, <2>0, <2>3, <3>2 DEF LastUncounted
  <2> QED BY <1>0, <1>1, <2>2, <2>3, WindowTypes, Naturals, Limits DEF LoginsLimited
<1> QED BY <1>2, <1>3

LEMMA RestsTick == TypeInv /\ RestsReported /\ Tick => RestsReported'
<1> SUFFICES ASSUME TypeInv, RestsReported, Tick PROVE RestsReported'
  OBVIOUS
<1>0. /\ now' = now + 1 /\ UNCHANGED <<transient, rests, at, seen, reported>>
      /\ "ip" \in Counters
  BY DEF Tick, worker, history, Counters
<1>1. /\ LastWindow(rests)' <= LastWindow(rests)
      /\ LastWindow(rests)' = Within(rests, now + 1) /\ LastWindow(rests)' \in Nat
  <2>1. LastWindow(rests)' = Within(rests, now + 1)
    BY <1>0 DEF LastWindow, Within, Live
  <2>2. rests \in Seq(Nat) /\ now \in Nat /\ now + 1 \in Nat
    BY WindowTypes
  <2>3. Within(rests, now + 1) <= Within(rests, now) /\ Within(rests, now + 1) \in Nat
    BY <2>2, WithinShrinks, WithinType
  <2> QED BY <2>1, <2>3, WithinNow
<1>2. RestsCounted'
  <2>1. CASE now + 1 < transient["ip"].until
    <3>1. GetTransient("ip")' = GetTransient("ip")
      BY <1>0, <2>1, WindowTypes DEF GetTransient
    <3> QED BY <1>0, <1>1, <3>1, WindowTypes DEF RestsCounted, RestsReported
  <2>2. CASE ~(now + 1 < transient["ip"].until)
    <3>0. GetTransient("ip")' = 0
      BY <1>0, <2>2, WindowTypes DEF GetTransient
    <3>1. \A i \in DOMAIN rests : ~(rests[i] + Window > now + 1)
      BY <1>0, <2>2, WindowTypes, Limits DEF RestsCounted, RestsReported
    <3>2. Within(rests, now + 1) = 0
      BY <3>1, WindowTypes, WithinNone
    <3> QED BY <1>0, <1>1, <3>0, <3>2 DEF RestsCounted, RestsReported
  <2> QED BY <2>1, <2>2
<1> QED BY <1>0, <1>1, <1>2, WindowTypes, Naturals, Limits DEF RestsReported

LEMMA LoginsStep ==
  TypeInv /\ OfKind /\ Alone /\ LoginsLimited /\ [Next]_vars /\ ~lenient' => LoginsLimited'
<1> SUFFICES ASSUME TypeInv, OfKind, Alone, LoginsLimited, [Next]_vars, ~lenient'
             PROVE  LoginsLimited'
  OBVIOUS
<1>0. /\ at \in [Workers -> Steps] /\ seen \in [Workers -> [Counters -> Nat]]
      /\ SharedTypes /\ "login" \in Counters /\ {"ip", "session"} \subseteq Counters \ {"login"}
  BY DEF TypeInv, WorkerTypes, Counters
<1>1. CASE UNCHANGED vars
  <2>1. UNCHANGED <<now, transient, checked, at, seen>>
    BY <1>1 DEF vars, worker, history
  <2> QED BY <2>1 DEF LoginsLimited, LoginsCounted, LastUncounted, LastWindow, GetTransient
<1>2. ASSUME NEW w \in Workers, Moves(w), "login" \in req[w],
             at[w] \notin {"failed", "increment"}
      PROVE  LoginsCounted
  <2>1. \A v \in Workers : at[v] \notin {"failed", "increment"}
    BY <1>2 DEF OfKind, Alone, LoginSteps
  <2> QED BY <2>1 DEF LoginsLimited
<1>3. ASSUME NEW w \in Workers, CheckLoginRateLimit(w) PROVE LoginsLimited'
  <2>0. Moves(w) /\ "login" \in req[w] /\ at[w] = "authenticate"
    <3>1. Moves(w) /\ at[w] = "authenticate"
      BY <1>3 DEF Moves, Checks, CheckLoginRateLimit, Go
    <3> QED BY <3>1 DEF OfKind, LoginSteps
  <2>1. /\ UNCHANGED <<now, transient, checked>>
        /\ at'[w] \in {"refuse", "credentials"}
        /\ at'[w] = "credentials" => GetTransient("login") < LoginMax
    <3>1. UNCHANGED <<now, transient, checked>>
      BY <1>3 DEF CheckLoginRateLimit, history
    <3>2. at'[w] = IF GetTransient("login") >= LoginMax THEN "refuse" ELSE "credentials"
      BY <1>0, <1>3 DEF CheckLoginRateLimit, Go
    <3>3. GetTransient("login") \in Nat
      BY <1>0, WindowTypes
    <3> QED BY <3>1, <3>2, <3>3, Limits
  <2>2. LoginsCounted
    BY <1>2, <2>0
  <2>3. /\ LastWindow(checked)' = LastWindow(checked)
        /\ GetTransient("login")' = GetTransient("login")
    BY <2>1 DEF LastWindow, GetTransient
  <2>4. LoginsCounted'
    BY <2>1, <2>2, <2>3 DEF LoginsCounted
  <2>5. at'[w] = "credentials" => LastWindow(checked)' < LoginMax
    BY <1>0, <2>1, <2>2, <2>3, WindowTypes, Limits DEF LoginsCounted
  <2> QED BY <2>0, <2>1, <2>4, <2>5, LoginsAlone
<1>4. ASSUME NEW w \in Workers, Credentials(w) PROVE LoginsLimited'
  <2>0. /\ Moves(w) /\ "login" \in req[w] /\ at[w] \in {"credentials", "refused"}
        /\ UNCHANGED <<now, transient>>
    BY <1>4 DEF Moves, Credentials, OfKind, LoginSteps
  <2>1. CASE "right" \in req[w]
    BY <1>0, <1>4, <2>0, <2>1, LoginsFrame DEF Credentials
  <2>2. CASE "right" \notin req[w]
    <3>1. at'[w] = "failed" /\ checked' = Append(checked, now)
      BY <1>0, <1>4, <2>2 DEF Credentials
    <3>2. LoginsCounted
      BY <1>2, <2>0
    <3>3. GetTransient("login")' = GetTransient("login")
      BY <2>0 DEF GetTransient
    <3>4. LastWindow(checked)' = Within(Append(checked, now), now)
      BY <2>0, <3>1 DEF LastWindow, Within, Live
    <3>5. /\ LastWindow(checked)' <= LastWindow(checked) + 1 /\ LastWindow(checked)' \in Nat
      <4>1. Append(checked, now) \in Seq(Nat)
        BY WindowTypes, AppendProperties
      <4> QED BY <3>4, <4>1, WindowTypes, WithinNow, WithinAppend, WithinType
    <3>6. LastUncounted'
      <4>1. \A i \in DOMAIN checked' \ {Len(checked')} :
              i \in DOMAIN checked /\ checked'[i] = checked[i]
        BY <3>1, WindowTypes, AppendProperties, LenProperties
      <4> QED BY <1>0, <2>0, <3>2, <3>3, <3>5, <4>1, WindowTypes DEF LoginsCounted, LastUncounted
    <3> QED BY <2>0, <3>1, <3>6, LoginsAlone
  <2> QED BY <2>1, <2>2
<1>5. ASSUME NEW w \in Workers, OnLoginFailed(w) PROVE LoginsLimited'
  <2>0. /\ Moves(w) /\ "login" \in req[w] /\ at[w] = "failed"
        /\ UNCHANGED <<now, transient, checked>>
    BY <1>5 DEF Moves, Reads, OnLoginFailed, Go, OfKind, LoginSteps
  <2>1. at'[w] = "increment" /\ seen'[w].login = GetTransient("login")
    BY <1>0, <1>5 DEF OnLoginFailed, Go
  <2>2. LastWindow(checked)' = LastWindow(checked)
    BY <2>0 DEF LastWindow
  <2>3. LastUncounted
    BY <2>0 DEF LoginsLimited
  <2>4. LastWindow(checked)' <= seen'[w].login + 1
    BY <2>1, <2>2, <2>3 DEF LastUncounted
  <2> QED BY <2>0, <2>1, <2>4, LoginsAlone
<1>6. ASSUME NEW w \in Workers, Increment(w) PROVE LoginsLimited'
  <2>0. /\ Moves(w) /\ "login" \in req[w] /\ at[w] = "increment"
        /\ UNCHANGED <<now, checked>>
    <3>1. Moves(w) /\ at[w] = "increment" /\ UNCHANGED <<now, checked>>
      BY <1>6 DEF Moves, Writes, Increment, Go
    <3> QED BY <3>1 DEF OfKind, LoginSteps
  <2>1. /\ at'[w] = "out" /\ seen[w].login + 1 \in Nat
        /\ transient'["login"] = [count |-> seen[w].login + 1, until |-> now + Window]
    <3>1. at'[w] = "out" /\ SetTransient("login", seen[w].login + 1)
      BY <1>0, <1>6 DEF Increment, Go
    <3>2. seen[w].login + 1 \in Nat
      BY <1>0
    <3> QED BY <1>0, <3>1, <3>2, Writing
  <2>2. LastWindow(checked)' = LastWindow(checked)
    BY <2>0 DEF LastWindow
  <2>3. LastWindow(checked) <= seen[w].login + 1
    BY <2>0 DEF LoginsLimited
  <2>4. GetTransient("login")' = seen[w].login + 1
    BY <2>0, <2>1, WindowTypes, Limits DEF GetTransient
  <2>5. \A i \in DOMAIN checked' : checked'[i] + Window <= transient'["login"].until
    BY <2>0, <2>1, WindowTypes, Limits
  <2>6. LoginsCounted'
    BY <2>2, <2>3, <2>4, <2>5 DEF LoginsCounted
  <2> QED BY <2>0, <2>1, <2>6, LoginsAlone
<1>7. ASSUME NEW w \in Workers, Sends(w) PROVE LoginsLimited'
  <2>0. Moves(w) /\ UNCHANGED <<now, transient, checked>>
    BY <1>7 DEF Moves, Sends, RefuseLogin, ReportExcess, HandleDecoyHit, ReportFill, SendEvent,
                history
  <2>1. /\ at[w] \notin {"failed", "increment"}
        /\ at'[w] \notin {"credentials", "failed", "increment"}
    BY <1>0, <1>7 DEF Sends, RefuseLogin, ReportExcess, HandleDecoyHit, ReportFill, SendEvent, Go
  <2> QED BY <2>0, <2>1, LoginsFrame
<1>8. ASSUME NEW w \in Workers, CountIp(w) \/ CountSession(w) PROVE LoginsLimited'
  <2>0. /\ Moves(w) /\ UNCHANGED <<now, checked>> /\ at[w] \in {"setIp", "setSession"}
        /\ at'[w] \in {"setSession", "excess", "route"}
    BY <1>0, <1>8 DEF Moves, Writes, CountIp, CountSession, Go
  <2>1. transient'["login"] = transient["login"]
    BY <1>0, <1>8 DEF CountIp, CountSession, SetTransient, SharedTypes
  <2> QED BY <2>0, <2>1, LoginsFrame
<1>9. ASSUME NEW w \in Workers,
             Route(w) \/ CheckCommentHoneypot(w) \/ MonitorIp(w) \/ MonitorSession(w)
               \/ Respond(w) \/ \E r \in Requests : Receive(w, r)
      PROVE  LoginsLimited'
  <2>0. Moves(w) /\ UNCHANGED <<now, checked, transient>>
    BY <1>9 DEF Moves, Checks, Reads, Route, CheckCommentHoneypot, MonitorIp, MonitorSession,
                Respond, Receive, history
  <2>1. /\ at[w] \notin {"failed", "increment"}
        /\ at'[w] \notin {"credentials", "failed", "increment"}
    BY <1>0, <1>9 DEF Route, CheckCommentHoneypot, MonitorIp, MonitorSession, Respond, Receive, Go
  <2> QED BY <2>0, <2>1, LoginsFrame
<1>10. \A w \in Workers : ~Throw(w)
  BY LenientStays
<1> QED BY <1>1, <1>3, <1>4, <1>5, <1>6, <1>7, <1>8, <1>9, <1>10, LoginsTick, NextCases
        DEF Moves, Checks, Reads, Writes

LEMMA RestsStep ==
  TypeInv /\ OfKind /\ Alone /\ RestsReported /\ [Next]_vars /\ ~lenient' => RestsReported'
<1> SUFFICES ASSUME TypeInv, OfKind, Alone, RestsReported, [Next]_vars, ~lenient'
             PROVE  RestsReported'
  OBVIOUS
<1>0. /\ at \in [Workers -> Steps] /\ seen \in [Workers -> [Counters -> Nat]]
      /\ reported \in [Workers -> SUBSET Kinds]
      /\ SharedTypes /\ "ip" \in Counters
      /\ RestsCounted
  BY DEF TypeInv, WorkerTypes, Counters, RestsReported
<1>1. CASE UNCHANGED vars
  <2>1. UNCHANGED <<now, transient, rests, at, seen, reported>>
    BY <1>1 DEF vars, worker, history
  <2> QED BY <2>1 DEF RestsReported, RestsCounted, LastWindow, GetTransient
<1>2. ASSUME UNCHANGED <<now, rests>>, transient'["ip"] = transient["ip"]
      PROVE  LastWindow(rests)' = LastWindow(rests) /\ RestsCounted'
  <2>1. /\ LastWindow(rests)' = LastWindow(rests)
        /\ GetTransient("ip")' = GetTransient("ip")
    BY <1>2 DEF LastWindow, GetTransient
  <2> QED BY <1>0, <1>2, <2>1 DEF RestsCounted
<1>3. ASSUME NEW w \in Workers, MonitorIp(w) PROVE RestsReported'
  <2>0. /\ Moves(w) /\ "rest" \in req[w] /\ UNCHANGED <<now, rests, transient>>
    BY <1>3 DEF Moves, Reads, MonitorIp, Go, OfKind, RestSteps
  <2>1. at'[w] = "session" /\ seen'[w].ip = GetTransient("ip")
    BY <1>0, <1>3 DEF MonitorIp, Go
  <2>2. LastWindow(rests)' <= seen'[w].ip
    BY <1>0, <1>2, <2>0, <2>1 DEF RestsCounted
  <2> QED BY <1>2, <2>0, <2>1, <2>2, RestsAlone
<1>4. ASSUME NEW w \in Workers, MonitorSession(w) PROVE RestsReported'
  <2>0. /\ Moves(w) /\ "rest" \in req[w] /\ UNCHANGED <<now, rests, transient>>
        /\ at[w] = "session"
    BY <1>4 DEF Moves, Reads, MonitorSession, Go, OfKind, RestSteps
  <2>1. at'[w] = "setIp" /\ seen'[w].ip = seen[w].ip
    BY <1>0, <1>4 DEF MonitorSession, Go, Counters
  <2>2. LastWindow(rests)' <= seen'[w].ip
    BY <1>2, <2>0, <2>1 DEF RestsReported
  <2> QED BY <1>2, <2>0, <2>1, <2>2, RestsAlone
<1>5. ASSUME NEW w \in Workers, CountIp(w) PROVE RestsReported'
  <2>0. /\ Moves(w) /\ "rest" \in req[w] /\ at[w] = "setIp" /\ UNCHANGED <<now, seen>>
    BY <1>5 DEF Moves, Writes, CountIp, Go, OfKind, RestSteps, worker
  <2>1. /\ at'[w] = "setSession" /\ seen[w].ip \in Nat
        /\ transient'["ip"] = [count |-> seen[w].ip + 1, until |-> now + Window]
        /\ rests' = Append(rests, now)
    BY <1>0, <1>5 DEF CountIp, Go, SetTransient, SharedTypes
  <2>2. LastWindow(rests)' = Within(Append(rests, now), now)
    BY <2>0, <2>1 DEF LastWindow, Within, Live
  <2>3. Append(rests, now) \in Seq(Nat)
    BY WindowTypes, AppendProperties
  <2>4. LastWindow(rests)' <= LastWindow(rests) + 1 /\ LastWindow(rests)' \in Nat
    BY <2>2, <2>3, WindowTypes, WithinNow, WithinAppend, WithinType
  <2>5. LastWindow(rests)' <= seen[w].ip + 1
    BY <2>0, <2>1, <2>4, WindowTypes DEF RestsReported
  <2>6. GetTransient("ip")' = seen[w].ip + 1
    BY <2>0, <2>1, WindowTypes, Limits DEF GetTransient
  <2>7. \A i \in DOMAIN rests' : rests'[i] + Window <= transient'["ip"].until
    <3>1. \A i \in DOMAIN rests' : rests'[i] \in 0..now
      <4>1. rests' \in Seq(0..now) /\ now \in 0..now
        BY <1>0, <2>1, WindowTypes, AppendProperties DEF SharedTypes
      <4> QED BY <4>1, ElementOfSeq, LenProperties
    <3> QED BY <2>1, <3>1, WindowTypes, Limits
  <2>8. RestsCounted'
    BY <2>5, <2>6, <2>7 DEF RestsCounted
  <2> QED BY <2>0, <2>1, <2>5, <2>8, RestsAlone
<1>6. ASSUME NEW w \in Workers, CountSession(w) PROVE RestsReported'
  <2>0. /\ Moves(w) /\ "rest" \in req[w] /\ at[w] = "setSession" /\ UNCHANGED <<now, rests>>
        /\ seen[w].ip \in Nat
    BY <1>0, <1>6 DEF Moves, Writes, CountSession, Go, OfKind, RestSteps, Counters
  <2>1. transient'["ip"] = transient["ip"]
    BY <1>0, <1>6 DEF CountSession, SetTransient, SharedTypes
  <2>2. at'[w] \in {"excess", "route"} /\ (at'[w] = "route" => ~(seen[w].ip + 1 > RestMax))
    BY <1>0, <1>6 DEF CountSession, Go
  <2>3. at'[w] = "route" => LastWindow(rests)' <= RestMax
    BY <1>2, <2>0, <2>1, <2>2, WindowTypes, Limits DEF RestsReported
  <2> QED BY <1>2, <2>0, <2>1, <2>2, <2>3, RestsAlone
<1>7. ASSUME NEW w \in Workers, Sends(w) PROVE RestsReported'
  <2>0. Moves(w) /\ UNCHANGED <<now, transient, rests>>
    BY <1>7 DEF Moves, Sends, RefuseLogin, ReportExcess, HandleDecoyHit, ReportFill, SendEvent,
                history
  <2>1. CASE ReportExcess(w)
    <3>1. at[w] = "excess" /\ at'[w] = "route" /\ "rest" \in reported'[w]
      BY <1>0, <2>1 DEF ReportExcess, SendEvent, Go
    <3>2. "rest" \in req[w]
      BY <3>1 DEF OfKind, RestSteps
    <3> QED BY <1>2, <2>0, <3>1, <3>2, RestsAlone
  <2>2. CASE RefuseLogin(w) \/ HandleDecoyHit(w) \/ ReportFill(w)
    <3>1. at'[w] \notin {"session", "setIp", "setSession", "route"}
      BY <1>0, <2>2 DEF RefuseLogin, HandleDecoyHit, ReportFill, SendEvent, Go
    <3> QED BY <2>0, <3>1, RestsFrame
  <2> QED BY <1>7, <2>1, <2>2 DEF Sends
<1>8. ASSUME NEW w \in Workers,
             Checks(w) \/ Credentials(w) \/ OnLoginFailed(w) \/ Respond(w)
               \/ \E r \in Requests : Receive(w, r)
      PROVE  RestsReported'
  <2>0. Moves(w) /\ UNCHANGED <<now, rests, transient>>
    BY <1>8 DEF Moves, Checks, CheckLoginRateLimit, Route, CheckCommentHoneypot, Credentials,
                Reads, OnLoginFailed, Respond, Receive, history
  <2>1. at'[w] \notin {"session", "setIp", "setSession", "route"}
    BY <1>0, <1>8 DEF Checks, CheckLoginRateLimit, Route, CheckCommentHoneypot, Credentials,
                      OnLoginFailed, Respond, Receive, Go
  <2> QED BY <2>0, <2>1, RestsFrame
<1>9. ASSUME NEW w \in Workers, Increment(w) PROVE RestsReported'
  <2>0. Moves(w) /\ UNCHANGED <<now, rests>> /\ at'[w] = "out"
    BY <1>0, <1>9 DEF Moves, Writes, Increment, Go, history
  <2>1. transient'["ip"] = transient["ip"]
    BY <1>0, <1>9 DEF Increment, SetTransient, SharedTypes
  <2> QED BY <2>0, <2>1, RestsFrame
<1>10. \A w \in Workers : ~Throw(w)
  BY LenientStays
<1> QED BY <1>1, <1>3, <1>4, <1>5, <1>6, <1>7, <1>8, <1>9, <1>10, RestsTick, NextCases
        DEF Moves, Checks, Reads, Writes

\* As long as requests of a kind do not overlap and the cache works, nobody is past
\* a limit of any size unnoticed, with any number of workers.
THEOREM SerialClients == Spec => []SerialClientsReported
<1>1. Init => SerialInv
  <2> SUFFICES ASSUME Init PROVE OfKind /\ Alone /\ LoginsLimited /\ RestsReported
    BY InitTypes DEF SerialInv
  <2>1. /\ checked = <<>> /\ rests = <<>> /\ now = 0 /\ DOMAIN checked = {} /\ DOMAIN rests = {}
        /\ \A w \in Workers : at[w] = "idle" /\ req[w] = {}
    BY DEF Init
  <2>2. LastWindow(checked) = 0 /\ LastWindow(rests) = 0
    BY <2>1, WithinNow, WithinNone
  <2>3. GetTransient("login") = 0 /\ GetTransient("ip") = 0
    BY DEF Init, GetTransient, Counters
  <2>4. LoginsCounted /\ RestsCounted
    BY <2>1, <2>2, <2>3 DEF LoginsCounted, RestsCounted
  <2> QED BY <2>1, <2>2, <2>4, Limits
          DEF OfKind, LoginSteps, RestSteps, Alone, LoginsLimited, RestsReported
<1>2. SerialInv /\ [Next]_vars => SerialInv'
  <2> SUFFICES ASSUME SerialInv, [Next]_vars PROVE SerialInv'
    OBVIOUS
  <2>1. TypeInv' /\ OfKind'
    BY TypeStep, OfKindStep DEF SerialInv
  <2>2. ASSUME ~lenient' PROVE Alone' /\ LoginsLimited' /\ RestsReported'
    <3>1. TypeInv /\ OfKind /\ Alone /\ LoginsLimited /\ RestsReported
      BY <2>2, LenientStays DEF SerialInv
    <3> QED BY <2>2, <3>1, AloneStep, LoginsStep, RestsStep
  <2> QED BY <2>1, <2>2 DEF SerialInv
<1>3. SerialInv => SerialClientsReported
  BY DEF SerialInv, LoginsLimited, RestsReported, SerialClientsReported
<1> QED BY <1>1, <1>2, <1>3, PTL DEF Spec
=============================================================================
