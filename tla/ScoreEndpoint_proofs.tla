------------------------ MODULE ScoreEndpoint_proofs ------------------------
(***************************************************************************)
(* Proofs about ScoreEndpoint, for all requests and rules files and every  *)
(* bound: types, one load per process, one verdict per process, no score   *)
(* from rules older than its request, and scores that never go back to     *)
(* older rules.                                                            *)
(***************************************************************************)
EXTENDS ScoreEndpoint, SequenceTheorems, TLAPS

-----------------------------------------------------------------------------
(* Sequences of suspended handlers.                                        *)

LEMMA AppendHandler ==
  ASSUME NEW s \in Seq(Handlers), NEW h \in Handlers
  PROVE  /\ Append(s, h) \in Seq(Handlers) /\ Append(s, h) # <<>>
         /\ \A i \in DOMAIN Append(s, h) :
              Append(s, h)[i] = h \/ \E j \in DOMAIN s : Append(s, h)[i] = s[j]
<1>1. /\ Append(s, h) \in Seq(Handlers)
      /\ Len(Append(s, h)) = Len(s) + 1
      /\ \A i \in 1..Len(s) : Append(s, h)[i] = s[i]
      /\ Append(s, h)[Len(s) + 1] = h
  BY AppendProperties
<1>2. DOMAIN Append(s, h) = 1..(Len(s) + 1) /\ DOMAIN s = 1..Len(s) /\ Len(s) \in Nat
  BY <1>1, LenProperties
<1>3. Append(s, h) # <<>>
  BY <1>1, <1>2, EmptySeq
<1> QED BY <1>1, <1>2, <1>3

LEMMA ConcatHandlers ==
  ASSUME NEW s \in Seq(Handlers), NEW t \in Seq(Handlers)
  PROVE  /\ s \o t \in Seq(Handlers)
         /\ \A i \in DOMAIN (s \o t) :
              \/ \E j \in DOMAIN s : (s \o t)[i] = s[j]
              \/ \E j \in DOMAIN t : (s \o t)[i] = t[j]
<1>1. /\ s \o t \in Seq(Handlers)
      /\ Len(s \o t) = Len(s) + Len(t)
      /\ \A i \in 1..(Len(s) + Len(t)) :
           (s \o t)[i] = IF i <= Len(s) THEN s[i] ELSE t[i - Len(s)]
  BY ConcatProperties
<1>2. /\ DOMAIN s = 1..Len(s) /\ DOMAIN t = 1..Len(t)
      /\ DOMAIN (s \o t) = 1..(Len(s) + Len(t))
      /\ Len(s) \in Nat /\ Len(t) \in Nat
  BY <1>1, LenProperties
<1>3. ASSUME NEW i \in 1..(Len(s) + Len(t)), ~(i <= Len(s))
      PROVE  i - Len(s) \in 1..Len(t)
  BY <1>2, <1>3
<1>4. ASSUME NEW i \in 1..(Len(s) + Len(t)), i <= Len(s)
      PROVE  i \in 1..Len(s)
  BY <1>2, <1>4
<1> QED BY <1>1, <1>2, <1>3, <1>4

LEMMA TakeHandler ==
  ASSUME NEW s \in Seq(Handlers), s # <<>>
  PROVE  /\ Tail(s) \in Seq(Handlers)
         /\ 1 \in DOMAIN s /\ Head(s) = s[1] /\ Head(s) \in Handlers
         /\ \A i \in DOMAIN Tail(s) : \E j \in DOMAIN s : Tail(s)[i] = s[j]
<1>1. /\ Head(s) \in Handlers /\ Tail(s) \in Seq(Handlers)
      /\ Len(Tail(s)) = Len(s) - 1
      /\ \A i \in 1..Len(Tail(s)) : Tail(s)[i] = s[i + 1]
  BY HeadTailProperties
<1>2. /\ DOMAIN s = 1..Len(s) /\ DOMAIN Tail(s) = 1..Len(Tail(s))
      /\ Len(s) \in Nat /\ Len(s) # 0
  BY <1>1, LenProperties, EmptySeq
<1>3. Head(s) = s[1]
  OBVIOUS
<1>4. 1 \in 1..Len(s) /\ \A i \in 1..(Len(s) - 1) : i + 1 \in 1..Len(s)
  BY <1>2
<1> QED BY <1>1, <1>2, <1>3, <1>4

LEMMA NoHandlers == <<>> \in Seq(Handlers) /\ DOMAIN <<>> = {}
  OBVIOUS

\* Whose handlers are suspended.
LEMMA Suspended ==
  ASSUME TypeOK
  PROVE  /\ \A i \in DOMAIN awaiting : awaiting[i].req \in ScoreReqs \cap InFlight
         /\ \A i \in DOMAIN ready : ready[i].req \in ScoreReqs \cap InFlight
<1>1. /\ \A i \in DOMAIN awaiting : awaiting[i] \in Handlers
      /\ \A i \in DOMAIN ready : ready[i] \in Handlers
  BY ElementOfSeq, LenProperties DEF TypeOK
<1>2. \A x \in Handlers : x.req \in ScoreReqs
  BY DEF Handlers
<1> QED BY <1>1, <1>2 DEF InFlight

-----------------------------------------------------------------------------
(* The invariant.                                                          *)

\* The history variable says what engine.ts remembers.
LoadCounted == loads = IF cached = "undefined" /\ loading = "none" THEN 0 ELSE 1

\* A load is only in flight while there is no verdict.
OneOrTheOther == loading # "none" => cached = "undefined"

\* Suspended handlers hold rules that are no older than their requests.
HandlersFresh ==
  /\ \A i \in DOMAIN awaiting : awaiting[i].rules.edit >= arrival[awaiting[i].req]
  /\ \A i \in DOMAIN ready : ready[i].rules.edit >= arrival[ready[i].req]

IInv == TypeOK /\ LoadCounted /\ OneOrTheOther /\ HandlersFresh /\ AsFreshAsTheRequest

LEMMA InitInv == Init => IInv
<1> SUFFICES ASSUME Init PROVE IInv
  OBVIOUS
<1>1. 0 \in 0..MaxEdits /\ 1 \in 1..MaxBoots
  BY BoundAssumption
<1>2. file \in File
  BY <1>1 DEF Init, File
<1>3. Plain("none") \in Reply /\ Plain("none").status = "none"
  BY <1>1 DEF Plain, Reply
<1>4. TypeOK
  BY <1>1, <1>2, <1>3, NoHandlers DEF Init, TypeOK
<1>5. LoadCounted /\ OneOrTheOther /\ HandlersFresh
  BY NoHandlers DEF Init, LoadCounted, OneOrTheOther, HandlersFresh
<1>6. AsFreshAsTheRequest
  BY <1>3 DEF Init, AsFreshAsTheRequest, Requests
<1> QED BY <1>4, <1>5, <1>6 DEF IInv

\* Handler r is suspended, or goes on at once with the verdict.
Suspends(r) == UseCached(Handler(r)) \/ JoinLoad(Handler(r)) \/ StartLoad(Handler(r))

LEMMA SuspendInv ==
  ASSUME IInv, NEW r \in ScoreReqs, EventLoop, New(r), Suspends(r),
         arrival' = [q \in ScoreReqs |-> IF q = r THEN file.edit ELSE arrival[q]],
         UNCHANGED <<process, boots, disk, reply>>
  PROVE  IInv'
<1> DEFINE h == Handler(r)
<1>1. /\ h \in Handlers /\ h.req = r /\ h.rules.edit = file.edit
      /\ file.edit \in 0..MaxEdits /\ file.edit \in Int
  BY DEF IInv, TypeOK, Handler, Handlers, File
<1>2. /\ arrival' \in [ScoreReqs -> 0..MaxEdits] /\ arrival'[r] = file.edit
      /\ \A q \in ScoreReqs : q # r => arrival'[q] = arrival[q]
  BY <1>1 DEF IInv, TypeOK
<1>3. awaiting \in Seq(Handlers) /\ ready \in Seq(Handlers)
  BY DEF IInv, TypeOK
<1>4. /\ \A i \in DOMAIN awaiting : awaiting[i].req \in ScoreReqs \ {r}
      /\ \A i \in DOMAIN ready : ready[i].req \in ScoreReqs \ {r}
  BY Suspended DEF IInv, New
\* What was fresh stays so, and h is.
<1>5. /\ \A i \in DOMAIN awaiting : awaiting[i].rules.edit >= arrival'[awaiting[i].req]
      /\ \A i \in DOMAIN ready : ready[i].rules.edit >= arrival'[ready[i].req]
      /\ h.rules.edit >= arrival'[h.req]
  BY <1>1, <1>2, <1>4 DEF IInv, HandlersFresh
<1>6. AsFreshAsTheRequest'
  BY <1>2 DEF IInv, AsFreshAsTheRequest, New
<1>7. CASE UseCached(h)
  <2>1. ready' = Append(ready, h) /\ UNCHANGED engine
    BY <1>7 DEF UseCached
  <2>2. ready' \in Seq(Handlers)
    BY <2>1, <1>1, <1>3, AppendHandler
  <2>3. HandlersFresh'
    BY <2>1, <1>1, <1>3, <1>5, AppendHandler DEF HandlersFresh, engine
  <2>4. TypeOK'
    BY <2>1, <2>2, <1>2 DEF IInv, TypeOK, engine, disk
  <2> QED BY <2>1, <2>3, <2>4, <1>6 DEF IInv, LoadCounted, OneOrTheOther, engine
<1>8. CASE JoinLoad(h)
  <2>1. /\ awaiting' = Append(awaiting, h) /\ UNCHANGED <<cached, loading, ready, loads>>
        /\ cached = "undefined" /\ loading # "none"
    BY <1>8 DEF JoinLoad
  <2>2. awaiting' \in Seq(Handlers) /\ awaiting' # <<>>
    BY <2>1, <1>1, <1>3, AppendHandler
  <2>3. HandlersFresh'
    BY <2>1, <1>1, <1>3, <1>5, AppendHandler DEF HandlersFresh
  <2>4. TypeOK'
    BY <2>1, <2>2, <1>2 DEF IInv, TypeOK, disk
  <2> QED BY <2>1, <2>3, <2>4, <1>6 DEF IInv, LoadCounted, OneOrTheOther
<1>9. CASE StartLoad(h)
  <2>1. /\ awaiting' = <<h>> /\ loads' = loads + 1 /\ loading' \in {"pending", "null"}
        /\ UNCHANGED <<cached, ready>>
        /\ cached = "undefined" /\ loading = "none"
    BY <1>9 DEF StartLoad
  <2>2. awaiting' \in Seq(Handlers) /\ awaiting' # <<>> /\ DOMAIN awaiting' = {1} /\ awaiting'[1] = h
    BY <2>1, <1>1
  <2>3. HandlersFresh'
    BY <2>1, <2>2, <1>5 DEF HandlersFresh
  <2>4. TypeOK'
    BY <2>1, <2>2, <1>2 DEF IInv, TypeOK, disk
  <2> QED BY <2>1, <2>3, <2>4, <1>6 DEF IInv, LoadCounted, OneOrTheOther
<1> QED BY <1>7, <1>8, <1>9 DEF Suspends

LEMMA PlainTypes ==
  \A status \in {"none", "refused", "rules_unavailable", "scoring_unavailable",
                 "scoring_failed", "internal_error", "lost"} :
    Plain(status) \in Reply /\ Plain(status).status # "200"
<1>1. 0 \in 0..MaxEdits
  BY BoundAssumption
<1> QED BY <1>1 DEF Plain, Reply

\* A request that is answered at once.  A score is not: its answer is no 200.
LEMMA AnswerInv ==
  ASSUME IInv, NEW r \in Requests, NEW what \in Reply, New(r), Respond(r, what),
         r \in ScoreReqs => what.status # "200",
         arrival' = [q \in ScoreReqs |-> IF q = r THEN file.edit ELSE arrival[q]],
         UNCHANGED <<process, boots, disk, engine, ready>>
  PROVE  IInv'
<1>1. file.edit \in 0..MaxEdits
  BY DEF IInv, TypeOK, File
<1>2. /\ arrival' \in [ScoreReqs -> 0..MaxEdits]
      /\ \A q \in ScoreReqs : q # r => arrival'[q] = arrival[q]
  BY <1>1 DEF IInv, TypeOK
<1>3. /\ reply' \in [Requests -> Reply] /\ reply'[r] = what
      /\ \A q \in Requests : q # r => reply'[q] = reply[q]
  BY DEF IInv, TypeOK, Respond
<1>4. TypeOK'
  BY <1>2, <1>3 DEF IInv, TypeOK, engine, disk
<1>5. /\ \A i \in DOMAIN awaiting : awaiting[i].req \in ScoreReqs \ {r}
      /\ \A i \in DOMAIN ready : ready[i].req \in ScoreReqs \ {r}
  BY Suspended DEF IInv, New
<1>6. HandlersFresh'
  BY <1>2, <1>5 DEF IInv, HandlersFresh, engine
<1>7. AsFreshAsTheRequest'
  BY <1>2, <1>3 DEF IInv, AsFreshAsTheRequest, Requests
<1> QED BY <1>4, <1>6, <1>7 DEF IInv, LoadCounted, OneOrTheOther, engine

LEMMA ArriveInv == ASSUME IInv, NEW r \in Requests, Arrive(r) PROVE IInv'
<1>1. /\ EventLoop /\ New(r) /\ UNCHANGED <<process, boots, disk>>
      /\ arrival' = [q \in ScoreReqs |-> IF q = r THEN file.edit ELSE arrival[q]]
  BY DEF Arrive
<1>2. CASE r \in ScoreReqs /\ PostScore(r)
  BY <1>1, <1>2, SuspendInv DEF PostScore, Suspends
<1>3. CASE RulesUnavailable(r)
  BY <1>1, <1>3, PlainTypes, AnswerInv DEF RulesUnavailable
<1>4. CASE r \in RulesReqs /\ GetRules(r)
  <2>1. [status |-> "200", edit |-> file.edit] \in Reply
    BY DEF IInv, TypeOK, File, Reply
  <2>2. r \notin ScoreReqs
    BY <1>4, RequestAssumption
  <2> QED BY <1>1, <1>4, <2>1, <2>2, AnswerInv DEF GetRules
<1>5. CASE r \in RulesReqs /\ LookupFails(r)
  BY <1>1, <1>5, PlainTypes, AnswerInv DEF LookupFails
<1>6. CASE r \in RefusedReqs /\ Refuse(r)
  BY <1>1, <1>6, PlainTypes, AnswerInv DEF Refuse
<1> QED BY <1>2, <1>3, <1>4, <1>5, <1>6 DEF Arrive

-----------------------------------------------------------------------------
(* The other steps.                                                        *)

LEMMA OperatorInv == ASSUME IInv, Operator PROVE IInv'
<1>1. ASSUME NEW c \in Content, EditRules(c) PROVE IInv'
  <2>1. file.edit + 1 \in 0..MaxEdits /\ file' \in File
    BY <1>1, BoundAssumption DEF IInv, TypeOK, File, EditRules
  <2> QED BY <1>1, <2>1 DEF EditRules, IInv, TypeOK, LoadCounted, OneOrTheOther,
        HandlersFresh, AsFreshAsTheRequest, engine
<1>2. CASE Build
  BY <1>2 DEF Build, IInv, TypeOK, LoadCounted, OneOrTheOther,
        HandlersFresh, AsFreshAsTheRequest, engine
<1> QED BY <1>1, <1>2 DEF Operator

LEMMA LoadInv == ASSUME IInv, LoadSettles PROVE IInv'
  BY DEF LoadSettles, IInv, TypeOK, LoadCounted, OneOrTheOther, HandlersFresh,
        AsFreshAsTheRequest, disk

LEMMA OwnerInv == ASSUME IInv, OwnerContinues PROVE IInv'
<1>1. /\ cached' = loading /\ loading \in {"null", "engine"} /\ loading' = "none"
      /\ ready' = ready \o awaiting /\ awaiting' = <<>>
      /\ UNCHANGED <<process, boots, disk, loads, reply, arrival>>
  BY DEF OwnerContinues
<1>2. ready' \in Seq(Handlers)
  BY <1>1, ConcatHandlers DEF IInv, TypeOK
<1>3. HandlersFresh'
  <2>1. \A i \in DOMAIN awaiting' : FALSE
    BY <1>1, NoHandlers
  <2>2. \A i \in DOMAIN ready' :
          (\E j \in DOMAIN ready : ready'[i] = ready[j])
            \/ \E j \in DOMAIN awaiting : ready'[i] = awaiting[j]
    BY <1>1, ConcatHandlers DEF IInv, TypeOK
  <2> QED BY <1>1, <2>1, <2>2 DEF IInv, HandlersFresh
<1>4. TypeOK'
  BY <1>1, <1>2, NoHandlers DEF IInv, TypeOK, disk
<1> QED BY <1>1, <1>3, <1>4 DEF IInv, LoadCounted, OneOrTheOther, AsFreshAsTheRequest

LEMMA VerdictTypes ==
  ASSUME TypeOK, NEW h \in Handlers
  PROVE  /\ Verdict(h) \in Reply
         /\ Verdict(h).status = "200" => Verdict(h).edit = h.rules.edit
<1>1. h.rules.edit \in 0..MaxEdits
  BY DEF Handlers, File
<1>2. [status |-> "200", edit |-> h.rules.edit] \in Reply
  BY <1>1 DEF Reply
<1>3. /\ Plain("scoring_unavailable") \in Reply /\ Plain("scoring_failed") \in Reply
      /\ Plain("scoring_unavailable").status # "200" /\ Plain("scoring_failed").status # "200"
  BY PlainTypes
<1> QED BY <1>2, <1>3 DEF Verdict

LEMMA HandlerInv == ASSUME IInv, HandlerContinues PROVE IInv'
<1> DEFINE h == Head(ready)
<1>1. /\ ready # <<>> /\ Respond(h.req, Verdict(h)) /\ ready' = Tail(ready)
      /\ UNCHANGED <<process, boots, disk, engine, arrival>>
  BY DEF HandlerContinues
<1>2. ready \in Seq(Handlers) /\ TypeOK
  BY DEF IInv, TypeOK
<1>3. /\ ready' \in Seq(Handlers) /\ h \in Handlers /\ 1 \in DOMAIN ready /\ h = ready[1]
      /\ \A i \in DOMAIN ready' : \E j \in DOMAIN ready : ready'[i] = ready[j]
  BY <1>1, <1>2, TakeHandler
<1>4. HandlersFresh'
  BY <1>1, <1>3 DEF IInv, HandlersFresh, engine
<1>5. h.req \in ScoreReqs /\ h.rules.edit >= arrival[h.req]
  BY <1>2, <1>3, Suspended DEF IInv, HandlersFresh
<1>6. Verdict(h) \in Reply /\ (Verdict(h).status = "200" => Verdict(h).edit = h.rules.edit)
  BY <1>2, <1>3, VerdictTypes
<1>7. /\ reply' \in [Requests -> Reply] /\ reply'[h.req] = Verdict(h)
      /\ \A q \in Requests : q # h.req => reply'[q] = reply[q]
  BY <1>1, <1>2, <1>5, <1>6 DEF TypeOK, Respond, Requests
<1>8. TypeOK'
  BY <1>1, <1>2, <1>3, <1>7 DEF TypeOK, engine, disk
<1>9. AsFreshAsTheRequest'
  BY <1>1, <1>5, <1>6, <1>7 DEF IInv, AsFreshAsTheRequest, Requests
<1> QED BY <1>1, <1>4, <1>8, <1>9 DEF IInv, LoadCounted, OneOrTheOther, engine

\* arrival may change for requests that die.
LEMMA DieInv ==
  ASSUME IInv, NEW lost, Die(lost), arrival' \in [ScoreReqs -> 0..MaxEdits],
         \A q \in ScoreReqs : q \in lost \/ arrival'[q] = arrival[q]
  PROVE  IInv'
<1>1. /\ process' = "down" /\ cached' = "undefined" /\ loading' = "none"
      /\ awaiting' = <<>> /\ loads' = 0 /\ ready' = <<>> /\ UNCHANGED <<boots, disk>>
      /\ reply' = [r \in Requests |-> IF r \in lost THEN Plain("lost") ELSE reply[r]]
  BY DEF Die
<1>2. reply' \in [Requests -> Reply]
  BY <1>1, PlainTypes DEF IInv, TypeOK
<1>3. TypeOK'
  BY <1>1, <1>2, NoHandlers DEF IInv, TypeOK, disk
<1>4. AsFreshAsTheRequest'
  BY <1>1, PlainTypes DEF IInv, AsFreshAsTheRequest, Requests
<1>5. HandlersFresh'
  BY <1>1, NoHandlers DEF HandlersFresh
<1> QED BY <1>1, <1>3, <1>4, <1>5 DEF IInv, LoadCounted, OneOrTheOther

LEMMA StopInv == ASSUME IInv, Stop PROVE IInv'
<1>1. arrival \in [ScoreReqs -> 0..MaxEdits] /\ file.edit \in 0..MaxEdits
  BY DEF IInv, TypeOK, File
<1>2. CASE Sigterm
  BY <1>2 DEF Sigterm, IInv, TypeOK, LoadCounted, OneOrTheOther, HandlersFresh,
        AsFreshAsTheRequest, engine, disk
<1>3. CASE Exit
  BY <1>1, <1>3, DieInv DEF Exit
<1>4. CASE Kill
  BY <1>1, <1>4, DieInv DEF Kill
<1>5. ASSUME NEW r \in ScoreReqs, AsyncLookupFails(r) PROVE IInv'
  BY <1>1, <1>5, DieInv DEF AsyncLookupFails
<1> QED BY <1>2, <1>3, <1>4, <1>5 DEF Stop

LEMMA BootInv == ASSUME IInv, Boot PROVE IInv'
<1>1. boots + 1 \in 1..MaxBoots
  BY BoundAssumption DEF Boot, IInv, TypeOK
<1> QED BY <1>1 DEF Boot, IInv, TypeOK, LoadCounted, OneOrTheOther, HandlersFresh,
        AsFreshAsTheRequest, engine, disk

LEMMA StepInv == ASSUME IInv, [Next]_vars PROVE IInv'
<1>1. CASE Operator
  BY <1>1, OperatorInv
<1>2. ASSUME NEW r \in Requests, Arrive(r) PROVE IInv'
  BY <1>2, ArriveInv
<1>3. CASE EngineStep
  BY <1>3, LoadInv, OwnerInv, HandlerInv DEF EngineStep
<1>4. CASE Stop
  BY <1>4, StopInv
<1>5. CASE Boot
  BY <1>5, BootInv
<1>6. CASE UNCHANGED vars
  BY <1>6 DEF vars, IInv, TypeOK, LoadCounted, OneOrTheOther, HandlersFresh,
        AsFreshAsTheRequest
<1> QED BY <1>1, <1>2, <1>3, <1>4, <1>5, <1>6 DEF Next

LEMMA Invariance == Spec => []IInv
  BY InitInv, StepInv, PTL DEF Spec

-----------------------------------------------------------------------------
(* The theorems.                                                           *)

\* Types, and that a load is in flight exactly when handlers await it.
THEOREM TypeCorrect == Spec => []TypeOK
<1>1. IInv => TypeOK
  BY DEF IInv
<1> QED BY <1>1, Invariance, PTL

\* getEngine: the binary is read and instantiated at most once in the life of a
\* process, however many requests arrive before the first load ends.
THEOREM Once == Spec => []LoadedOnce
<1>1. IInv => LoadedOnce
  BY DEF IInv, LoadCounted, LoadedOnce
<1> QED BY <1>1, Invariance, PTL

\* scoreHandler: a score is never computed with rules older than its request,
\* though the handler reads them before its await.
THEOREM Fresh == Spec => []AsFreshAsTheRequest
<1>1. IInv => AsFreshAsTheRequest
  BY DEF IInv
<1> QED BY <1>1, Invariance, PTL

\* getEngine: while a process lives its verdict on the engine never changes.
THEOREM OneVerdict == Spec => EngineVerdictStays
<1> DEFINE Decided == (cached # "undefined" \/ loading \in {"null", "engine"}) /\ process' # "down"
           Stays == (cached' = cached /\ loading' = loading)
                       \/ (cached = "undefined" /\ cached' = loading)
<1>1. ASSUME IInv, [Next]_vars, Decided PROVE Stays
  <2>1. CASE Operator
    BY <2>1 DEF Operator, EditRules, Build, engine
  <2>2. ASSUME NEW r \in Requests, Arrive(r) PROVE Stays
    <3>1. EventLoop
      BY <2>2 DEF Arrive
    <3>2. cached # "undefined"
      BY <1>1, <3>1 DEF EventLoop
    <3> QED BY <2>2, <3>2 DEF Arrive, PostScore, RulesUnavailable, GetRules, LookupFails,
              Refuse, UseCached, JoinLoad, StartLoad, engine
  <2>3. CASE LoadSettles
    BY <1>1, <2>3 DEF LoadSettles, EventLoop, IInv, OneOrTheOther
  <2>4. CASE OwnerContinues
    BY <1>1, <2>4 DEF OwnerContinues, IInv, OneOrTheOther
  <2>5. CASE HandlerContinues
    BY <2>5 DEF HandlerContinues, engine
  <2>6. CASE Stop
    BY <1>1, <2>6 DEF Stop, Sigterm, Exit, Kill, AsyncLookupFails, Die, engine
  <2>7. CASE Boot
    BY <2>7 DEF Boot, engine
  <2>8. CASE UNCHANGED vars
    BY <2>8 DEF vars
  <2> QED BY <1>1, <2>1, <2>2, <2>3, <2>4, <2>5, <2>6, <2>7, <2>8 DEF Next, EngineStep
<1>2. IInv /\ [Next]_vars => [Decided => Stays]_vars
  BY <1>1
<1> QED BY <1>2, Invariance, PTL DEF Spec, EngineVerdictStays

-----------------------------------------------------------------------------
(* The order of the scores.                                                *)

\* Handlers that were suspended later hold rules that are no older.
InOrder(s) == \A i, j \in DOMAIN s : i <= j => s[i].rules.edit <= s[j].rules.edit

\* They hold none that are newer than the file, nor older than those of a score
\* that was answered.
Between(s) ==
  \A i \in DOMAIN s :
    /\ s[i].rules.edit <= file.edit
    /\ \A q \in ScoreReqs : reply[q].status = "200" => reply[q].edit <= s[i].rules.edit

AnsweredBefore == \A q \in ScoreReqs : reply[q].status = "200" => reply[q].edit <= file.edit

\* Handlers are ready only once there is a verdict, so that nobody awaits one.
ReadyHasVerdict == ready # <<>> => cached # "undefined"

OrderInv ==
  /\ InOrder(ready) /\ InOrder(awaiting)
  /\ Between(ready) /\ Between(awaiting)
  /\ AnsweredBefore /\ ReadyHasVerdict

LEMMA OneQueue ==
  ASSUME IInv, OrderInv, ready # <<>>
  PROVE  awaiting = <<>>
  BY DEF IInv, TypeOK, OneOrTheOther, OrderInv, ReadyHasVerdict

\* The numbers compared are naturals.
LEMMA Edits ==
  ASSUME TypeOK
  PROVE  /\ file.edit \in Nat
         /\ \A q \in Requests : reply[q].edit \in Nat
         /\ \A i \in DOMAIN awaiting : awaiting[i].rules.edit \in Nat
         /\ \A i \in DOMAIN ready : ready[i].rules.edit \in Nat
<1>0. 0..MaxEdits \subseteq Nat
  BY BoundAssumption
<1>1. \A h \in Handlers : h.rules.edit \in Nat
  BY <1>0 DEF Handlers, File
<1>2. /\ \A i \in DOMAIN awaiting : awaiting[i] \in Handlers
      /\ \A i \in DOMAIN ready : ready[i] \in Handlers
  BY ElementOfSeq, LenProperties DEF TypeOK
<1>3. file.edit \in Nat /\ \A q \in Requests : reply[q].edit \in Nat
  BY <1>0 DEF TypeOK, File, Reply
<1> QED BY <1>1, <1>2, <1>3

LEMMA AppendInOrder ==
  ASSUME NEW s \in Seq(Handlers), NEW h \in Handlers, InOrder(s), h.rules.edit \in Nat,
         \A i \in DOMAIN s : s[i].rules.edit <= h.rules.edit
  PROVE  InOrder(Append(s, h))
<1>1. /\ Len(Append(s, h)) = Len(s) + 1
      /\ \A i \in 1..Len(s) : Append(s, h)[i] = s[i]
      /\ Append(s, h)[Len(s) + 1] = h
      /\ DOMAIN s = 1..Len(s) /\ Len(s) \in Nat
      /\ DOMAIN Append(s, h) = 1..(Len(s) + 1)
  BY AppendProperties, LenProperties
<1> SUFFICES ASSUME NEW i \in 1..(Len(s) + 1), NEW j \in 1..(Len(s) + 1), i <= j
             PROVE  Append(s, h)[i].rules.edit <= Append(s, h)[j].rules.edit
  BY <1>1 DEF InOrder
<1>2. CASE j = Len(s) + 1
  BY <1>1, <1>2
<1>3. CASE j # Len(s) + 1
  <2>1. i \in 1..Len(s) /\ j \in 1..Len(s)
    BY <1>1, <1>3
  <2> QED BY <1>1, <2>1 DEF InOrder
<1> QED BY <1>2, <1>3

\* Changes of the replies that leave every score as it was.
LEMMA OrderFrame ==
  ASSUME OrderInv, UNCHANGED <<file, awaiting, ready, cached>>,
         \A q \in ScoreReqs : reply'[q].status = "200" => reply'[q] = reply[q]
  PROVE  OrderInv'
  BY DEF OrderInv, InOrder, Between, AnsweredBefore, ReadyHasVerdict

LEMMA OrderSuspend ==
  ASSUME IInv, OrderInv, NEW r \in ScoreReqs, EventLoop, Suspends(r), UNCHANGED <<file, reply>>
  PROVE  OrderInv'
<1> DEFINE h == Handler(r)
<1>1. h \in Handlers /\ h.rules.edit = file.edit /\ file.edit \in Nat
  BY Edits DEF IInv, TypeOK, Handler, Handlers
<1>2. ready = <<>> /\ awaiting \in Seq(Handlers) /\ ready \in Seq(Handlers)
  BY DEF EventLoop, IInv, TypeOK
<1>3. \A q \in ScoreReqs : reply[q].status = "200" => reply[q].edit <= h.rules.edit
  BY <1>1 DEF OrderInv, AnsweredBefore
<1>4. ASSUME NEW s \in Seq(Handlers), InOrder(s), Between(s)
      PROVE  InOrder(Append(s, h)) /\ Between(Append(s, h))
  <2>1. InOrder(Append(s, h))
    BY <1>1, <1>4, AppendInOrder DEF Between
  <2>2. Between(Append(s, h))
    BY <1>1, <1>3, <1>4, AppendHandler DEF Between
  <2> QED BY <2>1, <2>2
<1>5. AnsweredBefore'
  BY DEF OrderInv, AnsweredBefore
<1>6. \A s : Between(s) => Between(s)' /\ InOrder(s)' = InOrder(s)
  BY DEF Between, InOrder
<1>7. CASE UseCached(h)
  <2>1. ready' = Append(ready, h) /\ UNCHANGED <<awaiting, cached>> /\ cached # "undefined"
    BY <1>7 DEF UseCached, engine
  <2>2. InOrder(ready)' /\ Between(ready)'
    BY <1>2, <1>4, <2>1 DEF OrderInv, InOrder, Between
  <2>3. InOrder(awaiting)' /\ Between(awaiting)'
    BY <2>1 DEF OrderInv, InOrder, Between
  <2> QED BY <1>5, <2>1, <2>2, <2>3 DEF OrderInv, ReadyHasVerdict
<1>8. CASE JoinLoad(h)
  <2>1. awaiting' = Append(awaiting, h) /\ UNCHANGED <<ready, cached>>
    BY <1>8 DEF JoinLoad
  <2>2. InOrder(awaiting)' /\ Between(awaiting)'
    BY <1>2, <1>4, <2>1 DEF OrderInv, InOrder, Between
  <2>3. InOrder(ready)' /\ Between(ready)'
    BY <2>1 DEF OrderInv, InOrder, Between
  <2> QED BY <1>5, <2>1, <2>2, <2>3 DEF OrderInv, ReadyHasVerdict
<1>9. CASE StartLoad(h)
  <2>1. awaiting' = <<h>> /\ UNCHANGED <<ready, cached>>
    BY <1>9 DEF StartLoad
  <2>2. DOMAIN awaiting' = {1} /\ awaiting'[1] = h
    BY <2>1
  <2>3. InOrder(awaiting)' /\ Between(awaiting)'
    BY <1>1, <1>3, <2>2 DEF InOrder, Between
  <2>4. InOrder(ready)' /\ Between(ready)'
    BY <2>1 DEF OrderInv, InOrder, Between
  <2> QED BY <1>5, <2>1, <2>3, <2>4 DEF OrderInv, ReadyHasVerdict
<1> QED BY <1>7, <1>8, <1>9 DEF Suspends

LEMMA OrderArrive == ASSUME IInv, OrderInv, NEW r \in Requests, Arrive(r) PROVE OrderInv'
<1>1. EventLoop /\ UNCHANGED file /\ TypeOK
  BY DEF Arrive, disk, IInv
<1>2. CASE r \in ScoreReqs /\ PostScore(r)
  BY <1>1, <1>2, OrderSuspend DEF PostScore, Suspends
<1>3. ASSUME NEW what, Respond(r, what), UNCHANGED <<engine, ready>>,
             r \in ScoreReqs => what.status # "200"
      PROVE  OrderInv'
  <2>1. \A q \in ScoreReqs : reply'[q].status = "200" => reply'[q] = reply[q]
    BY <1>1, <1>3 DEF Respond, TypeOK, Requests
  <2> QED BY <1>1, <1>3, <2>1, OrderFrame DEF engine
<1>4. CASE RulesUnavailable(r)
  BY <1>3, <1>4, PlainTypes DEF RulesUnavailable
<1>5. CASE r \in RulesReqs /\ GetRules(r)
  <2>1. r \notin ScoreReqs
    BY <1>5, RequestAssumption
  <2> QED BY <1>3, <1>5, <2>1 DEF GetRules
<1>6. CASE r \in RulesReqs /\ LookupFails(r)
  BY <1>3, <1>6, PlainTypes DEF LookupFails
<1>7. CASE r \in RefusedReqs /\ Refuse(r)
  BY <1>3, <1>7, PlainTypes DEF Refuse
<1> QED BY <1>2, <1>4, <1>5, <1>6, <1>7 DEF Arrive

\* What the first handler of the queue answers, and what is left behind it.
LEMMA Turn ==
  ASSUME IInv, OrderInv, HandlerContinues
  PROVE  LET h == Head(ready)
         IN  /\ h.req \in ScoreReqs /\ h.rules.edit \in Nat /\ h.rules.edit <= file.edit
             /\ reply'[h.req] = Verdict(h)
             /\ Verdict(h).status = "200" => Verdict(h).edit = h.rules.edit
             /\ \A q \in ScoreReqs : q # h.req => reply'[q] = reply[q]
             /\ \A q \in ScoreReqs : reply[q].status = "200" => reply[q].edit <= h.rules.edit
             /\ InOrder(Tail(ready))
             /\ \A i \in DOMAIN Tail(ready) :
                  /\ h.rules.edit <= Tail(ready)[i].rules.edit
                  /\ Tail(ready)[i].rules.edit <= file.edit
<1> DEFINE h == Head(ready)
<1>1. ready # <<>> /\ ready \in Seq(Handlers) /\ TypeOK /\ Respond(h.req, Verdict(h))
  BY DEF HandlerContinues, IInv, TypeOK
<1>2. h \in Handlers /\ 1 \in DOMAIN ready /\ h = ready[1]
  BY <1>1, TakeHandler
<1>3. h.req \in ScoreReqs /\ h.rules.edit \in Nat
  BY <1>1, <1>2, Suspended, Edits
<1>4. Verdict(h).status = "200" => Verdict(h).edit = h.rules.edit
  BY <1>1, <1>2, VerdictTypes
<1>5. /\ reply'[h.req] = Verdict(h)
      /\ \A q \in ScoreReqs : q # h.req => reply'[q] = reply[q]
  BY <1>1, <1>3 DEF Respond, TypeOK, Requests
<1>6. /\ h.rules.edit <= file.edit
      /\ \A q \in ScoreReqs : reply[q].status = "200" => reply[q].edit <= h.rules.edit
  BY <1>2 DEF OrderInv, Between
<1>7. /\ \A i \in 1..(Len(ready) - 1) : Tail(ready)[i] = ready[i + 1]
      /\ DOMAIN Tail(ready) = 1..(Len(ready) - 1)
      /\ DOMAIN ready = 1..Len(ready) /\ Len(ready) \in Nat
  BY <1>1, HeadTailProperties, LenProperties
<1>8. \A i \in DOMAIN Tail(ready) : i \in Int /\ i + 1 \in DOMAIN ready /\ 1 <= i + 1
  BY <1>7
<1>9. InOrder(Tail(ready))
  BY <1>7, <1>8 DEF OrderInv, InOrder
<1>10. \A i \in DOMAIN Tail(ready) :
         /\ h.rules.edit <= Tail(ready)[i].rules.edit
         /\ Tail(ready)[i].rules.edit <= file.edit
  BY <1>2, <1>7, <1>8 DEF OrderInv, InOrder, Between
<1> QED BY <1>3, <1>4, <1>5, <1>6, <1>9, <1>10

LEMMA OrderHandler == ASSUME IInv, OrderInv, HandlerContinues PROVE OrderInv'
<1> DEFINE h == Head(ready)
<1>1. /\ ready # <<>> /\ ready' = Tail(ready) /\ UNCHANGED <<file, awaiting, cached>>
      /\ awaiting = <<>>
  BY OneQueue DEF HandlerContinues, disk, engine
<1>2. ASSUME NEW q \in ScoreReqs, reply'[q].status = "200"
      PROVE  reply'[q].edit <= h.rules.edit
  BY <1>2, Turn
<1>3. ASSUME NEW q \in ScoreReqs, reply'[q].status = "200"
      PROVE  reply'[q].edit \in Nat
  <2>1. TypeOK'
    BY HandlerInv DEF IInv
  <2> QED BY <2>1, Edits DEF TypeOK, Requests, Reply, BoundAssumption
<1>4. AnsweredBefore'
  BY <1>1, <1>2, <1>3, Turn, Edits DEF AnsweredBefore, IInv
<1>5. InOrder(ready)'
  BY <1>1, Turn DEF InOrder
<1>6. Between(ready)'
  <2>1. \A i \in DOMAIN ready' : ready'[i].rules.edit \in Nat
    BY <1>1, TakeHandler, Edits DEF IInv, TypeOK
  <2> QED BY <1>1, <1>2, <1>3, <2>1, Turn DEF Between
<1>7. InOrder(awaiting)' /\ Between(awaiting)'
  BY <1>1, NoHandlers DEF InOrder, Between
<1> QED BY <1>1, <1>4, <1>5, <1>6, <1>7 DEF OrderInv, ReadyHasVerdict

LEMMA OrderStep == IInv /\ OrderInv /\ [Next]_vars => OrderInv'
<1> SUFFICES ASSUME IInv, OrderInv, [Next]_vars PROVE OrderInv'
  OBVIOUS
<1>1. ASSUME NEW c \in Content, EditRules(c) PROVE OrderInv'
  <2>1. /\ file'.edit = file.edit + 1 /\ UNCHANGED <<awaiting, ready, cached, reply>>
    BY <1>1 DEF EditRules, engine
  <2>2. TypeOK
    BY DEF IInv
  <2>3. InOrder(ready)' /\ InOrder(awaiting)' /\ ReadyHasVerdict'
    BY <2>1 DEF OrderInv, InOrder, ReadyHasVerdict
  <2>4. Between(ready)' /\ Between(awaiting)'
    BY <2>1, <2>2, Edits DEF OrderInv, Between
  <2>5. AnsweredBefore'
    BY <2>1, <2>2, Edits DEF OrderInv, AnsweredBefore, Requests
  <2> QED BY <2>3, <2>4, <2>5 DEF OrderInv
<1>2. CASE Build \/ LoadSettles \/ Sigterm \/ Boot \/ UNCHANGED vars
  <2>1. UNCHANGED <<file, awaiting, ready, cached, reply>>
    BY <1>2 DEF Build, LoadSettles, Sigterm, Boot, vars, engine, disk
  <2> QED BY <2>1, OrderFrame
<1>3. CASE OwnerContinues
  <2>1. /\ loading # "none" /\ cached' = loading /\ loading \in {"null", "engine"}
        /\ awaiting' = <<>> /\ ready' = ready \o awaiting /\ UNCHANGED <<file, reply>>
    BY <1>3 DEF OwnerContinues, disk
  <2>2. ready = <<>> /\ awaiting \in Seq(Handlers)
    BY <2>1 DEF IInv, TypeOK, OneOrTheOther, OrderInv, ReadyHasVerdict
  <2>3. ready' = awaiting
    BY <2>1, <2>2, ConcatEmptySeq
  <2>4. InOrder(ready)' /\ Between(ready)' /\ AnsweredBefore' /\ ReadyHasVerdict'
    BY <2>1, <2>3 DEF OrderInv, InOrder, Between, AnsweredBefore, ReadyHasVerdict
  <2>5. InOrder(awaiting)' /\ Between(awaiting)'
    BY <2>1, NoHandlers DEF InOrder, Between
  <2> QED BY <2>4, <2>5 DEF OrderInv
<1>4. ASSUME NEW lost, Die(lost) PROVE OrderInv'
  <2>1. awaiting' = <<>> /\ ready' = <<>> /\ UNCHANGED file
    BY <1>4 DEF Die, disk
  <2>2. \A q \in ScoreReqs : reply'[q].status = "200" => reply'[q] = reply[q]
    BY <1>4, PlainTypes DEF Die, Requests
  <2> QED BY <2>1, <2>2, NoHandlers DEF OrderInv, InOrder, Between, AnsweredBefore, ReadyHasVerdict
<1>5. CASE Exit \/ Kill \/ \E r \in ScoreReqs : AsyncLookupFails(r)
  BY <1>4, <1>5 DEF Exit, Kill, AsyncLookupFails
<1> QED BY <1>1, <1>2, <1>3, <1>5, OrderArrive, OrderHandler
        DEF Next, Operator, EngineStep, Stop

\* scoreHandler: although handlers wait for the engine with the rules they read
\* before, successive scores never go back to an older rules file.
THEOREM NeverBack == Spec => ScoresNeverGoBack
<1> DEFINE Forward == \A q, r \in ScoreReqs :
             (/\ reply[q].status = "200"
              /\ reply[r] # reply'[r] /\ reply'[r].status = "200")
             => reply'[r].edit >= reply[q].edit
<1>1. Init => OrderInv
  <2> SUFFICES ASSUME Init PROVE OrderInv
    OBVIOUS
  <2>1. \A q \in ScoreReqs : reply[q].status # "200"
    BY PlainTypes DEF Init, Requests
  <2> QED BY <2>1, NoHandlers
          DEF Init, OrderInv, InOrder, Between, AnsweredBefore, ReadyHasVerdict
<1>2. ASSUME IInv, OrderInv, [Next]_vars PROVE Forward
  <2> SUFFICES ASSUME NEW q \in ScoreReqs, NEW r \in ScoreReqs, reply[q].status = "200",
                      reply[r] # reply'[r], reply'[r].status = "200"
               PROVE  reply'[r].edit >= reply[q].edit
    OBVIOUS
  <2>0. TypeOK /\ reply \in [Requests -> Reply] /\ r \in Requests /\ q \in Requests
    BY <1>2 DEF IInv, TypeOK, Requests
  <2>1. HandlerContinues
    <3>1. ASSUME NEW lost, Die(lost) PROVE FALSE
      BY <2>0, <3>1, PlainTypes DEF Die
    <3>2. ASSUME NEW p \in Requests, Arrive(p) PROVE FALSE
      <4>1. CASE p \in ScoreReqs /\ PostScore(p)
        BY <4>1 DEF PostScore
      <4>2. CASE RulesUnavailable(p) \/ LookupFails(p) \/ Refuse(p)
        BY <2>0, <4>2, PlainTypes DEF RulesUnavailable, LookupFails, Refuse, Respond
      <4>3. CASE p \in RulesReqs /\ GetRules(p)
        BY <2>0, <4>3, RequestAssumption DEF GetRules, Respond
      <4> QED BY <3>2, <4>1, <4>2, <4>3 DEF Arrive
    <3>3. ~UNCHANGED reply
      OBVIOUS
    <3> QED BY <1>2, <3>1, <3>2, <3>3
            DEF Next, Operator, EngineStep, Stop, EditRules, Build, LoadSettles, OwnerContinues,
                Sigterm, Exit, Kill, AsyncLookupFails, Boot, vars
  <2>2. r = Head(ready).req /\ reply'[r].edit = Head(ready).rules.edit
    BY <1>2, <2>1, Turn
  <2>3. reply[q].edit <= Head(ready).rules.edit
    BY <1>2, <2>1, Turn
  <2> QED BY <1>2, <2>0, <2>1, <2>2, <2>3, Turn, Edits
<1>3. IInv /\ OrderInv /\ [Next]_vars => [Forward]_vars
  BY <1>2
<1>4. Spec => []OrderInv
  BY <1>1, OrderStep, Invariance, PTL DEF Spec
<1> QED BY <1>3, <1>4, Invariance, PTL DEF Spec, ScoresNeverGoBack
=============================================================================
