----------------------- MODULE LaravelMiddleware_proofs -----------------------
(***************************************************************************)
(* Proofs about LaravelMiddleware, for every number of workers, every      *)
(* limit and every window.                                                 *)
(***************************************************************************)
EXTENDS LaravelMiddleware, FiniteSetTheorems, SequenceTheorems, TLAPS

-----------------------------------------------------------------------------
(* Types.                                                                  *)

LEMMA HitType ==
  ASSUME NEW c \in Counter, now \in Nat
  PROVE  Hit(c) \in Counter
  BY LaravelAssumption DEF Hit, Counter

LEMMA InitTypes == Init => TypeOK
<1> SUFFICES ASSUME Init PROVE TypeOK
  OBVIOUS
<1>1. passed \in Seq([time : 0..now, counted : BOOLEAN]) /\ now \in 0..MaxNow
  BY LaravelAssumption DEF Init
<1> QED BY <1>1 DEF Init, TypeOK, Counter, Steps

\* Steps of a worker that touch neither the clock nor the limiter of logins, nor
\* let a login POST through.
Moves(w) ==
  \/ NotALogin(w) \/ TooManyAttempts(w) \/ ReportBreach(w) \/ CheckHoneypot(w)
  \/ ReportFill(w) \/ NotAnApiCall(w) \/ HitApi(w) \/ ReadAttempts(w) \/ ReportExcess(w)
  \/ Application(w) \/ DecoyController(w) \/ Respond(w)
  \/ HoneypotThrows(w) \/ ApiRateThrows(w) \/ DecoyThrows(w)
  \/ \E r \in Requests : Receive(w, r)

LEMMA NextCases ==
  Next => Tick \/ \E w \in Workers : HitLogin(w) \/ LimitThrows(w) \/ Moves(w)
  BY DEF Next, Handle, Moves

LEMMA MoveFrame ==
  ASSUME NEW w \in Workers, Moves(w)
  PROVE  UNCHANGED <<now, logins, passed>>
  BY DEF Moves, NotALogin, TooManyAttempts, ReportBreach, CheckHoneypot, ReportFill,
         NotAnApiCall, HitApi, ReadAttempts, ReportExcess, Application, DecoyController,
         HoneypotThrows, ApiRateThrows, DecoyThrows, Throw, Respond, Receive, SendWithScore

\* Where a worker may go, and with what.
LEMMA MoveSteps ==
  ASSUME TypeOK, NEW w \in Workers, Moves(w)
  PROVE  /\ at' = [at EXCEPT ![w] = at'[w]] /\ at'[w] \in Steps
         /\ req' = [req EXCEPT ![w] = req'[w]] /\ req'[w] \in Requests \cup {{}}
         /\ at'[w] \in {"breach", "hit", "429"} => "login" \in req'[w]
         /\ at'[w] = "hit" => at[w] = "login" /\ Attempts(logins) < LoginMax
         /\ at'[w] = "breach" => at[w] = "login" /\ Attempts(logins) >= LoginMax
<1> USE DEF TypeOK
<1>1. CASE NotALogin(w) \/ TooManyAttempts(w)
  <2>1. Attempts(logins) \in Nat
    BY DEF Attempts, Counter
  <2> QED BY <1>1, <2>1, LaravelAssumption DEF NotALogin, TooManyAttempts, Go, Steps
<1>2. CASE ReportBreach(w) \/ ReportFill(w) \/ ReportExcess(w)
  BY <1>2 DEF ReportBreach, ReportFill, ReportExcess, SendWithScore, Go, Steps
<1>3. CASE CheckHoneypot(w) \/ NotAnApiCall(w) \/ HitApi(w) \/ ReadAttempts(w)
  BY <1>3 DEF CheckHoneypot, NotAnApiCall, HitApi, ReadAttempts, Go, Steps
<1>4. CASE Application(w) \/ DecoyController(w) \/ Respond(w)
  BY <1>4 DEF Application, DecoyController, Respond, Go, Steps
<1>5. CASE HoneypotThrows(w) \/ ApiRateThrows(w) \/ DecoyThrows(w)
  BY <1>5 DEF HoneypotThrows, ApiRateThrows, DecoyThrows, Throw, Steps
<1>6. CASE \E r \in Requests : Receive(w, r)
  BY <1>6 DEF Receive, Go, Steps
<1> QED BY <1>1, <1>2, <1>3, <1>4, <1>5, <1>6 DEF Moves

LEMMA MoveTypes ==
  ASSUME TypeOK, NEW w \in Workers, Moves(w)
  PROVE  TypeOK'
<1>1. api' \in Counter
  <2>1. now \in Nat
    BY LaravelAssumption DEF TypeOK
  <2> QED BY <2>1, HitType
       DEF Moves, NotALogin, TooManyAttempts, ReportBreach, CheckHoneypot, ReportFill,
           NotAnApiCall, HitApi, ReadAttempts, ReportExcess, Application, DecoyController,
           HoneypotThrows, ApiRateThrows, DecoyThrows, Throw, Respond, Receive, SendWithScore,
           TypeOK
<1>2. sent' \in [Workers -> SUBSET Detections] /\ thrown' \in [Workers -> SUBSET Detections]
  <2>1. CASE ReportBreach(w) \/ ReportFill(w) \/ ReportExcess(w)
    BY <2>1 DEF ReportBreach, ReportFill, ReportExcess, SendWithScore, TypeOK
  <2>2. CASE DecoyController(w) \/ Respond(w)
    BY <2>2 DEF DecoyController, Respond, Detections, TypeOK
  <2>3. CASE HoneypotThrows(w) \/ ApiRateThrows(w) \/ DecoyThrows(w)
    BY <2>3 DEF HoneypotThrows, ApiRateThrows, DecoyThrows, Throw, Detections, TypeOK
  <2>4. CASE UNCHANGED <<sent, thrown>>
    BY <2>4 DEF TypeOK
  <2> QED BY <2>1, <2>2, <2>3, <2>4
       DEF Moves, NotALogin, TooManyAttempts, CheckHoneypot, NotAnApiCall, HitApi,
           ReadAttempts, Application, Receive
<1> QED BY <1>1, <1>2, MoveFrame, MoveSteps DEF TypeOK

\* An entry of passed that was made at a time, and one more of them.
LEMMA PassedType ==
  ASSUME TypeOK, NEW c \in BOOLEAN, passed' = Append(passed, [time |-> now, counted |-> c])
  PROVE  passed' \in Seq([time : 0..now, counted : BOOLEAN])
<1>1. now \in Nat /\ [time |-> now, counted |-> c] \in [time : 0..now, counted : BOOLEAN]
  BY LaravelAssumption DEF TypeOK
<1> QED BY <1>1, AppendProperties DEF TypeOK

LEMMA LimitThrowsTypes ==
  ASSUME TypeOK, NEW w \in Workers, LimitThrows(w)
  PROVE  TypeOK'
<1>1. passed' \in Seq([time : 0..now, counted : BOOLEAN])
  BY PassedType DEF LimitThrows
<1> QED BY <1>1 DEF LimitThrows, Throw, Steps, TypeOK

LEMMA TypeInv == TypeOK /\ [Next]_vars => TypeOK'
<1> SUFFICES ASSUME TypeOK, [Next]_vars PROVE TypeOK'
  OBVIOUS
<1>0. now \in Nat /\ MaxNow \in Nat
  BY LaravelAssumption DEF TypeOK
<1>1. CASE Tick
  <2>1. now' \in 0..MaxNow /\ 0..now \subseteq 0..now'
    BY <1>0, <1>1 DEF Tick, TypeOK
  <2>2. passed' \in Seq([time : 0..now', counted : BOOLEAN])
    <3> DEFINE Entry(n) == [time : 0..n, counted : BOOLEAN]
    <3>1. Entry(now) \subseteq Entry(now')
      BY <2>1
    <3>2. passed \in Seq(Entry(now)) /\ passed' = passed
      BY <1>1 DEF Tick, TypeOK
    <3> HIDE DEF Entry
    <3>3. passed' \in Seq(Entry(now'))
      BY <3>1, <3>2, SeqDef
    <3> QED BY <3>3 DEF Entry
  <2> QED BY <1>1, <2>1, <2>2 DEF Tick, TypeOK
<1>2. ASSUME NEW w \in Workers, HitLogin(w) PROVE TypeOK'
  <2>1. logins' \in Counter
    BY <1>0, <1>2, HitType DEF HitLogin, TypeOK
  <2>2. passed' \in Seq([time : 0..now, counted : BOOLEAN])
    BY <1>2, PassedType DEF HitLogin
  <2> QED BY <1>2, <2>1, <2>2 DEF HitLogin, Go, Steps, TypeOK
<1>3. ASSUME NEW w \in Workers, Moves(w) PROVE TypeOK'
  BY <1>3, MoveTypes
<1>4. ASSUME NEW w \in Workers, LimitThrows(w) PROVE TypeOK'
  BY <1>4, LimitThrowsTypes
<1>5. CASE UNCHANGED vars
  BY <1>5 DEF vars, TypeOK
<1> QED BY <1>1, <1>2, <1>3, <1>4, <1>5, NextCases

\* Every variable keeps its type; in particular only logins are limited.
THEOREM TypeCorrect == Spec => []TypeOK
  BY InitTypes, TypeInv, PTL DEF Spec

-----------------------------------------------------------------------------
(* The honeypot.                                                           *)

\* A filled form is past the honeypot check only if the reporter threw there.
FilledHeld ==
  BlockHoneypot => \A w \in Workers :
    at[w] \in {"api", "attempts", "excess", "next", "decoy", "answer"} /\ "filled" \in req[w]
      => "fill" \in thrown[w]

HoneypotInv == TypeOK /\ FilledHeld

LEMMA HoneypotStep == HoneypotInv /\ [Next]_vars => HoneypotInv'
<1> SUFFICES ASSUME TypeOK, FilledHeld, [Next]_vars, BlockHoneypot PROVE HoneypotInv'
  BY TypeInv DEF HoneypotInv, FilledHeld
<1>0. TypeOK'
  BY TypeInv
<1> DEFINE Past == {"api", "attempts", "excess", "next", "decoy", "answer"}
<1>1. CASE Tick \/ UNCHANGED vars
  BY <1>0, <1>1 DEF Tick, vars, HoneypotInv, FilledHeld
<1>2. ASSUME NEW w \in Workers, HitLogin(w) \/ LimitThrows(w) PROVE HoneypotInv'
  BY <1>0, <1>2 DEF HitLogin, LimitThrows, Throw, Go, TypeOK, HoneypotInv, FilledHeld
<1>3. ASSUME NEW w \in Workers, Moves(w) PROVE HoneypotInv'
  <2>1. /\ \A v \in Workers : v # w => at'[v] = at[v] /\ req'[v] = req[v]
        /\ at' = [at EXCEPT ![w] = at'[w]]
    BY <1>3, MoveSteps DEF TypeOK
  <2>11. \A v \in Workers : v # w => thrown'[v] = thrown[v]
    BY <1>3
    DEF Moves, NotALogin, TooManyAttempts, ReportBreach, CheckHoneypot, ReportFill,
        NotAnApiCall, HitApi, ReadAttempts, ReportExcess, Application, DecoyController,
        HoneypotThrows, ApiRateThrows, DecoyThrows, Throw, Respond, Receive, SendWithScore, TypeOK
  <2>2. at'[w] \in Past /\ "filled" \in req'[w] => "fill" \in thrown'[w]
    <3>1. CASE NotALogin(w) \/ TooManyAttempts(w) \/ ReportBreach(w)
      BY <3>1 DEF NotALogin, TooManyAttempts, ReportBreach, SendWithScore, Go, TypeOK
    <3>2. CASE CheckHoneypot(w) \/ ReportFill(w)
      BY <3>2 DEF CheckHoneypot, ReportFill, SendWithScore, Go, TypeOK, FilledHeld
    <3>3. CASE NotAnApiCall(w) \/ HitApi(w) \/ ReadAttempts(w) \/ ReportExcess(w)
      BY <3>3 DEF NotAnApiCall, HitApi, ReadAttempts, ReportExcess, SendWithScore, Go, TypeOK,
                  FilledHeld
    <3>4. CASE Application(w) \/ DecoyController(w) \/ Respond(w)
      BY <3>4 DEF Application, DecoyController, Respond, Go, TypeOK, FilledHeld
    <3>5. CASE HoneypotThrows(w) \/ ApiRateThrows(w) \/ DecoyThrows(w)
      BY <3>5 DEF HoneypotThrows, ApiRateThrows, DecoyThrows, Throw, TypeOK, FilledHeld
    <3>6. CASE \E r \in Requests : Receive(w, r)
      BY <3>6 DEF Receive, Go, TypeOK
    <3> QED BY <1>3, <3>1, <3>2, <3>3, <3>4, <3>5, <3>6 DEF Moves
  <2> QED BY <1>0, <2>1, <2>11, <2>2 DEF HoneypotInv, FilledHeld
<1> QED BY <1>1, <1>2, <1>3, NextCases

\* A form with the honeypot field filled reaches the application or a decoy only
\* when the reporter threw in the honeypot check, whatever else throws.
THEOREM FilledStopped == Spec => []FilledFormPassesOnlyByThrow
<1>1. Init => HoneypotInv
  BY InitTypes DEF Init, HoneypotInv, FilledHeld
<1>2. HoneypotInv => FilledFormPassesOnlyByThrow
  BY DEF HoneypotInv, FilledHeld, FilledFormPassesOnlyByThrow
<1> QED BY <1>1, <1>2, HoneypotStep, PTL DEF Spec

-----------------------------------------------------------------------------
(* The limiter of logins.                                                  *)

\* The login POSTs let through within a set of times, and the counted ones.
Passes(T) == {i \in DOMAIN passed : passed[i].time \in T}
Counts(T) == {i \in DOMAIN passed \ Uncounted : passed[i].time \in T}

LEMMA PassesFinite ==
  ASSUME TypeOK, NEW T
  PROVE  /\ IsFiniteSet(Passes(T)) /\ Passed(T) = Cardinality(Passes(T)) /\ Passed(T) \in Nat
         /\ IsFiniteSet(Counts(T)) /\ Counted(T) = Cardinality(Counts(T)) /\ Counted(T) \in Nat
         /\ DOMAIN passed = 1..Len(passed) /\ Len(passed) \in Nat
<1>1. DOMAIN passed = 1..Len(passed) /\ Len(passed) \in Nat
  BY LenProperties DEF TypeOK
<1>2. IsFiniteSet(DOMAIN passed)
  BY <1>1, FS_Interval
<1>3. Passes(T) \subseteq DOMAIN passed /\ Counts(T) \subseteq DOMAIN passed
  BY DEF Passes, Counts
<1>4. /\ IsFiniteSet(Passes(T)) /\ Cardinality(Passes(T)) \in Nat
      /\ IsFiniteSet(Counts(T)) /\ Cardinality(Counts(T)) \in Nat
  BY <1>2, <1>3, FS_Subset, FS_CardinalityType
<1>5. Passed(T) = Cardinality(Passes(T)) /\ Counted(T) = Cardinality(Counts(T))
  BY DEF Passed, Passes, Counted, Counts
<1> QED BY <1>1, <1>4, <1>5

\* More times, no fewer counted.
LEMMA CountedMonotone ==
  ASSUME TypeOK, NEW S, NEW T, Counts(S) \subseteq Counts(T)
  PROVE  Counted(S) <= Counted(T)
<1>1. IsFiniteSet(Counts(T))
  BY PassesFinite
<1>2. Cardinality(Counts(S)) <= Cardinality(Counts(T))
  BY <1>1, FS_Subset
<1> QED BY <1>2, PassesFinite

\* A login POST that is let through is counted, or was let through by an exception.
LEMMA CountedOrNot ==
  ASSUME TypeOK, NEW T
  PROVE  Passed(T) = Counted(T) + Cardinality({i \in Uncounted : passed[i].time \in T})
<1> DEFINE U == {i \in Uncounted : passed[i].time \in T}
<1>1. Passes(T) = Counts(T) \cup U /\ Counts(T) \cap U = {} /\ U \subseteq Passes(T)
  BY DEF Passes, Counts, Uncounted
<1>2. IsFiniteSet(Passes(T)) /\ IsFiniteSet(Counts(T))
  BY PassesFinite
<1> HIDE DEF U
<1>3. IsFiniteSet(U)
  BY <1>1, <1>2, FS_Subset
<1>4. Cardinality(Counts(T) \cup U)
        = Cardinality(Counts(T)) + Cardinality(U) - Cardinality(Counts(T) \cap U)
  BY <1>2, <1>3, FS_Union
<1>5. Cardinality(Counts(T)) \in Nat /\ Cardinality(U) \in Nat
  BY <1>2, <1>3, FS_CardinalityType
<1>6. Cardinality(Counts(T) \cap U) = 0
  BY <1>1, FS_EmptySet
<1>7. Cardinality(Passes(T)) = Cardinality(Counts(T)) + Cardinality(U)
  <2>1. Cardinality(Passes(T)) = Cardinality(Counts(T)) + Cardinality(U) - 0
    BY <1>1, <1>4, <1>6, Zenon
  <2> QED BY <1>5, <2>1
<1> QED BY <1>7, PassesFinite DEF U

\* The counter of a window that runs is the number of logins counted in it: a
\* window ends after all of them, and within Window seconds from now.
CounterExact ==
  /\ \A i \in DOMAIN passed \ Uncounted : passed[i].time < logins.until
  /\ logins.until <= now + Window
  /\ now < logins.until => logins.hits = Counted(LimiterWindow)

Hitting == {w \in Workers : at[w] = "hit"}

\* Those that were counted and those about to be.
Bounded == Attempts(logins) + Cardinality(Hitting) <= LoginMax + Cardinality(Workers) - 1

LimiterInv == TypeOK /\ CounterExact /\ Bounded

LEMMA WorkerCount ==
  /\ IsFiniteSet(Workers) /\ Cardinality(Workers) \in Nat \ {0}
  /\ \A S \in SUBSET Workers :
       IsFiniteSet(S) /\ Cardinality(S) \in Nat /\ Cardinality(S) <= Cardinality(Workers)
<1>1. IsFiniteSet(Workers) /\ Workers # {}
  BY LaravelAssumption
<1> QED BY <1>1, FS_CardinalityType, FS_EmptySet, FS_Subset

LEMMA Naturals ==
  ASSUME TypeOK
  PROVE  /\ now \in Nat /\ MaxNow \in Nat /\ Window \in Nat \ {0} /\ LoginMax \in Nat \ {0}
         /\ logins.hits \in Nat /\ logins.until \in Nat /\ Attempts(logins) \in Nat
         /\ \A i \in DOMAIN passed : passed[i].time \in 0..now
<1>1. \A i \in DOMAIN passed : passed[i].time \in 0..now
  <2> DEFINE Entry == [time : 0..now, counted : BOOLEAN]
  <2>1. \A i \in DOMAIN passed : passed[i] \in Entry
    <3>1. passed \in Seq(Entry)
      BY DEF TypeOK
    <3> HIDE DEF Entry
    <3> QED BY <3>1, ElementOfSeq, LenProperties
  <2> QED BY <2>1
<1> QED BY <1>1, LaravelAssumption DEF TypeOK, Counter, Attempts

LEMMA InitLimiter == Init => LimiterInv
<1> SUFFICES ASSUME Init PROVE LimiterInv
  OBVIOUS
<1>1. DOMAIN passed = {} /\ now = 0 /\ logins.until = 0
  BY DEF Init
<1>2. CounterExact
  BY <1>1, LaravelAssumption DEF CounterExact
<1>3. Hitting = {} /\ Attempts(logins) = 0
  BY <1>1 DEF Init, Hitting, Attempts
<1>4. Bounded
  BY <1>3, WorkerCount, FS_EmptySet, LaravelAssumption DEF Bounded
<1> QED BY <1>2, <1>4, InitTypes DEF LimiterInv

LEMMA LimiterStep == LimiterInv /\ [Next]_vars => LimiterInv'
<1> SUFFICES ASSUME LimiterInv, [Next]_vars PROVE LimiterInv'
  OBVIOUS
<1>0. TypeOK /\ TypeOK' /\ CounterExact /\ Bounded
  BY TypeInv DEF LimiterInv
<1>00. /\ Cardinality(Hitting) \in Nat /\ Cardinality(Hitting') \in Nat
       /\ Cardinality(Hitting') <= Cardinality(Workers) /\ Cardinality(Workers) \in Nat \ {0}
  BY WorkerCount DEF Hitting
<1> USE Naturals
<1>1. CASE Tick
  <2>1. now' = now + 1 /\ UNCHANGED <<logins, at, passed>>
    BY <1>1 DEF Tick
  <2>2. CounterExact'
    <3>1. now' < logins.until =>
            {i \in DOMAIN passed \ Uncounted : passed[i].time \in LimiterWindow}
              = {i \in DOMAIN passed \ Uncounted : passed[i].time \in LimiterWindow'}
      BY <1>0, <2>1 DEF LimiterWindow
    <3>2. now' < logins.until => Counted(LimiterWindow) = Counted(LimiterWindow)'
      BY <2>1, <3>1 DEF Counted, Uncounted
    <3> QED BY <1>0, <2>1, <3>2 DEF CounterExact, Uncounted
  <2>3. Hitting' = Hitting
    BY <2>1 DEF Hitting
  <2>4. Attempts(logins)' \in {0, Attempts(logins)}
    BY <1>0, <2>1 DEF Attempts
  <2>5. Bounded'
    BY <1>0, <1>00, <2>3, <2>4 DEF Bounded
  <2> QED BY <1>0, <2>2, <2>5 DEF LimiterInv
<1>2. ASSUME NEW w \in Workers, HitLogin(w) PROVE LimiterInv'
  <2>1. /\ now' = now /\ logins' = Hit(logins)
        /\ passed' = Append(passed, [time |-> now, counted |-> TRUE])
        /\ at[w] = "hit" /\ at' = [at EXCEPT ![w] = "honeypot"]
    BY <1>2 DEF HitLogin, Go
  <2>2. Hitting' = Hitting \ {w} /\ w \in Hitting
    BY <1>0, <2>1 DEF Hitting, TypeOK
  <2>a. IsFiniteSet(Hitting)
    BY WorkerCount DEF Hitting
  <2>3. Cardinality(Hitting') = Cardinality(Hitting) - 1
    BY <2>2, <2>a, FS_RemoveElement
  <2>4. /\ DOMAIN passed = 1..Len(passed) /\ Len(passed) \in Nat
        /\ DOMAIN passed' \ Uncounted' = (DOMAIN passed \ Uncounted) \cup {Len(passed) + 1}
        /\ \A i \in 1..Len(passed) : passed'[i] = passed[i]
        /\ passed'[Len(passed) + 1].time = now
    <3>1. /\ DOMAIN passed = 1..Len(passed) /\ Len(passed) \in Nat
          /\ DOMAIN passed' = 1..(Len(passed) + 1)
          /\ \A i \in 1..Len(passed) : passed'[i] = passed[i]
          /\ passed'[Len(passed) + 1] = [time |-> now, counted |-> TRUE]
      BY <1>0, <2>1, AppendProperties, LenProperties DEF TypeOK
    <3> QED BY <3>1 DEF Uncounted
  <2>5. CASE now < logins.until
    <3>1. logins'.hits = logins.hits + 1 /\ logins'.until = logins.until
      BY <1>0, <2>1, <2>5 DEF Hit, TypeOK, Counter
    <3>2. LimiterWindow' = LimiterWindow /\ now \in LimiterWindow
      BY <1>0, <2>1, <3>1 DEF LimiterWindow, CounterExact
    <3>3. Counted(LimiterWindow)' = Counted(LimiterWindow) + 1
      <4>1. Counts(LimiterWindow)' = Counts(LimiterWindow) \cup {Len(passed) + 1}
        BY <2>4, <3>2 DEF Counts
      <4>2. Len(passed) + 1 \notin Counts(LimiterWindow)
        BY <2>4 DEF Counts
      <4>3. IsFiniteSet(Counts(LimiterWindow))
        BY <1>0, PassesFinite
      <4>4. Cardinality(Counts(LimiterWindow)') = Cardinality(Counts(LimiterWindow)) + 1
        BY <4>1, <4>2, <4>3, FS_AddElement
      <4> QED BY <4>4 DEF Counted, Counts
    <3>4. CounterExact'
      BY <1>0, <2>1, <2>4, <2>5, <3>1, <3>3 DEF CounterExact
    <3>5. Attempts(logins)' = Attempts(logins) + 1
      BY <2>1, <2>5, <3>1 DEF Attempts
    <3> QED BY <1>0, <1>00, <2>3, <3>4, <3>5 DEF LimiterInv, Bounded
  <2>6. CASE ~(now < logins.until)
    <3>1. logins'.hits = 1 /\ logins'.until = now + Window
      BY <2>1, <2>6 DEF Hit
    <3>2. \A i \in DOMAIN passed \ Uncounted : passed[i].time < now
      BY <1>0, <2>6 DEF CounterExact
    <3>3. {i \in DOMAIN passed' \ Uncounted' : passed'[i].time \in LimiterWindow'}
            = {Len(passed) + 1}
      BY <1>0, <2>1, <2>4, <3>1, <3>2 DEF LimiterWindow
    <3>4. Counted(LimiterWindow)' = 1
      BY <3>3, FS_Singleton DEF Counted
    <3>5. CounterExact'
      BY <1>0, <2>1, <2>4, <3>1, <3>2, <3>4 DEF CounterExact
    <3>6. Attempts(logins)' = 1 /\ Attempts(logins) = 0
      BY <1>0, <2>1, <2>6, <3>1 DEF Attempts
    <3> QED BY <1>0, <1>00, <2>3, <3>5, <3>6 DEF LimiterInv, Bounded
  <2> QED BY <2>5, <2>6
<1>3. ASSUME NEW w \in Workers, Moves(w) PROVE LimiterInv'
  <2>1. UNCHANGED <<now, logins, passed>>
    BY <1>3, MoveFrame
  <2>2. CounterExact'
    BY <1>0, <2>1 DEF CounterExact, Counted, Uncounted, LimiterWindow
  <2>3. Attempts(logins)' = Attempts(logins)
    BY <2>1 DEF Attempts
  <2>4. CASE at'[w] = "hit"
    <3>1. Attempts(logins) < LoginMax
      BY <1>0, <1>3, <2>4, MoveSteps
    <3> QED BY <1>0, <1>00, <2>2, <2>3, <3>1 DEF LimiterInv, Bounded
  <2>5. CASE at'[w] # "hit"
    <3>1. at' = [at EXCEPT ![w] = at'[w]]
      BY <1>0, <1>3, MoveSteps
    <3>2. Hitting' \subseteq Hitting
      BY <1>0, <2>5, <3>1 DEF Hitting, TypeOK
    <3>3. Cardinality(Hitting') <= Cardinality(Hitting)
      BY <3>2, WorkerCount, FS_Subset DEF Hitting
    <3> QED BY <1>0, <1>00, <2>2, <2>3, <3>3 DEF LimiterInv, Bounded
  <2> QED BY <2>4, <2>5
<1>4. ASSUME NEW w \in Workers, LimitThrows(w) PROVE LimiterInv'
  <2>1. /\ UNCHANGED <<now, logins>> /\ at' = [at EXCEPT ![w] = "honeypot"]
        /\ passed' = Append(passed, [time |-> now, counted |-> FALSE])
    BY <1>4 DEF LimitThrows, Throw
  <2>2. /\ DOMAIN passed' \ Uncounted' = DOMAIN passed \ Uncounted
        /\ \A i \in DOMAIN passed : passed'[i] = passed[i]
    <3>1. /\ DOMAIN passed = 1..Len(passed) /\ Len(passed) \in Nat
          /\ DOMAIN passed' = 1..(Len(passed) + 1)
          /\ \A i \in 1..Len(passed) : passed'[i] = passed[i]
          /\ passed'[Len(passed) + 1] = [time |-> now, counted |-> FALSE]
      BY <1>0, <2>1, AppendProperties, LenProperties DEF TypeOK
    <3> QED BY <3>1 DEF Uncounted
  <2>3. CounterExact'
    <3>1. LimiterWindow' = LimiterWindow
      BY <2>1 DEF LimiterWindow
    <3>2. Counts(LimiterWindow)' = Counts(LimiterWindow)
      BY <2>2, <3>1 DEF Counts
    <3>3. Counted(LimiterWindow)' = Counted(LimiterWindow)
      BY <3>2 DEF Counted, Counts
    <3> QED BY <1>0, <2>1, <2>2, <3>3 DEF CounterExact
  <2>4. Attempts(logins)' = Attempts(logins)
    BY <2>1 DEF Attempts
  <2>5. Hitting' \subseteq Hitting
    BY <1>0, <2>1 DEF Hitting, TypeOK
  <2>6. Cardinality(Hitting') <= Cardinality(Hitting)
    BY <2>5, WorkerCount, FS_Subset DEF Hitting
  <2> QED BY <1>0, <1>00, <2>3, <2>4, <2>6 DEF LimiterInv, Bounded
<1>5. CASE UNCHANGED vars
  <2>1. UNCHANGED <<now, logins, passed, at>>
    BY <1>5 DEF vars
  <2> QED BY <1>0, <2>1 DEF LimiterInv, CounterExact, Counted, Uncounted, LimiterWindow, Bounded,
                           Hitting, Attempts
<1> QED BY <1>1, <1>2, <1>3, <1>4, <1>5, NextCases

LEMMA LimiterInvariant == Spec => []LimiterInv
  BY InitLimiter, LimiterStep, PTL DEF Spec

\* However many workers race between the check and the count and however often the
\* check throws, a window lets no more through on top of the maximum than one login
\* POST per further worker, and one per exception in the window.
THEOREM Overshoot == Spec => []AtMostMaxPlusRacing
<1>1. LimiterInv => AtMostMaxPlusRacing
  <2> SUFFICES ASSUME LimiterInv, now < logins.until
               PROVE  Passed(LimiterWindow)
                        <= LoginMax + (Cardinality(Workers) - 1)
                             + Cardinality({i \in Uncounted : passed[i].time \in LimiterWindow})
    BY DEF AtMostMaxPlusRacing
  <2> DEFINE u == Cardinality({i \in Uncounted : passed[i].time \in LimiterWindow})
  <2>1. Attempts(logins) = Counted(LimiterWindow)
    BY DEF LimiterInv, CounterExact, Attempts
  <2>2. Cardinality(Hitting) \in Nat /\ Attempts(logins) \in Nat /\ Cardinality(Workers) \in Nat
    BY WorkerCount, Naturals DEF Hitting, LimiterInv
  <2>3. Counted(LimiterWindow) <= LoginMax + Cardinality(Workers) - 1
    BY <2>1, <2>2, LaravelAssumption DEF LimiterInv, Bounded
  <2>4. Passed(LimiterWindow) = Counted(LimiterWindow) + u
    BY CountedOrNot DEF LimiterInv
  <2>5. u \in Int
    <3>1. Passed(LimiterWindow) \in Nat /\ IsFiniteSet(Passes(LimiterWindow))
      BY PassesFinite DEF LimiterInv
    <3>2. {i \in Uncounted : passed[i].time \in LimiterWindow} \subseteq Passes(LimiterWindow)
      BY DEF Uncounted, Passes
    <3> QED BY <3>1, <3>2, FS_Subset, FS_CardinalityType
  <2> HIDE DEF u
  <2>6. Passed(LimiterWindow) <= LoginMax + (Cardinality(Workers) - 1) + u
    BY <2>1, <2>2, <2>3, <2>4, <2>5, LaravelAssumption
  <2> QED BY <2>6 DEF u
<1> QED BY <1>1, LimiterInvariant, PTL

\* Of whoever is refused the maximum of login POSTs was counted in the last window of
\* seconds, whatever other workers did meanwhile.
THEOREM RefusedInTime == Spec => NeverRefusedEarly
<1> DEFINE Refused(w) == at[w] = "login" /\ at'[w] = "breach"
           Step == \A w \in Workers : Refused(w) => Counted(LastWindow) >= LoginMax
<1>1. LimiterInv /\ [Next]_vars => [Step]_vars
  <2> SUFFICES ASSUME LimiterInv, [Next]_vars, NEW w \in Workers, Refused(w)
               PROVE  Counted(LastWindow) >= LoginMax
    OBVIOUS
  <2>0. TypeOK /\ CounterExact
    BY DEF LimiterInv
  <2>1. PICK v \in Workers : HitLogin(v) \/ LimitThrows(v) \/ Moves(v)
    BY NextCases DEF Tick, vars
  <2>2. Attempts(logins) >= LoginMax
    <3>1. CASE HitLogin(v) \/ LimitThrows(v)
      BY <2>0, <3>1 DEF HitLogin, LimitThrows, Throw, Go, TypeOK
    <3>2. CASE Moves(v)
      BY <2>0, <3>2, MoveSteps DEF TypeOK
    <3> QED BY <2>1, <3>1, <3>2
  <2>3. now < logins.until /\ logins.hits >= LoginMax
    BY <2>0, <2>2, Naturals DEF Attempts
  <2>4. Counted(LimiterWindow) >= LoginMax
    BY <2>0, <2>3 DEF CounterExact
  <2>5. Counts(LimiterWindow) \subseteq Counts(LastWindow)
    BY <2>0, <2>3, Naturals DEF Counts, LimiterWindow, LastWindow
  <2>7. Counted(LimiterWindow) <= Counted(LastWindow)
    BY <2>0, <2>5, CountedMonotone
  <2>8. Counted(LimiterWindow) \in Nat /\ Counted(LastWindow) \in Nat
    BY <2>0, PassesFinite
  <2> QED BY <2>0, <2>4, <2>7, <2>8, Naturals
<1> QED BY <1>1, LimiterInvariant, PTL DEF Spec, NeverRefusedEarly
=============================================================================
