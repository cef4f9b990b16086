--------------------------- MODULE Dashboard_proofs ---------------------------
(***************************************************************************)
(* Proofs about Dashboard, for every set of sites and events, every number *)
(* of calls and loads and every order of their answers.                    *)
(***************************************************************************)
EXTENDS Dashboard, TLAPS

-----------------------------------------------------------------------------
(* Types.                                                                  *)

LEMMA NoLoadType == NoLoad \in Load
  BY DEF NoLoad, Load, Answer

LEMMA InitTypes == Init => TypeOK
<1> SUFFICES ASSUME Init PROVE TypeOK
  OBVIOUS
<1>1. ServerTypes
  BY DEF Init, Log!Init, ServerTypes
<1>2. CallTypes
  BY DEF Init, CallTypes, Call, Unsent
<1>3. LoadTypes
  BY NoLoadType, DashboardAssumption DEF Init, LoadTypes
<1>4. PageTypes
  BY NoLoadType DEF Init, PageTypes
<1> QED BY <1>1, <1>2, <1>3, <1>4 DEF TypeOK

\* A registration draws the next site_id.
LEMMA RegisterFacts ==
  ASSUME ServerTypes, NEW s \in SiteIds, Register(s)
  PROVE  /\ sites' = sites \cup {s} /\ events' = events
         /\ s \in Drawn' /\ Drawn \subseteq Drawn'
         /\ ServerTypes'
<1>1. /\ sites' = sites \cup {s} /\ events' = events /\ issued' = s /\ s = issued + 1
  BY DEF Register, Log!Register
<1>2. issued \in Nat /\ issued' \in Nat /\ issued' = issued + 1
  BY <1>1 DEF ServerTypes
<1>3. s \in Drawn' /\ Drawn \subseteq Drawn'
  BY <1>1, <1>2 DEF Drawn
<1> QED BY <1>1, <1>2, <1>3 DEF ServerTypes

\* What the other clients do to the server.
LEMMA OthersFacts ==
  ASSUME ServerTypes, Others
  PROVE  /\ ServerTypes' /\ Drawn \subseteq Drawn'
         /\ sites \subseteq sites' /\ events \subseteq events'
<1>1. CASE \E s \in SiteIds : Register(s)
  BY <1>1, RegisterFacts
<1>2. CASE \E r \in Requests : Log!Accept(r) /\ UNCHANGED issued
  BY <1>2 DEF Log!Accept, ServerTypes, Drawn
<1>3. CASE Log!Harden /\ UNCHANGED issued
  BY <1>3 DEF Log!Harden, ServerTypes, Drawn
<1> QED BY <1>1, <1>2, <1>3 DEF Others

LEMMA TypeInv == TypeOK /\ [Next]_vars => TypeOK'
<1> SUFFICES ASSUME TypeOK, [Next]_vars PROVE TypeOK'
  OBVIOUS
<1>0. ServerTypes /\ CallTypes /\ LoadTypes /\ PageTypes
  BY DEF TypeOK
<1>a. ASSUME UNCHANGED server PROVE ServerTypes' /\ Drawn' = Drawn
  BY <1>0, <1>a DEF server, ServerTypes, Drawn
<1>b. ASSUME UNCHANGED call, Drawn \subseteq Drawn' PROVE CallTypes'
  BY <1>0, <1>b DEF CallTypes
<1>c. ASSUME UNCHANGED <<load, effects, ran>>, asOf' \subseteq Requests PROVE LoadTypes'
  BY <1>0, <1>c DEF LoadTypes
<1>d. ASSUME UNCHANGED <<shown, selected, summary, rows, ticked, loading, error>>,
             lenient' \in BOOLEAN, Drawn \subseteq Drawn'
      PROVE  PageTypes'
  BY <1>0, <1>d DEF PageTypes
<1>e. asOf \subseteq Requests /\ lenient \in BOOLEAN
  BY <1>0 DEF LoadTypes, PageTypes
<1>1. CASE Others
  BY <1>0, <1>1, <1>b, <1>c, <1>d, <1>e, OthersFacts DEF Others, page, TypeOK
<1>2. CASE PowerLoss
  <2>1. ServerTypes' /\ Drawn' = Drawn
    BY <1>0, <1>2 DEF PowerLoss, Log!PowerLoss, ServerTypes, Drawn
  <2> QED BY <1>2, <1>b, <1>c, <1>d, <1>e, <2>1 DEF PowerLoss, page, TypeOK
<1>3. ASSUME NEW c \in Calls, ServerRegisters(c) PROVE TypeOK'
  <2>1. PICK s \in SiteIds :
          Register(s) /\ call' = [call EXCEPT ![c].at = "posted", ![c].site = s]
    BY <1>3 DEF ServerRegisters
  <2>2. ServerTypes' /\ Drawn \subseteq Drawn'
    BY <1>0, <2>1, RegisterFacts
  <2>3. CallTypes'
    BY <1>0, <2>1, <2>2 DEF CallTypes
  <2> QED BY <1>3, <1>c, <1>d, <1>e, <2>2, <2>3 DEF ServerRegisters, page, TypeOK
<1>4. ASSUME NEW c \in Calls, ServerLists(c) PROVE TypeOK'
  <2>1. ServerTypes' /\ Drawn' = Drawn
    BY <1>4, <1>a DEF ServerLists
  <2>2. CallTypes'
    BY <1>0, <1>4, <2>1 DEF ServerLists, CallTypes, ServerTypes
  <2> QED BY <1>4, <1>c, <1>d, <1>e, <2>1, <2>2 DEF ServerLists, page, TypeOK
<1>5. ASSUME NEW k \in Loads, ServerReads(k) PROVE TypeOK'
  <2>1. ServerTypes' /\ Drawn' = Drawn
    BY <1>5, <1>a DEF ServerReads
  <2>2. EventsOf(load[k].site) \in Answer
    BY <1>0 DEF EventsOf, ServerTypes, Answer
  <2>3. load' \in [Loads -> Load]
    BY <1>0, <1>5, <2>2 DEF ServerReads, LoadTypes, Load
  <2> QED BY <1>0, <1>5, <1>b, <1>d, <1>e, <2>1, <2>3 DEF ServerReads, page, TypeOK, LoadTypes
<1>6. ASSUME NEW c \in Calls, Registered(c) \/ RegisterFails(c) \/ ListFails(c) \/ Submit(c)
      PROVE  TypeOK'
  <2>1. UNCHANGED server /\ UNCHANGED <<load, effects, ran, asOf>>
    BY <1>6 DEF Registered, RegisterFails, ListFails, Submit, page
  <2>2. ServerTypes' /\ Drawn' = Drawn
    BY <1>a, <2>1
  <2>3. CallTypes'
    <3>1. CASE Registered(c)
      BY <1>0, <2>2, <3>1 DEF Registered, CallTypes
    <3>2. CASE RegisterFails(c) \/ ListFails(c)
      <4>1. call' = [call EXCEPT ![c] = Call("done", FALSE, None, {})]
        BY <3>2 DEF RegisterFails, ListFails, Done
      <4> QED BY <1>0, <2>2, <4>1 DEF CallTypes, Call
    <3>3. CASE Submit(c)
      <4>1. PICK picked \in BOOLEAN : call' = [call EXCEPT ![c] = Call("post", picked, None, {})]
        BY <3>3 DEF Submit
      <4> QED BY <1>0, <2>2, <4>1 DEF CallTypes, Call
    <3> QED BY <1>6, <3>1, <3>2, <3>3
  <2>4. call[c].site \in SiteIds \cup {None}
    BY <1>0 DEF CallTypes
  <2>5. PageTypes'
    <3>1. UNCHANGED <<shown, summary, rows, ticked, loading>>
      BY <1>6 DEF Registered, RegisterFails, ListFails, Submit, page
    <3>2. selected' \in {selected, call[c].site}
      BY <1>6 DEF Registered, RegisterFails, ListFails, Submit, page
    <3>3. error' \in {error, TRUE} /\ lenient' \in {lenient, TRUE}
      BY <1>6 DEF Registered, RegisterFails, ListFails, Submit, page
    <3>4. error' \in BOOLEAN /\ lenient' \in BOOLEAN
      BY <1>0, <3>3 DEF PageTypes
    <3> QED BY <1>0, <2>2, <2>4, <3>1, <3>2, <3>4 DEF PageTypes
  <2> QED BY <1>c, <1>e, <2>1, <2>2, <2>3, <2>5 DEF TypeOK
<1>7. ASSUME NEW c \in Calls, SitesListed(c) PROVE TypeOK'
  <2>1. ServerTypes' /\ Drawn' = Drawn
    BY <1>7, <1>a DEF SitesListed
  <2>2. CallTypes'
    BY <1>0, <1>7, <2>1 DEF SitesListed, CallTypes, Call, Done
  <2>3. call[c].site \in SiteIds \cup {None} /\ call[c].answer \subseteq Drawn
    BY <1>0 DEF CallTypes
  <2>4. selected' \in SiteIds \cup {None}
    BY <1>0, <1>7, <2>3 DEF SitesListed, PageTypes
  <2>5. PageTypes'
    BY <1>0, <1>7, <2>1, <2>3, <2>4 DEF SitesListed, PageTypes
  <2> QED BY <1>7, <1>c, <1>e, <2>1, <2>2, <2>5 DEF SitesListed, TypeOK
<1>8. ASSUME NEW k \in Loads, Loaded(k) \/ LoadFails(k) PROVE TypeOK'
  <2>1. ServerTypes' /\ Drawn' = Drawn
    BY <1>8, <1>a DEF Loaded, LoadFails
  <2>2. load' \in [Loads -> Load] /\ load[k] \in Load
    BY <1>0, <1>8, NoLoadType DEF Loaded, LoadFails, LoadTypes
  <2>3. loading' \in BOOLEAN /\ error' \in BOOLEAN
    BY <1>0, <1>8 DEF Loaded, LoadFails, Finally, Cancelled, PageTypes
  <2>4. PageTypes'
    BY <1>0, <1>8, <2>1, <2>2, <2>3 DEF Loaded, LoadFails, PageTypes
  <2> QED BY <1>0, <1>8, <1>b, <2>1, <2>2, <2>4 DEF Loaded, LoadFails, LoadTypes, TypeOK
<1>9. CASE Refresh \/ \E s \in SiteIds : Select(s)
  <2>1. ServerTypes' /\ Drawn' = Drawn
    BY <1>9, <1>a DEF Refresh, Select
  <2>2. PageTypes'
    BY <1>0, <1>9, <2>1 DEF Refresh, Select, PageTypes
  <2> QED BY <1>9, <1>b, <1>c, <1>e, <2>1, <2>2 DEF Refresh, Select, TypeOK
<1>10. CASE Effect
  <2>1. ServerTypes' /\ Drawn' = Drawn
    BY <1>10, <1>a DEF Effect
  <2>2. selected \in SiteIds /\ effects + 1 \in Loads /\ effects' \in 0..MaxLoads
    BY <1>0, <1>10, DashboardAssumption DEF Effect, Pending, PageTypes, LoadTypes, Loads
  <2>3. load' \in [Loads -> Load]
    BY <1>0, <1>10, <2>2 DEF Effect, LoadTypes, Load
  <2>4. LoadTypes'
    BY <1>0, <1>10, <2>2, <2>3 DEF Effect, LoadTypes, EventsOf, ServerTypes
  <2>5. PageTypes'
    BY <1>0, <1>10, <2>1 DEF Effect, PageTypes
  <2> QED BY <1>10, <1>b, <2>1, <2>4, <2>5 DEF Effect, TypeOK
<1>11. CASE UNCHANGED vars
  BY <1>11, <1>a, <1>b, <1>c, <1>d, <1>e DEF vars, page, TypeOK
<1> QED BY <1>1, <1>2, <1>3, <1>4, <1>5, <1>6, <1>7, <1>8, <1>9, <1>10, <1>11
        DEF Next, Server, Answers, Viewer

\* Every variable keeps its type; in particular no site is shown or answered
\* that the server has not drawn.
THEOREM TypeCorrect == Spec => []TypeOK
  BY InitTypes, TypeInv, PTL DEF Spec

-----------------------------------------------------------------------------
(* The loads.                                                              *)

\* A load that is not on its way has left nothing behind for the next.
LoadsClean == \A k \in Loads : load[k].site = None \/ k > effects => load[k] = NoLoad

\* The answers of the last load are about the site the effect ran for, and saw
\* all that was stored then.
LastLoadFresh ==
  \A k \in Loads : load[k].site # None /\ ~Cancelled(k) =>
    /\ load[k].site = ran
    /\ load[k].summary # None => asOf \subseteq load[k].summary
    /\ load[k].rows # None => asOf \subseteq load[k].rows

\* What was stored then is still there, as long as the server has its power.
AsOfStored == asOf \subseteq {e \in events : e.site = ran}

\* What is on the screen after a load that succeeded.
ScreenFresh ==
  ran # None /\ ~loading /\ ~error =>
    /\ summary.site = ran /\ rows.site = ran
    /\ asOf \subseteq summary.summary /\ asOf \subseteq rows.rows

LoadInv == TypeOK /\ LoadsClean /\ LastLoadFresh /\ AsOfStored /\ ScreenFresh /\ SpinnerHasALoad

LEMMA InitLoads == Init => LoadInv
<1> SUFFICES ASSUME Init PROVE LoadInv
  OBVIOUS
<1>1. TypeOK
  BY InitTypes
<1>2. \A k \in Loads : load[k] = NoLoad /\ load[k].site = None
  BY DEF Init, NoLoad
<1>3. ran = None /\ asOf = {} /\ loading = FALSE
  BY DEF Init
<1> QED BY <1>1, <1>2, <1>3
        DEF LoadInv, LoadsClean, LastLoadFresh, AsOfStored, ScreenFresh, SpinnerHasALoad

LEMMA LoadStep == LoadInv /\ [Next]_vars => LoadInv'
<1> SUFFICES ASSUME LoadInv, [Next]_vars PROVE LoadInv'
  OBVIOUS
<1>0. /\ TypeOK /\ TypeOK' /\ ServerTypes /\ LoadTypes /\ PageTypes
      /\ LoadsClean /\ LastLoadFresh /\ AsOfStored /\ ScreenFresh /\ SpinnerHasALoad
  BY TypeInv DEF LoadInv, TypeOK
\* Steps that leave the loads, panels and table alone.
<1>a. ASSUME UNCHANGED <<load, ran, effects, summary, rows, loading>>,
             error' \in {error, TRUE}, asOf' \subseteq asOf, asOf' \subseteq events'
      PROVE  LoadInv'
  <2>1. LoadsClean' /\ SpinnerHasALoad'
    BY <1>0, <1>a DEF LoadsClean, SpinnerHasALoad, Cancelled
  <2>2. LastLoadFresh'
    BY <1>0, <1>a DEF LastLoadFresh, Cancelled
  <2>3. AsOfStored'
    BY <1>0, <1>a DEF AsOfStored
  <2>4. ScreenFresh'
    <3>1. CASE error' = error
      BY <1>0, <1>a, <3>1 DEF ScreenFresh
    <3>2. CASE error' = TRUE
      BY <3>2 DEF ScreenFresh
    <3> QED BY <1>a, <3>1, <3>2
  <2> QED BY <1>0, <2>1, <2>2, <2>3, <2>4 DEF LoadInv
<1>b. asOf \subseteq events
  BY <1>0 DEF AsOfStored
<1>1. CASE Others
  <2>1. events \subseteq events'
    BY <1>0, <1>1, OthersFacts
  <2> QED BY <1>1, <1>a, <1>b, <2>1 DEF Others, page
<1>2. CASE PowerLoss
  BY <1>2, <1>a DEF PowerLoss, page
<1>3. ASSUME NEW c \in Calls, ServerRegisters(c) PROVE LoadInv'
  <2>1. events' = events
    BY <1>0, <1>3, RegisterFacts DEF ServerRegisters
  <2> QED BY <1>3, <1>a, <1>b, <2>1 DEF ServerRegisters, page
<1>4. ASSUME NEW c \in Calls,
             \/ ServerLists(c) \/ Registered(c) \/ RegisterFails(c) \/ ListFails(c)
             \/ Submit(c) \/ SitesListed(c)
      PROVE  LoadInv'
  BY <1>4, <1>a, <1>b
     DEF ServerLists, Registered, RegisterFails, ListFails, Submit, SitesListed, server, page
<1>5. ASSUME NEW k \in Loads, ServerReads(k) PROVE LoadInv'
  <2>1. /\ UNCHANGED <<sites, events, issued, ran, effects, summary, rows, loading, error, asOf>>
        /\ load[k].site # None
    BY <1>0, <1>5, DashboardAssumption DEF ServerReads, server, page, ServerTypes, Drawn
  <2>2. PICK seen : /\ seen = EventsOf(load[k].site)
                    /\ load' \in {[load EXCEPT ![k].summary = seen], [load EXCEPT ![k].rows = seen]}
    BY <1>5 DEF ServerReads
  <2>3. \A j \in Loads : load'[j].site = load[j].site /\ (j # k => load'[j] = load[j])
    BY <1>0, <2>2 DEF LoadTypes, Load
  <2>4. k <= effects
    BY <1>0, <2>1 DEF LoadsClean, NoLoad, LoadTypes, Loads
  <2>5. LoadsClean'
    BY <1>0, <2>1, <2>3, <2>4 DEF LoadsClean, LoadTypes, Loads
  <2>6. SpinnerHasALoad'
    BY <1>0, <2>1, <2>3 DEF SpinnerHasALoad, Cancelled
  <2>7. ~Cancelled(k) => asOf \subseteq seen
    BY <1>0, <2>1, <2>2 DEF LastLoadFresh, AsOfStored, EventsOf
  <2>8. LastLoadFresh'
    <3> SUFFICES ASSUME NEW j \in Loads, load[j].site # None, ~Cancelled(j)
                 PROVE  /\ load[j].site = ran
                        /\ load'[j].summary # None => asOf \subseteq load'[j].summary
                        /\ load'[j].rows # None => asOf \subseteq load'[j].rows
      BY <2>1, <2>3 DEF LastLoadFresh, Cancelled
    <3>1. CASE j # k
      BY <1>0, <2>3, <3>1 DEF LastLoadFresh
    <3>2. CASE j = k
      <4>1. load'[k].summary \in {load[k].summary, seen} /\ load'[k].rows \in {load[k].rows, seen}
        BY <1>0, <2>2 DEF LoadTypes, Load
      <4> QED BY <1>0, <2>7, <3>2, <4>1 DEF LastLoadFresh
    <3> QED BY <3>1, <3>2
  <2>9. AsOfStored' /\ ScreenFresh'
    BY <1>0, <2>1 DEF AsOfStored, ScreenFresh
  <2> QED BY <1>0, <2>5, <2>6, <2>8, <2>9 DEF LoadInv
<1>6. ASSUME NEW k \in Loads, Loaded(k) \/ LoadFails(k) PROVE LoadInv'
  <2>1. /\ load[k].site # None /\ load' = [load EXCEPT ![k] = NoLoad]
        /\ UNCHANGED <<sites, events, ran, effects, asOf>>
        /\ loading' = (Cancelled(k) /\ loading)
    BY <1>6 DEF Loaded, LoadFails, Finally, server
  <2>2. /\ load'[k] = NoLoad /\ load'[k].site = None
        /\ \A j \in Loads : j # k => load'[j] = load[j]
    BY <1>0, <2>1 DEF LoadTypes, NoLoad
  <2>3. LoadsClean'
    BY <1>0, <2>1, <2>2 DEF LoadsClean
  <2>4. SpinnerHasALoad'
    BY <1>0, <2>1, <2>2 DEF SpinnerHasALoad, Cancelled
  <2>5. LastLoadFresh'
    BY <1>0, <2>1, <2>2 DEF LastLoadFresh, Cancelled
  <2>6. AsOfStored'
    BY <1>0, <2>1 DEF AsOfStored
  <2>7. ScreenFresh'
    <3>1. CASE Cancelled(k)
      <4>1. UNCHANGED <<summary, rows, error>>
        BY <1>0, <1>6, <3>1 DEF Loaded, LoadFails, PageTypes
      <4>2. loading' = loading
        BY <1>0, <2>1, <3>1 DEF PageTypes
      <4> QED BY <1>0, <2>1, <4>1, <4>2 DEF ScreenFresh
    <3>2. CASE ~Cancelled(k) /\ Loaded(k)
      BY <1>0, <2>1, <3>2 DEF Loaded, LastLoadFresh, ScreenFresh
    <3>3. CASE ~Cancelled(k) /\ LoadFails(k)
      BY <3>3 DEF LoadFails, ScreenFresh
    <3> QED BY <1>6, <3>1, <3>2, <3>3
  <2> QED BY <1>0, <2>3, <2>4, <2>5, <2>6, <2>7 DEF LoadInv
<1>7. CASE Refresh \/ \E s \in SiteIds : Select(s)
  BY <1>7, <1>a, <1>b DEF Refresh, Select, server
<1>8. CASE Effect
  <2>1. /\ selected # None /\ effects' = effects + 1 /\ ran' = selected /\ loading' = TRUE
        /\ load' = [load EXCEPT ![effects + 1].site = selected]
        /\ asOf' = EventsOf(selected) /\ UNCHANGED events
    BY <1>8 DEF Effect, Pending, server
  <2>2. effects \in Nat /\ effects + 1 \in Loads
    BY <1>0, <1>8, DashboardAssumption DEF Effect, LoadTypes, Loads
  <2>3. load[effects + 1] = NoLoad
    BY <1>0, <2>2 DEF LoadsClean
  <2>4. /\ load'[effects'].site = selected
        /\ load'[effects'].summary = None /\ load'[effects'].rows = None
        /\ \A j \in Loads : j # effects' => load'[j] = load[j]
    BY <1>0, <2>1, <2>2, <2>3 DEF LoadTypes, NoLoad
  <2>5. LoadsClean'
    BY <1>0, <2>1, <2>2, <2>4 DEF LoadsClean, Loads
  <2>6. LastLoadFresh' /\ SpinnerHasALoad'
    BY <2>1, <2>2, <2>4 DEF LastLoadFresh, SpinnerHasALoad, Cancelled
  <2>7. AsOfStored' /\ ScreenFresh'
    BY <2>1 DEF AsOfStored, ScreenFresh, EventsOf
  <2> QED BY <1>0, <2>5, <2>6, <2>7 DEF LoadInv
<1>9. CASE UNCHANGED vars
  BY <1>9, <1>a, <1>b DEF vars, server, page
<1> QED BY <1>1, <1>2, <1>3, <1>4, <1>5, <1>6, <1>7, <1>8, <1>9
        DEF Next, Server, Answers, Viewer

LEMMA LoadsInvariant == Spec => []LoadInv
  BY InitLoads, LoadStep, PTL DEF Spec

\* However loads overlap and whichever answer is late, panels and table belong
\* to the selected site and are as new as its selection.
THEOREM Current == Spec => []ShownIsCurrent
<1>1. LoadInv => ShownIsCurrent
  <2> SUFFICES ASSUME LoadInv, ~Pending, ~loading, ~error, selected # None
               PROVE  /\ summary.site = selected /\ rows.site = selected
                      /\ asOf \subseteq summary.summary /\ asOf \subseteq rows.rows
    BY DEF ShownIsCurrent
  <2>1. selected = ran
    BY DEF Pending
  <2> QED BY <2>1 DEF LoadInv, ScreenFresh
<1> QED BY <1>1, LoadsInvariant, PTL

\* The spinner runs exactly while a load is on its way that may end it.
THEOREM Spinner == Spec => []SpinnerHasALoad
  BY LoadsInvariant, PTL DEF LoadInv

-----------------------------------------------------------------------------
(* The site picker.                                                        *)

\* A site that was registered from here is in the list that is asked for next.
CallsListed ==
  ~lenient => \A c \in Calls : call[c].site # None =>
    /\ call[c].site \in sites
    /\ call[c].at = "listed" => call[c].site \in call[c].answer

PickerInv == TypeOK /\ CallsListed /\ SelectedIsListed

LEMMA InitPicker == Init => PickerInv
<1> SUFFICES ASSUME Init PROVE PickerInv
  OBVIOUS
<1>1. \A c \in Calls : call[c].site = None
  BY DEF Init, Call, Unsent
<1> QED BY <1>1, InitTypes DEF Init, PickerInv, CallsListed, SelectedIsListed

LEMMA PickerStep == PickerInv /\ [Next]_vars => PickerInv'
<1> SUFFICES ASSUME PickerInv, [Next]_vars PROVE PickerInv'
  OBVIOUS
<1>0. /\ TypeOK /\ TypeOK' /\ ServerTypes /\ CallTypes /\ PageTypes
      /\ CallsListed /\ SelectedIsListed
  BY TypeInv DEF PickerInv, TypeOK
<1>a. ASSUME UNCHANGED <<call, shown, selected, lenient>>, sites \subseteq sites'
      PROVE  PickerInv'
  BY <1>0, <1>a DEF PickerInv, CallsListed, SelectedIsListed
<1>b. ASSUME lenient' = TRUE PROVE PickerInv'
  BY <1>0, <1>b DEF PickerInv, CallsListed, SelectedIsListed
<1>1. CASE Others
  BY <1>0, <1>1, <1>a, OthersFacts DEF Others, page
<1>2. CASE PowerLoss
  BY <1>2, <1>b DEF PowerLoss
<1>3. ASSUME NEW c \in Calls, ServerRegisters(c) PROVE PickerInv'
  <2>1. PICK s \in SiteIds :
          Register(s) /\ call' = [call EXCEPT ![c].at = "posted", ![c].site = s]
    BY <1>3 DEF ServerRegisters
  <2>2. sites' = sites \cup {s}
    BY <1>0, <2>1, RegisterFacts
  <2>3. /\ call'[c].at = "posted" /\ call'[c].site = s
        /\ \A d \in Calls : d # c => call'[d] = call[d]
    BY <1>0, <2>1 DEF CallTypes
  <2>4. UNCHANGED <<shown, selected, lenient>>
    BY <1>3 DEF ServerRegisters, page
  <2>5. CallsListed'
    BY <1>0, <2>2, <2>3, <2>4 DEF CallsListed
  <2> QED BY <1>0, <2>4, <2>5 DEF PickerInv, SelectedIsListed
<1>4. ASSUME NEW c \in Calls, ServerLists(c) PROVE PickerInv'
  <2>1. /\ call'[c].site = call[c].site /\ call'[c].answer = sites
        /\ \A d \in Calls : d # c => call'[d] = call[d]
    BY <1>0, <1>4 DEF ServerLists, CallTypes
  <2>2. UNCHANGED <<sites, shown, selected, lenient>>
    BY <1>4 DEF ServerLists, server, page
  <2>3. CallsListed'
    BY <1>0, <2>1, <2>2 DEF CallsListed
  <2> QED BY <1>0, <2>2, <2>3 DEF PickerInv, SelectedIsListed
<1>5. ASSUME NEW c \in Calls, Registered(c) \/ RegisterFails(c) \/ Submit(c) PROVE PickerInv'
  <2>1. /\ call'[c].site \in {None, call[c].site} /\ call'[c].at # "listed"
        /\ \A d \in Calls : d # c => call'[d] = call[d]
    BY <1>0, <1>5 DEF Registered, RegisterFails, Submit, CallTypes, Call, Done
  <2>2. UNCHANGED <<sites, shown, selected, lenient>>
    BY <1>5 DEF Registered, RegisterFails, Submit, server, page
  <2>3. CallsListed'
    BY <1>0, <2>1, <2>2 DEF CallsListed
  <2> QED BY <1>0, <2>2, <2>3 DEF PickerInv, SelectedIsListed
<1>6. ASSUME NEW c \in Calls, SitesListed(c) PROVE PickerInv'
  <2>1. /\ call'[c].site = None
        /\ \A d \in Calls : d # c => call'[d] = call[d]
    BY <1>0, <1>6 DEF SitesListed, CallTypes, Call, Done
  <2>2. /\ shown' = call[c].answer /\ sites' = sites /\ call[c].at = "listed"
        /\ ~lenient' => ~lenient /\ shown \subseteq shown'
    BY <1>6 DEF SitesListed, server
  <2>3. CallsListed'
    BY <1>0, <2>1, <2>2 DEF CallsListed
  <2>4. SelectedIsListed'
    <3> SUFFICES ASSUME ~lenient', selected' # None PROVE selected' \in shown'
      BY DEF SelectedIsListed
    <3>1. CASE call[c].site # None /\ selected' = call[c].site
      BY <1>0, <2>2, <3>1 DEF CallsListed
    <3>2. CASE \E s \in SiteIds : IsFirst(s, call[c].answer) /\ selected' = s
      BY <2>2, <3>2 DEF IsFirst
    <3>3. CASE selected' = selected
      BY <1>0, <2>2, <3>3 DEF SelectedIsListed
    <3> QED BY <1>6, <3>1, <3>2, <3>3 DEF SitesListed
  <2> QED BY <1>0, <2>3, <2>4 DEF PickerInv
<1>7. ASSUME NEW c \in Calls, ListFails(c) PROVE PickerInv'
  BY <1>7, <1>b DEF ListFails
<1>8. ASSUME NEW k \in Loads, ServerReads(k) \/ Loaded(k) \/ LoadFails(k) PROVE PickerInv'
  BY <1>8, <1>a DEF ServerReads, Loaded, LoadFails, server, page
<1>9. ASSUME NEW s \in SiteIds, Select(s) PROVE PickerInv'
  BY <1>0, <1>9 DEF Select, server, PickerInv, CallsListed, SelectedIsListed
<1>10. CASE Refresh \/ Effect
  BY <1>10, <1>a DEF Refresh, Effect, server
<1>11. CASE UNCHANGED vars
  BY <1>11, <1>a DEF vars, server, page
<1> QED BY <1>1, <1>2, <1>3, <1>4, <1>5, <1>6, <1>7, <1>8, <1>9, <1>10, <1>11
        DEF Next, Server, Answers, Viewer

\* The selected site is one of the pills, up to the excuses that lenient names.
THEOREM Listed == Spec => []SelectedIsListed
<1>1. PickerInv => SelectedIsListed
  BY DEF PickerInv
<1> QED BY <1>1, InitPicker, PickerStep, PTL DEF Spec
=============================================================================
