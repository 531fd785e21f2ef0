---------------------------- MODULE PtpBmcaProofs ----------------------------
(***************************************************************************)
(* Proofs about PtpBmca, for every set of ports, masters and messages.     *)
(***************************************************************************)
EXTENDS PtpBmca, TLAPS

\* The foreign master list of a port.
Lists == [Masters -> Entry \cup {None}]

\* EntriesDescribeTheWindow for one foreign master list.
Describes(list) ==
  \A m \in Masters : list[m] # None =>
    /\ list[m].recent # None => list[m].recent.src = m
    /\ list[m].recent = None => list[m].count = 0
    /\ list[m].age > 0 => list[m].count + Least(list[m].age, TimeWindow) <= TimeWindow

\* The inductive invariant.
BmcaInv ==
  /\ TypeOK
  /\ ErbestInForeignMasterList
  /\ EntriesDescribeTheWindow

-----------------------------------------------------------------------------
(* The foreign master list.                                                *)

\* A counted message keeps a list well formed, and removes no entry.
LEMMA AddOrUpdateLemma ==
  ASSUME NEW list \in Lists, Describes(list), NEW m \in Announce
  PROVE  /\ AddOrUpdateEntry(list, m) \in Lists
         /\ Describes(AddOrUpdateEntry(list, m))
         /\ \A n \in Masters : list[n] # None => AddOrUpdateEntry(list, m)[n] # None
<1>1. m.src \in Masters /\ list[m.src] \in Entry \cup {None}
  BY DEF Announce, Lists
<1>2. CASE list[m.src] = None
  <2>1. NewEntry \in Entry /\ NewEntry # None
    BY NoneAssumption DEF NewEntry, Entry, CountBound, AgeBound, TimeWindow
  <2> QED
    BY <1>1, <1>2, <2>1 DEF AddOrUpdateEntry, Lists, Describes, NewEntry
<1>3. CASE list[m.src] # None /\ AddOrUpdateEntry(list, m) = list
  BY <1>3
<1>4. CASE list[m.src] # None /\ AddOrUpdateEntry(list, m) # list
  <2> DEFINE e == [count |-> Least(list[m.src].count + 1, CountBound),
                   recent |-> m, age |-> 0]
  <2>1. AddOrUpdateEntry(list, m) = [list EXCEPT ![m.src] = e]
    BY <1>4 DEF AddOrUpdateEntry
  <2>2. list[m.src] \in Entry
    BY <1>1, <1>4
  <2>3. e \in Entry /\ e # None
    BY <2>2, NoneAssumption DEF Entry, Least, CountBound, AgeBound, TimeWindow
  <2>4. /\ e.recent = m /\ m # None
        /\ e.age = 0
    BY NoneAssumption
  <2>5. AddOrUpdateEntry(list, m) \in Lists
    BY <2>1, <2>3, <1>1 DEF Lists
  <2>6. \A n \in Masters : AddOrUpdateEntry(list, m)[n] = IF n = m.src THEN e ELSE list[n]
    BY <2>1 DEF Lists
  <2>7. Describes(AddOrUpdateEntry(list, m))
    BY <2>4, <2>6 DEF Describes
  <2> QED
    BY <2>3, <2>5, <2>6, <2>7
<1> QED
  BY <1>2, <1>3, <1>4

\* The same of the entries that another announce interval ages.
LEMMA IncreaseAgeLemma ==
  ASSUME NEW list \in Lists, Describes(list)
  PROVE  /\ IncreaseAge(list) \in Lists
         /\ Describes(IncreaseAge(list))
         /\ \A n \in Masters : list[n] # None => IncreaseAge(list)[n] # None
<1>1. ASSUME NEW n \in Masters, list[n] # None
      PROVE  /\ AgedEntry(list[n]) \in Entry
             /\ AgedEntry(list[n]).recent = list[n].recent
             /\ list[n].count = 0 => AgedEntry(list[n]).count = 0
             /\ AgedEntry(list[n]).count + Least(AgedEntry(list[n]).age, TimeWindow)
                  <= TimeWindow
  <2>1. list[n] \in Entry
    BY <1>1 DEF Lists
  <2>2. list[n].age > 0 => list[n].count + Least(list[n].age, TimeWindow) <= TimeWindow
    BY <1>1 DEF Describes
  <2> DEFINE e == list[n]
             age == Least(e.age + 1, AgeBound)
             count == IF age <= TimeWindow THEN Least(e.count, TimeWindow - age)
                                           ELSE e.count
  <2>3. /\ e.count \in 0..4 /\ e.age \in 0..5
        /\ e = [count |-> e.count, recent |-> e.recent, age |-> e.age]
        /\ e.recent \in Announce \cup {None}
    BY <2>1 DEF Entry, CountBound, AgeBound, TimeWindow
  <2>4. AgedEntry(e) = [count |-> count, recent |-> e.recent, age |-> age]
    BY <2>3 DEF AgedEntry
  <2>5. /\ age \in 0..AgeBound /\ count \in 0..CountBound
        /\ e.count = 0 => count = 0
        /\ count + Least(age, TimeWindow) <= TimeWindow
    BY <2>2, <2>3 DEF Least, CountBound, AgeBound, TimeWindow
  <2>6. AgedEntry(e) \in Entry
    BY <2>3, <2>4, <2>5 DEF Entry
  <2>7. AgedEntry(e).count = count /\ AgedEntry(e).age = age /\ AgedEntry(e).recent = e.recent
    BY <2>4
  <2> QED
    BY <2>5, <2>6, <2>7
<1>2. \A n \in Masters :
        IncreaseAge(list)[n] = IF list[n] = None THEN None ELSE AgedEntry(list[n])
  BY DEF IncreaseAge
<1>3. IncreaseAge(list) \in Lists
  BY <1>1 DEF IncreaseAge, Lists
<1>4. \A n \in Masters : list[n] # None => IncreaseAge(list)[n] # None
  BY <1>1, <1>2, NoneAssumption
<1>5. Describes(IncreaseAge(list))
  BY <1>1, <1>2 DEF Describes
<1> QED
  BY <1>3, <1>4, <1>5

\* Purging removes entries, but not the one of Erbest.
LEMMA PurgeLemma ==
  ASSUME NEW list \in Lists, Describes(list), NEW best
  PROVE  /\ PurgeEntries(list, best) \in Lists
         /\ Describes(PurgeEntries(list, best))
         /\ (best # None /\ best.src \in Masters /\ list[best.src] # None)
              => PurgeEntries(list, best)[best.src] # None
BY DEF PurgeEntries, Lists, Describes, IsPurged

-----------------------------------------------------------------------------
(* Choosing the best.                                                      *)

\* The best of a set of messages, an underspecified CHOOSE, is one of them.
LEMMA BestOfLemma ==
  ASSUME NEW S, S # {}, NEW p
  PROVE  BestOf(S, p) \in S
<1>1. \E m \in S : (\E x \in S : IsBest(x, S, p)) => IsBest(m, S, p)
  OBVIOUS
<1> QED
  BY <1>1 DEF BestOf

\* determine_ebest returns the Erbest of some port that has one.
LEMMA BestPortLemma ==
  ASSUME NEW e, HasErbest(e) # {}
  PROVE  BestPort(e) \in Ports /\ e[BestPort(e)] # None
<1>1. \E p \in HasErbest(e) : (\E x \in HasErbest(e) : IsBestPort(x, e)) => IsBestPort(p, e)
  OBVIOUS
<1>2. BestPort(e) \in HasErbest(e)
  BY <1>1 DEF BestPort
<1> QED
  BY <1>2 DEF HasErbest

\* calculate_erbest keeps the previous Erbest or takes the message of an entry.
LEMMA CalculateErbestLemma ==
  ASSUME NEW p, NEW state, NEW list \in Lists, Describes(list),
         NEW previous \in Announce \cup {None},
         previous # None => list[previous.src] # None
  PROVE  LET best == CalculateErbest(p, state, previous, list) IN
         /\ best \in Announce \cup {None}
         /\ best # None => best.src \in Masters /\ list[best.src] # None
         /\ previous # None => best # None
<1> DEFINE included == IF IsActive(state) THEN previous ELSE None
           best == CalculateErbest(p, state, previous, list)
           candidates == Qualified(list, included)
<1>1. \A c \in candidates : c \in Announce /\ list[c.src] # None
  <2> SUFFICES ASSUME NEW n \in Masters, list[n] # None, list[n].recent # None
               PROVE  list[n].recent \in Announce /\ list[list[n].recent.src] # None
    BY DEF Qualified
  <2>1. list[n] \in Entry
    BY DEF Lists
  <2> QED
    BY <2>1 DEF Entry, Describes
<1>2. best = previous \/ best \in candidates
  <2>1. CASE candidates = {}
    BY <2>1 DEF CalculateErbest
  <2>2. CASE candidates # {}
    <3>1. BestOf(candidates, p) \in candidates
      BY <2>2, BestOfLemma
    <3> QED
      BY <3>1 DEF CalculateErbest
  <2> QED
    BY <2>1, <2>2
<1> HIDE DEF best, candidates
<1>3. CASE best = previous
  BY <1>3 DEF best, Announce
<1>4. CASE best \in candidates
  <2>1. best \in Announce /\ list[best.src] # None /\ best # None
    BY <1>1, <1>4, NoneAssumption
  <2> QED
    BY <2>1 DEF best, Announce
<1> QED
  BY <1>2, <1>3, <1>4
-----------------------------------------------------------------------------
(* The state decision event.                                               *)

\* The lists and Erbests that a handler passes to the state decision event.
GoodInput(f, e, par) ==
  /\ f \in [Ports -> Lists]
  /\ \A p \in Ports : Describes(f[p])
  /\ e \in [Ports -> Announce \cup {None}]
  /\ \A p \in Ports : e[p] # None => f[p][e[p].src] # None
  /\ par \in Announce \cup {None}

\* From good lists, Erbests and parent the state decision event leads to good ones.
LEMMA StateDecisionLemma ==
  ASSUME TypeOK, NEW f, NEW e, NEW par, GoodInput(f, e, par),
         StateDecisionEvent(f, e, par)
  PROVE  /\ erbest' \in [Ports -> Announce \cup {None}]
         /\ portState' \in [Ports -> States]
         /\ parent' \in Announce \cup {None}
         /\ \A p \in Ports : erbest'[p] # None =>
              erbest'[p].src \in Masters /\ f[p][erbest'[p].src] # None
         /\ \A p \in Ports : e[p] # None => erbest'[p] # None
<1>1. ASSUME NEW p \in Ports
      PROVE  /\ erbest'[p] \in Announce \cup {None}
             /\ erbest'[p] # None => erbest'[p].src \in Masters /\ f[p][erbest'[p].src] # None
             /\ e[p] # None => erbest'[p] # None
  <2>1. erbest'[p] = CalculateErbest(p, portState[p], e[p], f[p])
    BY DEF StateDecisionEvent
  <2>2. /\ f[p] \in Lists /\ Describes(f[p])
        /\ e[p] \in Announce \cup {None}
        /\ e[p] # None => f[p][e[p].src] # None
    BY DEF GoodInput
  <2> QED
    BY <2>1, <2>2, CalculateErbestLemma
<1>2. erbest' \in [Ports -> Announce \cup {None}]
  BY <1>1 DEF StateDecisionEvent
<1>3. portState' \in [Ports -> States]
  <2>1. SlaveState \in States /\ "listening" \in States /\ "absent" \in States
    BY DEF SlaveState, States
  <2>2. \A p, b, eb, m : NextState(p, b, eb, m) \in States
    BY <2>1 DEF NextState
  <2> QED
    BY <2>2 DEF StateDecisionEvent
<1>4. parent' \in Announce \cup {None}
  <2> DEFINE ebest == DetermineEbest(erbest')
  <2>1. ebest # None => ebest.msg \in Announce
    <3>1. CASE HasErbest(erbest') = {}
      BY <3>1 DEF DetermineEbest
    <3>2. CASE HasErbest(erbest') # {}
      <4>1. BestPort(erbest') \in Ports /\ erbest'[BestPort(erbest')] # None
        BY <3>2, BestPortLemma
      <4>2. ebest.msg = erbest'[BestPort(erbest')]
        BY <3>2 DEF DetermineEbest
      <4> QED
        BY <1>1, <4>1, <4>2
    <3> QED
      BY <3>1, <3>2
  <2>2. parent' = par \/ (ebest # None /\ parent' = ebest.msg)
    BY DEF StateDecisionEvent
  <2>3. par \in Announce \cup {None}
    BY DEF GoodInput
  <2> QED
    BY <2>1, <2>2, <2>3
<1> QED
  BY <1>1, <1>2, <1>3, <1>4

-----------------------------------------------------------------------------
(* The invariant.                                                          *)

\* Without ports the invariant holds.
LEMMA InitInv == Init => BmcaInv
<1> SUFFICES ASSUME Init PROVE BmcaInv
  OBVIOUS
<1>1. TypeOK
  <2>1. /\ portState \in [Ports -> States]
        /\ erbest \in [Ports -> Announce \cup {None}]
        /\ timer \in [Ports -> 0..MaxTimeout]
        /\ parent \in Announce \cup {None}
    BY TimeoutAssumption DEF Init, States
  <2>2. foreign \in [Ports -> [Masters -> Entry \cup {None}]]
    BY DEF Init
  <2>3. calibrated \in BOOLEAN
    BY DEF Init
  <2> QED
    BY <2>1, <2>2, <2>3 DEF TypeOK
<1>2. ErbestInForeignMasterList
  BY DEF Init, ErbestInForeignMasterList
<1>3. EntriesDescribeTheWindow
  BY DEF Init, EntriesDescribeTheWindow
<1> QED
  BY <1>1, <1>2, <1>3 DEF BmcaInv

\* The timer hands the current state to the event.
LEMMA CurrentInputGood == BmcaInv => GoodInput(foreign, erbest, parent)
BY DEF BmcaInv, TypeOK, ErbestInForeignMasterList, EntriesDescribeTheWindow, GoodInput,
       Describes, Lists

\* The lists, Erbests and parent that an announce message hands to the event.
LEMMA AnnounceInput ==
  ASSUME BmcaInv, NEW p \in Ports, NEW m \in Announce
  PROVE  GoodInput(IF IsFromParent(p, m) THEN foreign
                     ELSE [foreign EXCEPT ![p] = AddOrUpdateEntry(foreign[p], m)],
                   UpdatedErbest(p, m),
                   IF IsFromParent(p, m) THEN m ELSE parent)
<1> DEFINE f == IF IsFromParent(p, m) THEN foreign
                ELSE [foreign EXCEPT ![p] = AddOrUpdateEntry(foreign[p], m)]
           e == UpdatedErbest(p, m)
<1>1. GoodInput(foreign, erbest, parent)
  BY CurrentInputGood
<1>2. /\ AddOrUpdateEntry(foreign[p], m) \in Lists
      /\ Describes(AddOrUpdateEntry(foreign[p], m))
      /\ \A n \in Masters : foreign[p][n] # None => AddOrUpdateEntry(foreign[p], m)[n] # None
  BY <1>1, AddOrUpdateLemma DEF GoodInput
<1>3. /\ f \in [Ports -> Lists]
      /\ \A q \in Ports : Describes(f[q])
      /\ \A q \in Ports : \A n \in Masters : foreign[q][n] # None => f[q][n] # None
  BY <1>1, <1>2 DEF GoodInput
<1>4. /\ e \in [Ports -> Announce \cup {None}]
      /\ \A q \in Ports : e[q] # None => erbest[q] # None /\ e[q].src = erbest[q].src
  BY <1>1, NoneAssumption DEF UpdatedErbest, GoodInput
<1>5. \A q \in Ports : e[q] # None => f[q][e[q].src] # None
  BY <1>1, <1>3, <1>4 DEF GoodInput, Announce
<1> QED
  BY <1>1, <1>3, <1>4, <1>5 DEF GoodInput

\* handle_announce_message keeps the invariant.
LEMMA AnnounceInv ==
  ASSUME BmcaInv, NEW p \in Ports, NEW m \in Announce, HandleAnnounceMessage(p, m)
  PROVE  BmcaInv'
<1> DEFINE f == IF IsFromParent(p, m) THEN foreign
                ELSE [foreign EXCEPT ![p] = AddOrUpdateEntry(foreign[p], m)]
           e == UpdatedErbest(p, m)
           par == IF IsFromParent(p, m) THEN m ELSE parent
<1>1. GoodInput(f, e, par) /\ TypeOK
  BY AnnounceInput DEF BmcaInv
<1> HIDE DEF f, e, par
<1>2. /\ StateDecisionEvent(f, e, par)
      /\ foreign' = [q \in Ports |-> PurgeEntries(f[q], erbest'[q])]
      /\ timer' = [q \in Ports |-> IF \/ portState'[q] # portState[q]
                                      \/ q = p /\ IsFromParent(p, m)
                                   THEN 0 ELSE timer[q]]
      /\ calibrated' = calibrated
  BY DEF HandleAnnounceMessage, f, e, par
<1>3. /\ erbest' \in [Ports -> Announce \cup {None}]
      /\ portState' \in [Ports -> States]
      /\ parent' \in Announce \cup {None}
      /\ \A q \in Ports : erbest'[q] # None =>
           erbest'[q].src \in Masters /\ f[q][erbest'[q].src] # None
  BY <1>1, <1>2, StateDecisionLemma
<1>4. \A q \in Ports :
        /\ foreign'[q] \in Lists
        /\ Describes(foreign'[q])
        /\ erbest'[q] # None => foreign'[q][erbest'[q].src] # None
  BY <1>1, <1>2, <1>3, PurgeLemma DEF GoodInput
<1>5. timer' \in [Ports -> 0..MaxTimeout] /\ calibrated' \in BOOLEAN
  BY <1>1, <1>2, TimeoutAssumption DEF TypeOK
<1>6. foreign' \in [Ports -> Lists]
  BY <1>2, <1>4
<1> QED
  BY <1>3, <1>4, <1>5, <1>6
  DEF BmcaInv, TypeOK, ErbestInForeignMasterList, EntriesDescribeTheWindow, Describes, Lists

\* So does an expired state decision timer, which also ages the entries.
LEMMA DecisionTimerInv == BmcaInv /\ StateDecisionTimer => BmcaInv'
<1> SUFFICES ASSUME BmcaInv, StateDecisionTimer PROVE BmcaInv'
  OBVIOUS
<1>1. GoodInput(foreign, erbest, parent) /\ TypeOK
  BY CurrentInputGood DEF BmcaInv
<1>2. /\ erbest' \in [Ports -> Announce \cup {None}]
      /\ portState' \in [Ports -> States]
      /\ parent' \in Announce \cup {None}
      /\ \A q \in Ports : erbest'[q] # None =>
           erbest'[q].src \in Masters /\ foreign[q][erbest'[q].src] # None
  BY <1>1, StateDecisionLemma DEF StateDecisionTimer
<1>3. ASSUME NEW q \in Ports
      PROVE  /\ foreign'[q] \in Lists
             /\ Describes(foreign'[q])
             /\ erbest'[q] # None => foreign'[q][erbest'[q].src] # None
  <2> DEFINE list == PurgeEntries(foreign[q], erbest'[q])
  <2>1. foreign'[q] = IncreaseAge(list)
    BY DEF StateDecisionTimer
  <2>2. /\ list \in Lists /\ Describes(list)
        /\ erbest'[q] # None => list[erbest'[q].src] # None
    BY <1>1, <1>2, PurgeLemma DEF GoodInput
  <2> HIDE DEF list
  <2> QED
    BY <1>2, <2>1, <2>2, IncreaseAgeLemma
<1>4. timer' \in [Ports -> 0..MaxTimeout] /\ calibrated' \in BOOLEAN
  BY <1>1, TimeoutAssumption DEF TypeOK, StateDecisionTimer, Present
<1>5. foreign' \in [Ports -> Lists]
  BY <1>3 DEF StateDecisionTimer
<1> QED
  BY <1>2, <1>3, <1>4, <1>5
  DEF BmcaInv, TypeOK, ErbestInForeignMasterList, EntriesDescribeTheWindow, Describes, Lists

\* Every handler keeps the invariant.
LEMMA NextInv == BmcaInv /\ [Next]_bmcaVars => BmcaInv'
<1> SUFFICES ASSUME BmcaInv, [Next]_bmcaVars PROVE BmcaInv'
  OBVIOUS
<1> USE DEF BmcaInv, TypeOK, ErbestInForeignMasterList, EntriesDescribeTheWindow
<1>1. ASSUME NEW p \in Ports, AddPort(p) PROVE BmcaInv'
  BY <1>1, TimeoutAssumption DEF AddPort, States
<1>2. ASSUME NEW p \in Ports, RemovePort(p) PROVE BmcaInv'
  BY <1>2, TimeoutAssumption DEF RemovePort, States
<1>3. ASSUME NEW p \in Ports, NEW m \in Announces[p], HandleAnnounceMessage(p, m)
      PROVE BmcaInv'
  <2>1. m \in Announce
    BY <1>3, AnnouncesAssumption
  <2> QED
    BY <1>3, <2>1, AnnounceInv
<1>4. ASSUME NEW p \in Ports, AnnounceReceiptTimeout(p) PROVE BmcaInv'
  BY <1>4, TimeoutAssumption DEF AnnounceReceiptTimeout, States
<1>5. CASE StateDecisionTimer
  BY <1>5, DecisionTimerInv
<1>6. CASE UpdateLocalClock
  BY <1>6 DEF UpdateLocalClock
<1>7. CASE UNCHANGED bmcaVars
  BY <1>7 DEF bmcaVars
<1> QED
  BY <1>1, <1>2, <1>3, <1>4, <1>5, <1>6, <1>7 DEF Next

\* Whatever announce messages arrive, in whatever order, and whenever the timers
\* fire: an Erbest is always backed by an entry of the foreign master list of its
\* port, so that the assertions at the head of Port::calculate_erbest hold, and no
\* entry counts more messages than the window allows.
THEOREM BmcaInvariance == Spec => [](TypeOK /\ ForeignMastersAreConsistent)
<1>1. BmcaInv => TypeOK /\ ForeignMastersAreConsistent
  BY DEF BmcaInv, ForeignMastersAreConsistent
<1> QED
  BY InitInv, NextInv, <1>1, PTL DEF Spec
-----------------------------------------------------------------------------
(* Ports without an Erbest, and what the parent data set changes to.       *)

\* A port that is not there has heard of nobody.
AbsentPortsEmpty ==
  \A p \in Ports : portState[p] = "absent" =>
    erbest[p] = None /\ \A m \in Masters : foreign[p][m] = None

\* The inductive invariant: an absent port must not be the one that has Ebest.
FollowInv == BmcaInv /\ AbsentPortsEmpty

\* What the handlers pass on: absent ports are empty, and no Erbest is lost.
GoodFollow(f, e) ==
  \A p \in Ports :
    /\ portState[p] = "absent" => e[p] = None /\ \A m \in Masters : f[p][m] = None
    /\ erbest[p] # None => e[p] # None

\* The steps that ActiveHasErbestUnlessOwnBetter and ParentChangesToEbest allow.
ErbestStep ==
  \A p \in Ports :
    IsActive(portState'[p]) /\ erbest'[p] = None =>
      \/ IsActive(portState[p]) /\ erbest[p] = None
      \/ HasErbest(erbest') # {} /\ OwnBetter(DetermineEbest(erbest').msg)

ParentStep ==
  parent' # parent =>
    \/ HasErbest(erbest') # {} /\ parent' = DetermineEbest(erbest').msg
    \/ /\ HasErbest(erbest') = {}
       /\ \E p \in Active : erbest[p] = None
       /\ parent # None /\ parent' # None /\ parent'.src = parent.src

\* Ebest exists as soon as one port has an Erbest, and belongs to a port that has.
LEMMA EbestLemma ==
  ASSUME NEW e, e \in [Ports -> Announce \cup {None}], HasErbest(e) # {}
  PROVE  /\ DetermineEbest(e) # None
         /\ DetermineEbest(e).port \in HasErbest(e)
         /\ DetermineEbest(e).msg = e[DetermineEbest(e).port]
         /\ DetermineEbest(e).msg \in Announce
<1>1. BestPort(e) \in Ports /\ e[BestPort(e)] # None
  BY BestPortLemma
<1>2. DetermineEbest(e) = [msg |-> e[BestPort(e)], port |-> BestPort(e)]
  BY DEF DetermineEbest
<1>3. DetermineEbest(e) # None
  <2>1. DetermineEbest(e) \in BestAnnounceMessage
    BY <1>1, <1>2 DEF BestAnnounceMessage
  <2> QED
    BY <2>1, NoneAssumption
<1> QED
  BY <1>1, <1>2, <1>3 DEF HasErbest

\* The event makes only ports with an Erbest active, unless D0 is better than Ebest,
\* and the parent only Ebest.
LEMMA FollowDecisionLemma ==
  ASSUME TypeOK, NEW f, NEW e, NEW par, GoodInput(f, e, par), GoodFollow(f, e),
         StateDecisionEvent(f, e, par)
  PROVE  /\ \A p \in Ports : portState[p] = "absent" =>
              portState'[p] = "absent" /\ erbest'[p] = None
         /\ \A p \in Ports : portState[p] # "absent" => portState'[p] # "absent"
         /\ ErbestStep
         /\ HasErbest(erbest') # {} => parent' = DetermineEbest(erbest').msg
         /\ HasErbest(erbest') = {} => parent' = par
<1> DEFINE ebest == DetermineEbest(erbest')
<1>1. /\ erbest' \in [Ports -> Announce \cup {None}]
      /\ portState' \in [Ports -> States]
      /\ \A p \in Ports : e[p] # None => erbest'[p] # None
  BY StateDecisionLemma
<1>2. ASSUME HasErbest(erbest') # {}
      PROVE  /\ ebest # None /\ ebest.port \in HasErbest(erbest')
             /\ ebest.msg = erbest'[ebest.port] /\ ebest.msg \in Announce
  BY <1>1, <1>2, EbestLemma
<1>3. HasErbest(erbest') = {} => ebest = None
  BY DEF DetermineEbest
<1>4. ASSUME NEW p \in Ports, portState[p] = "absent"
      PROVE  portState'[p] = "absent" /\ erbest'[p] = None
  <2>1. /\ erbest'[p] = CalculateErbest(p, "absent", e[p], f[p])
        /\ \E misread : portState'[p] = NextState(p, erbest'[p], ebest, misread)
    BY <1>4 DEF StateDecisionEvent
  <2>2. e[p] = None /\ \A m \in Masters : f[p][m] = None
    BY <1>4 DEF GoodFollow
  <2>3. Qualified(f[p], None) = {}
    BY <2>2 DEF Qualified
  <2> QED
    BY <1>4, <2>1, <2>2, <2>3 DEF CalculateErbest, NextState, IsActive
<1>5. ASSUME NEW p \in Ports, portState[p] # "absent"
      PROVE  portState'[p] # "absent"
  <2>1. \E misread : portState'[p] = NextState(p, erbest'[p], ebest, misread)
    BY DEF StateDecisionEvent
  <2> QED
    BY <1>5, <2>1 DEF NextState, SlaveState
<1>6. ASSUME NEW p \in Ports, IsActive(portState'[p])
      PROVE  \/ erbest'[p] # None
             \/ IsActive(portState[p]) /\ erbest[p] = None
             \/ HasErbest(erbest') # {} /\ OwnBetter(ebest.msg)
  <2>1. PICK misread : portState'[p] = NextState(p, erbest'[p], ebest, misread)
    BY DEF StateDecisionEvent
  <2>2. CASE HasErbest(erbest') = {}
    <3>1. portState[p] # "listening" /\ portState[p] # "absent"
      BY <1>3, <1>6, <2>1, <2>2 DEF NextState, IsActive
    <3>2. IsActive(portState[p])
      BY <3>1 DEF TypeOK, States, IsActive
    <3> QED
      BY <1>1, <3>2 DEF GoodFollow
  <2>3. CASE HasErbest(erbest') # {}
    <3>1. BecomesSlave(p, erbest'[p], ebest)
      BY <1>2, <1>6, <2>1, <2>3 DEF NextState, IsActive
    <3> QED
      BY <1>2, <2>3, <3>1 DEF BecomesSlave, RecommendedState, HasErbest
  <2> QED
    BY <2>2, <2>3
<1>7. ErbestStep
  BY <1>6 DEF ErbestStep
<1>8. ASSUME HasErbest(erbest') # {}
      PROVE  parent' = ebest.msg
  <2>1. ebest.port \in Present
    BY <1>2, <1>4, <1>8 DEF HasErbest, Present
  <2>2. BecomesSlave(ebest.port, erbest'[ebest.port], ebest)
    BY DEF BecomesSlave, RecommendedState
  <2> QED
    BY <1>2, <1>8, <2>1, <2>2 DEF StateDecisionEvent
<1>9. HasErbest(erbest') = {} => parent' = par
  BY <1>3 DEF StateDecisionEvent
<1> QED
  BY <1>4, <1>5, <1>7, <1>8, <1>9

\* An announce message preserves the invariant, and changes the parent only to
\* Ebest.
LEMMA FollowAnnounce ==
  ASSUME FollowInv, NEW p \in Ports, NEW m \in Announce,
         HandleAnnounceMessage(p, m)
  PROVE  /\ AbsentPortsEmpty' /\ ErbestStep /\ ParentStep
<1> DEFINE f == IF IsFromParent(p, m) THEN foreign
                ELSE [foreign EXCEPT ![p] = AddOrUpdateEntry(foreign[p], m)]
           e == UpdatedErbest(p, m)
           par == IF IsFromParent(p, m) THEN m ELSE parent
<1>1. GoodInput(f, e, par) /\ TypeOK /\ GoodInput(foreign, erbest, parent)
  BY AnnounceInput, CurrentInputGood DEF FollowInv, BmcaInv
<1>2. /\ \A q \in Ports : erbest[q] # None => e[q] # None
      /\ \A q \in Ports : q # p => e[q] = erbest[q] /\ f[q] = foreign[q]
      /\ portState[p] # "absent"
  BY <1>1, NoneAssumption DEF UpdatedErbest, GoodInput, HandleAnnounceMessage, Present
<1>3. GoodFollow(f, e)
  BY <1>2 DEF GoodFollow, FollowInv, AbsentPortsEmpty
<1>4. IsFromParent(p, m) => p \in Active /\ parent # None /\ m.src = parent.src
  BY DEF IsFromParent
<1> HIDE DEF f, e, par
<1>5. /\ StateDecisionEvent(f, e, par)
      /\ foreign' = [q \in Ports |-> PurgeEntries(f[q], erbest'[q])]
  BY DEF HandleAnnounceMessage, f, e, par
<1>6. /\ \A q \in Ports : portState[q] = "absent" =>
           portState'[q] = "absent" /\ erbest'[q] = None
      /\ \A q \in Ports : portState[q] # "absent" => portState'[q] # "absent"
      /\ ErbestStep
      /\ HasErbest(erbest') # {} => parent' = DetermineEbest(erbest').msg
      /\ HasErbest(erbest') = {} => parent' = par
      /\ \A q \in Ports : e[q] # None => erbest'[q] # None
  BY <1>1, <1>3, <1>5, FollowDecisionLemma, StateDecisionLemma
<1>7. AbsentPortsEmpty'
  <2>1. ASSUME NEW q \in Ports, portState'[q] = "absent"
        PROVE  erbest'[q] = None /\ \A n \in Masters : f[q][n] = None
    BY <1>3, <1>6, <2>1 DEF GoodFollow
  <2> QED
    BY <1>5, <2>1 DEF PurgeEntries, AbsentPortsEmpty
<1>8. ASSUME HasErbest(erbest') = {}, parent' # parent
      PROVE  /\ \E q \in Active : erbest[q] = None
             /\ parent # None /\ parent' # None /\ parent'.src = parent.src
  <2>1. IsFromParent(p, m) /\ parent' = m
    BY <1>6, <1>8 DEF par
  <2>2. e[p] = None
    BY <1>6, <1>8 DEF HasErbest
  <2>3. erbest[p] = None
    BY <1>2, <2>2
  <2> QED
    BY <1>4, <2>1, <2>3, NoneAssumption
<1> QED
  BY <1>6, <1>7, <1>8 DEF ParentStep

\* The same of the state decision timer.
LEMMA FollowDecisionTimer ==
  ASSUME FollowInv, StateDecisionTimer
  PROVE  /\ AbsentPortsEmpty' /\ ErbestStep /\ ParentStep
<1>1. GoodInput(foreign, erbest, parent) /\ TypeOK
  BY CurrentInputGood DEF FollowInv, BmcaInv
<1>2. GoodFollow(foreign, erbest)
  BY DEF GoodFollow, FollowInv, AbsentPortsEmpty
<1>3. /\ StateDecisionEvent(foreign, erbest, parent)
      /\ foreign' = [p \in Ports |-> IncreaseAge(PurgeEntries(foreign[p], erbest'[p]))]
  BY DEF StateDecisionTimer
<1>4. /\ \A q \in Ports : portState[q] = "absent" =>
           portState'[q] = "absent" /\ erbest'[q] = None
      /\ \A q \in Ports : portState[q] # "absent" => portState'[q] # "absent"
      /\ ErbestStep
      /\ HasErbest(erbest') # {} => parent' = DetermineEbest(erbest').msg
      /\ HasErbest(erbest') = {} => parent' = parent
  BY <1>1, <1>2, <1>3, FollowDecisionLemma
<1>5. AbsentPortsEmpty'
  <2>1. ASSUME NEW q \in Ports, portState'[q] = "absent"
        PROVE  erbest'[q] = None /\ \A n \in Masters : foreign[q][n] = None
    BY <1>2, <1>4, <2>1 DEF GoodFollow
  <2> QED
    BY <1>3, <2>1 DEF PurgeEntries, IncreaseAge, AbsentPortsEmpty
<1> QED
  BY <1>4, <1>5 DEF ParentStep

\* The next-state relation: both facts, for each handler.
LEMMA FollowNext ==
  ASSUME FollowInv, [Next]_bmcaVars
  PROVE  FollowInv' /\ ErbestStep /\ ParentStep
<1>1. BmcaInv'
  BY NextInv DEF FollowInv
<1> DEFINE Goal == AbsentPortsEmpty' /\ ErbestStep /\ ParentStep
<1> USE DEF FollowInv, BmcaInv, TypeOK, AbsentPortsEmpty, ErbestStep, ParentStep
<1>2. ASSUME NEW p \in Ports, AddPort(p) PROVE Goal
  BY <1>2 DEF AddPort, IsActive
<1>3. ASSUME NEW p \in Ports, RemovePort(p) PROVE Goal
  BY <1>3 DEF RemovePort, IsActive
<1>4. ASSUME NEW p \in Ports, NEW m \in Announces[p], HandleAnnounceMessage(p, m)
      PROVE Goal
  <2>1. m \in Announce
    BY <1>4, AnnouncesAssumption
  <2> HIDE DEF FollowInv, BmcaInv, TypeOK, AbsentPortsEmpty, ErbestStep, ParentStep
  <2> QED
    BY <1>4, <2>1, FollowAnnounce
<1>5. ASSUME NEW p \in Ports, AnnounceReceiptTimeout(p) PROVE Goal
  BY <1>5 DEF AnnounceReceiptTimeout, Present, IsActive
<1>6. ASSUME StateDecisionTimer PROVE Goal
  <2> HIDE DEF FollowInv, BmcaInv, TypeOK, AbsentPortsEmpty, ErbestStep, ParentStep
  <2> QED
    BY <1>6, FollowDecisionTimer
<1>7. ASSUME UpdateLocalClock PROVE Goal
  BY <1>7 DEF UpdateLocalClock
<1>8. ASSUME UNCHANGED bmcaVars PROVE Goal
  BY <1>8 DEF bmcaVars
<1>9. Goal
  BY <1>2, <1>3, <1>4, <1>5, <1>6, <1>7, <1>8 DEF Next
<1> QED
  BY <1>1, <1>9

\* No port is there at the start.
LEMMA FollowInit == Init => FollowInv
BY InitInv DEF Init, FollowInv, AbsentPortsEmpty

\* For any ports, masters and ranks, that of the own data set included: a port that
\* follows a master without an Erbest does so because D0 was better than the Ebest
\* of the decision event that made it active.  There is no other way to a decision
\* event that dereferences an empty Ebest.
THEOREM ActivePortInvariance == Spec => ActiveHasErbestUnlessOwnBetter
<1>1. FollowInv /\ [Next]_bmcaVars => FollowInv' /\ [ErbestStep]_bmcaVars
  BY FollowNext
<1> QED
  BY FollowInit, <1>1, PTL DEF Spec, ActiveHasErbestUnlessOwnBetter, ErbestStep

\* For any ports, masters and ranks: the parent data set only changes to the best of
\* the Erbests of all ports, as handle_announce_message has to leave it, or, while no
\* port has an Erbest, to a later message of the same master.
THEOREM ParentIsEbest == Spec => ParentChangesToEbest
<1>1. FollowInv /\ [Next]_bmcaVars => FollowInv' /\ [ParentStep]_bmcaVars
  BY FollowNext
<1> QED
  BY FollowInit, <1>1, PTL DEF Spec, ParentChangesToEbest, ParentStep
=============================================================================
