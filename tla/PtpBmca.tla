------------------------------- MODULE PtpBmca -------------------------------
(***************************************************************************)
(* The best master clock algorithm of rav::ptp: the foreign master list,   *)
(* the Erbest and the state of every port, the parent data set that the    *)
(* ports share through rav::ptp::Instance, the announce receipt timer of   *)
(* every port and the state decision timer of the instance.                *)
(*                                                                         *)
(* Everything runs on one io_context thread, so that a handler (a received *)
(* announce message, an expired timer, a call of update_ports) is one      *)
(* step.  Instance constructs DefaultDs(true): the instance is always      *)
(* slave-only with clock class 255, so that the branch for clock classes   *)
(* 1..127 and the master, pre-master and passive states are never reached. *)
(*                                                                         *)
(* Time is counted in announce intervals, the period of the state decision *)
(* timer.  An announce message is reduced to its source, its sequence id   *)
(* and the rank of the data set it carries: a smaller rank is a better     *)
(* grandmaster and an equal rank the same grandmaster at the same distance.*)
(***************************************************************************)
EXTENDS Numbers

CONSTANTS
  Ports,       \* the port numbers update_ports may use
  Masters,     \* the clock identities of the foreign masters
  Ranks,       \* the ranks of the data sets they announce
  OwnRank,     \* the rank of this instance's own data set, D0
  SeqMod,      \* 2^16 in the code
  MinTimeout,  \* an announce receipt timeout lies between these two
  MaxTimeout,  \*   numbers of state decision timer periods
  Announces,   \* the announce messages that may arrive on each port
  None         \* std::nullopt

ASSUME PortsAssumption == Ports \subseteq Nat \ {0}
ASSUME MastersAssumption == Masters \subseteq Nat
ASSUME RanksAssumption == Ranks \subseteq Nat /\ OwnRank \in Nat \ Ranks
ASSUME SeqModAssumption == SeqMod \in Nat /\ SeqMod > 2
ASSUME TimeoutAssumption ==
  MinTimeout \in Nat /\ MaxTimeout \in Nat /\ MinTimeout <= MaxTimeout

VARIABLES
  portState,   \* port_ds_.port_state of each port, "absent" for no such port
  erbest,      \* Port::erbest_
  foreign,     \* Port::foreign_master_list_, by source port identity
  timer,       \* periods since announce_receipt_timeout_timer_ was scheduled
  parent,      \* the message parent_ds_ was last copied from, None for own
  calibrated   \* Instance::local_clock_.is_calibrated()

portVars == <<portState, erbest, foreign, timer>>
bmcaVars == <<portState, erbest, foreign, timer, parent, calibrated>>

TimeWindow == 4      \* k_foreign_master_time_window
Threshold  == 2      \* k_foreign_master_threshold

\* The age of an entry is compared with the window only, and the number of
\* messages with numbers up to it: beyond these bounds they make no difference.
AgeBound   == TimeWindow + 1
CountBound == TimeWindow

States == {"absent", "listening", "uncalibrated", "slave"}

Announce == [src : Masters, seq : Values(SeqMod), rank : Ranks]

BestAnnounceMessage == [msg : Announce, port : Ports]

Entry == [count : 0..CountBound, recent : Announce \cup {None}, age : 0..AgeBound]

ASSUME AnnouncesAssumption == Announces \in [Ports -> SUBSET Announce]
ASSUME NoneAssumption ==
  None \notin Announce /\ None \notin Entry /\ None \notin BestAnnounceMessage

TypeOK ==
  /\ portState \in [Ports -> States]
  /\ erbest \in [Ports -> Announce \cup {None}]
  /\ foreign \in [Ports -> [Masters -> Entry \cup {None}]]
  /\ timer \in [Ports -> 0..MaxTimeout]
  /\ parent \in Announce \cup {None}
  /\ calibrated \in BOOLEAN

Present == {p \in Ports : portState[p] # "absent"}
IsActive(state) == state \in {"uncalibrated", "slave"}
Active == {p \in Ports : IsActive(portState[p])}

Least(a, b) == IF a <= b THEN a ELSE b

-----------------------------------------------------------------------------
(* ComparisonDataSet::result, in the order of the enum, and compare for    *)
(* announce messages a and b received on ports p and q; the comparison of  *)
(* the full data sets is in PtpDataSet.                                    *)

Worse            == 0
WorseByTopology  == 1
Error2           == 3
BetterByTopology == 4
Better           == 5

Compare(a, p, b, q) ==
  IF a.rank # b.rank THEN (IF a.rank < b.rank THEN Better ELSE Worse)
  ELSE IF a.src # b.src
       THEN (IF a.src < b.src THEN BetterByTopology ELSE WorseByTopology)
  ELSE IF p # q THEN (IF p < q THEN BetterByTopology ELSE WorseByTopology)
  ELSE Error2

OwnBetter(m) == OwnRank < m.rank

-----------------------------------------------------------------------------
(* ForeignMasterList: an entry or None for every foreign master.           *)

NewEntry == [count |-> 0, recent |-> None, age |-> 0]

AddOrUpdateEntry(list, m) ==
  LET e == list[m.src] IN
  IF e = None THEN [list EXCEPT ![m.src] = NewEntry]
  ELSE IF e.recent # None /\ IsOlderThan(SeqMod, m.seq, e.recent.seq) THEN list
  ELSE [list EXCEPT ![m.src] = [count |-> Least(e.count + 1, CountBound),
                                recent |-> m, age |-> 0]]

\* Mutant of AgedEntry: the count shrinks one interval late.
AgedEntryLate(e) ==
  [count |-> IF e.age <= TimeWindow THEN Least(e.count, TimeWindow - e.age) ELSE e.count,
   recent |-> e.recent, age |-> Least(e.age + 1, AgeBound)]

\* max_num_messages_in_window is a size_t: past the window it wraps to a huge
\* number and the count is left alone.
AgedEntry(e) ==
  LET age == Least(e.age + 1, AgeBound) IN
  [count  |-> IF age <= TimeWindow THEN Least(e.count, TimeWindow - age) ELSE e.count,
   recent |-> e.recent,
   age    |-> age]

IncreaseAge(list) ==
  [m \in Masters |-> IF list[m] = None THEN None ELSE AgedEntry(list[m])]

\* Mutant of IsPurged: the entry of the new Erbest is not kept.
IsPurgedBest(e, m, best) == e.age > TimeWindow \/ e.count >= Threshold

IsPurged(e, m, best) ==
  /\ ~(best # None /\ best.src = m)
  /\ e.age > TimeWindow \/ e.count >= Threshold

PurgeEntries(list, best) ==
  [m \in Masters |-> IF list[m] # None /\ IsPurged(list[m], m, best)
                     THEN None ELSE list[m]]

-----------------------------------------------------------------------------
(* Port::calculate_erbest and Port::determine_ebest                        *)

IsBest(m, S, p) == \A n \in S \ {m} : Compare(m, p, n, p) >= BetterByTopology

BestOf(S, p) == CHOOSE m \in S : (\E x \in S : IsBest(x, S, p)) => IsBest(m, S, p)

Qualified(list, previous) ==
  {list[m].recent : m \in {n \in Masters : /\ list[n] # None
                                           /\ list[n].recent # None
                                           /\ list[n].count >= Threshold
                                           /\ ~(previous # None /\ previous.src = n)}}

CalculateErbest(p, state, previous, list) ==
  LET included   == IF IsActive(state) THEN previous ELSE None
      candidates == Qualified(list, included)
      best       == BestOf(candidates, p)
  IN  IF \/ candidates = {}
         \/ included # None /\ Compare(best, p, included, p) < BetterByTopology
      THEN previous ELSE best

HasErbest(e) == {p \in Ports : e[p] # None}

IsBestPort(p, e) ==
  \A q \in HasErbest(e) \ {p} : Compare(e[p], p, e[q], q) >= BetterByTopology

BestPort(e) ==
  CHOOSE p \in HasErbest(e) : (\E x \in HasErbest(e) : IsBestPort(x, e)) => IsBestPort(p, e)

DetermineEbest(e) ==
  IF HasErbest(e) = {} THEN None ELSE [msg |-> e[BestPort(e)], port |-> BestPort(e)]

-----------------------------------------------------------------------------
(* Port::apply_state_decision_algorithm for every port.                    *)

RecommendedState(p, best, ebest) ==
  IF OwnBetter(ebest.msg) THEN "m2"
  ELSE IF ebest.port = p THEN "s1"
  ELSE IF best = None \/ Compare(ebest.msg, ebest.port, best, p) = BetterByTopology
       THEN "p2"
  ELSE "m3"

\* A slave-only instance turns the master recommendations m2 and m3 into s1.
BecomesSlave(p, best, ebest) == RecommendedState(p, best, ebest) \in {"s1", "m2", "m3"}

\* get_state_for_decision_code(s1)
SlaveState == IF calibrated THEN "slave" ELSE "uncalibrated"

\* Without an Ebest a port that is not listening dereferences the empty
\* optional: misread is the set of ports that get a slave recommendation out of
\* that memory.
NextState(p, best, ebest, misread) ==
  IF portState[p] = "absent" THEN "absent"
  ELSE IF ebest = None
       THEN IF portState[p] # "listening" /\ p \in misread THEN SlaveState ELSE "listening"
  ELSE IF BecomesSlave(p, best, ebest) THEN SlaveState
  ELSE "listening"

\* Mutant of StateDecisionEvent: a port makes its own Erbest the parent.
StateDecisionEventErbest(f, e, par) ==
  /\ erbest' = [p \in Ports |-> CalculateErbest(p, portState[p], e[p], f[p])]
  /\ LET ebest == DetermineEbest(erbest') IN
     /\ portState' = [p \in Ports |-> NextState(p, erbest'[p], ebest, {})]
     /\ LET slaves == {p \in Present : ebest # None /\ BecomesSlave(p, erbest'[p], ebest)}
        IN IF slaves = {} THEN parent' = par
           ELSE \E last \in slaves : parent' = erbest'[last]

\* Instance::execute_state_decision_event on foreign master lists f, previous
\* Erbests e and parent par.  set_recommended_state(s1, ...) makes Ebest the
\* parent; set_recommended_state for p2 changes nothing.
StateDecisionEvent(f, e, par) ==
  /\ erbest' = [p \in Ports |-> CalculateErbest(p, portState[p], e[p], f[p])]
  /\ LET ebest == DetermineEbest(erbest') IN
     /\ \E misread \in IF ebest = None THEN SUBSET Ports ELSE {{}} :
          portState' = [p \in Ports |-> NextState(p, erbest'[p], ebest, misread)]
     /\ parent' = IF /\ ebest # None
                     /\ \E p \in Present : BecomesSlave(p, erbest'[p], ebest)
                  THEN ebest.msg ELSE par

-----------------------------------------------------------------------------
(* The handlers.                                                           *)

Init ==
  /\ portState = [p \in Ports |-> "absent"]
  /\ erbest = [p \in Ports |-> None]
  /\ foreign = [p \in Ports |-> [m \in Masters |-> None]]
  /\ timer = [p \in Ports |-> 0]
  /\ parent = None
  /\ calibrated = FALSE

\* Instance::add_port: the constructor of Port leaves it listening.
AddPort(p) ==
  /\ portState[p] = "absent"
  /\ portState' = [portState EXCEPT ![p] = "listening"]
  /\ timer' = [timer EXCEPT ![p] = 0]
  /\ UNCHANGED <<erbest, foreign, parent, calibrated>>

\* Instance::remove_port destroys the port; parent_ds_ stays.
RemovePort(p) ==
  /\ p \in Present
  /\ portState' = [portState EXCEPT ![p] = "absent"]
  /\ erbest' = [erbest EXCEPT ![p] = None]
  /\ foreign' = [foreign EXCEPT ![p] = [m \in Masters |-> None]]
  /\ timer' = [timer EXCEPT ![p] = 0]
  /\ UNCHANGED <<parent, calibrated>>

IsFromParent(p, m) == p \in Active /\ parent # None /\ m.src = parent.src

\* Mutant of UpdatedErbest: the previous Erbest is used as it was.
UpdatedErbestNever(p, m) == erbest

\* 9.3.2.3.c: the previous Erbest is updated with newer messages.
UpdatedErbest(p, m) ==
  IF /\ p \in Active
     /\ erbest[p] # None /\ erbest[p].src = m.src
     /\ IsGreater(SeqMod, m.seq, erbest[p].seq)
  THEN [erbest EXCEPT ![p] = m] ELSE erbest

\* Mutant of HandleAnnounceMessage: every announce message of an active port
\* schedules the receipt timer, not only those of the parent.
HandleAnnounceMessageReschedules(p, m) ==
  LET fromParent == IsFromParent(p, m)
      f == IF fromParent THEN foreign
           ELSE [foreign EXCEPT ![p] = AddOrUpdateEntry(foreign[p], m)]
  IN  /\ p \in Present
      /\ StateDecisionEvent(f, UpdatedErbest(p, m), IF fromParent THEN m ELSE parent)
      /\ foreign' = [q \in Ports |-> PurgeEntries(f[q], erbest'[q])]
      /\ timer' = [timer EXCEPT ![p] = 0]
      /\ UNCHANGED calibrated

HandleAnnounceMessage(p, m) ==
  LET fromParent == IsFromParent(p, m)
      f == IF fromParent THEN foreign
           ELSE [foreign EXCEPT ![p] = AddOrUpdateEntry(foreign[p], m)]
  IN  /\ p \in Present
      /\ StateDecisionEvent(f, UpdatedErbest(p, m), IF fromParent THEN m ELSE parent)
      /\ foreign' = [q \in Ports |-> PurgeEntries(f[q], erbest'[q])]
      /\ timer' = [q \in Ports |-> IF \/ portState'[q] # portState[q]
                                      \/ q = p /\ fromParent
                                   THEN 0 ELSE timer[q]]
      /\ UNCHANGED calibrated

\* Mutant of AnnounceReceiptTimeout: the port keeps its state.
AnnounceReceiptTimeoutKeepsState(p) ==
  /\ p \in Present
  /\ timer[p] >= MinTimeout
  /\ erbest' = [erbest EXCEPT ![p] = None]
  /\ timer' = [timer EXCEPT ![p] = 0]
  /\ UNCHANGED <<portState, foreign, parent, calibrated>>

\* trigger_announce_receipt_timeout_expires_event; both set_state and the
\* timer's own handler schedule the timer again.
AnnounceReceiptTimeout(p) ==
  /\ p \in Present
  /\ timer[p] >= MinTimeout
  /\ erbest' = [erbest EXCEPT ![p] = None]
  /\ portState' = [portState EXCEPT ![p] = "listening"]
  /\ timer' = [timer EXCEPT ![p] = 0]
  /\ UNCHANGED <<foreign, parent, calibrated>>

\* The handler of state_decision_timer_, which runs while there are ports.  A
\* receipt timer that is due fires before another period ends.
StateDecisionTimer ==
  /\ Present # {}
  /\ \A p \in Present : timer[p] < MaxTimeout
  /\ StateDecisionEvent(foreign, erbest, parent)
  /\ foreign' = [p \in Ports |-> IncreaseAge(PurgeEntries(foreign[p], erbest'[p]))]
  /\ timer' = [p \in Ports |-> IF portState'[p] # portState[p] \/ p \notin Present
                               THEN 0 ELSE timer[p] + 1]
  /\ UNCHANGED calibrated

\* Instance::update_local_ptp_clock, called for sync and follow-up messages of
\* an active port, calibrates the local clock or loses the calibration.
UpdateLocalClock ==
  /\ Active # {}
  /\ calibrated' = ~calibrated
  /\ UNCHANGED <<portState, erbest, foreign, timer, parent>>

Next ==
  \/ \E p \in Ports : AddPort(p)
  \/ \E p \in Ports : RemovePort(p)
  \/ \E p \in Ports : \E m \in Announces[p] : HandleAnnounceMessage(p, m)
  \/ \E p \in Ports : AnnounceReceiptTimeout(p)
  \/ StateDecisionTimer
  \/ UpdateLocalClock

Spec == Init /\ [][Next]_bmcaVars

-----------------------------------------------------------------------------
(* Properties.                                                             *)

\* An Erbest comes from a master that the port's foreign master list still
\* holds: what calculate_erbest asserts before it recalculates Erbest, and what
\* purge_entries has to preserve when it drops the losers and the old entries.
ErbestInForeignMasterList ==
  \A p \in Ports : erbest[p] # None => foreign[p][erbest[p].src] # None

\* An entry of the foreign master list describes its own master, and counts no
\* more messages than fit in the part of the window that is left: increase_age
\* subtracts without a check, and the difference must never enlarge a count.
EntriesDescribeTheWindow ==
  \A p \in Ports, m \in Masters :
    LET e == foreign[p][m] IN
    e # None =>
      /\ e.recent # None => e.recent.src = m
      /\ e.recent = None => e.count = 0
      /\ e.age > 0 => e.count + Least(e.age, TimeWindow) <= TimeWindow

\* What calculate_erbest asserts and what increase_age subtracts can be relied upon.
ForeignMastersAreConsistent == ErbestInForeignMasterList /\ EntriesDescribeTheWindow

\* The decision event dereferences Ebest for every port that is not listening, so
\* a port that follows a master needs an Erbest.  It is not always so: a slave-only
\* instance whose own data set is better than Ebest turns m2 into s1 for every port,
\* those without an Erbest included, and once the ports that have one time out, the
\* event reads an empty Ebest.  That is the only way: a step leaves a port active and
\* without an Erbest only if it was so before, or if D0 beats the Ebest of the step.
ActiveHasErbestUnlessOwnBetter ==
  [][\A p \in Ports :
       IsActive(portState'[p]) /\ erbest'[p] = None =>
         \/ IsActive(portState[p]) /\ erbest[p] = None
         \/ HasErbest(erbest') # {} /\ OwnBetter(DetermineEbest(erbest').msg)]_bmcaVars

\* The parent data set only changes to the best of the Erbests of all ports,
\* although the announce handler first copies the parent's message into it.  Where
\* no port has an Erbest but one that D0 made active, the parent's next message is
\* all that it changes to.
ParentChangesToEbest ==
  [][parent' # parent =>
       \/ HasErbest(erbest') # {} /\ parent' = DetermineEbest(erbest').msg
       \/ /\ HasErbest(erbest') = {}
          /\ \E p \in Active : erbest[p] = None
          /\ parent # None /\ parent' # None /\ parent'.src = parent.src]_bmcaVars
=============================================================================
