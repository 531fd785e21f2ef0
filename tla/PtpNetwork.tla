------------------------------ MODULE PtpNetwork ------------------------------
(***************************************************************************)
(* PtpBmca together with the masters of a network: every master sends one  *)
(* announce message per interval, with the next sequence id, to the ports  *)
(* it reaches; links fail and recover, and a master may restart with its   *)
(* sequence ids and another data set.  The masters and the links are the   *)
(* environment, modelled from what Port::handle_announce_message expects.  *)
(***************************************************************************)
EXTENDS PtpBmca, FiniteSets

CONSTANTS
  Networks,      \* the networks to start with: links <<m, p>> for a port p that
                 \* hears master m, and how often links and masters will change
  InitialRank    \* the rank of each master's data set

ASSUME NetworksAssumption ==
  \A network \in Networks : /\ network.links \subseteq Masters \X Ports
                            /\ network.changes \in Nat
ASSUME InitialRankAssumption == InitialRank \in [Masters -> Ranks]

VARIABLES
  used,     \* the ports that the instance is configured with
  seq,      \* the sequence id of each master's current announce message
  rank,     \* the rank of each master's data set
  links,    \* who hears whom
  due,      \* the announce messages of this interval still to be delivered
  silence,  \* intervals since port p last heard master m, up to SilenceBound
  changes   \* the number of changes to come

envVars == <<used, seq, rank, links, due, silence, changes>>
netVars == <<bmcaVars, envVars>>

SilenceBound == MaxTimeout + TimeWindow + 2
FreshBound   == MaxTimeout + TimeWindow - Threshold + 1

Message(m) == [src |-> m, seq |-> seq[m], rank |-> rank[m]]

NetworkInit ==
  /\ Init
  /\ \E network \in Networks :
       /\ links = network.links
       /\ used = {l[2] : l \in network.links}
       /\ changes = network.changes
  /\ seq = [m \in Masters |-> 0]
  /\ rank = InitialRank
  /\ due = {}
  /\ silence = [p \in Ports |-> [m \in Masters |-> SilenceBound]]

StartPort(p) == p \in used /\ AddPort(p) /\ UNCHANGED envVars

Deliver(m, p) ==
  /\ <<m, p>> \in due
  /\ HandleAnnounceMessage(p, Message(m))
  /\ due' = due \ {<<m, p>>}
  /\ silence' = [silence EXCEPT ![p][m] = 0]
  /\ UNCHANGED <<used, seq, rank, links, changes>>

Timeout(p) == AnnounceReceiptTimeout(p) /\ UNCHANGED envVars

\* The end of an announce interval: the state decision timer expires, and the
\* masters send their next messages.
NextInterval ==
  /\ due = {}
  /\ StateDecisionTimer
  /\ seq' = [m \in Masters |-> Increment(SeqMod, seq[m], 1)]
  /\ due' = {l \in links : l[2] \in Present}
  /\ silence' = [p \in Ports |-> [m \in Masters |->
                   Least(silence[p][m] + 1, SilenceBound)]]
  /\ UNCHANGED <<used, rank, links, changes>>

LinkChange(m, p) ==
  /\ p \in used
  /\ changes > 0
  /\ changes' = changes - 1
  /\ links' = IF <<m, p>> \in links THEN links \ {<<m, p>>} ELSE links \cup {<<m, p>>}
  /\ due' = due \ {<<m, p>>}
  /\ UNCHANGED <<bmcaVars, used, seq, rank, silence>>

\* update_ports without a port, which is then added again.
StopPort(p) ==
  /\ changes > 0
  /\ RemovePort(p)
  /\ changes' = changes - 1
  /\ due' = {l \in due : l[2] # p}
  /\ UNCHANGED <<used, seq, rank, links, silence>>

\* Syncs of the parent calibrate the clock, or make it step and lose the calibration.
Calibrate ==
  /\ changes > 0
  /\ parent # None /\ \E p \in Active : <<parent.src, p>> \in links
  /\ UpdateLocalClock
  /\ changes' = changes - 1
  /\ UNCHANGED <<used, seq, rank, links, due, silence>>

MasterRestart(m) ==
  /\ changes > 0
  /\ due = {}
  /\ changes' = changes - 1
  /\ seq' = [seq EXCEPT ![m] = 0]
  /\ \E r \in Ranks : rank' = [rank EXCEPT ![m] = r]
  /\ UNCHANGED <<bmcaVars, used, links, due, silence>>

NetworkNext ==
  \/ \E p \in Ports : StartPort(p)
  \/ \E m \in Masters, p \in Ports : Deliver(m, p)
  \/ \E p \in Ports : Timeout(p)
  \/ NextInterval
  \/ \E m \in Masters, p \in Ports : LinkChange(m, p)
  \/ \E m \in Masters : MasterRestart(m)
  \/ \E p \in Ports : StopPort(p)
  \/ Calibrate

\* The io_context runs every handler that is ready: a port is started, a message
\* that arrived is handled, and the timers that are always scheduled expire.
NetworkFairness ==
  /\ \A p \in Ports : WF_netVars(StartPort(p))
  /\ \A m \in Masters, p \in Ports : WF_netVars(Deliver(m, p))
  /\ \A p \in Ports : WF_netVars(timer[p] = MaxTimeout /\ Timeout(p))
  /\ WF_netVars(NextInterval)

NetworkSpec == NetworkInit /\ [][NetworkNext]_netVars /\ NetworkFairness

-----------------------------------------------------------------------------

\* A port forgets a master that fell silent: an Erbest was heard within the
\* longest announce receipt timeout.  The timer is the only thing that clears
\* Erbest, other masters' messages must not keep it alive, and the entry that is
\* left in the foreign master list must not elect the silent master again.  With a
\* second port it does not hold: the messages of a parent that both ports hear keep
\* the timer of a port alive whose Erbest is another master.
ErbestIsFresh ==
  Cardinality(used) = 1 => \A p \in Ports : erbest[p] # None => silence[p][erbest[p].src] <= FreshBound

Reached(m) == \E p \in Ports : <<m, p>> \in links

BestReached(m) ==
  /\ Reached(m)
  /\ \A n \in Masters \ {m} : Reached(n) =>
       rank[m] < rank[n] \/ (rank[m] = rank[n] /\ m < n)

\* Once the network is stable, and however it got there, a port follows the best
\* master that is heard and stays with it; without a master all ports listen.
Converges ==
  <>[](IF \E m \in Masters : Reached(m)
       THEN /\ Active # {}
            /\ BestReached(parent.src)
            /\ parent.rank = rank[parent.src]
       ELSE Active = {})
=============================================================================
