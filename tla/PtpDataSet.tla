----------------------------- MODULE PtpDataSet -----------------------------
(***************************************************************************)
(* rav::ptp::ComparisonDataSet and the scan with which calculate_erbest    *)
(* and determine_ebest look for the best of several data sets: the first   *)
(* data set is the best one, and every later one takes its place when it   *)
(* compares as better or better by topology.  The order of the scan is the *)
(* order in which masters or ports were added, so that any order may occur.*)
(*                                                                         *)
(* A clock identity is an integer.  The quality of a grandmaster is the    *)
(* sequence of the fields that compare looks at one after the other:       *)
(* priority1, class, accuracy, variance, priority2.                        *)
(***************************************************************************)
EXTENDS Integers, FiniteSets

CONSTANTS
  Clocks,     \* clock identities
  Qualities,  \* the qualities grandmasters announce
  Steps,      \* values of steps_removed
  PortNumbers,
  Self,       \* the clock identity of this instance
  MaxScanned, \* the number of data sets to scan
  None

Fields == 1..5

ASSUME ClocksAssumption == Clocks \subseteq Int /\ Self \in Int \ Clocks
ASSUME QualitiesAssumption == Qualities \subseteq [Fields -> Nat]
ASSUME StepsAssumption == Steps \subseteq Nat
ASSUME PortNumbersAssumption == PortNumbers \subseteq Nat
ASSUME MaxScannedAssumption == MaxScanned \in Nat

\* The data sets of announce messages of other instances; the receiver's clock
\* identity is always Self, only its port number differs.
DataSet == [gm : Clocks, quality : Qualities, steps : Steps,
            sender : Clocks, port : PortNumbers]

ASSUME NoDataSetAssumption == None \notin DataSet

-----------------------------------------------------------------------------

Worse            == 0
WorseByTopology  == 1
Error1           == 2
Error2           == 3
BetterByTopology == 4
Better           == 5

Results == {Worse, WorseByTopology, Error1, Error2, BetterByTopology, Better}

\* Some field is smaller and all fields before it are equal.
QualityLess(p, q) ==
  \E i \in Fields : p[i] < q[i] /\ \A j \in Fields : j < i => p[j] = q[j]

\* Different grandmasters: a smaller quality is better, then a larger identity.
CompareQuality(a, b) ==
  IF QualityLess(a.quality, b.quality) THEN Better
  ELSE IF QualityLess(b.quality, a.quality) THEN Worse
  ELSE IF a.gm > b.gm THEN Better ELSE Worse

\* The data set that is one step further away: worse, or worse by topology when
\* the sender's identity is smaller than the receiver's.
FurtherAway(far) ==
  IF Self < far.sender THEN Worse
  ELSE IF Self > far.sender THEN WorseByTopology ELSE Error1

Opposite(r) == IF r \in {Error1, Error2} THEN r ELSE Better - r

CompareTopology(a, b) ==
  IF a.steps > b.steps + 1 THEN Worse
  ELSE IF a.steps + 1 < b.steps THEN Better
  ELSE IF a.steps > b.steps THEN FurtherAway(a)
  ELSE IF a.steps < b.steps THEN Opposite(FurtherAway(b))
  ELSE IF a.sender # b.sender
       THEN (IF a.sender < b.sender THEN BetterByTopology ELSE WorseByTopology)
  ELSE IF a.port # b.port
       THEN (IF a.port < b.port THEN BetterByTopology ELSE WorseByTopology)
  ELSE Error2

\* Mutant of compare: the identities of the grandmasters are never looked at.
CompareByQuality(a, b) ==
  IF QualityLess(a.quality, b.quality) THEN Better
  ELSE IF QualityLess(b.quality, a.quality) THEN Worse
  ELSE CompareTopology(a, b)

\* ComparisonDataSet::compare
Compare(a, b) == IF a.gm = b.gm THEN CompareTopology(a, b) ELSE CompareQuality(a, b)

IsBetter(a, b) == Compare(a, b) >= BetterByTopology

-----------------------------------------------------------------------------
(* The scan.                                                               *)

VARIABLES
  scanned,  \* the data sets looked at so far
  best      \* the best of them, None before the first

vars == <<scanned, best>>

\* Masters announce their grandmaster's quality faithfully: two data sets of
\* the same grandmaster agree on it.
Agrees(d, S) == \A s \in S : s.gm = d.gm => s.quality = d.quality

Init == scanned = {} /\ best = None

Scan(d) ==
  /\ best' = IF best = None \/ IsBetter(d, best) THEN d ELSE best
  /\ scanned' = scanned \cup {d}

Next ==
  /\ Cardinality(scanned) < MaxScanned
  /\ \E d \in DataSet \ scanned : Agrees(d, scanned) /\ Scan(d)

Spec == Init /\ [][Next]_vars

TypeOK == scanned \subseteq DataSet /\ best \in scanned \cup {None}

\* Whatever the order of the scan, its result is better than all other data
\* sets, so that two ports or two instances that hear the same masters agree.
BestOfAll == \A d \in scanned \ {best} : IsBetter(best, d)

\* Comparing two data sets the other way around gives the opposite result; only
\* a data set and itself compare as an error.
CompareIsAntisymmetric ==
  \A a, b \in scanned :
    /\ Compare(b, a) = Opposite(Compare(a, b))
    /\ Compare(a, b) \in {Error1, Error2} => a = b
=============================================================================
