---------------------------- MODULE MCPtpNetwork ----------------------------
(* Instances of PtpNetwork for TLC.                                         *)
EXTENDS PtpNetwork

AnyMessage == [p \in Ports |-> Announce]

\* One port that hears both masters; two ports, each with a master of its own; two
\* ports that hear one master, whose data set is worse than D0.
OnePort == [links |-> {<<1, 1>>, <<2, 1>>}, changes |-> 2]
TwoPorts == [links |-> {<<2, 1>>, <<1, 2>>}, changes |-> 1]
SameMaster == [links |-> {<<1, 1>>, <<1, 2>>}, changes |-> 1]
OneOrTwoPorts == {OnePort, TwoPorts, SameMaster}

WorseFirst == [m \in Masters |-> IF m = 1 THEN 3 ELSE 1]
=============================================================================
