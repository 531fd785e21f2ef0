----------------------------- MODULE MCRtpLink -----------------------------
(***************************************************************************)
(* Instances of RtpLink for TLC: each scenario lets one part do all it may *)
(* and keeps the others simple.                                            *)
(***************************************************************************)
EXTENDS RtpLink

\* The sender's application cuts the audio in any way.
AnyInput ==
  [live |-> TRUE, sends |-> {1, 4}, gaps |-> {0, 2}, maxTs |-> 42, arrivals |-> <<0, 0>>,
   reads |-> {2}, back |-> 0, ahead |-> 0, delays |-> {NoTime}, silences |-> FALSE]

\* Packets of both streams in any order.
Redundant ==
  [live |-> TRUE, sends |-> {4}, gaps |-> {0}, maxTs |-> 36, arrivals |-> <<2, 2>>,
   reads |-> {3}, back |-> 0, ahead |-> 0, delays |-> {NoTime}, silences |-> FALSE]

\* One stream, read from any time on.
AnyReading ==
  [live |-> FALSE, sends |-> {5}, gaps |-> {0}, maxTs |-> 38, arrivals |-> <<3, 0>>,
   reads |-> {1, 3}, back |-> 1, ahead |-> 2, delays |-> {NoTime}, silences |-> TRUE]

\* One stream, of which anything may be lost, repeated or overtaken.
AnyOrder ==
  [live |-> FALSE, sends |-> {6}, gaps |-> {0}, maxTs |-> 40, arrivals |-> <<4, 0>>,
   reads |-> {3}, back |-> 0, ahead |-> 0, delays |-> {NoTime, 1}, silences |-> FALSE]

AllScenarios == {AnyInput, Redundant, AnyReading, AnyOrder}

\* Timestamps whose position in bytes does not fit in uint32_t.
LateTimestamps == {[AnyOrder EXCEPT !.maxTs = 27, !.delays = {4}]}
=============================================================================
