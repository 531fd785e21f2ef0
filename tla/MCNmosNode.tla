----------------------------- MODULE MCNmosNode -----------------------------
(***************************************************************************)
(* A node with one device and one sender, which is added later.            *)
(***************************************************************************)
EXTENDS NmosNode, TLC

CONSTANTS device, sender

OneDevice == sender :> device
FewEvents == [edits |-> 1, configurations |-> 2, faults |-> 1]
=============================================================================
