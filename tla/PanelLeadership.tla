--------------------------- MODULE PanelLeadership ---------------------------
(***************************************************************************)
(* What panel failover promises, without voters, leases or time            *)
(* (panel/lib/ha.mjs, "Why there are never two active panels"): at any     *)
(* moment at most one panel node is in office, and office passes from one  *)
(* node to another through a moment in which nobody holds it.              *)
(***************************************************************************)
CONSTANTS Node, None

VARIABLE active

Init == active = None

TakesOffice(n) == active = None /\ active' = n

LeavesOffice == active # None /\ active' = None

Next == LeavesOffice \/ \E n \in Node : TakesOffice(n)

Spec == Init /\ [][Next]_active
=============================================================================
