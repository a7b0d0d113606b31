---------------------------- MODULE MCNodeStatus ----------------------------
(* The interfaces and jiffies of NodeStatus, for TLC.                      *)
EXTENDS NodeStatus
CONSTANTS e, f
IdleMoves == {[total |-> 0, idle |-> 0], [total |-> 2, idle |-> 1], [total |-> 1, idle |-> -1]}
=============================================================================
