------------------------------ MODULE MCPasses ------------------------------
(***************************************************************************)
(* A small instance of Passes: a node comes and goes, the port is replaced *)
(* by another and comes back, and the timeout of its listener changes.     *)
(***************************************************************************)
EXTENDS Passes

CONSTANTS n1, n2, a1, a2, s1

MCInternalIP == [n \in Nodes |-> IF n = n1 THEN a1 ELSE a2]
MCExternalIP == [n \in Nodes |-> NoAddr]

MCPort == [proto |-> "TCP", port |-> 80, nodePort |-> 1]

With(ports, nodes, timeout) ==
    [ ports |-> ports, nodes |-> nodes,
      keepClientIP |-> FALSE, secret |-> NoSecret, timeout |-> timeout, subnet |-> s1,
      internal |-> TRUE, saveFloating |-> "no", manageSecurityGroups |-> TRUE ]

MCOther == [proto |-> "TCP", port |-> 81, nodePort |-> 1]
MCSpecs == { With({MCPort}, {n1}, 10), With({MCPort}, {n1, n2}, 20), With({MCOther}, {n1, n2}, 20) }
=============================================================================
