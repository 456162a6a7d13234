----------------------------- MODULE MCLbaasV2 -----------------------------
(***************************************************************************)
(* Small instances of LbaasV2.  Each MC...Specs is the set of requests a   *)
(* run lets the user switch between.                                       *)
(***************************************************************************)
EXTENDS LbaasV2

CONSTANTS n1, n2, n3, a1, a2, s1, sec1, sec2, f1, f2

(* n1 is reached by its internal address, n2 only by its external one, n3  *)
(* by none.                                                                *)
MCInternalIP == [n \in Nodes |-> IF n = n1 THEN a1 ELSE NoAddr]
MCExternalIP == [n \in Nodes |-> IF n = n2 THEN a2 ELSE NoAddr]

Tcp80 == [proto |-> "TCP", port |-> 80, nodePort |-> 1]
Udp81 == [proto |-> "UDP", port |-> 81, nodePort |-> 2]
Sctp80 == [proto |-> "SCTP", port |-> 80, nodePort |-> 2]
Unallocated80 == [proto |-> "TCP", port |-> 80, nodePort |-> 0]

Base ==
    [ ports |-> {Tcp80}, nodes |-> {n1},
      keepClientIP |-> FALSE, secret |-> NoSecret, timeout |-> Unset, subnet |-> s1,
      internal |-> TRUE, saveFloating |-> "no", manageSecurityGroups |-> TRUE ]

AllEdits == Specs \X Specs

(* Ports come and go, nodes come and go, two ports share one listener, and *)
(* one has no node port yet.                                               *)
PortsSpecs ==
    { [Base EXCEPT !.ports = {Tcp80, Udp81}],
      [Base EXCEPT !.ports = {Tcp80, Sctp80}],
      [Base EXCEPT !.ports = {Unallocated80}],
      [Base EXCEPT !.ports = {Udp81}, !.nodes = {n1, n2}] }

(* One port as HTTP and as TLS with one secret or another, its timeout     *)
(* malformed, set, changed and removed; and a request that is refused.     *)
(* Security groups are not managed.                                        *)
Unguarded == [Base EXCEPT !.manageSecurityGroups = FALSE]

ModesSpecs ==
    { [Unguarded EXCEPT !.keepClientIP = TRUE, !.timeout = Malformed],
      [Unguarded EXCEPT !.secret = sec1, !.timeout = 20],
      [Unguarded EXCEPT !.secret = sec2, !.keepClientIP = TRUE],
      [Unguarded EXCEPT !.secret = sec2, !.timeout = 10],
      [Unguarded EXCEPT !.nodes = {}] }

(* A Service changes its ports and nodes, or its modes.                    *)
MCServeSpecs == PortsSpecs \cup ModesSpecs
MCServeEdits == (PortsSpecs \X PortsSpecs) \cup (ModesSpecs \X ModesSpecs)

(* External and internal, nodes coming and going, the address saved or not,*)
(* no subnet, a save-floating annotation that is not a boolean.            *)
PlacedSpecs ==
    { [Base EXCEPT !.internal = FALSE],
      [Base EXCEPT !.internal = FALSE, !.saveFloating = "yes", !.nodes = {n1, n2}],
      Base,
      [Base EXCEPT !.subnet = NoSubnet, !.saveFloating = "invalid"] }

(* A Service whose port has no node port yet, one whose node has no usable *)
(* address: both may become plain.                                         *)
UnservableSpecs ==
    { [Base EXCEPT !.ports = {Unallocated80}],
      [Base EXCEPT !.internal = FALSE, !.nodes = {n1, n3}] }

MCAddressSpecs == PlacedSpecs \cup UnservableSpecs
MCAddressEdits ==
    (PlacedSpecs \X PlacedSpecs) \cup (UnservableSpecs \X {Base})

(* One external Service.                                                   *)
MCOneSpec == { [Base EXCEPT !.internal = FALSE] }

(* A node that is added and removed again.                                 *)
MCNodeSpecs == { Unguarded, [Unguarded EXCEPT !.nodes = {n1, n2}] }
=============================================================================
