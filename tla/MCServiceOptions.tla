-------------------------- MODULE MCServiceOptions --------------------------
(***************************************************************************)
(* Small instances of ServiceOptions: nodes in two subnets and one whose   *)
(* subnet is not found, and classes that are external, internal, in a      *)
(* floating subnet, and empty.                                             *)
(***************************************************************************)
EXTENDS ServiceOptions

CONSTANTS sA, sB, sC, net1, f1, f2, n1, n2, n3, p1, p2

MCSubnetOf == [n \in Nodes |-> CASE n = n1 -> sA [] n = n2 -> sB [] n = n3 -> Empty]

Class(network, subnet, floating, floatingSubnet) ==
    [network |-> network, subnet |-> subnet, floating |-> floating, floatingSubnet |-> floatingSubnet]

MCClasses ==
    [external |-> Class(Empty, Empty, f2, FALSE), internal |-> Class(net1, sC, Empty, FALSE),
     pool |-> Class(Empty, sC, Empty, TRUE), empty |-> Class(net1, Empty, Empty, FALSE)]

Config(network, subnet, floating) ==
    [network |-> network, subnet |-> subnet, floating |-> floating, internal |-> FALSE,
     octavia |-> TRUE, manageGroups |-> TRUE]

MCConfigs ==
    { Config(Empty, Empty, Empty), Config(net1, sA, f1),
      [Config(Empty, sA, Empty) EXCEPT !.internal = TRUE, !.octavia = FALSE, !.manageGroups = FALSE] }
MCBareConfig == {Config(Empty, Empty, f1)}

Plain ==
    [network |-> Unset, subnet |-> Unset, floating |-> Unset, class |-> Unset, internal |-> Unset,
     xForwardedFor |-> Unset, proxy |-> Unset, ranges |-> "all", otherProtocol |-> FALSE, ports |-> {p1}]

(* Every way to say where the load balancer goes, every mode of a plainly  *)
(* placed one, and ports that change.                                      *)
MCAllServices ==
    { [Plain EXCEPT !.network = n, !.subnet = s, !.floating = f, !.class = c, !.internal = i] :
        n \in {Unset, Empty, net1}, s \in {Unset, Empty, sB}, f \in {Unset, Empty},
        c \in {Unset, "external", "internal", "pool", "empty", "unknown"}, i \in {Unset, "true", "yes"} }
    \cup
    { [Plain EXCEPT !.xForwardedFor = x, !.proxy = y] :
        x \in {Unset, "true", "1"}, y \in {Unset, "true", "v2"} }
    \cup
    { [Plain EXCEPT !.ranges = r, !.otherProtocol = o] :
        r \in {"some", "malformed"}, o \in BOOLEAN }
    \cup
    { [Plain EXCEPT !.ports = p, !.subnet = s, !.network = n] :
        p \in {{p1, p2}, {p2}}, s \in {Unset, sB}, n \in {Unset, net1} }

(* A placed Service is moved to every other place and back, by annotation  *)
(* and by class, and its ports change.                                     *)
MCMovedServices ==
    { [Plain EXCEPT !.subnet = s, !.class = c] :
        s \in {Unset, Empty, sB}, c \in {Unset, "external", "pool"} }
    \cup { [Plain EXCEPT !.ports = {p1, p2}, !.network = n, !.subnet = s] :
              n \in {Unset, net1}, s \in {Unset, sB} }
MCMoves == MCMovedServices \X MCMovedServices

(* The node ports change, and whether the Service is internal.             *)
MCPortServices ==
    { [Plain EXCEPT !.ports = p, !.internal = i] : p \in {{p1}, {p1, p2}, {p2}}, i \in {Unset, "true"} }
MCPortEdits == MCPortServices \X MCPortServices
=============================================================================
