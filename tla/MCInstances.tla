---------------------------- MODULE MCInstances ----------------------------
(***************************************************************************)
(* Small instances of Instances: two instances may have one name (one is   *)
(* recreated under the name of the other), a node may be registered with a *)
(* providerID of another cloud, and an instance may lack a flavor.         *)
(***************************************************************************)
EXTENDS Instances

CONSTANTS n1, n2, i1, i2, i3, ip1, ip2, ip3, ip6, cg

(* i1 and i2 are called n1, i3 is called n2.                               *)
MCNameOf == [i \in Ids |-> IF i = i3 THEN n2 ELSE n1]
MCNoHosts == [i \in Ids |-> NoHost]
MCHosts == [i \in Ids |-> IF i = i1 THEN ip1 ELSE NoHost]

(* One address in two networks, fixed in one and floating in the other; an *)
(* address inside and one outside the internal network; an IPv6 address    *)
(* and one of the shared range.                                            *)
MCInterfaces ==
    { [network |-> 1, addr |-> ip1, kind |-> "fixed"],
      [network |-> 1, addr |-> ip3, kind |-> "floating"],
      [network |-> 2, addr |-> ip2, kind |-> "fixed"],
      [network |-> 2, addr |-> cg, kind |-> "fixed"],
      [network |-> 3, addr |-> ip3, kind |-> "fixed"],
      [network |-> 3, addr |-> ip6, kind |-> "fixed"] }

(* While it runs, i1 gets an address of the public network.                *)
MCPlugs == { <<i1, [network |-> 3, addr |-> ip3, kind |-> "fixed"]>> }
=============================================================================
