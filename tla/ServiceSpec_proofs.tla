------------------------- MODULE ServiceSpec_proofs -------------------------
(***************************************************************************)
(* The pure decisions of ServiceSpec: what they return, and that comparing *)
(* members by counting and looking up is comparing the sets.               *)
(***************************************************************************)
EXTENDS ServiceSpec, FiniteSetTheorems, TLAPS

(* Every port of a request needs a listener the model knows.               *)
LEMMA KeyType ==
    ASSUME NEW s \in Request, NEW p \in Port
    PROVE  ListenerKey(s, p) \in Keys
  <1>1. resolveListenerProtocol(p.proto, s.keepClientIP, s.secret) \in ListenerProtocols
    BY DEF resolveListenerProtocol, ListenerProtocols
  <1>2. p.port \in PortNums
    BY DEF Port
  <1> QED
    BY <1>1, <1>2 DEF ListenerKey, Keys

(* What a listener is created with is a listener's attributes.             *)
LEMMA CreatedType ==
    ASSUME NEW s \in Request
    PROVE  buildListenerCreateRequest(s) \in Attr
  BY AddressTypes DEF buildListenerCreateRequest, Attr, Request, TimeoutGiven

(* An update leaves a listener's attributes.                               *)
LEMMA UpdatedType ==
    ASSUME NEW s \in Request, NEW a \in Attr
    PROVE  UpdatedListener(a, s) \in Attr
  BY DEF UpdatedListener, Attr, Request, TimeoutGiven

(* The members a pool is given are members.                                *)
LEMMA MembersType ==
    ASSUME NEW s \in Request, NEW p \in Port
    PROVE  DesiredMembers(s, p) \in SUBSET Member
  <1> SUFFICES ASSUME NEW n \in s.nodes
               PROVE  [addr |-> nodeAddressForLB(n), port |-> p.nodePort, subnet |-> s.subnet]
                        \in Member
    BY DEF DesiredMembers
  <1>1. n \in Nodes
    BY DEF Request
  <1>2. nodeAddressForLB(n) \in Addrs \cup {NoAddr}
    BY <1>1, AddressTypes DEF nodeAddressForLB
  <1>3. p.nodePort \in NodePorts /\ s.subnet \in Subnets \cup {NoSubnet}
    BY DEF Port, Request
  <1> QED
    BY <1>2, <1>3 DEF Member

(* The rule a port needs is a rule the cloud knows.                        *)
LEMMA RuleType ==
    ASSUME NEW s \in Request, NEW p \in Port
    PROVE  RuleFor(s, p) \in Rule
  <1>1. p.proto \in ServiceProtocols /\ p.nodePort \in NodePorts
        /\ s.subnet \in Subnets \cup {NoSubnet}
    BY DEF Port, Request
  <1>2. toRuleProtocol(p.proto) \in {"tcp", "udp", "sctp"}
    BY <1>1 DEF toRuleProtocol, ServiceProtocols
  <1> QED
    BY <1>1, <1>2 DEF RuleFor, Rule

(* Comparing lengths and then looking the desired members up decides, for  *)
(* the finite sets the code compares, whether the two sets differ.         *)
LEMMA MembersChangedIsDifference ==
    ASSUME NEW c, NEW d, IsFiniteSet(c), IsFiniteSet(d)
    PROVE  membersChanged(c, d) <=> c # d
  <1>1. CASE d \subseteq c
    <2>1. c # d => Cardinality(d) # Cardinality(c)
      <3> SUFFICES ASSUME c # d PROVE Cardinality(d) < Cardinality(c)
        BY FS_CardinalityType
      <3> QED
        BY <1>1, FS_Subset, FS_CardinalityType
    <2> QED
      BY <1>1, <2>1 DEF membersChanged
  <1>2. CASE ~(d \subseteq c)
    BY <1>2 DEF membersChanged
  <1> QED
    BY <1>1, <1>2
=============================================================================
