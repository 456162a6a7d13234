----------------------------- MODULE ServiceSpec -----------------------------
(***************************************************************************)
(* What one pass of EnsureLoadBalancer is asked for, and the pure decisions*)
(* it takes from that request: which listener a Service port needs, which  *)
(* attributes the listener is created and updated with, which members its  *)
(* pool has to hold, and which requests are refused before anything is     *)
(* touched.  No state here: the modules that have some extend this one.    *)
(*                                                                         *)
(* A request is the Service object together with the node list handed to   *)
(* the provider and the options resolveServiceOptions derives from the     *)
(* annotations.  Names, flavours, networks and descriptions are left out:  *)
(* no decision of the load-balancer flow after the lookup by name depends  *)
(* on them.                                                                *)
(***************************************************************************)
EXTENDS Naturals, FiniteSets

CONSTANTS
    Nodes,        \* Kubernetes nodes
    Addrs,        \* node addresses
    NoAddr,       \* no address of that kind
    InternalIP,   \* the node's InternalIP address, or NoAddr
    ExternalIP,   \* the node's ExternalIP address, or NoAddr
    PortNums,     \* front-end ports of a Service
    NodePorts,    \* node ports; 0 when none is allocated
    Secrets,      \* TLS secrets
    NoSecret,     \* no default-tls-container-ref annotation
    Timeouts,     \* listener timeouts
    Unset,        \* no timeout annotation, or a timeout the API leaves out
    Malformed,    \* a timeout annotation that is not a number
    ApiTimeout,   \* what the API reports for a timeout nobody set
    Subnets,      \* subnets of the cluster's network
    NoSubnet,     \* only a network was configured
    UseOctavia    \* the use-octavia option of the cloud config

ServiceProtocols == {"TCP", "UDP", "SCTP"}
ListenerProtocols == {"TCP", "UDP", "HTTP", "TERMINATED_HTTPS"}

Port == [proto : ServiceProtocols, port : PortNums, nodePort : NodePorts]

Request ==
    [ ports        : SUBSET Port,
      nodes        : SUBSET Nodes,
      keepClientIP : BOOLEAN,
      secret       : Secrets \cup {NoSecret},
      timeout      : Timeouts \cup {Unset, Malformed},
      subnet       : Subnets \cup {NoSubnet},
      internal     : BOOLEAN,
      saveFloating : {"no", "yes", "invalid"},
      manageSecurityGroups : BOOLEAN ]

(* A listener is identified by what findListenerForServicePort matches on. *)
Keys == ListenerProtocols \X PortNums

(* The settings of a listener the flow writes or compares.  One timeout    *)
(* stands for the three: each is parsed, compared and sent on its own.     *)
Attr == [ xff     : BOOLEAN,
          secret  : Secrets \cup {NoSecret},
          timeout : Timeouts \cup {Unset} ]

Member == [addr : Addrs \cup {NoAddr}, port : NodePorts, subnet : Subnets \cup {NoSubnet}]

Rule == [proto : {"tcp", "udp", "sctp"}, port : NodePorts, subnet : Subnets \cup {NoSubnet}]

ASSUME NodesFinite == IsFiniteSet(Nodes)

ASSUME AddressTypes ==
    /\ InternalIP \in [Nodes -> Addrs \cup {NoAddr}]
    /\ ExternalIP \in [Nodes -> Addrs \cup {NoAddr}]
    /\ ApiTimeout \in Timeouts \cup {Unset}
    /\ UseOctavia \in BOOLEAN

(* Two nodes never share an address, so a list of members has no duplicate. *)
ASSUME DistinctAddresses ==
    \A m, n \in Nodes : \A a \in Addrs :
        (a \in {InternalIP[m], ExternalIP[m]} /\ a \in {InternalIP[n], ExternalIP[n]}) => m = n

ASSUME SpecialTimeouts == Unset \notin Timeouts /\ Malformed \notin Timeouts

-----------------------------------------------------------------------------
(* TLS termination wins over X-Forwarded-For mode, both over the transport *)
(* protocol; anything that is neither TCP nor UDP becomes TCP.             *)
resolveListenerProtocol(proto, keepClientIP, secret) ==
    IF secret # NoSecret THEN "TERMINATED_HTTPS"
    ELSE IF keepClientIP THEN "HTTP"
    ELSE IF proto = "UDP" THEN "UDP" ELSE "TCP"

ListenerKey(s, p) == <<resolveListenerProtocol(p.proto, s.keepClientIP, s.secret), p.port>>

(* The listeners the request calls for.                                    *)
Wanted(s) == {ListenerKey(s, p) : p \in s.ports}

(* No two ports of the request need the same listener.                     *)
DistinctListeners(s) ==
    \A p, q \in s.ports : ListenerKey(s, p) = ListenerKey(s, q) => p = q

(* parseListenerTimeouts: a malformed annotation drops the whole           *)
(* configuration (a warning is logged), a missing one leaves the field nil.*)
TimeoutGiven(s) == s.timeout \in Timeouts

buildListenerCreateRequest(s) ==
    [ xff     |-> s.keepClientIP,
      secret  |-> s.secret,
      timeout |-> IF TimeoutGiven(s) THEN s.timeout ELSE ApiTimeout ]

(* The comparisons of updateListenerIfNeeded, on the listener as it was    *)
(* listed: the timeout unless the configuration is nil, and the secret.    *)
ListenerNeedsUpdate(a, s) ==
    \/ s.timeout # Malformed /\ a.timeout # s.timeout
    \/ a.secret # s.secret

(* Fault: a field that the request leaves out is sent, and clears the one  *)
(* of the listener.                                                        *)
ClearedListener(a, s) ==
    [a EXCEPT !.secret = s.secret,
              !.timeout = IF s.timeout = Malformed THEN @ ELSE s.timeout]

(* What a ListenerUpdate leaves: a nil field of the request keeps the      *)
(* listener's value, and InsertXForwarded is never sent.                   *)
UpdatedListener(a, s) ==
    [a EXCEPT !.secret = s.secret,
              !.timeout = IF TimeoutGiven(s) THEN s.timeout ELSE @]

(* The node's InternalIP if it has one, else its ExternalIP.               *)
nodeAddressForLB(n) == IF InternalIP[n] # NoAddr THEN InternalIP[n] ELSE ExternalIP[n]

NodesAddressable(s) == \A n \in s.nodes : nodeAddressForLB(n) # NoAddr

DesiredMembers(s, p) ==
    {[addr |-> nodeAddressForLB(n), port |-> p.nodePort, subnet |-> s.subnet] : n \in s.nodes}

(* Lengths first, then every desired member looked up among the current.   *)
membersChanged(current, desired) ==
    \/ Cardinality(current) # Cardinality(desired)
    \/ \E d \in desired : d \notin current

(* Fault: the Service's spelling of the protocol is sent as it is.         *)
rawRuleProtocol(proto) == proto

toRuleProtocol(proto) ==
    CASE proto = "TCP" -> "tcp" [] proto = "UDP" -> "udp" [] proto = "SCTP" -> "sctp"

RuleFor(s, p) == [proto |-> toRuleProtocol(p.proto), port |-> p.nodePort, subnet |-> s.subnet]

(* Requests EnsureLoadBalancer takes up: the others are refused on entry.  *)
Accepted(s) ==
    /\ s.nodes # {}
    /\ s.ports # {}
    /\ UseOctavia \/ \A p \in s.ports : p.proto = "TCP"
=============================================================================
