---------------------------- MODULE ServiceOptions ----------------------------
(***************************************************************************)
(* Where a Service's load balancer goes.  Every pass resolves the options  *)
(* anew from the cloud config, the Service, the load balancer class and,   *)
(* when nothing else says so, from the first node of the list it is given. *)
(* The address of the load balancer is placed once, by the pass that       *)
(* creates it; the security group rules are added by every pass that gets  *)
(* that far.  Between two passes the Service may be edited, its subnet and  *)
(* class included, the node list may come in another order, and a pass may *)
(* end at any request.                                                     *)
(***************************************************************************)
EXTENDS FiniteSets

CONSTANTS
    Subnets, Nets, FloatingNets,
    Empty,          \* the empty string
    Unset,          \* the annotation is not on the Service
    Classes,        \* the load balancer classes of the config, by name
    ExternalNets,   \* the external networks the cloud lists
    Nodes,
    SubnetOf,       \* subnet of a node's address, Empty when it is not found
    NodePorts,
    Configs,        \* the cloud configs to start with
    Services,       \* the Services to start with, and to switch to
    Edits,          \* the edits a user may make: <<from, to>>
    NoVip,          \* the load balancer does not exist
    NoOptions       \* no pass is under way

ClassType ==
    [network : Nets \cup {Empty}, subnet : Subnets \cup {Empty},
     floating : FloatingNets \cup {Empty}, floatingSubnet : BOOLEAN]

ASSUME OptionsConstants ==
    /\ Edits \subseteq Services \X Services
    /\ \A c \in DOMAIN Classes : Classes[c] \in ClassType
    /\ SubnetOf \in [Nodes -> Subnets \cup {Empty}]
    /\ ExternalNets \subseteq FloatingNets
    /\ Empty \notin Subnets \cup Nets \cup FloatingNets \cup DOMAIN Classes
    /\ Unset \notin Subnets \cup Nets \cup FloatingNets \cup DOMAIN Classes \cup {Empty}

(* A floating network that is named, in the config or on the Service, is   *)
(* one of FloatingNets.                                                    *)
ASSUME NamedFloatingNets ==
    /\ \A c \in Configs : c.floating \in FloatingNets \cup {Empty}
    /\ \A s \in Services : s.floating \in FloatingNets \cup {Empty, Unset}

VARIABLES
    cfg,     \* the cloud config, read once
    svc,     \* the Service
    first,   \* the first node of the list the controller passes
    vip,     \* network and subnet the load balancer was created in, and the
             \* Service it was created for, kept to state the properties
    rules,   \* security group rules: <<subnet, node port>>
    pass     \* the options of the pass under way, and its next step

vars == <<cfg, svc, first, vip, rules, pass>>

-----------------------------------------------------------------------------
(* resolveServiceOptions.                                                  *)

Annotation(value, default) == IF value = Unset THEN default ELSE value

Malformed(value) == value \notin {Unset, "true", "false"}
BoolAnnotation(value, default) == IF value = Unset THEN default ELSE value = "true"

(* Fault: an option of the class fills a gap only.                         *)
GapFilled(mine, classes) == IF mine # Empty THEN mine ELSE classes

Overridden(mine, classes) == IF classes # Empty THEN classes ELSE mine

NoClass == [network |-> Empty, subnet |-> Empty, floating |-> Empty, floatingSubnet |-> FALSE]
ClassOf(s) == IF s.class \in DOMAIN Classes THEN Classes[s.class] ELSE NoClass

WithClass(s) == s.class \notin {Unset, Empty}

(* A class without a floating network is internal and must name a subnet.  *)
ClassIsInternal(s) == ClassOf(s).floating = Empty /\ ~ClassOf(s).floatingSubnet

Internal(s) ==
    IF WithClass(s) THEN ClassIsInternal(s) ELSE BoolAnnotation(s.internal, cfg.internal)

Subnet(s) == Annotation(s.subnet, cfg.subnet)
Network(s) == Annotation(s.network, cfg.network)

(* Fault: the fallback looks at the config alone.                          *)
ConfigNeedsSubnet(s) == cfg.subnet = Empty /\ cfg.network = Empty

NeedsNodeSubnet(s) == Subnet(s) = Empty /\ Network(s) = Empty

Floating(s) == Overridden(Annotation(s.floating, cfg.floating), ClassOf(s).floating)
FloatingKnown(s) == Floating(s) # Empty \/ Internal(s) \/ ExternalNets # {}

RangesRefused(s) == s.ranges = "malformed" \/ (s.ranges = "some" /\ ~cfg.octavia /\ ~cfg.manageGroups)

(* Fault: both client address options at once.                             *)
ModesUnchecked(s) == Malformed(s.xForwardedFor) \/ Malformed(s.proxy)

ModesRefused(s) ==
    \/ Malformed(s.xForwardedFor) \/ Malformed(s.proxy)
    \/ s.xForwardedFor = "true" /\ s.proxy = "true"

Refused(s, n) ==
    \/ NeedsNodeSubnet(s) /\ SubnetOf[n] = Empty
    \/ WithClass(s) /\ s.class \notin DOMAIN Classes
    \/ WithClass(s) /\ ClassIsInternal(s) /\ ClassOf(s).subnet = Empty
    \/ ~WithClass(s) /\ Malformed(s.internal)
    \/ ~FloatingKnown(s)
    \/ ~cfg.octavia /\ s.otherProtocol
    \/ RangesRefused(s)
    \/ ModesRefused(s)

(* The floating network is the first external one the cloud lists.         *)
resolveServiceOptions(s, n) ==
    { [ network |-> Overridden(Network(s), ClassOf(s).network),
        subnet |-> Overridden(IF NeedsNodeSubnet(s) THEN SubnetOf[n] ELSE Subnet(s), ClassOf(s).subnet),
        floating |-> IF Floating(s) = Empty /\ ~Internal(s) THEN f ELSE Floating(s),
        internal |-> Internal(s),
        xForwardedFor |-> BoolAnnotation(s.xForwardedFor, FALSE),
        proxy |-> BoolAnnotation(s.proxy, FALSE),
        ports |-> s.ports,
        of |-> s ] : f \in IF ExternalNets = {} THEN {Empty} ELSE ExternalNets }

-----------------------------------------------------------------------------
(* The passes and what happens between them.                               *)

Idle == pass = NoOptions

Init ==
    /\ cfg \in Configs /\ svc \in Services /\ first \in Nodes
    /\ vip = NoVip /\ rules = {} /\ pass = NoOptions

(* The user edits the Service.  Nothing refuses a new subnet, network or   *)
(* class for a load balancer that is already placed.                       *)
Edit ==
    /\ \E e \in Edits : e[1] = svc /\ svc' = e[2]
    /\ UNCHANGED <<cfg, first, vip, rules, pass>>

(* The controller lists the nodes in no particular order.                  *)
ListNodes ==
    /\ first' \in Nodes \ {first}
    /\ UNCHANGED <<cfg, svc, vip, rules, pass>>

StartPass ==
    /\ Idle /\ ~Refused(svc, first)
    /\ \E o \in resolveServiceOptions(svc, first) : pass' = [step |-> "create", opts |-> o]
    /\ UNCHANGED <<cfg, svc, first, vip, rules>>

createLoadBalancer ==
    /\ ~Idle /\ pass.step = "create"
    /\ vip' = IF vip = NoVip
              THEN [network |-> pass.opts.network, subnet |-> pass.opts.subnet,
                    for |-> pass.opts.of]
              ELSE vip
    /\ pass' = [pass EXCEPT !.step = "groups"]
    /\ UNCHANGED <<cfg, svc, first, rules>>

(* One rule for the subnet of this pass and each node port; a network alone*)
(* has no subnet to look up, which is an error.                            *)
ensureSecurityGroup ==
    /\ ~Idle /\ pass.step = "groups"
    /\ cfg.manageGroups => pass.opts.subnet # Empty
    /\ rules' = IF cfg.manageGroups THEN rules \cup ({pass.opts.subnet} \X pass.opts.ports) ELSE rules
    /\ pass' = [pass EXCEPT !.step = "done"]
    /\ UNCHANGED <<cfg, svc, first, vip>>

(* The pass is over, with success or, at any step, with an error.          *)
EndPass ==
    /\ ~Idle
    /\ pass' = NoOptions
    /\ UNCHANGED <<cfg, svc, first, vip, rules>>

(* The Service's load balancer and its rules are deleted.                  *)
DeleteLoadBalancer ==
    /\ Idle /\ vip # NoVip
    /\ vip' = NoVip /\ rules' = {}
    /\ UNCHANGED <<cfg, svc, first, pass>>

Next == Edit \/ ListNodes \/ StartPass \/ createLoadBalancer \/ ensureSecurityGroup
          \/ EndPass \/ DeleteLoadBalancer

Spec == Init /\ [][Next]_vars

-----------------------------------------------------------------------------
(* Properties.                                                             *)

(* A load balancer is never created without a network or a subnet for its  *)
(* address, also when the annotations empty what the config gives          *)
(* (resolveServiceOptions, createLoadBalancer).                            *)
VipPlaced == vip # NoVip => vip.subnet # Empty \/ vip.network # Empty

(* What later phases rely on: an external load balancer knows its floating *)
(* network, and the two ways of passing on the client's address exclude    *)
(* each other, whichever of annotations, config and class they come from.  *)
OptionsUsable ==
    ~Idle =>
        /\ ~pass.opts.internal => pass.opts.floating \in FloatingNets
        /\ ~(pass.opts.xForwardedFor /\ pass.opts.proxy)

(* Whether config, Service or class name a subnet, so that the node list   *)
(* does not matter, and which: the class comes before the annotation.      *)
SubnetFixed(s) == ~NeedsNodeSubnet(s) \/ ClassOf(s).subnet # Empty
FixedSubnet(s) == IF ClassOf(s).subnet # Empty THEN ClassOf(s).subnet ELSE Subnet(s)

RulesComplete ==
    ~Idle /\ pass.step = "done" /\ cfg.manageGroups /\ vip.subnet # Empty
      => {vip.subnet} \X pass.opts.ports \subseteq rules

(* A pass that is through has opened its node ports for the subnet the load*)
(* balancer stands in when the Service it was created for and the one of   *)
(* this pass fix the same subnet, by whatever of config, annotation and    *)
(* class, whatever other subnets the Service named in between, whichever   *)
(* passes failed and however the nodes are listed (ensureSecurityGroup).   *)
FixedSubnetAdmitted ==
    ~Idle /\ pass.step = "done" /\ SubnetFixed(vip.for) /\ SubnetFixed(pass.opts.of)
      /\ FixedSubnet(vip.for) = FixedSubnet(pass.opts.of) => RulesComplete

(* The same without the condition: loadbalancer_securitygroups.go:29 says  *)
(* the group has "ingress rules allowing traffic from the LB subnet to     *)
(* nodePorts".                                                             *)
RulesAdmitLoadBalancer == RulesComplete

=============================================================================
