------------------------ MODULE ServiceOptions_proofs ------------------------
(***************************************************************************)
(* Where a Service's load balancer goes, for every config, every set of    *)
(* annotations and classes, and every node list.                           *)
(***************************************************************************)
EXTENDS ServiceOptions, TLAPS

(***************************************************************************)
(* The inductive invariant.  FixedSubnetAdmitted compares the subnet of    *)
(* the load balancer, which an earlier pass placed for the Service of that *)
(* moment, with the rules of the present one.  OptionsOK says of both      *)
(* passes that a subnet the Service fixes is the one they use, so no edit  *)
(* in between and no order of the nodes has to be looked at.               *)
(***************************************************************************)

(* What resolveServiceOptions promises of the options of a pass.           *)
OptionsOK(o) ==
    /\ o.subnet # Empty \/ o.network # Empty
    /\ ~o.internal => o.floating \in FloatingNets
    /\ ~(o.xForwardedFor /\ o.proxy)
    /\ SubnetFixed(o.of) => o.subnet = FixedSubnet(o.of)

PassOK ==
    ~Idle =>
      /\ pass = [step |-> pass.step, opts |-> pass.opts]
      /\ pass.step \in {"create", "groups", "done"}
      /\ OptionsOK(pass.opts)
      /\ pass.step \in {"groups", "done"} /\ SubnetFixed(vip.for)
           => vip.subnet = FixedSubnet(vip.for)
      /\ pass.step = "done" /\ cfg.manageGroups => {pass.opts.subnet} \X pass.opts.ports \subseteq rules

IInv ==
    /\ cfg \in Configs /\ svc \in Services /\ first \in Nodes
    /\ VipPlaced
    /\ vip # NoVip /\ SubnetFixed(vip.for) => vip.subnet = FixedSubnet(vip.for)
    /\ PassOK

-----------------------------------------------------------------------------
(* resolveServiceOptions keeps its promise for every Service it does not   *)
(* refuse: the load balancer has a place, the floating network of an       *)
(* external one is known, one mode at most is on, and a subnet the Service *)
(* fixes is the one that is used.                                          *)
LEMMA ResolvedOptions ==
    ASSUME cfg \in Configs, svc \in Services, NEW n \in Nodes, ~Refused(svc, n),
           NEW o \in resolveServiceOptions(svc, n)
    PROVE  OptionsOK(o)
  <1> PICK f \in IF ExternalNets = {} THEN {Empty} ELSE ExternalNets :
        o = [ network |-> Overridden(Network(svc), ClassOf(svc).network),
              subnet |-> Overridden(IF NeedsNodeSubnet(svc) THEN SubnetOf[n] ELSE Subnet(svc),
                                    ClassOf(svc).subnet),
              floating |-> IF Floating(svc) = Empty /\ ~Internal(svc) THEN f ELSE Floating(svc),
              internal |-> Internal(svc),
              xForwardedFor |-> BoolAnnotation(svc.xForwardedFor, FALSE),
              proxy |-> BoolAnnotation(svc.proxy, FALSE),
              ports |-> svc.ports,
              of |-> svc ]
    BY DEF resolveServiceOptions
  <1>1. o.subnet # Empty \/ o.network # Empty
    <2>1. CASE NeedsNodeSubnet(svc)
      BY <2>1 DEF Refused, Overridden
    <2>2. CASE ~NeedsNodeSubnet(svc)
      BY <2>2 DEF NeedsNodeSubnet, Overridden
    <2> QED
      BY <2>1, <2>2
  <1>4. ~o.internal => o.floating \in FloatingNets
    <2> SUFFICES ASSUME ~Internal(svc) PROVE o.floating \in FloatingNets
      OBVIOUS
    <2>1. CASE Floating(svc) = Empty
      <3>1. ExternalNets # {}
        BY <2>1 DEF Refused, FloatingKnown
      <3> QED
        BY <2>1, <3>1, OptionsConstants
    <2>2. CASE Floating(svc) # Empty
      <3>1. Annotation(svc.floating, cfg.floating) \in FloatingNets \cup {Empty}
        BY NamedFloatingNets DEF Annotation
      <3>2. ClassOf(svc).floating \in FloatingNets \cup {Empty}
        BY OptionsConstants DEF ClassOf, NoClass, ClassType
      <3>3. Floating(svc) \in FloatingNets
        BY <2>2, <3>1, <3>2 DEF Floating, Overridden
      <3> QED
        BY <2>2, <3>3
    <2> QED
      BY <2>1, <2>2
  <1>5. ~(o.xForwardedFor /\ o.proxy)
    BY DEF Refused, ModesRefused, BoolAnnotation
  <1>6. SubnetFixed(o.of) => o.subnet = FixedSubnet(o.of)
    BY DEF SubnetFixed, FixedSubnet, Overridden
  <1> QED
    BY <1>1, <1>4, <1>5, <1>6 DEF OptionsOK

(* Every step keeps the invariant.                                         *)
LEMMA NextKeeps ==
    ASSUME IInv, [Next]_vars
    PROVE  IInv'
  <1>a. ASSUME cfg' = cfg
        PROVE  /\ \A s : SubnetFixed(s)' = SubnetFixed(s) /\ FixedSubnet(s)' = FixedSubnet(s)
               /\ \A o : OptionsOK(o)' = OptionsOK(o)
    BY <1>a DEF OptionsOK, SubnetFixed, NeedsNodeSubnet, FixedSubnet, Subnet, Network
  <1>1. CASE Edit
    <2>1. svc' \in Services /\ UNCHANGED <<cfg, first, vip, rules, pass>>
      BY <1>1, OptionsConstants DEF Edit
    <2> QED
      BY <1>a, <2>1 DEF IInv, VipPlaced, PassOK, Idle
  <1>2. CASE ListNodes
    BY <1>2, <1>a DEF ListNodes, IInv, VipPlaced, PassOK, Idle
  <1>3. CASE StartPass
    <2>1. PICK o \in resolveServiceOptions(svc, first) : pass' = [step |-> "create", opts |-> o]
      BY <1>3 DEF StartPass
    <2>2. OptionsOK(o)
      BY <1>3, ResolvedOptions DEF StartPass, IInv
    <2> QED
      BY <1>3, <1>a, <2>1, <2>2 DEF StartPass, IInv, VipPlaced, PassOK, Idle
  <1>4. CASE createLoadBalancer
    <2>1. /\ ~Idle /\ pass = [step |-> "create", opts |-> pass.opts] /\ OptionsOK(pass.opts)
          /\ UNCHANGED <<cfg, svc, first, rules>>
      BY <1>4 DEF createLoadBalancer, IInv, PassOK
    <2>2. pass' = [step |-> "groups", opts |-> pass.opts]
      BY <1>4, <2>1 DEF createLoadBalancer
    <2>3. vip' = IF vip = NoVip
                 THEN [network |-> pass.opts.network, subnet |-> pass.opts.subnet,
                       for |-> pass.opts.of]
                 ELSE vip
      BY <1>4 DEF createLoadBalancer
    <2>4. VipPlaced' /\ (SubnetFixed(vip'.for) => vip'.subnet = FixedSubnet(vip'.for))
      BY <2>1, <2>3 DEF IInv, VipPlaced, OptionsOK
    <2> QED
      BY <1>a, <2>1, <2>2, <2>4 DEF IInv, PassOK, Idle
  <1>5. CASE ensureSecurityGroup
    <2>1. /\ ~Idle /\ pass = [step |-> "groups", opts |-> pass.opts] /\ OptionsOK(pass.opts)
          /\ UNCHANGED <<cfg, svc, first, vip>>
      BY <1>5 DEF ensureSecurityGroup, IInv, PassOK
    <2>2. pass' = [step |-> "done", opts |-> pass.opts]
      BY <1>5, <2>1 DEF ensureSecurityGroup
    <2>3. cfg.manageGroups => {pass.opts.subnet} \X pass.opts.ports \subseteq rules'
      BY <1>5 DEF ensureSecurityGroup
    <2> QED
      BY <1>a, <2>1, <2>2, <2>3 DEF IInv, VipPlaced, PassOK, Idle
  <1>6. CASE EndPass
    BY <1>6, <1>a DEF EndPass, IInv, VipPlaced, PassOK, Idle
  <1>7. CASE DeleteLoadBalancer
    BY <1>7, <1>a DEF DeleteLoadBalancer, IInv, VipPlaced, PassOK, Idle
  <1>8. CASE UNCHANGED vars
    BY <1>8, <1>a DEF vars, IInv, VipPlaced, PassOK, Idle
  <1> QED
    BY <1>1, <1>2, <1>3, <1>4, <1>5, <1>6, <1>7, <1>8 DEF Next

(* The invariant holds in every reachable state.                           *)
THEOREM OptionsInvariant == Spec => []IInv
  <1>1. Init => IInv
    BY DEF Init, IInv, VipPlaced, PassOK, Idle
  <1> QED
    BY <1>1, NextKeeps, PTL DEF Spec

(* No load balancer is created without a network or a subnet, whichever of *)
(* config, annotations, class and nodes it comes from (createLoadBalancer).*)
THEOREM AlwaysPlaced == Spec => []VipPlaced
  BY OptionsInvariant, PTL DEF IInv

(* Every pass that is not refused can be carried out: its floating network *)
(* is known and its client address mode is one (resolveServiceOptions).    *)
THEOREM AlwaysUsable == Spec => []OptionsUsable
  <1>1. IInv => OptionsUsable
    BY DEF IInv, PassOK, OptionsOK, OptionsUsable
  <1> QED
    BY <1>1, OptionsInvariant, PTL

(* The rules of every pass that is through admit the subnet the load       *)
(* balancer stands in when the Service it was made for and that of the     *)
(* pass fix the same one, whatever was edited in between, whichever passes *)
(* failed and however the nodes are listed (ensureSecurityGroup).          *)
THEOREM FixedSubnetAlwaysAdmitted == Spec => []FixedSubnetAdmitted
  <1>1. IInv => FixedSubnetAdmitted
    BY DEF IInv, PassOK, OptionsOK, FixedSubnetAdmitted, RulesComplete
  <1> QED
    BY <1>1, OptionsInvariant, PTL
=============================================================================
