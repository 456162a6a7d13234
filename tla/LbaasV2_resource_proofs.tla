----------------------- MODULE LbaasV2_resource_proofs -----------------------
(***************************************************************************)
(* What LbaasV2 guarantees about the floating IP, the security group and   *)
(* the pool members of a Service, for every set of nodes, addresses and    *)
(* requests.                                                               *)
(***************************************************************************)
EXTENDS LbaasV2_proofs

(***************************************************************************)
(* The inductive invariant behind the address and the group.  The load     *)
(* balancer's own life has to be known first: no pass of                   *)
(* EnsureLoadBalancer runs on a load balancer that is under deletion, so   *)
(* that its floating IP cannot be taken off in the middle of the pass.     *)
(***************************************************************************)

(* From the wait for the new load balancer up to the address.              *)
WorkingPCs == { "listeners", "listener", "reload", "poolsList", "pools", "members", "applied",
                "cleanup", "address" }
AddressedPCs == {"sg", "sgRules", "sgNodes", "ensured"}

LifeInv ==
    /\ pc \in DeletePCs => phase = "deleting"
    /\ pc \in DeletePCs \ {"delDone"} => req = desired
    /\ pc \in {"delSG", "delFip"} => lb = "ABSENT"
    /\ lb = "PENDING_DELETE" => phase # "live" /\ pc \notin EnsurePCs
    /\ pc \in EnsurePCs \ {"ensureLB"} => lb # "ABSENT"
    /\ lb = "ABSENT" => Attached = {}

(* The address of the pass is the load balancer's.                         *)
AddressRight(s, a) == IF s.internal THEN a = Vip ELSE Attached = {a}

(* What is attached is what was published, once something was.             *)
AddressInv ==
    /\ OneFloatingIP
    /\ ingress \in FipAddrs => Attached \subseteq {ingress}
    /\ pc \in AddressedPCs => AddressRight(req, addr)
    /\ SettledAddress

RulesRight(s) == sg.exists /\ \A p \in s.ports : RuleFor(s, p) \in sg.rules

(* The group fills up in the order of ensureSecurityGroup, and a group that*)
(* does not exist has neither rules nor instances.                         *)
GroupInv ==
    /\ ~sg.exists => sg = NoGroup
    /\ pc \in {"sgRules", "sgNodes"} => req.manageSecurityGroups /\ sg.exists
    /\ pc = "sgNodes" => RulesRight(req)
    /\ pc = "ensured" /\ req.manageSecurityGroups =>
         RulesRight(req) /\ req.nodes \cap Eligible \subseteq sg.nodes
    /\ pc = "delFip" /\ req.manageSecurityGroups => sg = NoGroup
    /\ SettledGuarded

ResourceInv == LifeInv /\ AddressInv /\ GroupInv

-----------------------------------------------------------------------------
(* Initially there is no load balancer, no floating IP and no group.       *)
LEMMA InitResource == Init => ResourceInv
  <1> SUFFICES ASSUME Init PROVE ResourceInv
    OBVIOUS
  <1>1. pc = "idle" /\ lb = "ABSENT" /\ ingress = NoAddr /\ sg = NoGroup
    BY DEF Init, CloudInit
  <1>2. Attached = {}
    BY DEF Init, CloudInit, Attached
  <1>3. LifeInv
    BY <1>1, <1>2 DEF LifeInv, DeletePCs, EnsurePCs
  <1>4. AddressInv
    BY <1>1, <1>2 DEF AddressInv, OneFloatingIP, AddressedPCs, SettledAddress, Settled
  <1>5. GroupInv
    BY <1>1 DEF GroupInv, SettledGuarded, Settled, NoGroup
  <1> QED
    BY <1>3, <1>4, <1>5 DEF ResourceInv

(* A failed pass leaves the cloud as it is and queues the Service.         *)
LEMMA FailResource ==
    ASSUME ResourceInv, Fail
    PROVE  ResourceInv'
  <1>1. /\ pc' = "idle" /\ dirty' = TRUE
        /\ UNCHANGED <<lb, fips, sg, ingress, phase>>
    BY DEF Fail, EndPass, cloudVars
  <1>2. LifeInv'
    BY <1>1 DEF ResourceInv, LifeInv, DeletePCs, EnsurePCs, Attached
  <1>3. AddressInv'
    BY <1>1 DEF ResourceInv, AddressInv, OneFloatingIP, AddressedPCs, SettledAddress, Settled,
                Attached
  <1>4. GroupInv'
    BY <1>1 DEF ResourceInv, GroupInv, SettledGuarded, Settled
  <1> QED
    BY <1>2, <1>3, <1>4 DEF ResourceInv

(* Between the load balancer and the address, a pass touches neither       *)
(* floating IPs nor the group.                                             *)
LEMMA WorkingResource ==
    ASSUME ResourceInv, pc \in WorkingPCs \cup {"ensureLB"}, pc' \in WorkingPCs,
           lb' \notin {"ABSENT", "PENDING_DELETE"},
           UNCHANGED <<fips, sg, ingress>>
    PROVE  ResourceInv'
  <1>1. LifeInv'
    BY DEF ResourceInv, LifeInv, WorkingPCs, DeletePCs, EnsurePCs, Attached
  <1>2. AddressInv'
    BY DEF ResourceInv, AddressInv, OneFloatingIP, WorkingPCs, AddressedPCs, SettledAddress,
           Settled, Attached
  <1>3. GroupInv'
    BY DEF ResourceInv, GroupInv, SettledGuarded, Settled, WorkingPCs
  <1> QED
    BY <1>1, <1>2, <1>3 DEF ResourceInv

(* While a pass of EnsureLoadBalancer works, its load balancer is there.   *)
LEMMA WorkingFound ==
    ASSUME ResourceInv, pc \in WorkingPCs \cup AddressedPCs
    PROVE  lb \notin {"ABSENT", "PENDING_DELETE"}
  BY DEF ResourceInv, LifeInv, WorkingPCs, AddressedPCs, EnsurePCs

(* EnsureLoadBalancer up to the address.                                   *)
LEMMA EnsureResource ==
    ASSUME TypeOK, ResourceInv,
           \/ EnsureLB \/ ListListeners \/ Reload \/ ListenersDone
           \/ \E p \in todo : CreateListener(p) \/ UpdateListener(p) \/ KeepListener(p)
           \/ ListPools \/ PoolsDone
           \/ \E p \in todo : CreatePool(p) \/ KeepPool(p)
           \/ MembersApplied \/ MembersDone
           \/ \E p \in todo : KeepMembers(p) \/ UpdateMembers(p)
           \/ \E k \in Keys : CleanPool(k) \/ CleanListener(k)
           \/ CleanDone
    PROVE  ResourceInv'
  <1> USE DEF cloudVars, serviceVars, passVars, WorkingPCs
  <1>1. CASE EnsureLB
    <2>1. lb' \notin {"ABSENT", "PENDING_DELETE"}
      BY <1>1 DEF EnsureLB, Found
    <2> QED
      BY <1>1, <2>1, WorkingResource DEF EnsureLB
  <1>2. CASE ListListeners \/ Reload \/ ListenersDone \/ ListPools \/ PoolsDone
             \/ MembersApplied \/ MembersDone \/ CleanDone
    BY <1>2, WorkingResource, WorkingFound
    DEF ListListeners, Reload, ListenersDone, ListPools, PoolsDone, MembersApplied, MembersDone,
        CleanDone, Goto
  <1>3. ASSUME NEW p \in todo, CreateListener(p) \/ UpdateListener(p) \/ KeepListener(p)
        PROVE  ResourceInv'
    BY <1>3, WorkingResource, WorkingFound
    DEF CreateListener, UpdateListener, KeepListener, PutListener, ToReload
  <1>4. ASSUME NEW p \in todo, CreatePool(p) \/ KeepPool(p) PROVE ResourceInv'
    BY <1>4, WorkingResource, WorkingFound DEF CreatePool, KeepPool, PutPool
  <1>5. ASSUME NEW p \in todo, KeepMembers(p) \/ UpdateMembers(p) PROVE ResourceInv'
    BY <1>5, WorkingResource, WorkingFound
    DEF KeepMembers, UpdateMembers, MembersReady, PoolUpdate
  <1>6. ASSUME NEW k \in Keys, CleanPool(k) \/ CleanListener(k) PROVE ResourceInv'
    BY <1>6, WorkingResource, WorkingFound DEF CleanPool, CleanListener, PutPool, PutListener
  <1> QED
    BY <1>1, <1>2, <1>3, <1>4, <1>5, <1>6

(* The address is chosen: the pass goes on to the security group.          *)
LEMMA AddressedResource ==
    ASSUME ResourceInv, pc = "address", pc' = "sg",
           UNCHANGED <<lb, sg, ingress, phase, req>>,
           OneFloatingIP', ingress \in FipAddrs => Attached' \subseteq {ingress},
           AddressRight(req, addr)'
    PROVE  ResourceInv'
  <1>1. lb' \notin {"ABSENT", "PENDING_DELETE"}
    BY WorkingFound DEF WorkingPCs
  <1>2. LifeInv'
    BY <1>1 DEF LifeInv, DeletePCs, EnsurePCs
  <1>3. AddressInv'
    BY DEF AddressInv, SettledAddress, Settled
  <1>4. GroupInv'
    BY DEF ResourceInv, GroupInv, SettledGuarded, Settled
  <1> QED
    BY <1>2, <1>3, <1>4 DEF ResourceInv

(* UseVip, and the three ways of EnsureFloatingIP to an address: the one   *)
(* attached, the published one, a new one.                                 *)
LEMMA AddressResource ==
    ASSUME TypeOK, ResourceInv,
           \/ UseVip
           \/ \E a \in FipAddrs : KeepFloatingIP(a) \/ ReuseFloatingIP(a) \/ CreateFloatingIP(a)
    PROVE  ResourceInv'
  <1> USE DEF cloudVars, serviceVars, passVars
  <1>1. CASE UseVip
    <2>1. OneFloatingIP' /\ (ingress \in FipAddrs => Attached' \subseteq {ingress})
          /\ AddressRight(req, addr)'
      BY <1>1 DEF UseVip, Address, ResourceInv, AddressInv, OneFloatingIP, Attached, AddressRight
    <2> QED
      BY <1>1, <2>1, AddressedResource DEF UseVip, Address
  <1>2. ASSUME NEW a \in FipAddrs, KeepFloatingIP(a) PROVE ResourceInv'
    <2>1. Attached = {a} /\ Attached' = Attached /\ addr' = a
      BY <1>2 DEF KeepFloatingIP, Address, Attached
    <2>2. OneFloatingIP' /\ (ingress \in FipAddrs => Attached' \subseteq {ingress})
          /\ AddressRight(req, addr)'
      BY <1>2, <2>1 DEF KeepFloatingIP, Address, ResourceInv, AddressInv, OneFloatingIP, AddressRight
    <2> QED
      BY <1>2, <2>2, AddressedResource DEF KeepFloatingIP, Address
  <1>3. ASSUME NEW a \in FipAddrs, ReuseFloatingIP(a) \/ CreateFloatingIP(a) PROVE ResourceInv'
    <2>1. Attached = {} /\ fips' = [fips EXCEPT ![a] = "attached"] /\ addr' = a
          /\ ~req.internal /\ (ingress \in FipAddrs => ingress = a)
      BY <1>3, CloudConstants DEF ReuseFloatingIP, CreateFloatingIP, PutFip, Address
    <2>2. Attached' = {a}
      BY <2>1 DEF Attached, TypeOK, CloudTypeOK
    <2>3. OneFloatingIP' /\ (ingress \in FipAddrs => Attached' \subseteq {ingress})
          /\ AddressRight(req, addr)'
      BY <1>3, <2>1, <2>2 DEF ReuseFloatingIP, CreateFloatingIP, Address, OneFloatingIP, AddressRight
    <2> QED
      BY <1>3, <2>3, AddressedResource DEF ReuseFloatingIP, CreateFloatingIP, PutFip, Address
  <1> QED
    BY <1>1, <1>2, <1>3

(* ensureSecurityGroup leaves the load balancer and its address alone.     *)
LEMMA GroupStepResource ==
    ASSUME ResourceInv, pc \in AddressedPCs, pc' \in AddressedPCs,
           UNCHANGED <<lb, fips, ingress, phase, req, addr>>, GroupInv'
    PROVE  ResourceInv'
  <1>1. LifeInv'
    BY WorkingFound DEF LifeInv, DeletePCs, EnsurePCs, AddressedPCs
  <1>2. AddressInv'
    BY DEF ResourceInv, AddressInv, OneFloatingIP, AddressedPCs, SettledAddress, Settled, Attached,
           AddressRight
  <1> QED
    BY <1>1, <1>2 DEF ResourceInv

(* The group, a rule per port, the instances.                              *)
LEMMA GroupResource ==
    ASSUME TypeOK, ResourceInv,
           \/ SkipSecurityGroup \/ EnsureGroup \/ RulesDone \/ NodesDone
           \/ \E p \in req.ports : AddRule(p)
           \/ \E n \in Nodes : AssignNode(n)
    PROVE  ResourceInv'
  <1> USE DEF cloudVars, serviceVars, passVars, AddressedPCs
  <1>a. sg \in [exists : BOOLEAN, rules : SUBSET Rule, nodes : SUBSET Nodes]
    BY DEF TypeOK, CloudTypeOK
  <1>1. CASE SkipSecurityGroup \/ RulesDone \/ NodesDone
    <2>1. GroupInv'
      BY <1>1 DEF SkipSecurityGroup, RulesDone, NodesDone, Goto, ResourceInv, GroupInv, RulesRight,
                  SettledGuarded, Settled
    <2> QED
      BY <1>1, <2>1, GroupStepResource DEF SkipSecurityGroup, RulesDone, NodesDone, Goto
  <1>2. CASE EnsureGroup
    <2>1. sg' = [sg EXCEPT !.exists = TRUE]
      BY <1>2 DEF EnsureGroup, PutGroup
    <2>2. sg'.exists
      BY <1>a, <2>1
    <2>3. GroupInv'
      BY <1>2, <2>2 DEF EnsureGroup, PutGroup, GroupInv, SettledGuarded, Settled
    <2> QED
      BY <1>2, <2>3, GroupStepResource DEF EnsureGroup, PutGroup
  <1>3. ASSUME NEW p \in req.ports, AddRule(p) PROVE ResourceInv'
    <2>1. sg' = [sg EXCEPT !.rules = @ \cup {RuleFor(req, p)}] /\ sg.exists
      BY <1>3 DEF AddRule, PutGroup, ResourceInv, GroupInv
    <2>2. sg'.exists
      BY <1>a, <2>1
    <2>3. GroupInv'
      BY <1>3, <2>2 DEF AddRule, PutGroup, ResourceInv, GroupInv, SettledGuarded, Settled
    <2> QED
      BY <1>3, <2>3, GroupStepResource DEF AddRule, PutGroup
  <1>4. ASSUME NEW n \in Nodes, AssignNode(n) PROVE ResourceInv'
    <2>1. sg' = [sg EXCEPT !.nodes = @ \cup {n}] /\ RulesRight(req) /\ req' = req /\ pc' = "sgNodes"
      BY <1>4 DEF AssignNode, PutGroup, ResourceInv, GroupInv
    <2>2. sg'.exists /\ sg'.rules = sg.rules
      BY <1>a, <2>1 DEF RulesRight
    <2>3. RulesRight(req)'
      BY <2>1, <2>2 DEF RulesRight
    <2>4. GroupInv'
      BY <1>4, <2>1, <2>2, <2>3 DEF AssignNode, ResourceInv, GroupInv, SettledGuarded, Settled
    <2> QED
      BY <1>4, <2>4, GroupStepResource DEF AssignNode, PutGroup
  <1> QED
    BY <1>1, <1>2, <1>3, <1>4

(* What the pass knows of address and group becomes what the settled       *)
(* Service has: the pass has worked on the current version of it.          *)
LEMMA PublishResource ==
    ASSUME TypeOK, CoreInv, ResourceInv, Publish
    PROVE  ResourceInv'
  <1>1. /\ pc = "ensured" /\ pc' = "idle" /\ ingress' = addr
        /\ UNCHANGED <<lb, fips, sg, desired, phase, dirty>>
    BY DEF Publish, EndPass, cloudVars
  <1>2. ~dirty => req = desired
    BY <1>1 DEF CoreInv, CopyInv, EnsurePCs
  <1>3. AddressRight(req, addr)
    BY <1>1 DEF ResourceInv, AddressInv, AddressedPCs
  <1>4. Attached' = Attached
    BY <1>1 DEF Attached
  <1>5. LifeInv'
    BY <1>1, <1>4, WorkingFound DEF LifeInv, DeletePCs, EnsurePCs, AddressedPCs
  <1>6. AddressInv'
    <2>1. OneFloatingIP'
      BY <1>4 DEF ResourceInv, AddressInv, OneFloatingIP
    <2>2. ingress' \in FipAddrs => Attached' \subseteq {ingress'}
      BY <1>1, <1>3, <1>4, CloudConstants DEF AddressRight
    <2>3. SettledAddress'
      BY <1>1, <1>2, <1>3, <1>4 DEF SettledAddress, Settled, AddressRight
    <2> QED
      BY <1>1, <2>1, <2>2, <2>3 DEF AddressInv, AddressedPCs
  <1>7. GroupInv'
    BY <1>1, <1>2 DEF ResourceInv, GroupInv, RulesRight, SettledGuarded, Settled
  <1> QED
    BY <1>5, <1>6, <1>7 DEF ResourceInv

(* A step outside EnsureLoadBalancer that does not settle anything.        *)
LEMMA DeletingResource ==
    ASSUME ResourceInv, pc' \notin EnsurePCs, phase' # "live" \/ pc' # "idle",
           LifeInv', OneFloatingIP', ingress' \in FipAddrs => Attached' \subseteq {ingress'},
           ~sg'.exists => sg' = NoGroup,
           pc' = "delFip" /\ req'.manageSecurityGroups => sg' = NoGroup
    PROVE  ResourceInv'
  <1>1. AddressInv'
    BY DEF AddressInv, AddressedPCs, EnsurePCs, SettledAddress, Settled
  <1>2. GroupInv'
    BY DEF GroupInv, EnsurePCs, SettledGuarded, Settled
  <1> QED
    BY <1>1, <1>2 DEF ResourceInv

(* EnsureLoadBalancerDeleted.                                              *)
LEMMA DeleteResource ==
    ASSUME TypeOK, ResourceInv, DeleteStep
    PROVE  ResourceInv'
  <1> USE DEF cloudVars, serviceVars, passVars, EnsurePCs, DeletePCs
  <1>a. ASSUME UNCHANGED <<fips, ingress>>
        PROVE  OneFloatingIP' /\ (ingress' \in FipAddrs => Attached' \subseteq {ingress'})
               /\ Attached' = Attached
    BY <1>a DEF ResourceInv, AddressInv, OneFloatingIP, Attached
  <1>b. sg \in [exists : BOOLEAN, rules : SUBSET Rule, nodes : SUBSET Nodes]
    BY DEF TypeOK, CloudTypeOK
  <1>1. CASE DeleteNothing \/ StartDelete \/ LBDeleted \/ SkipFloatingIP
    <2>1. UNCHANGED <<lb, fips, sg, ingress, phase, desired>> /\ pc' \notin EnsurePCs
          /\ pc' \notin {"idle", "delFip"}
      BY <1>1 DEF DeleteNothing, StartDelete, LBDeleted, SkipFloatingIP, Goto
    <2>2. LifeInv'
      BY <1>1, <2>1, <1>a DEF DeleteNothing, StartDelete, LBDeleted, SkipFloatingIP, Goto,
                              ResourceInv, LifeInv
    <2> QED
      BY <2>1, <2>2, <1>a, DeletingResource DEF ResourceInv, GroupInv
  <1>2. ASSUME \/ \E k \in Keys : PickListener(k)
               \/ DeletePool \/ DeleteListener \/ DeleteLB
        PROVE  ResourceInv'
    <2>1. /\ UNCHANGED <<fips, sg, ingress, phase, desired, req>>
          /\ pc = "delListeners" /\ pc' \in {"delListeners", "delWait"}
      BY <1>2 DEF PickListener, DeletePool, PutPool, DeleteListener, PutListener, DeleteLB,
                  ListenersGone
    <2>2. lb' = lb \/ lb' = "PENDING_UPDATE" \/ lb' = "PENDING_DELETE"
      BY <1>2 DEF PickListener, DeletePool, PutPool, DeleteListener, PutListener, DeleteLB
    <2>3. LifeInv'
      BY <2>1, <2>2, <1>a DEF ResourceInv, LifeInv
    <2> QED
      BY <2>1, <2>3, <1>a, DeletingResource DEF ResourceInv, GroupInv
  <1>3. CASE DeleteLBRejected \/ GroupInUse \/ SaveFloatingInvalid
    BY <1>3, FailResource DEF DeleteLBRejected, GroupInUse, SaveFloatingInvalid
  <1>4. CASE SkipGroupDelete
    <2>1. /\ UNCHANGED <<lb, fips, sg, ingress, phase, desired, req>> /\ pc = "delSG" /\ pc' = "delFip"
          /\ req.manageSecurityGroups => ~sg.exists
      BY <1>4 DEF SkipGroupDelete, Goto
    <2>2. LifeInv'
      BY <2>1, <1>a DEF ResourceInv, LifeInv
    <2> QED
      BY <2>1, <2>2, <1>a, DeletingResource DEF ResourceInv, GroupInv
  <1>5. ASSUME NEW n \in Nodes, UnassignNode(n) PROVE ResourceInv'
    <2>1. /\ UNCHANGED <<lb, fips, ingress, phase, desired, req>> /\ pc = "delSG" /\ pc' = "delSG"
          /\ sg' = [sg EXCEPT !.nodes = @ \ {n}] /\ sg.exists
      BY <1>5 DEF UnassignNode, PutGroup
    <2>2. LifeInv'
      BY <2>1, <1>a DEF ResourceInv, LifeInv
    <2>3. sg'.exists
      BY <2>1, <1>b
    <2> QED
      BY <2>1, <2>2, <2>3, <1>a, DeletingResource
  <1>6. CASE DeleteGroup
    <2>1. /\ UNCHANGED <<lb, fips, ingress, phase, desired, req>> /\ pc = "delSG" /\ pc' = "delFip"
          /\ sg' = NoGroup
      BY <1>6 DEF DeleteGroup, PutGroup
    <2>2. LifeInv'
      BY <2>1, <1>a DEF ResourceInv, LifeInv
    <2> QED
      BY <2>1, <2>2, <1>a, DeletingResource
  <1>7. CASE DeleteFloatingIP
    <2>1. /\ UNCHANGED <<lb, sg, ingress, phase>> /\ pc = "delFip" /\ pc' = "delDone"
          /\ fips' = [fips EXCEPT ![ingress] = "absent"] /\ ingress \in FipAddrs
      BY <1>7 DEF DeleteFloatingIP, FloatingIPGoes, PutFip
    <2>2. Attached' \subseteq Attached
      BY <2>1 DEF Attached, TypeOK, CloudTypeOK
    <2>3. LifeInv'
      BY <2>1, <2>2 DEF ResourceInv, LifeInv
    <2>4. OneFloatingIP' /\ (ingress' \in FipAddrs => Attached' \subseteq {ingress'})
      BY <2>1, <2>2 DEF ResourceInv, AddressInv, OneFloatingIP
    <2> QED
      BY <2>1, <2>3, <2>4, DeletingResource DEF ResourceInv, GroupInv
  <1>8. CASE Finalize
    <2>1. UNCHANGED <<lb, fips, sg, ingress>> /\ pc' = "idle" /\ phase' = "gone"
      BY <1>8 DEF Finalize, EndPass
    <2>2. LifeInv'
      BY <2>1, <1>a DEF ResourceInv, LifeInv
    <2> QED
      BY <2>1, <2>2, <1>a, DeletingResource DEF ResourceInv, GroupInv
  <1> QED
    BY <1>1, <1>2, <1>3, <1>4, <1>5, <1>6, <1>7, <1>8 DEF DeleteStep

(* The pass is taken up, or waits for its load balancer.                   *)
LEMMA StartResource ==
    ASSUME TypeOK, ResourceInv, StartEnsure \/ AwaitActive
    PROVE  ResourceInv'
  <1> USE DEF cloudVars, serviceVars, passVars
  <1>1. CASE StartEnsure
    <2>1. /\ pc' = "ensureLB" /\ phase = "live" /\ UNCHANGED <<lb, fips, sg, ingress, phase>>
      BY <1>1 DEF StartEnsure
    <2>2. LifeInv'
      BY <2>1 DEF ResourceInv, LifeInv, DeletePCs, EnsurePCs, Attached
    <2>3. AddressInv'
      BY <2>1 DEF ResourceInv, AddressInv, OneFloatingIP, AddressedPCs, SettledAddress, Settled,
                  Attached
    <2>4. GroupInv'
      BY <2>1 DEF ResourceInv, GroupInv, SettledGuarded, Settled
    <2> QED
      BY <2>2, <2>3, <2>4 DEF ResourceInv
  <1>2. CASE AwaitActive
    <2>1. UNCHANGED <<lb, fips, sg, ingress, phase, desired, dirty, pc, req, addr>>
      BY <1>2 DEF AwaitActive
    <2> QED
      BY <2>1 DEF ResourceInv, LifeInv, AddressInv, GroupInv, Attached, OneFloatingIP, AddressRight,
                  SettledAddress, Settled, RulesRight, SettledGuarded
  <1> QED
    BY <1>1, <1>2

(* The status of a load balancer that stays changes.                       *)
LEMMA StatusResource ==
    ASSUME ResourceInv, lb \notin {"ABSENT", "PENDING_DELETE"},
           lb' \notin {"ABSENT", "PENDING_DELETE"},
           UNCHANGED <<fips, sg, ingress, phase, desired, dirty, pc, req, addr>>
    PROVE  ResourceInv'
  <1>1. LifeInv'
    BY DEF ResourceInv, LifeInv
  <1>2. AddressInv'
    BY DEF ResourceInv, AddressInv, Attached, OneFloatingIP, AddressRight, SettledAddress, Settled
  <1>3. GroupInv'
    BY DEF ResourceInv, GroupInv, RulesRight, SettledGuarded, Settled
  <1> QED
    BY <1>1, <1>2, <1>3 DEF ResourceInv

(* The load balancer goes, between passes or at the end of a deletion, and *)
(* lets go of its floating IP.                                             *)
LEMMA LostResource ==
    ASSUME ResourceInv, pc \notin EnsurePCs, lb' = "ABSENT", fips' = Detached,
           UNCHANGED <<sg, ingress, phase, desired, dirty, pc, req, addr>>
    PROVE  ResourceInv'
  <1>1. Attached' = {}
    BY DEF Attached, Detached
  <1>2. LifeInv'
    BY <1>1 DEF ResourceInv, LifeInv
  <1>3. AddressInv'
    BY <1>1 DEF AddressInv, OneFloatingIP, AddressedPCs, EnsurePCs, SettledAddress, Settled
  <1>4. GroupInv'
    BY DEF ResourceInv, GroupInv, EnsurePCs, SettledGuarded, Settled
  <1> QED
    BY <1>2, <1>3, <1>4 DEF ResourceInv

(* Faults, users and operators.                                            *)
LEMMA DisturbanceResource ==
    ASSUME TypeOK, ResourceInv, Disturbance
    PROVE  ResourceInv'
  <1> USE DEF cloudVars, serviceVars, passVars, workerVars
  <1>1. CASE Abort \/ Restart
    BY <1>1, FailResource DEF Abort, Restart
  <1>2. CASE ReloadPanics \/ FloatingIPDeleteFails
    <2>1. /\ UNCHANGED <<lb, fips, sg, ingress, phase, desired, req>>
          /\ pc \in {"reload", "delFip"} /\ pc' = IF pc = "reload" THEN "panicked" ELSE "delDone"
      BY <1>2 DEF ReloadPanics, FloatingIPDeleteFails, Goto
    <2>2. LifeInv'
      BY <2>1 DEF ResourceInv, LifeInv, DeletePCs, EnsurePCs, Attached
    <2>3. OneFloatingIP' /\ (ingress' \in FipAddrs => Attached' \subseteq {ingress'})
      BY <2>1 DEF ResourceInv, AddressInv, OneFloatingIP, Attached
    <2> QED
      BY <2>1, <2>2, <2>3, DeletingResource DEF ResourceInv, GroupInv, EnsurePCs
  <1>3. CASE CloudBreak
    BY <1>3, StatusResource DEF CloudBreak, Break
  <1>4. CASE CloudLose
    BY <1>4, LostResource DEF CloudLose, Lose, EnsurePCs
  <1>5. ASSUME DeleteService \/ \E s \in Specs : Edit(s) PROVE ResourceInv'
    <2>1. /\ phase = "live" /\ phase' \in {"live", "deleting"} /\ dirty' = TRUE
          /\ UNCHANGED <<lb, fips, sg, ingress, pc, req, addr>>
      BY <1>5 DEF DeleteService, Edit
    <2>2. LifeInv'
      BY <2>1 DEF ResourceInv, LifeInv, DeletePCs, Attached
    <2>3. AddressInv'
      BY <2>1 DEF ResourceInv, AddressInv, Attached, OneFloatingIP, AddressRight, SettledAddress,
                  Settled
    <2>4. GroupInv'
      BY <2>1 DEF ResourceInv, GroupInv, RulesRight, SettledGuarded, Settled
    <2> QED
      BY <2>2, <2>3, <2>4 DEF ResourceInv
  <1> QED
    BY <1>1, <1>2, <1>3, <1>4, <1>5 DEF Disturbance, Fault, Outside

(* The cloud's own steps.                                                  *)
LEMMA CloudResource ==
    ASSUME ResourceInv, CloudStep
    PROVE  ResourceInv'
  <1> USE DEF workerVars, serviceVars, passVars
  <1>1. CASE CloudSettle
    BY <1>1, StatusResource DEF CloudSettle, Settle
  <1>2. CASE CloudDelete
    <2>1. pc \notin EnsurePCs
      BY <1>2 DEF CloudDelete, FinishDelete, ResourceInv, LifeInv
    <2> QED
      BY <1>2, <2>1, LostResource DEF CloudDelete, FinishDelete
  <1>3. ASSUME NEW k \in Keys, CloudApply(k) PROVE ResourceInv'
    BY <1>3, StatusResource DEF CloudApply, ApplyMembers, PutPool
  <1> QED
    BY <1>1, <1>2, <1>3 DEF CloudStep

(* Every step of the provider, of the cloud and of everyone else.          *)
LEMMA ResourceInductive ==
    ASSUME TypeOK, CoreInv, ResourceInv, [Next]_vars
    PROVE  ResourceInv'
  <1> USE DEF cloudVars, serviceVars, passVars
  <1>1. CASE EnsureStep
    <2>1. CASE AwaitFails \/ FloatingIPMissing \/ SubnetMissing
      BY <2>1, FailResource DEF AwaitFails, FloatingIPMissing, SubnetMissing
    <2>2. CASE \E p \in todo : ListenerRejected(p) \/ PoolRejected(p) \/ MembersRejected(p)
      BY <2>2, FailResource DEF ListenerRejected, PoolRejected, MembersRejected
    <2> QED
      BY <1>1, <2>1, <2>2, StartResource, EnsureResource, AddressResource, GroupResource,
         PublishResource
      DEF EnsureStep
  <1>2. CASE DeleteStep
    BY <1>2, DeleteResource
  <1>3. CASE Recover
    BY <1>3, FailResource DEF Recover
  <1>4. CASE CloudStep
    BY <1>4, CloudResource
  <1>5. CASE Disturbance
    BY <1>5, DisturbanceResource
  <1>6. CASE UNCHANGED vars
    <2>1. UNCHANGED <<lb, fips, sg, ingress, phase, desired, dirty, pc, req, addr>>
      BY <1>6 DEF vars
    <2> QED
      BY <2>1 DEF ResourceInv, LifeInv, AddressInv, GroupInv, Attached, OneFloatingIP, AddressRight,
                  SettledAddress, Settled, RulesRight, SettledGuarded
  <1> QED
    BY <1>1, <1>2, <1>3, <1>4, <1>5, <1>6 DEF Next, WorkerStep, Gone

(* Address and group are in order in every reachable state.                *)
THEOREM ResourceInvariant == Spec => []ResourceInv
  <1>1. TypeOK /\ CoreInv /\ ResourceInv /\ [Next]_vars => ResourceInv'
    BY ResourceInductive
  <1> QED
    BY InitResource, <1>1, TypeCorrect, CoreInvariant, PTL DEF Spec

(* EnsureFloatingIP never gives a load balancer a second floating IP, for  *)
(* any pool of addresses and any interleaving of failures.                 *)
THEOREM NeverTwoFloatingIPs == Spec => []OneFloatingIP
  BY ResourceInvariant, PTL DEF ResourceInv, AddressInv

(* What a settled Service publishes is the address its load balancer has.  *)
THEOREM PublishedIsAttached == Spec => []SettledAddress
  BY ResourceInvariant, PTL DEF ResourceInv, AddressInv

(* A settled Service's group has all its rules and sits on all its nodes   *)
(* (ensureSecurityGroup).                                                  *)
THEOREM GuardedWhenSettled == Spec => []SettledGuarded
  BY ResourceInvariant, PTL DEF ResourceInv, GroupInv

(* A deletion gets to the floating IP only when the load balancer is gone, *)
(* nothing is attached, and a managed group is gone                        *)
(* (EnsureLoadBalancerDeleted).                                            *)
THEOREM ReleasedBeforeFloatingIP == Spec => []DeletionReleases
  <1>1. ResourceInv => DeletionReleases
    BY DEF ResourceInv, LifeInv, GroupInv, DeletionReleases
  <1> QED
    BY <1>1, ResourceInvariant, PTL

(* Only Publish changes the status, and it never replaces a floating IP by *)
(* another.                                                                *)
LEMMA AddressStep ==
    ASSUME TypeOK, ResourceInv, [Next]_vars
    PROVE  ingress \in FipAddrs => ingress' \in {ingress, Vip}
  <1>1. CASE Publish
    <2>1. ingress' = addr /\ AddressRight(req, addr)
      BY <1>1 DEF Publish, ResourceInv, AddressInv, AddressedPCs
    <2> QED
      BY <2>1 DEF AddressRight, ResourceInv, AddressInv
  <1>2. ASSUME ~Publish PROVE ingress' = ingress
    <2> USE DEF serviceVars, Fail, Goto, Address, ToReload
    <2>1. CASE EnsureStep
      BY <1>2, <2>1
      DEF EnsureStep, StartEnsure, EnsureLB, AwaitActive, AwaitFails, ListListeners, Reload,
          ListenersDone, CreateListener, UpdateListener, KeepListener, ListenerRejected, ListPools,
          PoolsDone, CreatePool, KeepPool, PoolRejected, MembersApplied, MembersDone, KeepMembers,
          UpdateMembers, MembersRejected, CleanPool, CleanListener, CleanDone, UseVip,
          FloatingIPMissing, KeepFloatingIP, ReuseFloatingIP, CreateFloatingIP, SkipSecurityGroup,
          EnsureGroup, SubnetMissing, RulesDone, NodesDone, AddRule, AssignNode
    <2>2. CASE DeleteStep
      BY <2>2
      DEF DeleteStep, DeleteNothing, StartDelete, PickListener, DeletePool, DeleteListener, DeleteLB,
          DeleteLBRejected, LBDeleted, SkipGroupDelete, DeleteGroup, GroupInUse, UnassignNode,
          SaveFloatingInvalid, DeleteFloatingIP, SkipFloatingIP, Finalize
    <2>3. CASE Disturbance \/ CloudStep \/ Recover
      BY <2>3
      DEF Disturbance, Fault, Outside, Abort, Restart, ReloadPanics, FloatingIPDeleteFails, CloudBreak,
          CloudLose, DeleteService, Edit, CloudStep, CloudSettle, CloudDelete, CloudApply, workerVars,
          Recover
    <2>4. CASE UNCHANGED vars
      BY <2>4 DEF vars
    <2> QED
      BY <2>1, <2>2, <2>3, <2>4 DEF Next, WorkerStep, Gone
  <1> QED
    BY <1>1, <1>2

(* A published floating IP stays the Service's address, whatever fails and *)
(* whatever happens to the load balancer, until the Service is made        *)
(* internal (EnsureFloatingIP).                                            *)
THEOREM FloatingIPStays == Spec => AddressStable
  <1>1. TypeOK /\ ResourceInv /\ [Next]_vars =>
          [(ingress \in FipAddrs) => ingress' \in {ingress, Vip}]_vars
    BY AddressStep
  <1> QED
    BY <1>1, TypeCorrect, ResourceInvariant, PTL DEF Spec, AddressStable

(* The last step of the deletion is the only one that destroys a floating  *)
(* IP.                                                                     *)
LEMMA DestroyStep ==
    ASSUME TypeOK, ResourceInv, [Next]_vars, NEW a \in FipAddrs,
           fips[a] # "absent", fips'[a] = "absent"
    PROVE  /\ phase = "deleting" /\ desired.saveFloating = "no"
           /\ a = ingress /\ lb = "ABSENT"
  <1>a. fips \in [FipAddrs -> {"absent", "free", "attached"}]
    BY DEF TypeOK, CloudTypeOK
  <1>1. CASE DeleteFloatingIP
    <2>1. /\ pc = "delFip" /\ req.saveFloating = "no" /\ ingress \in FipAddrs
          /\ fips' = [fips EXCEPT ![ingress] = "absent"]
      BY <1>1 DEF DeleteFloatingIP, FloatingIPGoes, PutFip
    <2>2. a = ingress
      BY <1>a, <2>1
    <2> QED
      BY <2>1, <2>2 DEF ResourceInv, LifeInv, DeletePCs
  <1>2. ASSUME ~DeleteFloatingIP PROVE FALSE
    <2>1. fips' # fips
      OBVIOUS
    <2> USE DEF cloudVars, Fail, Goto, PutListener, PutPool, PoolUpdate, PutGroup
    <2>2. CASE EnsureStep
      <3>1. CASE \E b \in FipAddrs : ReuseFloatingIP(b) \/ CreateFloatingIP(b)
        BY <1>a, <3>1 DEF ReuseFloatingIP, CreateFloatingIP, PutFip
      <3> QED
        BY <2>1, <2>2, <3>1
        DEF EnsureStep, StartEnsure, EnsureLB, AwaitActive, AwaitFails, ListListeners, Reload,
            ListenersDone, CreateListener, UpdateListener, KeepListener, ListenerRejected, ListPools,
            PoolsDone, CreatePool, KeepPool, PoolRejected, MembersApplied, MembersDone, KeepMembers,
            UpdateMembers, MembersRejected, CleanPool, CleanListener, CleanDone, UseVip,
            FloatingIPMissing, KeepFloatingIP, SkipSecurityGroup, EnsureGroup, SubnetMissing,
            RulesDone, NodesDone, AddRule, AssignNode, Publish
    <2>3. CASE DeleteStep
      BY <1>2, <2>1, <2>3
      DEF DeleteStep, DeleteNothing, StartDelete, PickListener, DeletePool, DeleteListener, DeleteLB,
          DeleteLBRejected, LBDeleted, SkipGroupDelete, DeleteGroup, GroupInUse, UnassignNode,
          SaveFloatingInvalid, SkipFloatingIP, Finalize
    <2>4. CASE CloudLose \/ CloudDelete
      BY <1>a, <2>4 DEF CloudLose, CloudDelete, Lose, FinishDelete, Detached
    <2>5. CASE Disturbance \/ CloudStep \/ Recover
      BY <2>1, <2>4, <2>5
      DEF Disturbance, Fault, Outside, Abort, Restart, ReloadPanics, FloatingIPDeleteFails, CloudBreak,
          DeleteService, Edit, CloudStep, CloudSettle, CloudApply, Settle, Break, ApplyMembers, Recover
    <2>6. CASE UNCHANGED vars
      BY <2>1, <2>6 DEF vars
    <2> QED
      BY <2>2, <2>3, <2>5, <2>6 DEF Next, WorkerStep, Gone
  <1> QED
    BY <1>1, <1>2

(* A floating IP is destroyed only with a Service that does not save it,   *)
(* only if it is the published one, and only after the load balancer has   *)
(* gone (EnsureLoadBalancerDeleted).                                       *)
THEOREM DestroyedOnlyWithService == Spec => FloatingIPDestroyed
  <1>1. TypeOK /\ ResourceInv /\ [Next]_vars =>
          [\A a \in FipAddrs : (fips[a] # "absent" /\ fips'[a] = "absent") =>
             /\ phase = "deleting" /\ desired.saveFloating = "no"
             /\ a = ingress /\ lb = "ABSENT"]_vars
    BY DestroyStep
  <1> QED
    BY <1>1, TypeCorrect, ResourceInvariant, PTL DEF Spec, FloatingIPDestroyed

(***************************************************************************)
(* The invariant behind MembersServed, for the ports whose pool had no     *)
(* update under way when it was listed.                                    *)
(***************************************************************************)
Full(m) == [members |-> m, target |-> m]

(* membersChanged counts, so what it compares has to be finite.            *)
PoolFinite(q) == q # NoPool => IsFiniteSet(q.members) /\ IsFiniteSet(q.target)

FiniteInv == \A k \in Keys : PoolFinite(pools[k]) /\ PoolFinite(seen[k])

(* The pool of port p: as it was listed or created, then asked for the     *)
(* members of the pass, and finally full of them.                          *)
PortMembers(p) ==
    LET k == ListenerKey(req, p)
    IN  /\ pc = "pools" => /\ seen[k] # NoPool => pools[k] = seen[k]
                           /\ seen[k] = NoPool /\ p \notin todo => pools[k] = Full({})
        /\ pc \in {"members", "applied"} =>
             /\ p \in todo /\ ~(pc = "applied" /\ p = port) => pools[k] = Full(ListedMembers(k))
             /\ p \notin todo => pools[k] = Full(DesiredMembers(req, p))
        /\ pc = "applied" /\ p = port => HasPool(k) /\ pools[k].target = DesiredMembers(req, p)
        /\ pc \in ServedPCs \cup {"cleanup"} => pools[k] = Full(DesiredMembers(req, p))

MembersInv ==
    /\ pc = "applied" => port \in todo
    /\ DistinctListeners(req) =>
         \A p \in req.ports : ~Stray(ListenerKey(req, p)) => PortMembers(p)

-----------------------------------------------------------------------------
(* The members of a port are finitely many: one for each node.             *)
LEMMA DesiredFinite ==
    ASSUME NEW s \in Request, NEW p
    PROVE  IsFiniteSet(DesiredMembers(s, p))
  <1> DEFINE f == [n \in s.nodes |-> [addr |-> nodeAddressForLB(n), port |-> p.nodePort,
                                      subnet |-> s.subnet]]
  <1>1. f \in Surjection(s.nodes, DesiredMembers(s, p))
    BY DEF Surjection, DesiredMembers
  <1>2. IsFiniteSet(s.nodes)
    BY NodesFinite, FS_Subset DEF Request
  <1> QED
    BY <1>1, <1>2, FS_Surjection DEF ExistsSurjection

(* What the member proofs use of the types.                                *)
LEMMA MemberTypes ==
    ASSUME TypeOK
    PROVE  /\ req \in Request
           /\ \A p \in req.ports : p \in Port /\ ListenerKey(req, p) \in Keys
           /\ \A p \in todo : p \in Port /\ ListenerKey(req, p) \in Keys
           /\ pools \in [Keys -> Pool \cup {NoPool}]
           /\ seen \in [Keys -> Pool \cup {NoPool}]
  BY SpecsType, KeyType DEF TypeOK, CloudTypeOK

(* A pool without an update under way has the members it was asked for.    *)
LEMMA FullPool ==
    ASSUME NEW q \in Pool
    PROVE  /\ q.target = q.members => q = Full(q.members)
           /\ [q EXCEPT !.members = q.target] = Full(q.target)
           /\ \A m : [q EXCEPT !.target = m].target = m
  BY DEF Pool, Full

(* The pools, and the copy of them the pass keeps, stay finite.            *)
LEMMA FiniteStep ==
    ASSUME FiniteInv, TypeOK,
           \/ pools' = pools
           \/ pools' = [k \in Keys |-> NoPool]
           \/ \E k \in Keys : \E q : PoolFinite(q) /\ pools' = [pools EXCEPT ![k] = q],
           seen' \in {seen, pools, [k \in Keys |-> NoPool]}
    PROVE  FiniteInv'
  <1>1. pools \in [Keys -> Pool \cup {NoPool}] /\ seen \in [Keys -> Pool \cup {NoPool}]
    BY MemberTypes
  <1>2. \A k \in Keys : PoolFinite(pools'[k])
    BY <1>1 DEF FiniteInv, PoolFinite
  <1>3. \A k \in Keys : PoolFinite(seen'[k])
    BY <1>1 DEF FiniteInv, PoolFinite
  <1> QED
    BY <1>2, <1>3 DEF FiniteInv, PoolFinite

(* Every step keeps them finite.                                           *)
LEMMA FiniteInductive ==
    ASSUME FiniteInv, TypeOK, [Next]_vars
    PROVE  FiniteInv'
  <1> USE DEF cloudVars, passVars
  <1>0. PoolFinite(NoPool)
    BY DEF PoolFinite
  <1>1. CASE EnsureStep
    <2>1. ASSUME NEW p \in todo, CreatePool(p) PROVE FiniteInv'
      <3>1. PoolFinite(Full({}))
        BY FS_EmptySet DEF PoolFinite, Full
      <3> QED
        BY <2>1, <3>1, FiniteStep, MemberTypes DEF CreatePool, PutPool, Key, Full
    <2>2. ASSUME NEW p \in todo, UpdateMembers(p) PROVE FiniteInv'
      <3> DEFINE k == ListenerKey(req, p)
                 q == [pools[k] EXCEPT !.target = DesiredMembers(req, p)]
      <3>1. k \in Keys /\ pools[k] \in Pool /\ pools' = [pools EXCEPT ![k] = q] /\ seen' = seen
        BY <2>2, MemberTypes DEF UpdateMembers, PoolUpdate, HasPool, Key
      <3>2. IsFiniteSet(pools[k].members) /\ IsFiniteSet(DesiredMembers(req, p))
        BY <2>2, <3>1, MemberTypes, DesiredFinite DEF FiniteInv, PoolFinite, UpdateMembers,
           PoolUpdate, HasPool, Key
      <3>3. q.members = pools[k].members /\ q.target = DesiredMembers(req, p)
        BY <3>1 DEF Pool
      <3>4. PoolFinite(q)
        BY <3>2, <3>3 DEF PoolFinite
      <3> QED
        BY <3>1, <3>4, FiniteStep
    <2>3. ASSUME NEW k \in Keys, CleanPool(k) PROVE FiniteInv'
      BY <2>3, <1>0, FiniteStep DEF CleanPool, PutPool
    <2>4. CASE pools' = pools /\ seen' \in {seen, pools, [k \in Keys |-> NoPool]}
      BY <2>4, FiniteStep
    <2> QED
      BY <1>1, <2>1, <2>2, <2>3, <2>4
      DEF EnsureStep, StartEnsure, EnsureLB, AwaitActive, AwaitFails, ListListeners, Reload,
          ListenersDone, CreateListener, UpdateListener, KeepListener, ListenerRejected, ListPools,
          PoolsDone, KeepPool, PoolRejected, MembersApplied, MembersDone, KeepMembers,
          MembersRejected, CleanListener, CleanDone, UseVip,
          FloatingIPMissing, KeepFloatingIP, ReuseFloatingIP, CreateFloatingIP, SkipSecurityGroup,
          EnsureGroup, SubnetMissing, RulesDone, NodesDone, AddRule, AssignNode, Publish,
          Fail, EndPass, Goto, Address, ToReload, PutListener, PutFip, PutGroup
  <1>2. CASE DeleteStep
    <2>1. CASE DeletePool
      BY <2>1, <1>0, FiniteStep DEF DeletePool, PutPool, TypeOK
    <2>2. CASE pools' = pools /\ seen' \in {seen, pools, [k \in Keys |-> NoPool]}
      BY <2>2, FiniteStep
    <2> QED
      BY <1>2, <2>1, <2>2
      DEF DeleteStep, DeleteNothing, StartDelete, PickListener, DeleteListener, DeleteLB,
          DeleteLBRejected, LBDeleted, SkipGroupDelete, DeleteGroup, GroupInUse, UnassignNode,
          SaveFloatingInvalid, DeleteFloatingIP, SkipFloatingIP, Finalize,
          Fail, EndPass, Goto, PutListener, PutFip, PutGroup
  <1>3. ASSUME NEW k \in Keys, CloudApply(k) PROVE FiniteInv'
    <2> DEFINE q == [pools[k] EXCEPT !.members = pools[k].target]
    <2>1. pools[k] \in Pool /\ pools' = [pools EXCEPT ![k] = q] /\ seen' = seen
      BY <1>3, MemberTypes DEF CloudApply, ApplyMembers, UpdatePending, HasPool, PutPool, workerVars
    <2>2. q = Full(pools[k].target) /\ IsFiniteSet(pools[k].target)
      BY <1>3, <2>1, FullPool
      DEF FiniteInv, PoolFinite, CloudApply, ApplyMembers, UpdatePending, HasPool
    <2>3. PoolFinite(q)
      BY <2>2 DEF PoolFinite, Full
    <2> QED
      BY <2>1, <2>3, FiniteStep
  <1>4. CASE Disturbance \/ CloudSettle \/ CloudDelete \/ Recover
    BY <1>4, FiniteStep
    DEF Disturbance, Fault, Outside, Abort, Restart, ReloadPanics, FloatingIPDeleteFails, CloudBreak,
        CloudLose, DeleteService, Edit, CloudSettle, CloudDelete, workerVars, Recover,
        Fail, EndPass, Goto, Break, Lose, Settle, FinishDelete
  <1>5. CASE UNCHANGED vars
    BY <1>5, FiniteStep DEF vars
  <1> QED
    BY <1>1, <1>2, <1>3, <1>4, <1>5 DEF Next, WorkerStep, CloudStep, Gone

(* Outside the pools, the members and what follows them, nothing is said.  *)
LEMMA MembersElsewhere ==
    ASSUME pc' \notin {"pools", "members", "applied", "cleanup"} \cup ServedPCs
    PROVE  MembersInv'
  BY DEF MembersInv, PortMembers

(* The pass and its pools stay as they are.                                *)
LEMMA MembersSame ==
    ASSUME MembersInv, UNCHANGED <<pools, seen, req, todo, port, pc>>
    PROVE  MembersInv'
  BY DEF MembersInv, PortMembers, Stray, ListedMembers, HasPool

(* After the members the pass only removes pools nobody asked for.         *)
LEMMA MembersKept ==
    ASSUME TypeOK, MembersInv,
           pc \in ServedPCs \cup {"cleanup"}, pc' \in ServedPCs \cup {"cleanup"},
           UNCHANGED <<seen, req>>,
           \A k \in Wanted(req) : pools'[k] = pools[k]
    PROVE  MembersInv'
  <1>1. \A p \in req.ports : ListenerKey(req, p) \in Wanted(req)
    BY DEF Wanted
  <1> QED
    BY <1>1 DEF MembersInv, PortMembers, Stray, ServedPCs

(* The pools are listed, created or kept.                                  *)
LEMMA PoolsPhaseMembers ==
    ASSUME TypeOK, TodoInv, MembersInv,
           \/ ListPools \/ PoolsDone
           \/ \E p \in todo : CreatePool(p) \/ KeepPool(p)
    PROVE  MembersInv'
  <1> USE DEF cloudVars, passVars
  <1>a. /\ \A p \in req.ports : ListenerKey(req, p) \in Keys
        /\ pools \in [Keys -> Pool \cup {NoPool}] /\ seen \in [Keys -> Pool \cup {NoPool}]
    BY MemberTypes
  <1>1. CASE ListPools
    <2>1. pc' = "pools" /\ seen' = pools /\ UNCHANGED <<pools, req>> /\ todo' = req.ports
      BY <1>1 DEF ListPools
    <2> QED
      BY <2>1 DEF MembersInv, PortMembers, ServedPCs
  <1>2. CASE PoolsDone
    <2>1. /\ pc = "pools" /\ todo = {} /\ pc' = "members" /\ todo' = req.ports
          /\ UNCHANGED <<pools, seen, req, port>>
      BY <1>2 DEF PoolsDone
    <2> SUFFICES ASSUME DistinctListeners(req), NEW p \in req.ports, ~Stray(ListenerKey(req, p))
                 PROVE  pools[ListenerKey(req, p)] = Full(ListedMembers(ListenerKey(req, p)))
      BY <2>1 DEF MembersInv, PortMembers, Stray, ListedMembers, ServedPCs
    <2>2. PortMembers(p)
      BY DEF MembersInv
    <2>3. CASE seen[ListenerKey(req, p)] = NoPool
      BY <2>1, <2>2, <2>3 DEF PortMembers, ListedMembers
    <2>4. CASE seen[ListenerKey(req, p)] # NoPool
      <3>1. seen[ListenerKey(req, p)] \in Pool
        BY <1>a, <2>4
      <3> QED
        BY <2>1, <2>2, <2>4, <3>1, FullPool DEF PortMembers, ListedMembers, Stray
    <2> QED
      BY <2>3, <2>4
  <1>3. ASSUME NEW p \in todo, CreatePool(p) PROVE MembersInv'
    <2>1. /\ pc = "pools" /\ pc' = pc /\ todo' = todo \ {p} /\ seen[ListenerKey(req, p)] = NoPool
          /\ pools' = [pools EXCEPT ![ListenerKey(req, p)] = Full({})]
          /\ UNCHANGED <<seen, req, port>>
      BY <1>3 DEF CreatePool, PutPool, Key, Full
    <2>2. p \in req.ports
      BY <2>1 DEF TodoInv
    <2>3. ASSUME DistinctListeners(req), NEW q \in req.ports, ~Stray(ListenerKey(req, q))
          PROVE  PortMembers(q)'
      <3>1. PortMembers(q)
        BY <2>3 DEF MembersInv
      <3>2. CASE q = p
        BY <1>a, <2>1, <2>2, <3>2 DEF PortMembers, ServedPCs
      <3>3. CASE q # p
        <4>1. ListenerKey(req, q) # ListenerKey(req, p)
          BY <2>2, <2>3, <3>3 DEF DistinctListeners
        <4>2. pools'[ListenerKey(req, q)] = pools[ListenerKey(req, q)]
          BY <1>a, <2>1, <2>3, <4>1
        <4> QED
          BY <2>1, <3>1, <3>3, <4>2 DEF PortMembers, ServedPCs
      <3> QED
        BY <3>2, <3>3
    <2> QED
      BY <2>1, <2>3 DEF MembersInv, Stray
  <1>4. ASSUME NEW p \in todo, KeepPool(p) PROVE MembersInv'
    <2>1. /\ pc = "pools" /\ pc' = pc /\ todo' = todo \ {p} /\ seen[ListenerKey(req, p)] # NoPool
          /\ UNCHANGED <<pools, seen, req, port>>
      BY <1>4 DEF KeepPool, Key
    <2> QED
      BY <2>1 DEF MembersInv, PortMembers, Stray, ServedPCs
  <1> QED
    BY <1>1, <1>2, <1>3, <1>4

(* The members of a port are compared, asked for and seen applied.         *)
LEMMA MembersPhaseMembers ==
    ASSUME TypeOK, TodoInv, FiniteInv, MembersInv,
           \/ MembersApplied \/ MembersDone
           \/ \E p \in todo : KeepMembers(p) \/ UpdateMembers(p)
    PROVE  MembersInv'
  <1> USE DEF cloudVars, passVars, ServedPCs
  <1>a. /\ req \in Request /\ \A p \in req.ports : ListenerKey(req, p) \in Keys
        /\ pools \in [Keys -> Pool \cup {NoPool}] /\ seen \in [Keys -> Pool \cup {NoPool}]
    BY MemberTypes
  <1>1. ASSUME NEW p \in todo, KeepMembers(p) PROVE MembersInv'
    <2> DEFINE k == ListenerKey(req, p)
    <2>1. /\ pc = "members" /\ pc' = pc /\ todo' = todo \ {p} /\ p \in req.ports
          /\ UNCHANGED <<pools, seen, req, port>>
          /\ ~membersChanged(ListedMembers(k), DesiredMembers(req, p))
      BY <1>1 DEF KeepMembers, MembersReady, Key, TodoInv
    <2>2. IsFiniteSet(ListedMembers(k)) /\ IsFiniteSet(DesiredMembers(req, p))
      BY <1>a, <2>1, FS_EmptySet, DesiredFinite DEF FiniteInv, PoolFinite, ListedMembers
    <2>3. ListedMembers(k) = DesiredMembers(req, p)
      BY <2>1, <2>2, MembersChangedIsDifference
    <2>4. ASSUME DistinctListeners(req), NEW q \in req.ports, ~Stray(ListenerKey(req, q))
          PROVE  PortMembers(q)'
      <3>1. PortMembers(q)
        BY <2>4 DEF MembersInv
      <3> QED
        BY <2>1, <2>3, <3>1 DEF PortMembers, ListedMembers
    <2> QED
      BY <2>1, <2>4 DEF MembersInv, Stray
  <1>2. ASSUME NEW p \in todo, UpdateMembers(p) PROVE MembersInv'
    <2> DEFINE k == ListenerKey(req, p)
    <2>1. /\ pc = "members" /\ pc' = "applied" /\ port' = p /\ p \in req.ports /\ HasPool(k)
          /\ pools' = [pools EXCEPT ![k] = [pools[k] EXCEPT !.target = DesiredMembers(req, p)]]
          /\ UNCHANGED <<seen, req, todo>>
      BY <1>2 DEF UpdateMembers, MembersReady, PoolUpdate, Key, TodoInv
    <2>2. k \in Keys /\ pools[k] \in Pool
      BY <1>a, <2>1 DEF HasPool
    <2>3. pools'[k] \in Pool /\ pools'[k].target = DesiredMembers(req, p)
      <3>1. DesiredMembers(req, p) \in SUBSET Member
        BY <1>a, <2>1, MembersType, MemberTypes
      <3> QED
        BY <1>a, <2>1, <2>2, <3>1 DEF Pool
    <2>4. HasPool(k)'
      BY <2>1, <2>3, CloudConstants DEF HasPool
    <2>5. ASSUME DistinctListeners(req), NEW q \in req.ports, ~Stray(ListenerKey(req, q))
          PROVE  PortMembers(q)'
      <3>1. PortMembers(q)
        BY <2>5 DEF MembersInv
      <3>2. CASE q = p
        BY <2>1, <2>3, <2>4, <3>2 DEF PortMembers
      <3>3. CASE q # p
        <4>1. ListenerKey(req, q) # k
          BY <2>1, <2>5, <3>3 DEF DistinctListeners
        <4>2. pools'[ListenerKey(req, q)] = pools[ListenerKey(req, q)]
          BY <1>a, <2>1, <2>5, <4>1
        <4> QED
          BY <2>1, <3>1, <3>3, <4>2 DEF PortMembers, ListedMembers
      <3> QED
        BY <3>2, <3>3
    <2> QED
      BY <2>1, <2>5 DEF MembersInv, Stray
  <1>3. CASE MembersApplied
    <2> DEFINE k == ListenerKey(req, port)
    <2>1. /\ pc = "applied" /\ pc' = "members" /\ todo' = todo \ {port}
          /\ UNCHANGED <<pools, seen, req>>
          /\ ~membersChanged(pools[k].members, DesiredMembers(req, port))
      BY <1>3 DEF MembersApplied, Key
    <2>2. port \in req.ports
      BY <2>1 DEF MembersInv, TodoInv
    <2>3. ASSUME DistinctListeners(req), NEW q \in req.ports, ~Stray(ListenerKey(req, q))
          PROVE  PortMembers(q)'
      <3>1. PortMembers(q)
        BY <2>3 DEF MembersInv
      <3>2. CASE q = port
        <4>1. pools[k] \in Pool /\ pools[k].target = DesiredMembers(req, port)
          BY <1>a, <2>1, <2>2, <3>1, <3>2 DEF PortMembers, HasPool
        <4>2. IsFiniteSet(pools[k].members) /\ IsFiniteSet(DesiredMembers(req, port))
          BY <1>a, <2>2, <4>1, DesiredFinite, CloudConstants DEF FiniteInv, PoolFinite
        <4>3. pools[k].members = DesiredMembers(req, port)
          BY <2>1, <4>2, MembersChangedIsDifference
        <4>4. pools[k] = Full(DesiredMembers(req, port))
          BY <4>1, <4>3, FullPool
        <4> QED
          BY <2>1, <3>2, <4>4 DEF PortMembers
      <3>3. CASE q # port
        BY <2>1, <3>1, <3>3 DEF PortMembers, ListedMembers
      <3> QED
        BY <3>2, <3>3
    <2> QED
      BY <2>1, <2>3 DEF MembersInv, Stray
  <1>4. CASE MembersDone
    BY <1>4 DEF MembersDone, Goto, MembersInv, PortMembers, Stray
  <1> QED
    BY <1>1, <1>2, <1>3, <1>4

(* The cloud applies an update: only the port that waits for it sees it.   *)
LEMMA ApplyMembersMembers ==
    ASSUME TypeOK, MembersInv, NEW k \in Keys, CloudApply(k)
    PROVE  MembersInv'
  <1>a. /\ \A p \in req.ports : ListenerKey(req, p) \in Keys
        /\ pools \in [Keys -> Pool \cup {NoPool}] /\ seen \in [Keys -> Pool \cup {NoPool}]
    BY MemberTypes
  <1>1. /\ UNCHANGED <<seen, req, todo, port, pc>> /\ UpdatePending(k)
        /\ pools' = [pools EXCEPT ![k] = [pools[k] EXCEPT !.members = pools[k].target]]
    BY DEF CloudApply, ApplyMembers, PutPool, workerVars, passVars
  <1>2. pools[k] \in Pool
    BY <1>1, <1>a DEF UpdatePending, HasPool
  <1>3. pools'[k] = Full(pools[k].target) /\ pools'[k] \in Pool
    <2>1. [pools[k] EXCEPT !.members = pools[k].target] = Full(pools[k].target)
      BY <1>2, FullPool
    <2>2. Full(pools[k].target) \in Pool
      BY <1>2 DEF Pool, Full
    <2> QED
      BY <1>1, <1>a, <2>1, <2>2
  <1>4. ASSUME DistinctListeners(req), NEW p \in req.ports, ~Stray(ListenerKey(req, p))
        PROVE  PortMembers(p)'
    <2>1. PortMembers(p)
      BY <1>4 DEF MembersInv
    <2>2. CASE ListenerKey(req, p) # k
      <3>1. pools'[ListenerKey(req, p)] = pools[ListenerKey(req, p)]
        BY <1>1, <1>a, <1>4, <2>2
      <3> QED
        BY <1>1, <2>1, <3>1 DEF PortMembers, ListedMembers, HasPool, ServedPCs
    <2>3. CASE ListenerKey(req, p) = k
      <3>1. \A m : pools[k] # Full(m)
        BY <1>1 DEF UpdatePending, Full
      <3>2. pools[k] # seen[k]
        BY <1>1, <1>4, <2>3 DEF UpdatePending, HasPool, Stray
      <3>3. HasPool(k)' /\ pools'[k].target = pools[k].target
        BY <1>3, CloudConstants DEF HasPool, Full
      <3>4. pc = "pools" => seen[k] = NoPool /\ p \in todo
        BY <2>1, <2>3, <3>1, <3>2 DEF PortMembers
      <3>5. pc \in {"members", "applied"} => pc = "applied" /\ p = port /\ p \in todo
        BY <2>1, <2>3, <3>1 DEF PortMembers
      <3>6. pc \notin ServedPCs \cup {"cleanup"}
        BY <2>1, <2>3, <3>1 DEF PortMembers
      <3> QED
        BY <1>1, <2>1, <2>3, <3>3, <3>4, <3>5, <3>6 DEF PortMembers, ServedPCs
    <2> QED
      BY <2>2, <2>3
  <1> QED
    BY <1>1, <1>4 DEF MembersInv, Stray

(* Every step of the provider, of the cloud and of everyone else.          *)
LEMMA MembersInductive ==
    ASSUME TypeOK, CoreInv, FiniteInv, MembersInv, [Next]_vars
    PROVE  MembersInv'
  <1> USE DEF cloudVars, serviceVars, passVars, ServedPCs
  <1>0. TodoInv
    BY DEF CoreInv
  <1>1. CASE Fail
    BY <1>1, MembersElsewhere DEF Fail, EndPass
  <1>2. CASE EnsureStep
    <2>1. CASE \/ StartEnsure \/ EnsureLB \/ ListListeners \/ Reload \/ ListenersDone \/ Publish
               \/ \E p \in todo : CreateListener(p) \/ UpdateListener(p) \/ KeepListener(p)
      BY <2>1, MembersElsewhere
      DEF StartEnsure, EnsureLB, ListListeners, Reload, ListenersDone, Publish, EndPass,
          CreateListener, UpdateListener, KeepListener, ToReload
    <2>2. CASE \/ AwaitFails \/ FloatingIPMissing \/ SubnetMissing
               \/ \E p \in todo : ListenerRejected(p) \/ PoolRejected(p) \/ MembersRejected(p)
      BY <2>2, <1>1
      DEF AwaitFails, FloatingIPMissing, SubnetMissing, ListenerRejected, PoolRejected,
          MembersRejected
    <2>3. CASE AwaitActive
      BY <2>3, MembersSame DEF AwaitActive
    <2>4. ASSUME NEW k \in Keys, CleanPool(k) PROVE MembersInv'
      <3>1. pools' = [pools EXCEPT ![k] = NoPool] /\ k \notin Wanted(req)
        BY <2>4 DEF CleanPool, PutPool, ObsoletePools
      <3>2. \A j \in Wanted(req) : pools'[j] = pools[j]
        BY <3>1, MemberTypes DEF Wanted
      <3> QED
        BY <2>4, <3>2, MembersKept DEF CleanPool
    <2>5. CASE \/ CleanDone \/ UseVip \/ SkipSecurityGroup \/ EnsureGroup \/ RulesDone
               \/ NodesDone \/ \E k \in Keys : CleanListener(k)
               \/ \E a \in FipAddrs : KeepFloatingIP(a) \/ ReuseFloatingIP(a) \/ CreateFloatingIP(a)
               \/ \E p \in req.ports : AddRule(p)
               \/ \E n \in Nodes : AssignNode(n)
      <3>1. /\ pc \in ServedPCs \cup {"cleanup"} /\ pc' \in ServedPCs \cup {"cleanup"}
            /\ UNCHANGED <<pools, seen, req>>
        BY <2>5
        DEF CleanDone, UseVip, SkipSecurityGroup, EnsureGroup, RulesDone, NodesDone, CleanListener,
            KeepFloatingIP, ReuseFloatingIP, CreateFloatingIP, AddRule, AssignNode, Goto, Address,
            PutListener, PutFip, PutGroup
      <3> QED
        BY <3>1, MembersKept
    <2> QED
      BY <1>0, <1>2, <2>1, <2>2, <2>3, <2>4, <2>5, PoolsPhaseMembers, MembersPhaseMembers
      DEF EnsureStep
  <1>3. CASE DeleteStep
    <2>1. pc' \in DeletePCs \cup {"idle"}
      BY <1>3
      DEF DeleteStep, DeleteNothing, StartDelete, PickListener, DeletePool, DeleteListener, DeleteLB,
          DeleteLBRejected, LBDeleted, SkipGroupDelete, DeleteGroup, GroupInUse, UnassignNode,
          SaveFloatingInvalid, DeleteFloatingIP, SkipFloatingIP, Finalize, ListenersGone, Goto, Fail,
          EndPass, DeletePCs
    <2> QED
      BY <2>1, MembersElsewhere DEF DeletePCs
  <1>4. CASE Abort \/ Restart \/ Recover
    BY <1>1, <1>4 DEF Abort, Restart, Recover
  <1>5. CASE ReloadPanics \/ FloatingIPDeleteFails \/ CloudLose
    BY <1>5, MembersElsewhere
    DEF ReloadPanics, FloatingIPDeleteFails, Goto, CloudLose, workerVars
  <1>6. CASE CloudBreak \/ CloudSettle \/ CloudDelete \/ DeleteService \/ \E s \in Specs : Edit(s)
    BY <1>6, MembersSame
    DEF CloudBreak, Break, CloudSettle, Settle, CloudDelete, FinishDelete, DeleteService, Edit,
        workerVars
  <1>7. CASE UNCHANGED vars
    BY <1>7, MembersSame DEF vars
  <1> QED
    BY <1>2, <1>3, <1>4, <1>5, <1>6, <1>7, ApplyMembersMembers
    DEF Next, WorkerStep, CloudStep, Disturbance, Fault, Outside, Gone

(* Whatever passes failed before, and however the cloud delays the updates *)
(* it accepted: once reconcilePoolMembers has passed, every pool that had  *)
(* no update of an earlier pass under way holds exactly the addresses of   *)
(* the pass's nodes, and is asked for nothing else.                        *)
THEOREM MembersServedAlways == Spec => []MembersServed
  <1>1. Init => FiniteInv /\ MembersInv
    <2> SUFFICES ASSUME Init PROVE FiniteInv /\ MembersInv
      OBVIOUS
    <2>1. FiniteInv
      BY DEF Init, CloudInit, NothingListed, FiniteInv, PoolFinite
    <2>2. MembersInv
      BY DEF Init, MembersInv, PortMembers, ServedPCs
    <2> QED
      BY <2>1, <2>2
  <1>2. TypeOK /\ CoreInv /\ (FiniteInv /\ MembersInv) /\ [Next]_vars => (FiniteInv /\ MembersInv)'
    BY FiniteInductive, MembersInductive
  <1>3. MembersInv => MembersServed
    BY DEF MembersInv, PortMembers, MembersServed, ServedPCs, Key, Full
  <1> QED
    BY <1>1, <1>2, <1>3, TypeCorrect, CoreInvariant, PTL DEF Spec

(***************************************************************************)
(* The action property WantedKept.                                         *)
(***************************************************************************)

(* No step of a pass takes a listener or a pool it wants.                  *)
LEMMA KeptStep ==
    ASSUME TypeOK, pc \in EnsurePCs, [Next]_vars, NEW k \in Wanted(req)
    PROVE  (HasListener(k) => HasListener(k)') /\ (HasPool(k) => HasPool(k)')
  <1> USE DEF cloudVars, HasListener, HasPool
  <1>a. /\ k \in Keys /\ req \in Request
        /\ listeners \in [Keys -> Attr \cup {NoListener}]
        /\ pools \in [Keys -> Pool \cup {NoPool}]
    BY MemberTypes DEF Wanted, TypeOK, CloudTypeOK
  <1>1. CASE UNCHANGED <<listeners, pools>>
    BY <1>1
  <1>2. ASSUME NEW p \in todo, CreateListener(p) \/ UpdateListener(p)
        PROVE  (HasListener(k) => HasListener(k)') /\ (HasPool(k) => HasPool(k)')
    <2>1. ListenerKey(req, p) \in Keys
      BY MemberTypes
    <2>2. ASSUME NEW a \in Attr, PutListener(ListenerKey(req, p), a)
          PROVE  (HasListener(k) => HasListener(k)') /\ (HasPool(k) => HasPool(k)')
      BY <1>a, <2>1, <2>2, CloudConstants DEF PutListener
    <2>3. CASE CreateListener(p)
      BY <1>a, <2>2, <2>3, CreatedType DEF CreateListener, Key
    <2>4. CASE UpdateListener(p)
      BY <1>a, <2>1, <2>2, <2>4, UpdatedType DEF UpdateListener, AcceptsUpdate, Key
    <2> QED
      BY <1>2, <2>3, <2>4
  <1>3. ASSUME NEW p \in todo, CreatePool(p) \/ UpdateMembers(p)
        PROVE  (HasListener(k) => HasListener(k)') /\ (HasPool(k) => HasPool(k)')
    <2> DEFINE j == ListenerKey(req, p)
    <2>1. j \in Keys /\ p \in Port
      BY MemberTypes
    <2>2. CASE CreatePool(p)
      <3>1. [members |-> {}, target |-> {}] \in Pool
        BY DEF Pool
      <3> QED
        BY <1>a, <2>1, <2>2, <3>1, CloudConstants DEF CreatePool, PutPool, Key
    <2>3. CASE UpdateMembers(p)
      <3>1. /\ pools[j] \in Pool /\ listeners' = listeners
            /\ pools' = [pools EXCEPT ![j] = [pools[j] EXCEPT !.target = DesiredMembers(req, p)]]
        BY <1>a, <2>1, <2>3 DEF UpdateMembers, PoolUpdate, Key
      <3>2. [pools[j] EXCEPT !.target = DesiredMembers(req, p)] \in Pool
        BY <1>a, <2>1, <3>1, MembersType DEF Pool
      <3> QED
        BY <1>a, <2>1, <3>1, <3>2, CloudConstants
    <2> QED
      BY <1>3, <2>2, <2>3
  <1>4. ASSUME NEW j \in Keys, CleanPool(j) \/ CleanListener(j)
        PROVE  (HasListener(k) => HasListener(k)') /\ (HasPool(k) => HasPool(k)')
    <2>1. j # k
      BY <1>4 DEF CleanPool, CleanListener, ObsoletePools, ObsoleteListeners
    <2> QED
      BY <1>a, <1>4, <2>1 DEF CleanPool, CleanListener, PutPool, PutListener
  <1>5. ASSUME NEW j \in Keys, CloudApply(j)
        PROVE  (HasListener(k) => HasListener(k)') /\ (HasPool(k) => HasPool(k)')
    <2>1. /\ pools[j] \in Pool /\ listeners' = listeners
          /\ pools' = [pools EXCEPT ![j] = [pools[j] EXCEPT !.members = pools[j].target]]
      BY <1>a, <1>5 DEF CloudApply, ApplyMembers, UpdatePending, PutPool
    <2>2. [pools[j] EXCEPT !.members = pools[j].target] \in Pool
      BY <2>1 DEF Pool
    <2> QED
      BY <1>a, <2>1, <2>2, CloudConstants
  <1>6. CASE EnsureStep
    BY <1>1, <1>2, <1>3, <1>4, <1>6
    DEF EnsureStep, StartEnsure, EnsureLB, AwaitActive, AwaitFails, ListListeners, Reload,
        ListenersDone, KeepListener, ListenerRejected, ListPools, PoolsDone, KeepPool, PoolRejected,
        MembersApplied, MembersDone, KeepMembers, MembersRejected, CleanDone, UseVip,
        FloatingIPMissing, KeepFloatingIP, ReuseFloatingIP, CreateFloatingIP, SkipSecurityGroup,
        EnsureGroup, SubnetMissing, RulesDone, NodesDone, AddRule, AssignNode, Publish,
        Fail, Goto, Address, ToReload, PutFip, PutGroup
  <1>7. ~DeleteStep \/ UNCHANGED <<listeners, pools>>
    BY DEF EnsurePCs, DeleteStep, DeleteNothing, StartDelete, PickListener, DeletePool,
           DeleteListener, DeleteLB, DeleteLBRejected, LBDeleted, SkipGroupDelete, DeleteGroup,
           GroupInUse, UnassignNode, SaveFloatingInvalid, DeleteFloatingIP, SkipFloatingIP, Finalize,
           ListenersGone
  <1>8. ~CloudLose
    BY DEF CloudLose, EnsurePCs
  <1>9. CASE Disturbance \/ CloudSettle \/ CloudDelete \/ Recover \/ UNCHANGED vars
    BY <1>1, <1>8, <1>9
    DEF Disturbance, Fault, Outside, Abort, Restart, ReloadPanics, FloatingIPDeleteFails, CloudBreak,
        DeleteService, Edit, CloudSettle, CloudDelete, Recover, Fail, Goto, Break, Settle,
        FinishDelete, vars
  <1> QED
    BY <1>1, <1>5, <1>6, <1>7, <1>9 DEF Next, WorkerStep, CloudStep, Gone

(* While EnsureLoadBalancer works, whichever step it is at and whatever    *)
(* fails, no listener and no pool of a port it serves goes away.           *)
THEOREM ServedPortsStay == Spec => WantedKept
  <1>1. TypeOK /\ [Next]_vars =>
          [(pc \in EnsurePCs) => \A k \in Wanted(req) :
             (HasListener(k) => HasListener(k)') /\ (HasPool(k) => HasPool(k)')]_vars
    BY KeptStep
  <1> QED
    BY <1>1, TypeCorrect, PTL DEF Spec, WantedKept

(***************************************************************************)
(* A repeated pass.                                                        *)
(***************************************************************************)

(* An update of a listener that serves the request leaves it as it is.     *)
LEMMA UpdateIdle ==
    ASSUME NEW s \in Request, NEW a \in Attr, ListenerServes(a, s)
    PROVE  UpdatedListener(a, s) = a
  BY DEF ListenerServes, UpdatedListener, Attr, TimeoutGiven

(* When everything is there, only a port's own listener and pool are, and  *)
(* these are right.                                                        *)
LEMMA FullyServedFacts ==
    ASSUME TypeOK, FullyServed(req)
    PROVE  /\ \A k \in Keys : HasListener(k) \/ HasPool(k) => k \in Wanted(req)
           /\ \A p \in req.ports :
                /\ Key(p) \in Keys
                /\ listeners[Key(p)] \in Attr /\ ListenerServes(listeners[Key(p)], req)
                /\ HasListener(Key(p)) /\ HasPool(Key(p))
                /\ pools[Key(p)] =
                     [members |-> DesiredMembers(req, p), target |-> DesiredMembers(req, p)]
           /\ \A k \in Keys : ~UpdatePending(k)
  <1>0. req \in Request
    BY SpecsType DEF TypeOK
  <1>1. \A k \in Keys : HasListener(k) \/ HasPool(k) => k \in Wanted(req)
    BY DEF FullyServed, ShapeServes
  <1>2. ASSUME NEW p \in req.ports
        PROVE  /\ Key(p) \in Keys
               /\ listeners[Key(p)] \in Attr /\ ListenerServes(listeners[Key(p)], req)
               /\ HasListener(Key(p)) /\ HasPool(Key(p))
               /\ pools[Key(p)] =
                    [members |-> DesiredMembers(req, p), target |-> DesiredMembers(req, p)]
    <2>1. Key(p) \in Wanted(req) /\ Key(p) \in Keys
      BY <1>0, WantedKeys DEF Key
    <2>2. HasListener(Key(p)) /\ HasPool(Key(p)) /\ ListenerServes(listeners[Key(p)], req)
      BY <2>1 DEF FullyServed, ShapeServes
    <2>3. listeners[Key(p)] \in Attr
      BY <2>1, <2>2 DEF HasListener, TypeOK, CloudTypeOK
    <2> QED
      BY <2>1, <2>2, <2>3 DEF FullyServed, Key
  <1>3. ASSUME NEW k \in Keys, UpdatePending(k) PROVE FALSE
    <2>1. PICK p \in req.ports : k = Key(p)
      BY <1>0, <1>1, <1>3, WantedKeys DEF UpdatePending, Key
    <2>2. pools[k] = [members |-> DesiredMembers(req, p), target |-> DesiredMembers(req, p)]
      BY <1>2, <2>1
    <2> QED
      BY <1>3, <2>2 DEF UpdatePending
  <1> QED
    BY <1>1, <1>2, <1>3

(* No step of a pass, and no step beside it, makes anything of a Service   *)
(* different that is fully served.                                         *)
LEMMA RepeatStep ==
    ASSUME TypeOK, CoreInv, ResourceInv, pc \in EnsurePCs, FullyServed(req), [Next]_vars
    PROVE  UNCHANGED <<listeners, pools, fips, sg>>
  <1> USE DEF cloudVars, serviceVars, passVars, workerVars
  <1>0. req \in Request /\ todo \subseteq Port
    BY SpecsType DEF TypeOK
  <1>a. /\ listeners \in [Keys -> Attr \cup {NoListener}]
        /\ pools \in [Keys -> Pool \cup {NoPool}]
        /\ sg \in [exists : BOOLEAN, rules : SUBSET Rule, nodes : SUBSET Nodes]
    BY DEF TypeOK, CloudTypeOK
  <1>b. pc \in {"listener", "pools", "members"} => todo \subseteq req.ports
    BY DEF CoreInv, TodoInv
  <1>1. ASSUME NEW p \in todo, CreateListener(p) \/ UpdateListener(p) \/ CreatePool(p)
        PROVE  UNCHANGED <<listeners, pools, fips, sg>>
    <2>1. p \in req.ports
      BY <1>1, <1>b DEF CreateListener, UpdateListener, CreatePool
    <2>2. ~CreateListener(p) /\ ~CreatePool(p)
      BY <2>1, FullyServedFacts DEF CreateListener, AcceptsListener, CreatePool, AcceptsPool
    <2>3. UpdatedListener(listeners[Key(p)], req) = listeners[Key(p)]
      BY <1>0, <2>1, FullyServedFacts, UpdateIdle
    <2> QED
      BY <1>1, <1>a, <2>1, <2>2, <2>3, FullyServedFacts DEF UpdateListener, PutListener
  <1>2. ASSUME NEW p \in todo, UpdateMembers(p)
        PROVE  UNCHANGED <<listeners, pools, fips, sg>>
    <2>1. p \in req.ports
      BY <1>2, <1>b DEF UpdateMembers, MembersReady
    <2>2. [pools[Key(p)] EXCEPT !.target = DesiredMembers(req, p)] = pools[Key(p)]
      <3>1. ASSUME NEW m
            PROVE  [[members |-> m, target |-> m] EXCEPT !.target = m]
                     = [members |-> m, target |-> m]
        OBVIOUS
      <3>2. pools[Key(p)] =
              [members |-> DesiredMembers(req, p), target |-> DesiredMembers(req, p)]
        BY <2>1, FullyServedFacts
      <3> QED
        BY <3>1, <3>2
    <2>3. Key(p) \in Keys
      BY <2>1, FullyServedFacts
    <2> QED
      BY <1>2, <1>a, <2>2, <2>3 DEF UpdateMembers, PoolUpdate
  <1>3. ASSUME NEW k \in Keys PROVE ~CleanPool(k) /\ ~CleanListener(k)
    BY FullyServedFacts DEF CleanPool, CleanListener, ObsoletePools, ObsoleteListeners
  <1>4. ASSUME NEW a \in FipAddrs PROVE ~ReuseFloatingIP(a) /\ ~CreateFloatingIP(a)
    BY DEF ReuseFloatingIP, CreateFloatingIP, FullyServed
  <1>5. CASE EnsureGroup
    <2>1. sg.exists /\ sg' = [sg EXCEPT !.exists = TRUE]
      BY <1>5 DEF EnsureGroup, PutGroup, FullyServed
    <2>2. sg' = sg
      BY <1>a, <2>1
    <2> QED
      BY <1>5, <2>2 DEF EnsureGroup, PutGroup
  <1>6. ASSUME NEW p \in req.ports PROVE ~AddRule(p)
    BY DEF AddRule, FullyServed, ResourceInv, GroupInv
  <1>7. ASSUME NEW n \in Nodes PROVE ~AssignNode(n)
    BY DEF AssignNode, FullyServed, ResourceInv, GroupInv
  <1>8. CASE EnsureStep
    BY <1>1, <1>2, <1>3, <1>4, <1>5, <1>6, <1>7, <1>8
    DEF EnsureStep, StartEnsure, EnsureLB, AwaitActive, AwaitFails, ListListeners, Reload,
        ListenersDone, KeepListener, ListenerRejected, ListPools, PoolsDone, KeepPool, PoolRejected,
        MembersApplied, MembersDone, KeepMembers, MembersRejected, CleanDone, UseVip,
        FloatingIPMissing, KeepFloatingIP, SkipSecurityGroup, SubnetMissing, RulesDone, NodesDone,
        Publish, Fail, Goto, Address, ToReload
  <1>9. CASE DeleteStep
    BY <1>9
    DEF EnsurePCs, DeleteStep, DeleteNothing, StartDelete, PickListener, DeletePool,
        DeleteListener, DeleteLB, DeleteLBRejected, LBDeleted, SkipGroupDelete, DeleteGroup,
        GroupInUse, UnassignNode, SaveFloatingInvalid, DeleteFloatingIP, SkipFloatingIP, Finalize,
        ListenersGone
  <1>10. ~CloudLose /\ ~CloudDelete /\ \A k \in Keys : ~CloudApply(k)
    BY FullyServedFacts
    DEF CloudLose, CloudDelete, FinishDelete, CloudApply, ApplyMembers, EnsurePCs, ResourceInv,
        LifeInv
  <1>11. CASE Disturbance \/ CloudSettle \/ Recover \/ UNCHANGED vars
    BY <1>10, <1>11
    DEF Disturbance, Fault, Outside, Abort, Restart, ReloadPanics, FloatingIPDeleteFails, CloudBreak,
        DeleteService, Edit, CloudSettle, Recover, Fail, Goto, Break, Settle, vars
  <1> QED
    BY <1>8, <1>9, <1>10, <1>11 DEF Next, WorkerStep, CloudStep, Gone

(* For any requests, nodes and ports: a pass over a Service that has       *)
(* everything it asks for changes no listener, pool, floating IP or group, *)
(* however old its listings are and whatever fails meanwhile.              *)
THEOREM RepeatedPassHarmless == Spec => RepeatHarmless
  <1>1. TypeOK /\ CoreInv /\ ResourceInv /\ [Next]_vars =>
          [(pc \in EnsurePCs /\ FullyServed(req)) => UNCHANGED <<listeners, pools, fips, sg>>]_vars
    BY RepeatStep
  <1> QED
    BY <1>1, TypeCorrect, CoreInvariant, ResourceInvariant, PTL DEF Spec, RepeatHarmless

=============================================================================
