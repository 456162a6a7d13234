--------------------------- MODULE LbaasV2_proofs ---------------------------
(***************************************************************************)
(* What LbaasV2 guarantees for every set of nodes, ports, requests and     *)
(* options: type correctness, and the safety properties the runs check on  *)
(* small instances.                                                        *)
(***************************************************************************)
EXTENDS LbaasV2, ServiceSpec_proofs

(***************************************************************************)
(* Type correctness.                                                       *)
(***************************************************************************)

(* A request of Specs is a request.                                        *)
LEMMA SpecsType ==
    /\ AnySpec \in Specs
    /\ \A s \in Specs : s \in Request /\ s.ports \in SUBSET Port /\ s.nodes \in SUBSET Nodes
  BY ProviderConstants DEF AnySpec, Request

(* The end of a pass leaves well-typed locals behind.                      *)
LEMMA EndPassType ==
    ASSUME EndPass, CloudTypeOK', desired' \in Specs, phase' \in {"live", "deleting", "gone"},
           ingress' \in FipAddrs \cup {Vip, NoAddr}, dirty' \in BOOLEAN
    PROVE  TypeOK'
  BY SpecsType DEF EndPass, TypeOK

(* A failed pass keeps the types.                                          *)
LEMMA FailType ==
    ASSUME TypeOK, Fail
    PROVE  TypeOK'
  <1>1. CloudTypeOK'
    BY DEF TypeOK, Fail, cloudVars, CloudTypeOK
  <1> QED
    BY <1>1, EndPassType DEF TypeOK, Fail

(* So does moving on to another step.                                      *)
LEMMA GotoType ==
    ASSUME TypeOK, NEW l \in {"idle", "panicked"} \cup EnsurePCs \cup DeletePCs, Goto(l)
    PROVE  TypeOK'
  BY DEF Goto, TypeOK, CloudTypeOK, cloudVars, serviceVars, passVars

(* Every initial state is well typed.                                      *)
LEMMA InitType == Init => TypeOK
  <1> SUFFICES ASSUME Init PROVE TypeOK
    OBVIOUS
  <1>1. NoGroup \in [exists : BOOLEAN, rules : SUBSET Rule, nodes : SUBSET Nodes]
    BY DEF NoGroup
  <1>2. CloudTypeOK
    BY <1>1 DEF Init, CloudInit, CloudTypeOK, LbStates
  <1>3. /\ desired \in Specs /\ req \in Specs /\ todo \in SUBSET Port
        /\ dirty \in BOOLEAN /\ waiting \in BOOLEAN
    BY SpecsType DEF Init
  <1>4. /\ existing \in [Keys -> Attr \cup {NoListener}]
        /\ seen \in [Keys -> Pool \cup {NoPool}]
    BY DEF Init, NothingListed
  <1> QED
    BY <1>2, <1>3, <1>4 DEF Init, TypeOK

(* EnsureLoadBalancer keeps the types.                                     *)
LEMMA EnsureStepType ==
    ASSUME TypeOK, EnsureStep
    PROVE  TypeOK'
  <1> USE DEF cloudVars, serviceVars, passVars
  <1>a. req \in Request /\ desired \in Request
        /\ \A p \in Port : Key(p) \in Keys
    BY SpecsType, KeyType DEF TypeOK, Key
  <1>b. todo \subseteq Port /\ req.ports \in SUBSET Port
    BY SpecsType DEF TypeOK
  <1>1. CASE StartEnsure
    BY <1>1 DEF StartEnsure, TypeOK, CloudTypeOK, EnsurePCs
  <1>2. CASE EnsureLB
    BY <1>2 DEF EnsureLB, TypeOK, CloudTypeOK, LbStates, EnsurePCs
  <1>3. CASE AwaitActive
    BY <1>3 DEF AwaitActive, TypeOK, CloudTypeOK
  <1>4. CASE AwaitFails
    BY <1>4, FailType DEF AwaitFails
  <1>5. CASE ListListeners
    BY <1>5, <1>b DEF ListListeners, TypeOK, CloudTypeOK, EnsurePCs
  <1>6. CASE Reload
    BY <1>6 DEF Reload, TypeOK, CloudTypeOK, EnsurePCs
  <1>7. CASE ListenersDone
    BY <1>7 DEF ListenersDone, TypeOK, CloudTypeOK, EnsurePCs
  <1>8. ASSUME NEW p \in todo, CreateListener(p) PROVE TypeOK'
    BY <1>8, <1>a, <1>b, CreatedType
    DEF CreateListener, PutListener, ToReload, TypeOK, CloudTypeOK, LbStates, EnsurePCs
  <1>9. ASSUME NEW p \in todo, UpdateListener(p) PROVE TypeOK'
    <2>1. Key(p) \in Keys /\ listeners[Key(p)] \in Attr
      BY <1>9, <1>a, <1>b DEF UpdateListener, AcceptsUpdate, HasListener, TypeOK, CloudTypeOK
    <2>2. UpdatedListener(listeners[Key(p)], req) \in Attr
      BY <2>1, <1>a, UpdatedType
    <2> QED
      BY <1>9, <1>b, <2>1, <2>2
      DEF UpdateListener, PutListener, ToReload, TypeOK, CloudTypeOK, LbStates, EnsurePCs
  <1>10. ASSUME NEW p \in todo, KeepListener(p) PROVE TypeOK'
    BY <1>10, <1>b DEF KeepListener, ToReload, TypeOK, CloudTypeOK, EnsurePCs
  <1>11. ASSUME NEW p \in todo, ListenerRejected(p) PROVE TypeOK'
    BY <1>11, FailType DEF ListenerRejected
  <1>12. CASE ListPools
    BY <1>12, <1>b DEF ListPools, TypeOK, CloudTypeOK, EnsurePCs
  <1>13. CASE PoolsDone
    BY <1>13, <1>b DEF PoolsDone, TypeOK, CloudTypeOK, EnsurePCs
  <1>14. ASSUME NEW p \in todo, CreatePool(p) PROVE TypeOK'
    <2>1. [members |-> {}, target |-> {}] \in Pool
      BY DEF Pool
    <2> QED
      BY <1>14, <1>a, <1>b, <2>1 DEF CreatePool, PutPool, TypeOK, CloudTypeOK, LbStates
  <1>15. ASSUME NEW p \in todo, KeepPool(p) PROVE TypeOK'
    BY <1>15 DEF KeepPool, TypeOK, CloudTypeOK
  <1>16. ASSUME NEW p \in todo, PoolRejected(p) PROVE TypeOK'
    BY <1>16, FailType DEF PoolRejected
  <1>17. CASE MembersApplied
    BY <1>17 DEF MembersApplied, TypeOK, CloudTypeOK, EnsurePCs
  <1>18. CASE MembersDone
    BY <1>18, GotoType DEF MembersDone, EnsurePCs
  <1>19. ASSUME NEW p \in todo, KeepMembers(p) PROVE TypeOK'
    BY <1>19 DEF KeepMembers, TypeOK, CloudTypeOK
  <1>20. ASSUME NEW p \in todo, UpdateMembers(p) PROVE TypeOK'
    <2>1. Key(p) \in Keys /\ pools[Key(p)] \in Pool
      BY <1>20, <1>a, <1>b DEF UpdateMembers, PoolUpdate, HasPool, TypeOK, CloudTypeOK
    <2>2. [pools[Key(p)] EXCEPT !.target = DesiredMembers(req, p)] \in Pool
      BY <2>1, <1>a, <1>b, MembersType DEF Pool
    <2> QED
      BY <1>20, <1>b, <2>1, <2>2
      DEF UpdateMembers, PoolUpdate, TypeOK, CloudTypeOK, EnsurePCs
  <1>21. ASSUME NEW p \in todo, MembersRejected(p) PROVE TypeOK'
    BY <1>21, FailType DEF MembersRejected
  <1>22. ASSUME NEW k \in Keys, CleanPool(k) PROVE TypeOK'
    BY <1>22 DEF CleanPool, PutPool, TypeOK, CloudTypeOK, LbStates
  <1>23. ASSUME NEW k \in Keys, CleanListener(k) PROVE TypeOK'
    BY <1>23 DEF CleanListener, PutListener, TypeOK, CloudTypeOK, LbStates
  <1>24. CASE CleanDone
    BY <1>24, GotoType DEF CleanDone, EnsurePCs
  <1>25. CASE UseVip
    BY <1>25 DEF UseVip, Address, TypeOK, CloudTypeOK, EnsurePCs
  <1>26. CASE FloatingIPMissing
    BY <1>26, FailType DEF FloatingIPMissing
  <1>27. ASSUME NEW a \in FipAddrs, KeepFloatingIP(a) PROVE TypeOK'
    BY <1>27 DEF KeepFloatingIP, Address, TypeOK, CloudTypeOK, EnsurePCs
  <1>28. ASSUME NEW a \in FipAddrs, ReuseFloatingIP(a) PROVE TypeOK'
    BY <1>28 DEF ReuseFloatingIP, PutFip, Address, TypeOK, CloudTypeOK, EnsurePCs
  <1>29. ASSUME NEW a \in FipAddrs, CreateFloatingIP(a) PROVE TypeOK'
    BY <1>29 DEF CreateFloatingIP, PutFip, Address, TypeOK, CloudTypeOK, EnsurePCs
  <1>30. CASE SkipSecurityGroup
    BY <1>30, GotoType DEF SkipSecurityGroup, EnsurePCs
  <1>31. CASE EnsureGroup
    BY <1>31 DEF EnsureGroup, PutGroup, TypeOK, CloudTypeOK, EnsurePCs
  <1>32. CASE SubnetMissing
    BY <1>32, FailType DEF SubnetMissing
  <1>33. CASE RulesDone
    BY <1>33, GotoType DEF RulesDone, EnsurePCs
  <1>34. CASE NodesDone
    BY <1>34, GotoType DEF NodesDone, EnsurePCs
  <1>35. ASSUME NEW p \in req.ports, AddRule(p) PROVE TypeOK'
    BY <1>35, <1>a, <1>b, RuleType DEF AddRule, PutGroup, TypeOK, CloudTypeOK
  <1>36. ASSUME NEW n \in Nodes, AssignNode(n) PROVE TypeOK'
    BY <1>36 DEF AssignNode, PutGroup, TypeOK, CloudTypeOK
  <1>37. CASE Publish
    BY <1>37, EndPassType DEF Publish, TypeOK, CloudTypeOK
  <1> QED
    BY <1>1, <1>2, <1>3, <1>4, <1>5, <1>6, <1>7, <1>8, <1>9, <1>10, <1>11, <1>12, <1>13,
       <1>14, <1>15, <1>16, <1>17, <1>18, <1>19, <1>20, <1>21, <1>22, <1>23, <1>24, <1>25,
       <1>26, <1>27, <1>28, <1>29, <1>30, <1>31, <1>32, <1>33, <1>34, <1>35, <1>36, <1>37
    DEF EnsureStep

(* EnsureLoadBalancerDeleted keeps the types.                              *)
LEMMA DeleteStepType ==
    ASSUME TypeOK, DeleteStep
    PROVE  TypeOK'
  <1> USE DEF cloudVars, serviceVars, passVars
  <1>1. CASE DeleteNothing
    BY <1>1 DEF DeleteNothing, TypeOK, CloudTypeOK, DeletePCs
  <1>2. CASE StartDelete
    BY <1>2 DEF StartDelete, TypeOK, CloudTypeOK, DeletePCs
  <1>3. ASSUME NEW k \in Keys, PickListener(k) PROVE TypeOK'
    BY <1>3 DEF PickListener, TypeOK, CloudTypeOK
  <1>4. CASE DeletePool
    BY <1>4 DEF DeletePool, PutPool, TypeOK, CloudTypeOK, LbStates
  <1>5. CASE DeleteListener
    BY <1>5 DEF DeleteListener, PutListener, TypeOK, CloudTypeOK, LbStates
  <1>6. CASE DeleteLB
    BY <1>6 DEF DeleteLB, TypeOK, CloudTypeOK, LbStates, DeletePCs
  <1>7. CASE DeleteLBRejected
    BY <1>7, FailType DEF DeleteLBRejected
  <1>8. CASE LBDeleted
    BY <1>8, GotoType DEF LBDeleted, DeletePCs
  <1>9. CASE SkipGroupDelete
    BY <1>9, GotoType DEF SkipGroupDelete, DeletePCs
  <1>10. CASE DeleteGroup
    <2>1. NoGroup \in [exists : BOOLEAN, rules : SUBSET Rule, nodes : SUBSET Nodes]
      BY DEF NoGroup
    <2> QED
      BY <1>10, <2>1 DEF DeleteGroup, PutGroup, TypeOK, CloudTypeOK, DeletePCs
  <1>11. CASE GroupInUse
    BY <1>11, FailType DEF GroupInUse
  <1>12. ASSUME NEW n \in Nodes, UnassignNode(n) PROVE TypeOK'
    BY <1>12 DEF UnassignNode, PutGroup, TypeOK, CloudTypeOK
  <1>13. CASE DeleteFloatingIP
    BY <1>13 DEF DeleteFloatingIP, FloatingIPGoes, PutFip, TypeOK, CloudTypeOK, DeletePCs
  <1>14. CASE SkipFloatingIP
    BY <1>14, GotoType DEF SkipFloatingIP, DeletePCs
  <1>15. CASE Finalize
    BY <1>15, EndPassType DEF Finalize, TypeOK, CloudTypeOK
  <1>16. CASE SaveFloatingInvalid
    BY <1>16, FailType DEF SaveFloatingInvalid
  <1> QED
    BY <1>1, <1>2, <1>3, <1>4, <1>5, <1>6, <1>7, <1>8, <1>9, <1>10, <1>11, <1>12, <1>13,
       <1>14, <1>15, <1>16
    DEF DeleteStep

(* Faults, users and operators keep the types.                             *)
LEMMA DisturbanceType ==
    ASSUME TypeOK, Disturbance
    PROVE  TypeOK'
  <1> USE DEF cloudVars, serviceVars, passVars
  <1>1. CASE Abort
    BY <1>1, FailType DEF Abort
  <1>2. CASE Restart
    BY <1>2, FailType DEF Restart
  <1>3. CASE ReloadPanics
    BY <1>3 DEF ReloadPanics, TypeOK, CloudTypeOK
  <1>4. CASE FloatingIPDeleteFails
    BY <1>4, GotoType DEF FloatingIPDeleteFails, DeletePCs
  <1>5. CASE CloudBreak
    BY <1>5 DEF CloudBreak, Break, workerVars, TypeOK, CloudTypeOK, LbStates
  <1>6. CASE CloudLose
    BY <1>6 DEF CloudLose, Lose, Detached, workerVars, TypeOK, CloudTypeOK, LbStates
  <1>7. CASE DeleteService
    BY <1>7 DEF DeleteService, TypeOK, CloudTypeOK
  <1>8. ASSUME NEW s \in Specs, Edit(s) PROVE TypeOK'
    BY <1>8 DEF Edit, TypeOK, CloudTypeOK
  <1> QED
    BY <1>1, <1>2, <1>3, <1>4, <1>5, <1>6, <1>7, <1>8 DEF Disturbance, Fault, Outside

(* The cloud's own steps keep the types.                                   *)
LEMMA CloudStepType ==
    ASSUME TypeOK, CloudStep
    PROVE  TypeOK'
  <1> USE DEF workerVars, serviceVars, passVars
  <1>1. CASE CloudSettle
    BY <1>1 DEF CloudSettle, Settle, TypeOK, CloudTypeOK, LbStates
  <1>2. CASE CloudDelete
    BY <1>2 DEF CloudDelete, FinishDelete, Detached, TypeOK, CloudTypeOK, LbStates
  <1>3. ASSUME NEW k \in Keys, CloudApply(k) PROVE TypeOK'
    <2>1. pools[k] \in Pool
      BY <1>3 DEF CloudApply, ApplyMembers, UpdatePending, HasPool, TypeOK, CloudTypeOK
    <2>2. [pools[k] EXCEPT !.members = pools[k].target] \in Pool
      BY <2>1 DEF Pool
    <2> QED
      BY <1>3, <2>2 DEF CloudApply, ApplyMembers, PutPool, TypeOK, CloudTypeOK, LbStates
  <1> QED
    BY <1>1, <1>2, <1>3 DEF CloudStep

(* A stuttering step changes nothing.                                     *)
LEMMA StutterType ==
    ASSUME TypeOK, UNCHANGED vars
    PROVE  TypeOK'
  BY DEF vars, cloudVars, serviceVars, passVars, TypeOK, CloudTypeOK

(* The provider, the Service and the cloud keep their types whatever the   *)
(* user asks for, whatever fails and whenever the process dies.            *)
THEOREM TypeCorrect == Spec => []TypeOK
  <1>1. TypeOK /\ [Next]_vars => TypeOK'
    BY EnsureStepType, DeleteStepType, DisturbanceType, CloudStepType, StutterType, FailType
    DEF Next, WorkerStep, Recover, Gone
  <1> QED
    BY InitType, <1>1, PTL DEF Spec

(***************************************************************************)
(* The inductive invariant behind SettledServed, NoOrphanPool and          *)
(* TeardownOrder.  SettledServed speaks of the moment between two passes;  *)
(* to get there it has to be known, at every step of a pass, what the pass *)
(* has already established and what it still knows from its listings.      *)
(***************************************************************************)

(* Between the listing of the listeners and the end of the cleanup.        *)
ListedPCs == {"listener", "reload", "poolsList", "pools", "members", "applied", "cleanup"}
PooledPCs == {"pools", "members", "applied", "cleanup"}
ServedPCs == {"address", "sg", "sgRules", "sgNodes", "ensured"}

PortServed(p) ==
    /\ HasListener(ListenerKey(req, p))
    /\ ListenerServes(listeners[ListenerKey(req, p)], req)

(* What is not in the listing is wanted; the ports already handled, and    *)
(* later all ports, have a listener that serves them.                      *)
ListenersInv ==
    /\ pc \in ListedPCs =>
          \A k \in Keys : HasListener(k) => existing[k] # NoListener \/ k \in Wanted(req)
    /\ pc \in {"listener", "reload"} =>
          /\ \A k \in Keys : existing[k] # NoListener =>
                HasListener(k) /\ (listeners[k] = existing[k] \/ ListenerServes(listeners[k], req))
          /\ \A p \in req.ports \ todo : PortServed(p)
    /\ pc = "reload" => PortServed(port)
    /\ pc \in ListedPCs \ {"listener", "reload"} => \A p \in req.ports : PortServed(p)

(* The loops run over ports of the request.                                *)
TodoInv == pc \in {"listener", "reload", "pools", "members", "applied"} => todo \subseteq req.ports

(* The same for the pools; a wanted pool that was listed is still there.   *)
PoolsInv ==
    /\ pc \in PooledPCs => \A k \in Keys :
          /\ HasPool(k) => seen[k] # NoPool \/ k \in Wanted(req)
          /\ seen[k] # NoPool /\ k \in Wanted(req) => HasPool(k)
    /\ pc = "pools" => \A p \in req.ports \ todo : HasPool(ListenerKey(req, p))
    /\ pc \in PooledPCs \ {"pools"} => \A p \in req.ports : HasPool(ListenerKey(req, p))

(* InsertXForwarded is what the listener's protocol says, outside TLS.     *)
ForwardInv ==
    \A k \in Keys : (HasListener(k) /\ k[1] # "TERMINATED_HTTPS") =>
        listeners[k].xff = (k[1] = "HTTP")

(* A pass works on the current Service unless the Service is queued again. *)
CopyInv == (pc \in EnsurePCs /\ ~dirty) => req = desired

ShapeInv == pc \in ServedPCs => ShapeServes(req)

(* The deletion knows every listener there is.                             *)
DeletionInv ==
    pc = "delListeners" => \A k \in Keys : HasListener(k) => existing[k] # NoListener

CoreInv ==
    /\ TodoInv /\ ListenersInv /\ PoolsInv /\ ForwardInv /\ CopyInv /\ ShapeInv /\ DeletionInv
    /\ NoOrphanPool /\ TeardownOrder /\ SettledServed

-----------------------------------------------------------------------------
(* The listeners of a request are those of its ports.                      *)
LEMMA WantedKeys ==
    ASSUME NEW s \in Request
    PROVE  /\ \A p \in s.ports : ListenerKey(s, p) \in Wanted(s) /\ p \in Port
           /\ \A k \in Wanted(s) : \E p \in s.ports : k = ListenerKey(s, p)
           /\ Wanted(s) \subseteq Keys
  <1>1. s.ports \subseteq Port
    BY DEF Request
  <1> QED
    BY <1>1, KeyType DEF Wanted

(* Outside TLS the listener's protocol tells whether X-Forwarded-For is on.*)
LEMMA ForwardKey ==
    ASSUME NEW s \in Request, NEW p \in Port
    PROVE  /\ s.secret = NoSecret => /\ ListenerKey(s, p)[1] # "TERMINATED_HTTPS"
                                     /\ s.keepClientIP = (ListenerKey(s, p)[1] = "HTTP")
           /\ s.secret # NoSecret => ListenerKey(s, p)[1] = "TERMINATED_HTTPS"
  <1>1. s.keepClientIP \in BOOLEAN
    BY DEF Request
  <1>2. CASE s.secret # NoSecret
    BY <1>2 DEF ListenerKey, resolveListenerProtocol
  <1>3. CASE s.secret = NoSecret /\ s.keepClientIP
    BY <1>1, <1>3 DEF ListenerKey, resolveListenerProtocol
  <1>4. CASE s.secret = NoSecret /\ ~s.keepClientIP
    BY <1>1, <1>4 DEF ListenerKey, resolveListenerProtocol
  <1> QED
    BY <1>2, <1>3, <1>4

(* A listener the pass creates serves its request.                         *)
LEMMA CreatedServes ==
    ASSUME NEW s \in Request
    PROVE  /\ ListenerServes(buildListenerCreateRequest(s), s)
           /\ buildListenerCreateRequest(s).xff = s.keepClientIP
  BY DEF ListenerServes, buildListenerCreateRequest

(* An update makes a listener serve, if its forwarding mode is right.      *)
LEMMA UpdatedServes ==
    ASSUME NEW s \in Request, NEW a \in Attr, s.secret = NoSecret => a.xff = s.keepClientIP
    PROVE  /\ ListenerServes(UpdatedListener(a, s), s)
           /\ UpdatedListener(a, s).xff = a.xff
  BY DEF ListenerServes, UpdatedListener, Attr, TimeoutGiven

(* A listener that needs no update serves, if its forwarding mode is right.*)
LEMMA KeptServes ==
    ASSUME NEW s \in Request, NEW a \in Attr, s.secret = NoSecret => a.xff = s.keepClientIP,
           ~ListenerNeedsUpdate(a, s)
    PROVE  ListenerServes(a, s)
  BY SpecialTimeouts DEF ListenerServes, ListenerNeedsUpdate, TimeoutGiven

(* The listener under a key of the request has the forwarding mode the     *)
(* request needs.                                                          *)
LEMMA ForwardRight ==
    ASSUME TypeOK, ForwardInv, NEW p \in Port, HasListener(ListenerKey(req, p))
    PROVE  /\ ListenerKey(req, p) \in Keys
           /\ listeners[ListenerKey(req, p)] \in Attr
           /\ req.secret = NoSecret => listeners[ListenerKey(req, p)].xff = req.keepClientIP
  <1>1. req \in Request
    BY SpecsType DEF TypeOK
  <1>2. ListenerKey(req, p) \in Keys
    BY <1>1, KeyType
  <1>3. listeners[ListenerKey(req, p)] \in Attr
    BY <1>2 DEF TypeOK, CloudTypeOK, HasListener
  <1>4. req.secret = NoSecret => listeners[ListenerKey(req, p)].xff = req.keepClientIP
    <2> SUFFICES ASSUME req.secret = NoSecret
                 PROVE  listeners[ListenerKey(req, p)].xff = req.keepClientIP
      OBVIOUS
    <2> DEFINE k == ListenerKey(req, p)
    <2>1. k[1] # "TERMINATED_HTTPS" /\ req.keepClientIP = (k[1] = "HTTP")
      BY <1>1, ForwardKey
    <2>2. listeners[k].xff = (k[1] = "HTTP")
      BY <1>2, <2>1 DEF ForwardInv
    <2> QED
      BY <2>1, <2>2
  <1> QED
    BY <1>2, <1>3, <1>4

(* Initially there is nothing.                                             *)
LEMMA InitCore == Init => CoreInv
  <1> SUFFICES ASSUME Init PROVE CoreInv
    OBVIOUS
  <1>1. pc = "idle" /\ dirty = TRUE /\ lb = "ABSENT"
    BY DEF Init, CloudInit
  <1>2. \A k \in Keys : listeners[k] = NoListener /\ pools[k] = NoPool
    BY DEF Init, CloudInit
  <1>3. TodoInv /\ ListenersInv /\ PoolsInv /\ CopyInv /\ ShapeInv /\ DeletionInv
    BY <1>1 DEF TodoInv, ListenersInv, PoolsInv, CopyInv, ShapeInv, DeletionInv, ListedPCs, PooledPCs,
                ServedPCs, EnsurePCs
  <1>4. ForwardInv /\ NoOrphanPool /\ TeardownOrder /\ SettledServed
    BY <1>1, <1>2 DEF ForwardInv, NoOrphanPool, TeardownOrder, SettledServed, Settled,
                      HasListener, HasPool
  <1> QED
    BY <1>3, <1>4 DEF CoreInv

(* A failed pass leaves the cloud as it is and queues the Service.         *)
LEMMA FailCore ==
    ASSUME CoreInv, Fail
    PROVE  CoreInv'
  <1>1. pc' = "idle" /\ dirty' = TRUE /\ UNCHANGED <<lb, listeners, pools>>
    BY DEF Fail, EndPass, cloudVars
  <1>2. (TodoInv /\ ListenersInv /\ PoolsInv /\ CopyInv /\ ShapeInv /\ DeletionInv)'
    BY <1>1 DEF TodoInv, ListenersInv, PoolsInv, CopyInv, ShapeInv, DeletionInv, ListedPCs, PooledPCs,
                ServedPCs, EnsurePCs
  <1>3. (ForwardInv /\ NoOrphanPool /\ TeardownOrder /\ SettledServed)'
    BY <1>1 DEF CoreInv, ForwardInv, NoOrphanPool, TeardownOrder, SettledServed, Settled,
                HasListener, HasPool
  <1> QED
    BY <1>2, <1>3 DEF CoreInv

(* A step that leaves the listeners, the pools, the listings and the copy  *)
(* alone, outside the loops over the ports.                                *)
LEMMA QuietCore ==
    ASSUME CoreInv,
           UNCHANGED <<listeners, pools, existing, seen, req, desired, phase, dirty>>,
           pc' = pc, todo' = todo, port' = port,
           \/ lb' \in {lb, "ABSENT"}
           \/ lb' \in {"ACTIVE", "ERROR"} /\ lb # "ABSENT"
    PROVE  CoreInv'
  <1>1. ListenersInv'
    BY DEF CoreInv, ListenersInv, PortServed, HasListener
  <1>2. PoolsInv'
    BY DEF CoreInv, PoolsInv, HasPool
  <1>3. TodoInv' /\ ForwardInv' /\ CopyInv' /\ DeletionInv' /\ NoOrphanPool'
    BY DEF CoreInv, TodoInv, ForwardInv, CopyInv, DeletionInv, NoOrphanPool, HasListener, HasPool
  <1>4. ShapeInv' /\ TeardownOrder' /\ SettledServed'
    BY DEF CoreInv, ShapeInv, TeardownOrder, SettledServed, Settled, ShapeServes, HasListener,
           HasPool
  <1> QED
    BY <1>1, <1>2, <1>3, <1>4 DEF CoreInv

(* EnsureLoadBalancer up to the end of the listeners phase.                *)
LEMMA ListenersPhaseCore ==
    ASSUME TypeOK, CoreInv,
           \/ StartEnsure \/ EnsureLB \/ ListListeners \/ Reload \/ ListenersDone
           \/ \E p \in todo : CreateListener(p) \/ UpdateListener(p) \/ KeepListener(p)
    PROVE  CoreInv'
  <1> USE DEF cloudVars, serviceVars, passVars, HasListener, HasPool, Key
  <1>a. req \in Request /\ todo \subseteq Port
    BY SpecsType DEF TypeOK
  <1>1. CASE StartEnsure
    BY <1>1 DEF StartEnsure, CoreInv, TodoInv, ListenersInv, PoolsInv, ForwardInv, CopyInv, ShapeInv,
                DeletionInv, NoOrphanPool, TeardownOrder, SettledServed, Settled, ListedPCs,
                PooledPCs, ServedPCs
  <1>2. CASE EnsureLB
    BY <1>2 DEF EnsureLB, CoreInv, TodoInv, ListenersInv, PoolsInv, ForwardInv, CopyInv, ShapeInv,
                DeletionInv, NoOrphanPool, TeardownOrder, SettledServed, Settled, ListedPCs,
                PooledPCs, ServedPCs, EnsurePCs
  <1>3. CASE ListListeners
    BY <1>3 DEF ListListeners, CoreInv, TodoInv, ListenersInv, PoolsInv, ForwardInv, CopyInv, ShapeInv,
                DeletionInv, NoOrphanPool, TeardownOrder, SettledServed, Settled, ListedPCs,
                PooledPCs, ServedPCs, EnsurePCs
  <1>4. CASE Reload
    BY <1>4 DEF Reload, CoreInv, TodoInv, ListenersInv, PoolsInv, ForwardInv, CopyInv, ShapeInv,
                DeletionInv, NoOrphanPool, TeardownOrder, SettledServed, Settled, ListedPCs,
                PooledPCs, ServedPCs, EnsurePCs, PortServed
  <1>5. CASE ListenersDone
    BY <1>5 DEF ListenersDone, CoreInv, TodoInv, ListenersInv, PoolsInv, ForwardInv, CopyInv, ShapeInv,
                DeletionInv, NoOrphanPool, TeardownOrder, SettledServed, Settled, ListedPCs,
                PooledPCs, ServedPCs, EnsurePCs, PortServed
  <1>q. ASSUME NEW p \in Port, NEW a \in Attr, pc = "listener", pc' = "reload", lb = "ACTIVE",
               ListenerServes(a, req), PutListener(ListenerKey(req, p), a), ToReload(p),
               ListenerKey(req, p)[1] # "TERMINATED_HTTPS"
                 => a.xff = (ListenerKey(req, p)[1] = "HTTP"),
               p \in req.ports
        PROVE  CoreInv'
    <2> DEFINE k == ListenerKey(req, p)
    <2>1. k \in Keys /\ k \in Wanted(req) /\ a # NoListener
      BY <1>a, <1>q, WantedKeys, CloudConstants
    <2>2. /\ listeners' = [listeners EXCEPT ![k] = a]
          /\ UNCHANGED <<pools, existing, seen, req, todo, desired, phase, dirty>>
          /\ lb' = "PENDING_UPDATE" /\ port' = p
      BY <1>q DEF PutListener, ToReload
    <2>3. \A j \in Keys : listeners'[j] = IF j = k THEN a ELSE listeners[j]
      BY <2>1, <2>2 DEF TypeOK, CloudTypeOK
    <2> HIDE DEF k
    <2>4. ListenersInv'
      <3>1. \A q \in req.ports : ListenerKey(req, q) \in Keys
        BY <1>a, WantedKeys
      <3> QED
        BY <1>q, <2>1, <2>2, <2>3, <3>1 DEF CoreInv, ListenersInv, PortServed, ListedPCs, k
    <2>5. TodoInv' /\ PoolsInv' /\ CopyInv' /\ ShapeInv' /\ DeletionInv' /\ TeardownOrder'
          /\ SettledServed'
      BY <1>q, <2>2 DEF CoreInv, TodoInv, PoolsInv, CopyInv, ShapeInv, DeletionInv, TeardownOrder,
                        SettledServed, Settled, PooledPCs, ServedPCs, EnsurePCs
    <2>6. ForwardInv'
      BY <1>q, <2>3 DEF CoreInv, ForwardInv, k
    <2>7. NoOrphanPool'
      BY <2>1, <2>2, <2>3 DEF CoreInv, NoOrphanPool
    <2> QED
      BY <2>4, <2>5, <2>6, <2>7 DEF CoreInv
  <1>6. ASSUME NEW p \in todo, CreateListener(p) PROVE CoreInv'
    <2>1. p \in Port /\ p \in req.ports
      BY <1>6, <1>a DEF CreateListener, CoreInv, TodoInv
    <2> DEFINE a == buildListenerCreateRequest(req)
    <2>2. a \in Attr /\ ListenerServes(a, req) /\ a.xff = req.keepClientIP
      BY <1>a, CreatedType, CreatedServes
    <2>3. ListenerKey(req, p)[1] # "TERMINATED_HTTPS"
            => req.keepClientIP = (ListenerKey(req, p)[1] = "HTTP")
      BY <1>a, <2>1, ForwardKey
    <2> HIDE DEF a
    <2>4. ListenerKey(req, p)[1] # "TERMINATED_HTTPS"
            => a.xff = (ListenerKey(req, p)[1] = "HTTP")
      BY <2>2, <2>3
    <2>5. /\ pc = "listener" /\ pc' = "reload" /\ lb = "ACTIVE"
          /\ PutListener(ListenerKey(req, p), a) /\ ToReload(p)
      BY <1>6 DEF CreateListener, AcceptsListener, ToReload, a
    <2> QED
      BY <1>q, <2>1, <2>2, <2>4, <2>5
  <1>7. ASSUME NEW p \in todo, UpdateListener(p) PROVE CoreInv'
    <2>1. p \in Port /\ p \in req.ports
      BY <1>7, <1>a DEF UpdateListener, CoreInv, TodoInv
    <2> DEFINE k == ListenerKey(req, p)
               a == UpdatedListener(listeners[k], req)
    <2>2. k \in Keys /\ HasListener(k) /\ listeners[k] \in Attr
          /\ (req.secret = NoSecret => listeners[k].xff = req.keepClientIP)
      BY <1>7, <2>1, ForwardRight DEF UpdateListener, AcceptsUpdate, CoreInv
    <2>3. a \in Attr /\ ListenerServes(a, req) /\ a.xff = listeners[k].xff
      BY <1>a, <2>2, UpdatedType, UpdatedServes
    <2>4. k[1] # "TERMINATED_HTTPS" => listeners[k].xff = (k[1] = "HTTP")
      BY <2>2 DEF CoreInv, ForwardInv
    <2> HIDE DEF a
    <2>5. k[1] # "TERMINATED_HTTPS" => a.xff = (k[1] = "HTTP")
      BY <2>3, <2>4
    <2>6. /\ pc = "listener" /\ pc' = "reload" /\ lb = "ACTIVE"
          /\ PutListener(k, a) /\ ToReload(p)
      BY <1>7 DEF UpdateListener, AcceptsUpdate, ToReload, a
    <2> QED
      BY <1>q, <2>1, <2>3, <2>5, <2>6
  <1>8. ASSUME NEW p \in todo, KeepListener(p) PROVE CoreInv'
    <2>1. p \in Port /\ p \in req.ports /\ ListenerKey(req, p) \in Keys
      BY <1>8, <1>a, KeyType DEF KeepListener, CoreInv, TodoInv
    <2> DEFINE k == ListenerKey(req, p)
    <2>2. /\ HasListener(k) /\ ~ListenerNeedsUpdate(existing[k], req)
          /\ listeners[k] = existing[k] \/ ListenerServes(listeners[k], req)
      BY <1>8, <2>1 DEF KeepListener, CoreInv, ListenersInv
    <2>3. ListenerServes(listeners[k], req)
      <3>1. CASE listeners[k] = existing[k]
        BY <1>a, <2>1, <2>2, <3>1, ForwardRight, KeptServes DEF CoreInv
      <3> QED
        BY <2>2, <3>1
    <2>4. PortServed(p)
      BY <2>2, <2>3 DEF PortServed
    <2> HIDE DEF k
    <2>5. /\ UNCHANGED <<lb, listeners, pools, existing, seen, req, todo, desired, phase, dirty>>
          /\ pc = "listener" /\ pc' = "reload" /\ port' = p
      BY <1>8 DEF KeepListener, ToReload
    <2>6. ListenersInv'
      BY <2>4, <2>5 DEF CoreInv, ListenersInv, PortServed, ListedPCs
    <2>7. TodoInv' /\ PoolsInv' /\ CopyInv' /\ ShapeInv' /\ DeletionInv' /\ TeardownOrder'
          /\ SettledServed' /\ ForwardInv' /\ NoOrphanPool'
      BY <2>5 DEF CoreInv, TodoInv, PoolsInv, CopyInv, ShapeInv, DeletionInv, TeardownOrder,
                  SettledServed, Settled, ForwardInv, NoOrphanPool, PooledPCs, ServedPCs, EnsurePCs
    <2> QED
      BY <2>6, <2>7 DEF CoreInv
  <1> QED
    BY <1>1, <1>2, <1>3, <1>4, <1>5, <1>6, <1>7, <1>8

(* A step that puts a pool under a wanted key, or changes one, keeps what  *)
(* is known of the listeners and of the other pools.                       *)
LEMMA PutPoolCore ==
    ASSUME TypeOK, CoreInv, NEW k \in Keys, NEW q \in Pool, HasListener(k),
           pools' = [pools EXCEPT ![k] = q],
           pc \in PooledPCs => HasPool(k) \/ k \in Wanted(req),
           pc \in ServedPCs \/ Settled => HasPool(k),
           UNCHANGED <<listeners, existing, seen, req, desired, phase, dirty>>,
           pc' = pc, port' = port,
           pc = "pools" => \A p \in req.ports : p \in todo \ todo' => ListenerKey(req, p) = k,
           pc # "pools" => todo' = todo, todo' \subseteq todo,
           lb = "ACTIVE", lb' \in {"ACTIVE", "PENDING_UPDATE"}
    PROVE  CoreInv'
  <1> USE DEF HasListener, HasPool
  <1>1. q # NoPool /\ \A j \in Keys : pools'[j] = IF j = k THEN q ELSE pools[j]
    BY CloudConstants DEF TypeOK, CloudTypeOK
  <1>2. req \in Request /\ \A p \in req.ports : ListenerKey(req, p) \in Keys
    BY SpecsType, WantedKeys DEF TypeOK
  <1>3. ListenersInv' /\ TodoInv' /\ ForwardInv' /\ CopyInv' /\ DeletionInv' /\ TeardownOrder'
    BY DEF CoreInv, ListenersInv, PortServed, TodoInv, ForwardInv, CopyInv, DeletionInv,
           TeardownOrder
  <1>4. PoolsInv'
    BY <1>1, <1>2 DEF CoreInv, PoolsInv, PooledPCs
  <1>5. NoOrphanPool'
    BY <1>1 DEF CoreInv, NoOrphanPool
  <1>6. ASSUME NEW t, ShapeServes(t), HasPool(k) PROVE ShapeServes(t)'
    BY <1>1, <1>6 DEF ShapeServes
  <1>7. ShapeInv'
    BY <1>6 DEF CoreInv, ShapeInv
  <1>8. SettledServed'
    BY <1>6 DEF CoreInv, SettledServed, Settled
  <1> QED
    BY <1>3, <1>4, <1>5, <1>7, <1>8 DEF CoreInv

(* EnsureLoadBalancer from the pools phase to the members.                 *)
LEMMA PoolsPhaseCore ==
    ASSUME TypeOK, CoreInv,
           \/ ListPools \/ PoolsDone \/ MembersApplied \/ MembersDone
           \/ \E p \in todo : CreatePool(p) \/ KeepPool(p) \/ KeepMembers(p) \/ UpdateMembers(p)
    PROVE  CoreInv'
  <1> USE DEF cloudVars, serviceVars, passVars, HasListener, HasPool, Key
  <1>a. req \in Request /\ todo \subseteq Port
    BY SpecsType DEF TypeOK
  <1>b. \A p \in req.ports : ListenerKey(req, p) \in Keys /\ ListenerKey(req, p) \in Wanted(req)
    BY <1>a, WantedKeys
  <1>1. CASE ListPools
    BY <1>b, <1>1 DEF ListPools, CoreInv, TodoInv, ListenersInv, PoolsInv, ForwardInv, CopyInv,
       ShapeInv, DeletionInv, NoOrphanPool, TeardownOrder, SettledServed, Settled, PortServed,
       ListedPCs, PooledPCs, ServedPCs, EnsurePCs
  <1>2. CASE PoolsDone
    BY <1>2 DEF PoolsDone, CoreInv, TodoInv, ListenersInv, PoolsInv, ForwardInv, CopyInv,
       ShapeInv, DeletionInv, NoOrphanPool, TeardownOrder, SettledServed, Settled, PortServed,
       ListedPCs, PooledPCs, ServedPCs, EnsurePCs
  <1>3. CASE MembersApplied
    BY <1>3 DEF MembersApplied, CoreInv, TodoInv, ListenersInv, PoolsInv, ForwardInv, CopyInv,
       ShapeInv, DeletionInv, NoOrphanPool, TeardownOrder, SettledServed, Settled, PortServed,
       ListedPCs, PooledPCs, ServedPCs, EnsurePCs
  <1>4. CASE MembersDone
    BY <1>4 DEF MembersDone, Goto, CoreInv, TodoInv, ListenersInv, PoolsInv, ForwardInv, CopyInv,
       ShapeInv, DeletionInv, NoOrphanPool, TeardownOrder, SettledServed, Settled, PortServed,
       ListedPCs, PooledPCs, ServedPCs, EnsurePCs
  <1>5. ASSUME NEW p \in todo, CreatePool(p) PROVE CoreInv'
    <2>1. p \in req.ports /\ ListenerKey(req, p) \in Keys /\ ListenerKey(req, p) \in Wanted(req)
      BY <1>5, <1>b DEF CreatePool, CoreInv, TodoInv
    <2>2. [members |-> {}, target |-> {}] \in Pool
      BY DEF Pool
    <2> QED
      BY <1>5, <2>1, <2>2, PutPoolCore
      DEF CreatePool, AcceptsPool, PutPool, ServedPCs, Settled
  <1>6. ASSUME NEW p \in todo, KeepPool(p) PROVE CoreInv'
    <2>1. HasPool(ListenerKey(req, p))
      BY <1>6, <1>b DEF KeepPool, CoreInv, TodoInv, PoolsInv, PooledPCs
    <2> QED
      BY <2>1, <1>6 DEF KeepPool, CoreInv, TodoInv, ListenersInv, PoolsInv, ForwardInv, CopyInv,
         ShapeInv, DeletionInv, NoOrphanPool, TeardownOrder, SettledServed, Settled, PortServed,
         ListedPCs, PooledPCs, ServedPCs, EnsurePCs
  <1>7. ASSUME NEW p \in todo, KeepMembers(p) PROVE CoreInv'
    BY <1>7 DEF KeepMembers, MembersReady, CoreInv, TodoInv, ListenersInv, PoolsInv, ForwardInv, CopyInv,
       ShapeInv, DeletionInv, NoOrphanPool, TeardownOrder, SettledServed, Settled, PortServed,
       ListedPCs, PooledPCs, ServedPCs, EnsurePCs
  <1>8. ASSUME NEW p \in todo, UpdateMembers(p) PROVE CoreInv'
    <2> DEFINE k == ListenerKey(req, p)
               q == [pools[k] EXCEPT !.target = DesiredMembers(req, p)]
    <2>1. k \in Keys /\ HasListener(k) /\ HasPool(k) /\ pools[k] \in Pool
      BY <1>8, <1>b DEF UpdateMembers, MembersReady, PoolUpdate, CoreInv, TodoInv, NoOrphanPool,
                        TypeOK, CloudTypeOK
    <2>2. q \in Pool
      BY <2>1, <1>a, MembersType DEF Pool
    <2>3. /\ pc = "members" /\ pc' = "applied" /\ UNCHANGED <<lb, listeners, existing, seen, todo>>
          /\ UNCHANGED <<req, desired, phase, dirty>> /\ pools' = [pools EXCEPT ![k] = q]
      BY <1>8 DEF UpdateMembers, MembersReady, PoolUpdate
    <2> HIDE DEF q
    <2>4. \A j \in Keys : (pools'[j] # NoPool) <=> (pools[j] # NoPool)
      BY <2>1, <2>2, <2>3, CloudConstants DEF TypeOK, CloudTypeOK
    <2>5. PoolsInv' /\ NoOrphanPool' /\ TeardownOrder'
      BY <1>b, <2>3, <2>4 DEF CoreInv, PoolsInv, PooledPCs, NoOrphanPool, TeardownOrder
    <2>6. ListenersInv' /\ TodoInv' /\ ForwardInv' /\ CopyInv' /\ DeletionInv' /\ ShapeInv'
          /\ SettledServed'
      BY <2>3 DEF CoreInv, ListenersInv, PortServed, TodoInv, ForwardInv, CopyInv, DeletionInv,
                  ShapeInv, SettledServed, Settled, ListedPCs, ServedPCs, EnsurePCs
    <2> QED
      BY <2>5, <2>6 DEF CoreInv
  <1> QED
    BY <1>1, <1>2, <1>3, <1>4, <1>5, <1>6, <1>7, <1>8

(* The cleanup of obsolete pools and listeners: what is wanted stays.      *)
LEMMA CleanupCore ==
    ASSUME TypeOK, CoreInv,
           CleanDone \/ \E k \in Keys : CleanPool(k) \/ CleanListener(k)
    PROVE  CoreInv'
  <1> USE DEF cloudVars, serviceVars, passVars, HasListener, HasPool
  <1>a. req \in Request
    BY SpecsType DEF TypeOK
  <1>b. /\ \A p \in req.ports : ListenerKey(req, p) \in Keys /\ ListenerKey(req, p) \in Wanted(req)
        /\ \A k \in Wanted(req) : \E p \in req.ports : k = ListenerKey(req, p)
        /\ Wanted(req) \subseteq Keys
    BY <1>a, WantedKeys
  <1>1. ASSUME NEW k \in Keys, CleanPool(k) PROVE CoreInv'
    <2>1. /\ pc = "cleanup" /\ lb = "ACTIVE" /\ lb' = "PENDING_UPDATE" /\ k \notin Wanted(req)
          /\ UNCHANGED <<listeners, existing, seen, req, desired, phase, dirty, pc, todo, port>>
          /\ pools' = [pools EXCEPT ![k] = NoPool]
      BY <1>1 DEF CleanPool, PutPool, ObsoletePools
    <2>2. \A j \in Keys : pools'[j] = IF j = k THEN NoPool ELSE pools[j]
      BY <2>1 DEF TypeOK, CloudTypeOK
    <2> QED
      BY <1>b, <2>2, <2>1 DEF CoreInv, TodoInv, ListenersInv, PoolsInv, ForwardInv, CopyInv,
         ShapeInv, DeletionInv, NoOrphanPool, TeardownOrder, SettledServed, Settled, PortServed,
         ListedPCs, PooledPCs, ServedPCs, EnsurePCs
  <1>2. ASSUME NEW k \in Keys, CleanListener(k) PROVE CoreInv'
    <2>1. /\ pc = "cleanup" /\ lb = "ACTIVE" /\ lb' = "PENDING_UPDATE" /\ k \notin Wanted(req)
          /\ UNCHANGED <<pools, existing, seen, req, desired, phase, dirty, pc, todo, port>>
          /\ listeners' = [listeners EXCEPT ![k] = NoListener]
      BY <1>2 DEF CleanListener, PutListener, ObsoleteListeners
    <2>2. \A j \in Keys : listeners'[j] = IF j = k THEN NoListener ELSE listeners[j]
      BY <2>1 DEF TypeOK, CloudTypeOK
    <2>3. ~HasPool(k)
      BY <1>2, <2>1 DEF CleanListener, ObsoletePools, CoreInv, PoolsInv, PooledPCs
    <2> QED
      BY <1>b, <2>1, <2>2, <2>3 DEF CoreInv, TodoInv, ListenersInv, PoolsInv, ForwardInv, CopyInv,
         ShapeInv, DeletionInv, NoOrphanPool, TeardownOrder, SettledServed, Settled, PortServed,
         ListedPCs, PooledPCs, ServedPCs, EnsurePCs
  <1>3. CASE CleanDone
    <2>1. /\ pc = "cleanup" /\ pc' = "address"
          /\ UNCHANGED <<lb, listeners, pools, existing, seen, req, desired, phase, dirty, todo, port>>
      BY <1>3 DEF CleanDone, Goto
    <2>2. {k \in Keys : HasListener(k)} = Wanted(req)
      BY <1>3, <1>b, <2>1 DEF CleanDone, ObsoleteListeners, CoreInv, ListenersInv, PortServed,
                              ListedPCs
    <2>3. {k \in Keys : HasPool(k)} = Wanted(req)
      BY <1>3, <1>b, <2>1 DEF CleanDone, ObsoletePools, CoreInv, PoolsInv, PooledPCs
    <2>4. \A k \in Wanted(req) : ListenerServes(listeners[k], req)
      BY <1>b, <2>1 DEF CoreInv, ListenersInv, PortServed, ListedPCs
    <2>5. ShapeServes(req)
      BY <2>2, <2>3, <2>4 DEF ShapeServes
    <2>6. ShapeInv'
      BY <2>1, <2>5 DEF ShapeInv, ShapeServes
    <2>7. TodoInv' /\ ListenersInv' /\ PoolsInv' /\ ForwardInv' /\ CopyInv' /\ DeletionInv'
          /\ NoOrphanPool' /\ TeardownOrder' /\ SettledServed'
      BY <2>1 DEF CoreInv, TodoInv, ListenersInv, PoolsInv, ForwardInv, CopyInv, DeletionInv,
                  NoOrphanPool, TeardownOrder, SettledServed, Settled, ListedPCs, PooledPCs,
                  EnsurePCs
    <2> QED
      BY <2>6, <2>7 DEF CoreInv
  <1> QED
    BY <1>1, <1>2, <1>3

(* Once the listeners and pools are right, the rest of the pass leaves     *)
(* them alone.                                                             *)
LEMMA ServedCore ==
    ASSUME CoreInv, pc \in ServedPCs, pc' \in ServedPCs,
           UNCHANGED <<lb, listeners, pools, req, desired, phase, dirty>>
    PROVE  CoreInv'
  <1>1. TodoInv' /\ ListenersInv' /\ PoolsInv' /\ CopyInv' /\ DeletionInv' /\ SettledServed'
    BY DEF CoreInv, TodoInv, ListenersInv, PoolsInv, CopyInv, DeletionInv, SettledServed,
           Settled, ListedPCs, PooledPCs, ServedPCs, EnsurePCs
  <1>2. ForwardInv' /\ NoOrphanPool' /\ TeardownOrder' /\ ShapeInv'
    BY DEF CoreInv, ForwardInv, NoOrphanPool, TeardownOrder, ShapeInv, ShapeServes, HasListener,
           HasPool
  <1> QED
    BY <1>1, <1>2 DEF CoreInv

(* The address, the security group, and the published status.              *)
LEMMA AddressPhaseCore ==
    ASSUME CoreInv,
           \/ UseVip \/ SkipSecurityGroup \/ EnsureGroup \/ RulesDone \/ NodesDone \/ Publish
           \/ \E a \in FipAddrs : KeepFloatingIP(a) \/ ReuseFloatingIP(a) \/ CreateFloatingIP(a)
           \/ \E p \in req.ports : AddRule(p)
           \/ \E n \in Nodes : AssignNode(n)
    PROVE  CoreInv'
  <1> USE DEF cloudVars, serviceVars, passVars, ServedPCs
  <1>1. CASE UseVip \/ SkipSecurityGroup \/ EnsureGroup \/ RulesDone \/ NodesDone
    BY <1>1, ServedCore
    DEF UseVip, Address, SkipSecurityGroup, EnsureGroup, PutGroup, RulesDone, NodesDone, Goto
  <1>2. ASSUME NEW a \in FipAddrs, KeepFloatingIP(a) \/ ReuseFloatingIP(a) \/ CreateFloatingIP(a)
        PROVE  CoreInv'
    BY <1>2, ServedCore DEF KeepFloatingIP, ReuseFloatingIP, CreateFloatingIP, Address, PutFip
  <1>3. ASSUME NEW p \in req.ports, AddRule(p) PROVE CoreInv'
    BY <1>3, ServedCore DEF AddRule, PutGroup
  <1>4. ASSUME NEW n \in Nodes, AssignNode(n) PROVE CoreInv'
    BY <1>4, ServedCore DEF AssignNode, PutGroup
  <1>5. CASE Publish
    <2>1. /\ pc = "ensured" /\ pc' = "idle"
          /\ UNCHANGED <<lb, listeners, pools, desired, phase, dirty>>
      BY <1>5 DEF Publish, EndPass
    <2>2. ShapeServes(req) /\ (~dirty => req = desired)
      BY <2>1 DEF CoreInv, ShapeInv, CopyInv, EnsurePCs
    <2>3. SettledServed'
      BY <2>1, <2>2 DEF SettledServed, Settled, ShapeServes, HasListener, HasPool
    <2>4. TodoInv' /\ ListenersInv' /\ PoolsInv' /\ CopyInv' /\ DeletionInv' /\ ShapeInv'
      BY <2>1 DEF TodoInv, ListenersInv, PoolsInv, CopyInv, DeletionInv, ShapeInv, ListedPCs,
                  PooledPCs, EnsurePCs
    <2>5. ForwardInv' /\ NoOrphanPool' /\ TeardownOrder'
      BY <2>1 DEF CoreInv, ForwardInv, NoOrphanPool, TeardownOrder, HasListener, HasPool
    <2> QED
      BY <2>3, <2>4, <2>5 DEF CoreInv
  <1> QED
    BY <1>1, <1>2, <1>3, <1>4, <1>5

(* A step that starts or continues a deletion, or ends it, has nothing to  *)
(* show of a pass of EnsureLoadBalancer.                                   *)
LEMMA OutsideEnsure ==
    ASSUME \/ pc' \in DeletePCs \cup {"panicked"}
           \/ pc' = "idle" /\ phase' # "live"
    PROVE  TodoInv' /\ ListenersInv' /\ PoolsInv' /\ CopyInv' /\ ShapeInv' /\ SettledServed'
  BY DEF DeletePCs, TodoInv, ListenersInv, PoolsInv, CopyInv, ShapeInv, SettledServed, Settled,
         ListedPCs, PooledPCs, ServedPCs, EnsurePCs

(* EnsureLoadBalancerDeleted: pools before listeners, listeners before the *)
(* load balancer.                                                          *)
LEMMA DeletionCore ==
    ASSUME TypeOK, CoreInv, DeleteStep
    PROVE  CoreInv'
  <1> USE DEF cloudVars, serviceVars, passVars, HasListener, HasPool
  <1>a. ASSUME UNCHANGED <<lb, listeners, pools>>, pc' # "delListeners"
        PROVE  ForwardInv' /\ NoOrphanPool' /\ TeardownOrder' /\ DeletionInv'
    BY <1>a DEF CoreInv, ForwardInv, NoOrphanPool, TeardownOrder, DeletionInv
  <1>b. ASSUME pc' \in DeletePCs, ForwardInv', NoOrphanPool', TeardownOrder', DeletionInv'
        PROVE  CoreInv'
    BY <1>b, OutsideEnsure DEF CoreInv
  <1>1. CASE DeleteNothing \/ LBDeleted \/ SkipGroupDelete \/ DeleteGroup \/ DeleteFloatingIP
             \/ SkipFloatingIP
    <2>1. UNCHANGED <<lb, listeners, pools>> /\ pc' \in {"delSG", "delFip", "delDone"}
      BY <1>1 DEF DeleteNothing, LBDeleted, SkipGroupDelete, DeleteGroup, PutGroup,
                  DeleteFloatingIP, PutFip, SkipFloatingIP, Goto
    <2> QED
      BY <2>1, <1>a, <1>b DEF DeletePCs
  <1>2. CASE StartDelete
    <2>1. ForwardInv' /\ NoOrphanPool' /\ TeardownOrder' /\ DeletionInv'
      BY <1>2 DEF StartDelete, CoreInv, ForwardInv, NoOrphanPool, TeardownOrder, DeletionInv
    <2> QED
      BY <1>2, <2>1, <1>b DEF StartDelete, DeletePCs
  <1>3. ASSUME NEW k \in Keys, PickListener(k) PROVE CoreInv'
    <2>1. ForwardInv' /\ NoOrphanPool' /\ TeardownOrder' /\ DeletionInv'
      BY <1>3 DEF PickListener, CoreInv, ForwardInv, NoOrphanPool, TeardownOrder, DeletionInv
    <2> QED
      BY <1>3, <2>1, <1>b DEF PickListener, DeletePCs
  <1>4. CASE DeletePool
    <2>1. \A j \in Keys : pools'[j] = IF j = victim THEN NoPool ELSE pools[j]
      BY <1>4 DEF DeletePool, PutPool, TypeOK, CloudTypeOK
    <2>2. ForwardInv' /\ NoOrphanPool' /\ TeardownOrder' /\ DeletionInv'
      BY <1>4, <2>1 DEF DeletePool, PutPool, CoreInv, ForwardInv, NoOrphanPool, TeardownOrder,
                        DeletionInv
    <2> QED
      BY <1>4, <2>2, <1>b DEF DeletePool, DeletePCs
  <1>5. CASE DeleteListener
    <2>1. \A j \in Keys : listeners'[j] = IF j = victim THEN NoListener ELSE listeners[j]
      BY <1>5 DEF DeleteListener, PutListener, TypeOK, CloudTypeOK
    <2>2. ForwardInv' /\ NoOrphanPool' /\ TeardownOrder' /\ DeletionInv'
      BY <1>5, <2>1 DEF DeleteListener, PutListener, CoreInv, ForwardInv, NoOrphanPool,
                        TeardownOrder, DeletionInv
    <2> QED
      BY <1>5, <2>2, <1>b DEF DeleteListener, DeletePCs
  <1>6. CASE DeleteLB
    <2>1. \A k \in Keys : ~HasListener(k) /\ ~HasPool(k)
      BY <1>6 DEF DeleteLB, ListenersGone, CoreInv, DeletionInv, NoOrphanPool
    <2>2. ForwardInv' /\ NoOrphanPool' /\ TeardownOrder' /\ DeletionInv'
      BY <1>6, <2>1 DEF DeleteLB, ForwardInv, NoOrphanPool, TeardownOrder, DeletionInv
    <2> QED
      BY <1>6, <2>2, <1>b DEF DeleteLB, DeletePCs
  <1>7. CASE DeleteLBRejected \/ GroupInUse \/ SaveFloatingInvalid
    BY <1>7, FailCore DEF DeleteLBRejected, GroupInUse, SaveFloatingInvalid
  <1>8. ASSUME NEW n \in Nodes, UnassignNode(n) PROVE CoreInv'
    BY <1>8, <1>a, <1>b DEF UnassignNode, PutGroup, DeletePCs
  <1>9. CASE Finalize
    <2>1. pc' = "idle" /\ phase' = "gone" /\ UNCHANGED <<lb, listeners, pools>>
      BY <1>9 DEF Finalize, EndPass
    <2> QED
      BY <2>1, <1>a, OutsideEnsure DEF CoreInv
  <1> QED
    BY <1>1, <1>2, <1>3, <1>4, <1>5, <1>6, <1>7, <1>8, <1>9 DEF DeleteStep

(* Faults, users and operators.                                            *)
LEMMA DisturbanceCore ==
    ASSUME TypeOK, CoreInv, Disturbance
    PROVE  CoreInv'
  <1> USE DEF cloudVars, serviceVars, passVars, workerVars
  <1>1. CASE Abort \/ Restart
    BY <1>1, FailCore DEF Abort, Restart
  <1>2. CASE ReloadPanics \/ FloatingIPDeleteFails
    <2>1. UNCHANGED <<lb, listeners, pools>> /\ pc' \in {"panicked", "delDone"}
      BY <1>2 DEF ReloadPanics, FloatingIPDeleteFails, Goto
    <2>2. ForwardInv' /\ NoOrphanPool' /\ TeardownOrder' /\ DeletionInv'
      BY <2>1 DEF CoreInv, ForwardInv, NoOrphanPool, TeardownOrder, DeletionInv, HasListener,
                  HasPool
    <2> QED
      BY <2>1, <2>2, OutsideEnsure DEF CoreInv, DeletePCs
  <1>3. CASE CloudBreak
    BY <1>3, QuietCore DEF CloudBreak, Break
  <1>4. CASE CloudLose
    <2>1. pc = "idle" /\ pc' = "idle" /\ lb' = "ABSENT"
          /\ \A k \in Keys : ~HasListener(k)' /\ ~HasPool(k)'
      BY <1>4 DEF CloudLose, Lose, HasListener, HasPool
    <2>2. TodoInv' /\ ListenersInv' /\ PoolsInv' /\ CopyInv' /\ ShapeInv' /\ DeletionInv'
      BY <2>1 DEF TodoInv, ListenersInv, PoolsInv, CopyInv, ShapeInv, DeletionInv, ListedPCs,
                  PooledPCs, ServedPCs, EnsurePCs
    <2>3. ForwardInv' /\ NoOrphanPool' /\ TeardownOrder' /\ SettledServed'
      BY <2>1 DEF ForwardInv, NoOrphanPool, TeardownOrder, SettledServed, Settled, HasListener,
                  HasPool
    <2> QED
      BY <2>2, <2>3 DEF CoreInv
  <1>5. ASSUME DeleteService \/ \E s \in Specs : Edit(s) PROVE CoreInv'
    <2>1. /\ dirty' = TRUE
          /\ UNCHANGED <<lb, listeners, pools, existing, seen, req, pc, todo, port>>
      BY <1>5 DEF DeleteService, Edit
    <2>2. ListenersInv' /\ PoolsInv' /\ TodoInv' /\ DeletionInv'
      BY <2>1 DEF CoreInv, ListenersInv, PortServed, PoolsInv, TodoInv, DeletionInv, HasListener,
                  HasPool
    <2>3. ForwardInv' /\ NoOrphanPool' /\ TeardownOrder' /\ ShapeInv'
      BY <2>1 DEF CoreInv, ForwardInv, NoOrphanPool, TeardownOrder, ShapeInv, ShapeServes,
                  HasListener, HasPool
    <2>4. CopyInv' /\ SettledServed'
      BY <2>1 DEF CopyInv, SettledServed, Settled
    <2> QED
      BY <2>2, <2>3, <2>4 DEF CoreInv
  <1> QED
    BY <1>1, <1>2, <1>3, <1>4, <1>5 DEF Disturbance, Fault, Outside

(* The cloud's own steps.                                                  *)
LEMMA CloudStepCore ==
    ASSUME TypeOK, CoreInv, CloudStep
    PROVE  CoreInv'
  <1> USE DEF workerVars, serviceVars, passVars
  <1>1. CASE CloudSettle
    BY <1>1, QuietCore DEF CloudSettle, Settle
  <1>2. CASE CloudDelete
    BY <1>2, QuietCore DEF CloudDelete, FinishDelete
  <1>3. ASSUME NEW k \in Keys, CloudApply(k) PROVE CoreInv'
    <2> DEFINE q == [pools[k] EXCEPT !.members = pools[k].target]
    <2>1. HasPool(k) /\ HasListener(k) /\ pools[k] \in Pool
      BY <1>3 DEF CloudApply, ApplyMembers, UpdatePending, HasPool, CoreInv, NoOrphanPool,
                  TypeOK, CloudTypeOK
    <2>2. q \in Pool
      BY <2>1 DEF Pool
    <2>3. /\ pools' = [pools EXCEPT ![k] = q] /\ lb = "ACTIVE" /\ lb' = "PENDING_UPDATE"
          /\ UNCHANGED <<listeners, existing, seen, req, desired, phase, dirty, pc, port, todo>>
      BY <1>3 DEF CloudApply, ApplyMembers, PutPool
    <2> HIDE DEF q
    <2> QED
      BY <2>1, <2>2, <2>3, PutPoolCore
  <1> QED
    BY <1>1, <1>2, <1>3 DEF CloudStep

(* Every step of the provider, of the cloud and of everyone else.          *)
LEMMA CoreInductive ==
    ASSUME TypeOK, CoreInv, [Next]_vars
    PROVE  CoreInv'
  <1> USE DEF cloudVars, serviceVars, passVars
  <1>1. CASE EnsureStep
    <2>1. CASE AwaitActive
      BY <2>1, QuietCore DEF AwaitActive
    <2>2. CASE AwaitFails \/ FloatingIPMissing \/ SubnetMissing
      BY <2>2, FailCore DEF AwaitFails, FloatingIPMissing, SubnetMissing
    <2>3. CASE \E p \in todo : ListenerRejected(p) \/ PoolRejected(p) \/ MembersRejected(p)
      BY <2>3, FailCore DEF ListenerRejected, PoolRejected, MembersRejected
    <2> QED
      BY <1>1, <2>1, <2>2, <2>3, ListenersPhaseCore, PoolsPhaseCore, CleanupCore,
         AddressPhaseCore
      DEF EnsureStep
  <1>2. CASE DeleteStep
    BY <1>2, DeletionCore
  <1>3. CASE Recover
    BY <1>3, FailCore DEF Recover
  <1>4. CASE CloudStep
    BY <1>4, CloudStepCore
  <1>5. CASE Disturbance
    BY <1>5, DisturbanceCore
  <1>6. CASE UNCHANGED vars
    BY <1>6, QuietCore DEF vars
  <1> QED
    BY <1>1, <1>2, <1>3, <1>4, <1>5, <1>6 DEF Next, WorkerStep, Gone

(* The inductive invariant holds of every reachable state.                 *)
THEOREM CoreInvariant == Spec => []CoreInv
  <1>1. TypeOK /\ CoreInv /\ [Next]_vars => CoreInv'
    BY CoreInductive
  <1> QED
    BY InitCore, <1>1, TypeCorrect, PTL DEF Spec

(* For every set of requests, nodes and ports: once a pass has succeeded   *)
(* and nothing is queued, the load balancer has exactly the listeners and  *)
(* pools of the Service, whatever failed before.                           *)
THEOREM ServedWhenSettled == Spec => []SettledServed
  BY CoreInvariant, PTL DEF CoreInv

(* No interleaving of crashes, errors and edits leaves a pool without its  *)
(* listener.                                                               *)
THEOREM PoolsHaveListeners == Spec => []NoOrphanPool
  BY CoreInvariant, PTL DEF CoreInv

(* The load balancer is deleted only when nothing is left under it.        *)
THEOREM LoadBalancerGoesLast == Spec => []TeardownOrder
  BY CoreInvariant, PTL DEF CoreInv

(***************************************************************************)
(* Progress of a pass.                                                     *)
(***************************************************************************)

(* A round of a loop is about something the loop has still to handle: the  *)
(* port that is reloaded or polled is to be done, and the listener under   *)
(* deletion is there.                                                      *)
RoundInv ==
    /\ pc \in {"reload", "applied"} => port \in todo
    /\ victim # NoKey => pc = "delListeners" /\ HasListener(victim)

(* The end of a pass ends its rounds.                                      *)
LEMMA EndPassRound ==
    ASSUME EndPass
    PROVE  RoundInv'
  BY DEF EndPass, RoundInv

(* A step that takes no port up, keeps the listeners or the victim away    *)
(* and stays outside the rounds' two steps keeps the invariant.            *)
LEMMA OutsideRound ==
    ASSUME RoundInv, pc' \notin {"reload", "applied"}, pc # "delListeners",
           UNCHANGED victim
    PROVE  RoundInv'
  BY DEF RoundInv

(* So does a step that changes neither the loop nor the listeners.         *)
LEMMA SameRound ==
    ASSUME RoundInv, UNCHANGED <<pc, todo, port, victim, listeners>>
    PROVE  RoundInv'
  BY DEF RoundInv, HasListener

(* EnsureLoadBalancer takes up only ports that are to be done.             *)
LEMMA EnsureRound ==
    ASSUME RoundInv, EnsureStep
    PROVE  RoundInv'
  <1> USE DEF cloudVars, serviceVars, passVars, Goto
  <1>1. CASE StartEnsure \/ EnsureLB \/ ListListeners \/ Reload \/ ListenersDone
    BY <1>1, OutsideRound DEF StartEnsure, EnsureLB, ListListeners, Reload, ListenersDone
  <1>2. CASE AwaitActive
    BY <1>2, SameRound DEF AwaitActive
  <1>3. ASSUME NEW p \in todo, CreateListener(p) \/ UpdateListener(p) \/ KeepListener(p)
        PROVE  RoundInv'
    BY <1>3 DEF CreateListener, UpdateListener, KeepListener, ToReload, RoundInv
  <1>4. CASE ListPools \/ PoolsDone \/ MembersApplied \/ MembersDone \/ CleanDone
    BY <1>4, OutsideRound DEF ListPools, PoolsDone, MembersApplied, MembersDone, CleanDone
  <1>5. ASSUME NEW p \in todo, CreatePool(p) \/ KeepPool(p) \/ KeepMembers(p)
        PROVE  RoundInv'
    BY <1>5, OutsideRound DEF CreatePool, KeepPool, KeepMembers, MembersReady
  <1>6. ASSUME NEW p \in todo, UpdateMembers(p) PROVE RoundInv'
    BY <1>6 DEF UpdateMembers, MembersReady, RoundInv
  <1>7. ASSUME NEW k \in Keys, CleanPool(k) \/ CleanListener(k) PROVE RoundInv'
    BY <1>7, OutsideRound DEF CleanPool, CleanListener
  <1>8. ASSUME NEW a \in FipAddrs, KeepFloatingIP(a) \/ ReuseFloatingIP(a) \/ CreateFloatingIP(a)
        PROVE  RoundInv'
    BY <1>8, OutsideRound DEF KeepFloatingIP, ReuseFloatingIP, CreateFloatingIP, Address
  <1>9. CASE UseVip \/ SkipSecurityGroup \/ EnsureGroup \/ RulesDone \/ NodesDone
    BY <1>9, OutsideRound
    DEF UseVip, Address, SkipSecurityGroup, EnsureGroup, RulesDone, NodesDone
  <1>10. ASSUME NEW p \in req.ports, AddRule(p) PROVE RoundInv'
    BY <1>10, OutsideRound DEF AddRule
  <1>11. ASSUME NEW n \in Nodes, AssignNode(n) PROVE RoundInv'
    BY <1>11, OutsideRound DEF AssignNode
  <1>12. CASE AwaitFails \/ FloatingIPMissing \/ SubnetMissing \/ Publish
    BY <1>12, EndPassRound DEF AwaitFails, FloatingIPMissing, SubnetMissing, Fail, Publish
  <1>13. ASSUME NEW p \in todo, ListenerRejected(p) \/ PoolRejected(p) \/ MembersRejected(p)
         PROVE  RoundInv'
    BY <1>13, EndPassRound DEF ListenerRejected, PoolRejected, MembersRejected, Fail
  <1> QED
    BY <1>1, <1>2, <1>3, <1>4, <1>5, <1>6, <1>7, <1>8, <1>9, <1>10, <1>11, <1>12, <1>13
    DEF EnsureStep

(* EnsureLoadBalancerDeleted takes up only listeners that are there.       *)
LEMMA DeleteRound ==
    ASSUME RoundInv, DeleteStep
    PROVE  RoundInv'
  <1> USE DEF cloudVars, serviceVars, passVars, Goto
  <1>1. CASE DeleteNothing \/ StartDelete
    BY <1>1 DEF DeleteNothing, StartDelete, RoundInv
  <1>2. ASSUME NEW k \in Keys, PickListener(k) PROVE RoundInv'
    BY <1>2 DEF PickListener, RoundInv, HasListener
  <1>3. CASE DeletePool
    BY <1>3, SameRound DEF DeletePool, PutPool
  <1>4. CASE DeleteListener \/ DeleteLB
    BY <1>4 DEF DeleteListener, DeleteLB, ListenersGone, RoundInv
  <1>5. CASE LBDeleted \/ SkipGroupDelete \/ DeleteGroup \/ DeleteFloatingIP \/ SkipFloatingIP
    BY <1>5, OutsideRound
    DEF LBDeleted, SkipGroupDelete, DeleteGroup, DeleteFloatingIP, SkipFloatingIP
  <1>6. ASSUME NEW n \in Nodes, UnassignNode(n) PROVE RoundInv'
    BY <1>6, OutsideRound DEF UnassignNode
  <1>7. CASE DeleteLBRejected \/ GroupInUse \/ SaveFloatingInvalid \/ Finalize
    BY <1>7, EndPassRound DEF DeleteLBRejected, GroupInUse, SaveFloatingInvalid, Fail, Finalize
  <1> QED
    BY <1>1, <1>2, <1>3, <1>4, <1>5, <1>6, <1>7 DEF DeleteStep

(* Nothing else touches a round, except to end it.                         *)
LEMMA OthersRound ==
    ASSUME RoundInv, CloudStep \/ Disturbance \/ Recover \/ UNCHANGED vars
    PROVE  RoundInv'
  <1> USE DEF cloudVars, serviceVars, passVars, workerVars, Goto
  <1>1. CASE CloudStep
    BY <1>1, SameRound
    DEF CloudStep, CloudSettle, Settle, CloudDelete, FinishDelete, CloudApply, ApplyMembers, PutPool
  <1>2. CASE Abort \/ Restart \/ Recover
    BY <1>2, EndPassRound DEF Abort, Restart, Recover, Fail
  <1>3. CASE ReloadPanics \/ FloatingIPDeleteFails \/ CloudLose
    BY <1>3, OutsideRound DEF ReloadPanics, FloatingIPDeleteFails, CloudLose
  <1>4. CASE CloudBreak \/ DeleteService \/ (\E s \in Specs : Edit(s))
    BY <1>4, SameRound DEF CloudBreak, Break, DeleteService, Edit
  <1>5. CASE UNCHANGED vars
    BY <1>5, SameRound DEF vars
  <1> QED
    BY <1>1, <1>2, <1>3, <1>4, <1>5 DEF Disturbance, Fault, Outside

(* So in every reachable state a round is about something to be done.      *)
LEMMA RoundsSound == Spec => []RoundInv
  <1>1. Init => RoundInv
    BY DEF Init, RoundInv
  <1>2. TypeOK /\ RoundInv /\ [Next]_vars => RoundInv'
    BY EnsureRound, DeleteRound, OthersRound DEF Next, WorkerStep, Gone
  <1> QED
    BY <1>1, <1>2, TypeCorrect, PTL DEF Spec

(* Where the loop over the ports is.                                       *)
LoopPCs == {"listener", "reload", "pools", "members", "applied"}

(* What is left to do, loop by loop, before and after a step.              *)
LEMMA WorkLeftIs ==
    /\ pc \in LoopPCs => WorkLeft = todo
    /\ pc = "sgRules" => WorkLeft = {p \in req.ports : RuleFor(req, p) \notin sg.rules}
    /\ pc = "sgNodes" => WorkLeft = Nodes \ sg.nodes
    /\ pc = "delSG" => WorkLeft = sg.nodes
    /\ pc' \in LoopPCs => WorkLeft' = todo'
    /\ pc' = "sgRules" => WorkLeft' = {p \in req'.ports : RuleFor(req', p) \notin sg'.rules}
    /\ pc' = "sgNodes" => WorkLeft' = Nodes \ sg'.nodes
    /\ pc' = "delSG" => WorkLeft' = sg'.nodes
  BY DEF WorkLeft, LoopPCs, RuleFor

(* In the two loops that delete, it is what the cloud has.                 *)
LEMMA WorkLeftInCloud ==
    /\ pc \in {"cleanup", "delListeners"} =>
          WorkLeft = {<<"listener", k>> : k \in {j \in Keys : HasListener(j)}}
                       \cup {<<"pool", k>> : k \in {j \in Keys : HasPool(j)}}
    /\ pc' \in {"cleanup", "delListeners"} =>
          WorkLeft' = {<<"listener", k>> : k \in {j \in Keys : HasListener(j)'}}
                        \cup {<<"pool", k>> : k \in {j \in Keys : HasPool(j)'}}
  BY DEF WorkLeft, HasListener, HasPool

(* A later stage is an advance.                                            *)
LEMMA StageAdvances ==
    ASSUME Stage(pc') > Stage(pc)
    PROVE  Advances
  BY DEF Advances

(* So is less work at the same stage.                                      *)
LEMMA WorkAdvances ==
    ASSUME Stage(pc') = Stage(pc), NEW w \in WorkLeft, w \notin WorkLeft',
           WorkLeft' \subseteq WorkLeft
    PROVE  Advances
  BY DEF Advances

(* So is a port handled.                                                   *)
LEMMA PortAdvances ==
    ASSUME Stage(pc') = Stage(pc), pc \in LoopPCs, pc' \in LoopPCs,
           NEW p \in todo, todo' = todo \ {p}
    PROVE  Advances
  BY WorkLeftIs, WorkAdvances

(* So is a listener or pool removed.                                       *)
LEMMA RemovalAdvances ==
    ASSUME pc \in {"cleanup", "delListeners"}, UNCHANGED pc, NEW k \in Keys,
           \/ HasListener(k) /\ ~HasListener(k)' /\ UNCHANGED pools
           \/ HasPool(k) /\ ~HasPool(k)' /\ UNCHANGED listeners,
           \A j \in Keys : HasListener(j)' => HasListener(j),
           \A j \in Keys : HasPool(j)' => HasPool(j)
    PROVE  Advances
  <1>1. WorkLeft' \subseteq WorkLeft
    BY WorkLeftInCloud
  <1>2. WorkLeft' # WorkLeft
    <2>1. CASE HasListener(k) /\ ~HasListener(k)'
      <3>1. <<"listener", k>> \in WorkLeft
        BY <2>1, WorkLeftInCloud
      <3>2. <<"listener", k>> \notin WorkLeft'
        BY <2>1, WorkLeftInCloud
      <3> QED
        BY <3>1, <3>2
    <2>2. CASE HasPool(k) /\ ~HasPool(k)'
      <3>1. <<"pool", k>> \in WorkLeft
        BY <2>2, WorkLeftInCloud
      <3>2. <<"pool", k>> \notin WorkLeft'
        BY <2>2, WorkLeftInCloud
      <3> QED
        BY <3>1, <3>2
    <2> QED
      BY <2>1, <2>2
  <1> QED
    BY <1>1, <1>2 DEF Advances

(* So is a step towards the end of a round, with the same work.            *)
LEMMA RoundAdvances ==
    ASSUME Stage(pc') = Stage(pc), WorkLeft' = WorkLeft, RoundSteps' < RoundSteps
    PROVE  Advances
  BY DEF Advances

(* The wait is one step of a round, and what begins a round is two.        *)
LEMMA RoundStepsFacts ==
    ASSUME waiting \in BOOLEAN, waiting' \in BOOLEAN
    PROVE  /\ (waiting /\ ~waiting' /\ UNCHANGED <<pc, victim>>) => RoundSteps' < RoundSteps
           /\ (/\ pc \notin {"reload", "applied"} /\ victim = NoKey
               /\ (pc' \in {"reload", "applied"} \/ victim' # NoKey))
                 => RoundSteps' < RoundSteps
  <1> DEFINE Begin(l, v) == IF l \in {"reload", "applied"} \/ v # NoKey THEN 0 ELSE 2
             Wait(b) == IF b THEN 1 ELSE 0
  <1>1. RoundSteps = Begin(pc, victim) + Wait(waiting)
        /\ RoundSteps' = Begin(pc', victim') + Wait(waiting')
    BY DEF RoundSteps
  <1>2. Wait(waiting) \in {0, 1} /\ Wait(waiting') \in {0, 1}
        /\ (waiting => Wait(waiting) = 1) /\ (~waiting' => Wait(waiting') = 0)
    OBVIOUS
  <1>3. Begin(pc, victim) \in {0, 2} /\ Begin(pc', victim') \in {0, 2}
    OBVIOUS
  <1>4. ASSUME waiting, ~waiting', UNCHANGED <<pc, victim>>
        PROVE  RoundSteps' < RoundSteps
    <2>1. Begin(pc, victim) = Begin(pc', victim')
      BY <1>4
    <2>2. Wait(waiting) = 1 /\ Wait(waiting') = 0
      BY <1>2, <1>4
    <2> HIDE DEF Begin, Wait
    <2> QED
      BY <1>1, <1>3, <2>1, <2>2
  <1>5. ASSUME pc \notin {"reload", "applied"}, victim = NoKey,
               pc' \in {"reload", "applied"} \/ victim' # NoKey
        PROVE  RoundSteps' < RoundSteps
    <2>1. Begin(pc, victim) = 2 /\ Begin(pc', victim') = 0
      BY <1>5
    <2> HIDE DEF Begin, Wait
    <2> QED
      BY <1>1, <1>2, <2>1
  <1> QED
    BY <1>4, <1>5

(* Every step that EnsureLoadBalancer takes advances its pass, unless the  *)
(* step ends it.                                                           *)
LEMMA EnsureAdvances ==
    ASSUME TypeOK, TypeOK', RoundInv, EnsureStep, pc # "idle", pc' # "idle"
    PROVE  Advances
  <1> USE DEF cloudVars, serviceVars, passVars, Goto
  <1>t. waiting \in BOOLEAN /\ waiting' \in BOOLEAN
    BY DEF TypeOK
  <1>1. CASE EnsureLB \/ ListListeners \/ ListenersDone
    BY <1>1, StageAdvances DEF EnsureLB, ListListeners, ListenersDone, Stage
  <1>2. CASE AwaitActive
    <2>1. WorkLeft' = WorkLeft /\ RoundSteps' < RoundSteps
      BY <1>2, <1>t, RoundStepsFacts
      DEF AwaitActive, WorkLeft, HasListener, HasPool, RuleFor
    <2> QED
      BY <1>2, <2>1, RoundAdvances DEF AwaitActive
  <1>3. ASSUME NEW p \in todo, CreateListener(p) \/ UpdateListener(p) \/ KeepListener(p)
        PROVE  Advances
    <2>1. pc = "listener" /\ pc' = "reload" /\ todo' = todo /\ victim = NoKey
      BY <1>3 DEF CreateListener, UpdateListener, KeepListener, ToReload, RoundInv
    <2>2. WorkLeft' = WorkLeft /\ RoundSteps' < RoundSteps
      BY <1>t, <2>1, WorkLeftIs, RoundStepsFacts DEF LoopPCs
    <2> QED
      BY <2>1, <2>2, RoundAdvances DEF Stage
  <1>4. CASE Reload
    BY <1>4, PortAdvances DEF Reload, RoundInv, LoopPCs, Stage
  <1>5. CASE ListPools \/ PoolsDone \/ MembersDone \/ CleanDone
    BY <1>5, StageAdvances DEF ListPools, PoolsDone, MembersDone, CleanDone, Stage
  <1>6. ASSUME NEW p \in todo, CreatePool(p) \/ KeepPool(p) \/ KeepMembers(p)
        PROVE  Advances
    BY <1>6, PortAdvances DEF CreatePool, KeepPool, KeepMembers, MembersReady, LoopPCs
  <1>7. ASSUME NEW p \in todo, UpdateMembers(p) PROVE Advances
    <2>1. pc = "members" /\ pc' = "applied" /\ todo' = todo /\ victim = NoKey
      BY <1>7 DEF UpdateMembers, MembersReady, RoundInv
    <2>2. WorkLeft' = WorkLeft /\ RoundSteps' < RoundSteps
      BY <1>t, <2>1, WorkLeftIs, RoundStepsFacts DEF LoopPCs
    <2> QED
      BY <2>1, <2>2, RoundAdvances DEF Stage
  <1>8. CASE MembersApplied
    BY <1>8, PortAdvances DEF MembersApplied, RoundInv, LoopPCs, Stage
  <1>9. ASSUME NEW k \in Keys, CleanPool(k) PROVE Advances
    BY <1>9, RemovalAdvances
    DEF CleanPool, PutPool, HasPool, HasListener, TypeOK, CloudTypeOK
  <1>10. ASSUME NEW k \in Keys, CleanListener(k) PROVE Advances
    BY <1>10, RemovalAdvances
    DEF CleanListener, PutListener, HasPool, HasListener, TypeOK, CloudTypeOK
  <1>11. ASSUME NEW a \in FipAddrs,
                KeepFloatingIP(a) \/ ReuseFloatingIP(a) \/ CreateFloatingIP(a)
         PROVE  Advances
    BY <1>11, StageAdvances
    DEF KeepFloatingIP, ReuseFloatingIP, CreateFloatingIP, Address, Stage
  <1>12. CASE UseVip \/ SkipSecurityGroup \/ EnsureGroup \/ RulesDone \/ NodesDone
    BY <1>12, StageAdvances
    DEF UseVip, Address, SkipSecurityGroup, EnsureGroup, RulesDone, NodesDone, Stage
  <1>13. ASSUME NEW p \in req.ports, AddRule(p) PROVE Advances
    <2>1. /\ pc = "sgRules" /\ pc' = "sgRules" /\ req' = req
          /\ sg'.rules = sg.rules \cup {RuleFor(req, p)} /\ RuleFor(req, p) \notin sg.rules
      BY <1>13 DEF AddRule, PutGroup, TypeOK, CloudTypeOK
    <2>2. p \in WorkLeft /\ p \notin WorkLeft' /\ WorkLeft' \subseteq WorkLeft
      BY <2>1, WorkLeftIs
    <2> QED
      BY <2>1, <2>2, WorkAdvances
  <1>14. ASSUME NEW n \in Nodes, AssignNode(n) PROVE Advances
    <2>1. /\ pc = "sgNodes" /\ pc' = "sgNodes"
          /\ sg'.nodes = sg.nodes \cup {n} /\ n \notin sg.nodes
      BY <1>14 DEF AssignNode, PutGroup, TypeOK, CloudTypeOK
    <2>2. n \in WorkLeft /\ n \notin WorkLeft' /\ WorkLeft' \subseteq WorkLeft
      BY <2>1, WorkLeftIs
    <2> QED
      BY <2>1, <2>2, WorkAdvances
  <1>15. ~(StartEnsure \/ AwaitFails \/ FloatingIPMissing \/ SubnetMissing \/ Publish)
    BY DEF StartEnsure, AwaitFails, FloatingIPMissing, SubnetMissing, Publish, Fail, EndPass
  <1>16. \A p \in todo : ~(ListenerRejected(p) \/ PoolRejected(p) \/ MembersRejected(p))
    BY DEF ListenerRejected, PoolRejected, MembersRejected, Fail, EndPass
  <1> QED
    BY <1>1, <1>2, <1>3, <1>4, <1>5, <1>6, <1>7, <1>8, <1>9, <1>10, <1>11, <1>12, <1>13,
       <1>14, <1>15, <1>16
    DEF EnsureStep

(* The same for EnsureLoadBalancerDeleted.                                 *)
LEMMA DeleteAdvances ==
    ASSUME TypeOK, TypeOK', RoundInv, DeleteStep, pc # "idle", pc' # "idle"
    PROVE  Advances
  <1> USE DEF cloudVars, serviceVars, passVars, Goto
  <1>t. waiting \in BOOLEAN /\ waiting' \in BOOLEAN
    BY DEF TypeOK
  <1>1. ASSUME NEW k \in Keys, PickListener(k) PROVE Advances
    <2>1. /\ pc = "delListeners" /\ pc' = pc /\ victim = NoKey /\ victim' # NoKey
          /\ UNCHANGED <<listeners, pools>>
      BY <1>1, ProviderConstants DEF PickListener
    <2>2. WorkLeft' = WorkLeft
      BY <2>1, WorkLeftInCloud DEF HasListener, HasPool
    <2>3. RoundSteps' < RoundSteps
      BY <1>t, <2>1, RoundStepsFacts
    <2> QED
      BY <2>1, <2>2, <2>3, RoundAdvances
  <1>v. victim # NoKey => victim \in Keys /\ HasListener(victim)
    BY DEF TypeOK, RoundInv
  <1>2. CASE DeletePool
    BY <1>2, <1>v, RemovalAdvances
    DEF DeletePool, PutPool, HasPool, HasListener, TypeOK, CloudTypeOK
  <1>3. CASE DeleteListener
    BY <1>3, <1>v, RemovalAdvances
    DEF DeleteListener, PutListener, HasPool, HasListener, TypeOK, CloudTypeOK
  <1>4. CASE DeleteLB \/ LBDeleted \/ SkipGroupDelete \/ DeleteGroup
    BY <1>4, StageAdvances
    DEF DeleteLB, ListenersGone, LBDeleted, SkipGroupDelete, DeleteGroup, Stage
  <1>5. CASE DeleteFloatingIP \/ SkipFloatingIP
    BY <1>5, StageAdvances DEF DeleteFloatingIP, SkipFloatingIP, Stage
  <1>6. ASSUME NEW n \in Nodes, UnassignNode(n) PROVE Advances
    <2>1. /\ pc = "delSG" /\ pc' = "delSG"
          /\ sg'.nodes = sg.nodes \ {n} /\ n \in sg.nodes
      BY <1>6 DEF UnassignNode, PutGroup, TypeOK, CloudTypeOK
    <2>2. n \in WorkLeft /\ n \notin WorkLeft' /\ WorkLeft' \subseteq WorkLeft
      BY <2>1, WorkLeftIs
    <2> QED
      BY <2>1, <2>2, WorkAdvances
  <1>7. ~(DeleteNothing \/ StartDelete \/ DeleteLBRejected \/ GroupInUse
           \/ SaveFloatingInvalid \/ Finalize)
    BY DEF DeleteNothing, StartDelete, DeleteLBRejected, GroupInUse, SaveFloatingInvalid,
           Finalize, Fail, EndPass
  <1> QED
    BY <1>1, <1>2, <1>3, <1>4, <1>5, <1>6, <1>7 DEF DeleteStep

(* What goes wrong either ends the pass or advances it.                    *)
LEMMA FaultAdvances ==
    ASSUME Fault \/ Recover, pc # "idle", pc' # "idle"
    PROVE  Advances
  <1>1. ~(Abort \/ Restart \/ Recover)
    BY DEF Abort, Restart, Recover, Fail, EndPass
  <1>2. ReloadPanics \/ FloatingIPDeleteFails
    BY <1>1 DEF Fault
  <1> QED
    BY <1>2, StageAdvances DEF ReloadPanics, FloatingIPDeleteFails, Goto, Stage

(* Nobody else gives a pass more to do, or less.                           *)
LEMMA OthersKeepRank ==
    ASSUME TypeOK, CloudStep \/ Outside \/ UNCHANGED vars, pc # "idle"
    PROVE  UNCHANGED <<Stage(pc), WorkLeft, RoundSteps>>
  <1> USE DEF cloudVars, serviceVars, passVars, workerVars
  <1>1. UNCHANGED <<pc, waiting, todo, victim, req, sg>>
    BY DEF CloudStep, CloudSettle, Settle, CloudDelete, FinishDelete, CloudApply, ApplyMembers,
           PutPool, Outside, CloudBreak, Break, CloudLose, DeleteService, Edit, vars
  <1>2. \A k \in Keys : HasListener(k)' = HasListener(k) /\ HasPool(k)' = HasPool(k)
    <2>1. ASSUME NEW k \in Keys, CloudApply(k)
          PROVE  \A j \in Keys : HasListener(j)' = HasListener(j) /\ HasPool(j)' = HasPool(j)
      <3>1. pools[k] \in Pool /\ pools[k] # NoPool
        BY <2>1 DEF CloudApply, ApplyMembers, UpdatePending, HasPool, TypeOK, CloudTypeOK
      <3>2. [pools[k] EXCEPT !.members = pools[k].target] \in Pool
        BY <3>1 DEF Pool
      <3>3. [pools[k] EXCEPT !.members = pools[k].target] # NoPool
        BY <3>2, CloudConstants
      <3> QED
        BY <2>1, <3>1, <3>3
        DEF CloudApply, ApplyMembers, PutPool, HasListener, HasPool, TypeOK, CloudTypeOK
    <2>2. CASE UNCHANGED <<listeners, pools>>
      BY <2>2 DEF HasListener, HasPool
    <2>3. UNCHANGED <<listeners, pools>> \/ \E k \in Keys : CloudApply(k)
      BY DEF CloudStep, CloudSettle, Settle, CloudDelete, FinishDelete,
             Outside, CloudBreak, Break, CloudLose, DeleteService, Edit, vars
    <2> QED
      BY <2>1, <2>2, <2>3
  <1>3. WorkLeft' = WorkLeft
    BY <1>1, <1>2 DEF WorkLeft, RuleFor
  <1> QED
    BY <1>1, <1>3 DEF RoundSteps

(* For any requests, nodes, ports and addresses: a pass never goes round   *)
(* in circles, whatever fails and whatever the cloud and the user do       *)
(* meanwhile.                                                              *)
THEOREM PassesProgress == Spec => PassProgress
  <1>1. TypeOK /\ TypeOK' /\ RoundInv /\ [Next]_vars =>
          [(pc # "idle" /\ pc' # "idle") =>
             \/ Advances
             \/ UNCHANGED <<Stage(pc), WorkLeft, RoundSteps>> /\ ~(WorkerStep \/ Fault)]_vars
    BY EnsureAdvances, DeleteAdvances, FaultAdvances, OthersKeepRank
    DEF Next, WorkerStep, Disturbance, Gone
  <1> QED
    BY <1>1, TypeCorrect, RoundsSound, PTL DEF Spec, PassProgress

=============================================================================
