------------------------------- MODULE LbaasV2 -------------------------------
(***************************************************************************)
(* The load-balancer provider of one Service: EnsureLoadBalancer and       *)
(* EnsureLoadBalancerDeleted, run by the service controller's worker, one  *)
(* step per API call, against the cloud of EdgeCloud.                      *)
(*                                                                         *)
(* The controller keeps a queue: `dirty' says that the Service is queued.  *)
(* A pass takes it off the queue, works on a copy of the object (`req'),   *)
(* and is queued again when it fails or when the Service changed under it. *)
(* A pass may be aborted by an error or a time-out at every call, and the  *)
(* process may die at any moment: what the cloud holds then is what the    *)
(* next pass finds.                                                        *)
(***************************************************************************)
EXTENDS EdgeCloud

CONSTANTS
    Specs,     \* the requests the user may make
    Edits,     \* bound: from which request to which the user may go
    Eligible,  \* nodes with a port a security group can go on
    NoPort,    \* no Service port is being worked on
    NoKey      \* no listener is being deleted

ASSUME ProviderConstants ==
    /\ Specs # {} /\ Specs \subseteq Request /\ Edits \subseteq Specs \X Specs
    /\ \A e \in Edits : e[1].manageSecurityGroups = e[2].manageSecurityGroups
    /\ Eligible \subseteq Nodes
    /\ NoPort \notin Port /\ NoKey \notin Keys

VARIABLES
    desired,   \* the Service as the user wants it, and its nodes
    phase,     \* "live", "deleting" (finalizer pending) or "gone"
    ingress,   \* the address published in the Service's status
    dirty,     \* the Service is in the work queue
    pc,        \* where the worker is
    waiting,   \* waitLoadbalancerActiveProvisioningStatus is polling
    req,       \* the pass's copy of the Service
    todo,      \* Service ports the current phase has still to handle
    port,      \* the Service port being handled
    existing,  \* listeners as the pass listed them
    seen,      \* pools as the pass listed them
    victim,    \* the listener the deletion is removing
    addr       \* the address the pass will publish

serviceVars == <<desired, phase, ingress, dirty>>
passVars == <<req, existing, seen, addr>>
vars == <<cloudVars, serviceVars, pc, waiting, todo, port, victim, passVars>>

EnsurePCs == { "ensureLB", "listeners", "listener", "reload", "poolsList", "pools", "members",
               "applied", "cleanup", "address", "sg", "sgRules", "sgNodes", "ensured" }
DeletePCs == {"delListeners", "delWait", "delSG", "delFip", "delDone"}

TypeOK ==
    /\ CloudTypeOK
    /\ desired \in Specs
    /\ phase \in {"live", "deleting", "gone"}
    /\ ingress \in FipAddrs \cup {Vip, NoAddr}
    /\ dirty \in BOOLEAN
    /\ pc \in {"idle", "panicked"} \cup EnsurePCs \cup DeletePCs
    /\ waiting \in BOOLEAN
    /\ req \in Specs
    /\ todo \in SUBSET Port
    /\ port \in Port \cup {NoPort}
    /\ existing \in [Keys -> Attr \cup {NoListener}]
    /\ seen \in [Keys -> Pool \cup {NoPool}]
    /\ victim \in Keys \cup {NoKey}
    /\ addr \in FipAddrs \cup {Vip, NoAddr}

NothingListed ==
    /\ existing = [k \in Keys |-> NoListener]
    /\ seen = [k \in Keys |-> NoPool]

AnySpec == CHOOSE s \in Specs : TRUE

Init ==
    /\ CloudInit
    /\ desired \in Specs /\ phase = "live" /\ ingress = NoAddr /\ dirty = TRUE
    /\ pc = "idle" /\ waiting = FALSE /\ todo = {} /\ port = NoPort /\ victim = NoKey
    /\ req = AnySpec /\ addr = NoAddr /\ NothingListed

(* getLoadbalancerByName: a load balancer under deletion is not found.     *)
Found == lb \notin {"ABSENT", "PENDING_DELETE"}

Key(p) == ListenerKey(req, p)

(* The members of a pool as the pools phase returned it: those listed, or  *)
(* none when the pass created the pool.                                    *)
ListedMembers(k) == IF seen[k] = NoPool THEN {} ELSE seen[k].members

(* A PoolUpdate of an earlier pass was under way when the pools were listed.*)
Stray(k) == seen[k] # NoPool /\ seen[k].target # seen[k].members

ObsoletePools == {k \in Keys : seen[k] # NoPool} \ Wanted(req)
ObsoleteListeners == {k \in Keys : existing[k] # NoListener} \ Wanted(req)

(* The pass is over: its locals are gone.                                  *)
EndPass ==
    /\ pc' = "idle" /\ waiting' = FALSE /\ todo' = {} /\ port' = NoPort /\ victim' = NoKey
    /\ req' = AnySpec /\ addr' = NoAddr
    /\ existing' = [k \in Keys |-> NoListener]
    /\ seen' = [k \in Keys |-> NoPool]

(* An error is returned to the controller, which queues the Service again. *)
Fail ==
    /\ EndPass
    /\ dirty' = TRUE
    /\ UNCHANGED <<cloudVars, desired, phase, ingress>>

Goto(l) == pc' = l /\ UNCHANGED <<cloudVars, serviceVars, waiting, todo, port, victim, passVars>>

-----------------------------------------------------------------------------
(* EnsureLoadBalancer: entry, the load balancer, the waits.                *)

StartEnsure ==
    /\ pc = "idle" /\ phase = "live" /\ dirty
    /\ Accepted(desired)
    /\ pc' = "ensureLB" /\ req' = desired /\ dirty' = FALSE
    /\ UNCHANGED <<cloudVars, desired, phase, ingress, waiting, todo, port, victim,
                   existing, seen, addr>>

(* Look the load balancer up by name, create it if there is none, and wait.*)
EnsureLB ==
    /\ pc = "ensureLB"
    /\ lb' = IF Found THEN lb ELSE "PENDING_CREATE"
    /\ pc' = "listeners" /\ waiting' = TRUE
    /\ UNCHANGED <<listeners, pools, fips, sg, serviceVars, todo, port, victim, passVars>>

AwaitActive ==
    /\ waiting /\ lb = "ACTIVE"
    /\ waiting' = FALSE
    /\ UNCHANGED <<cloudVars, serviceVars, pc, todo, port, victim, passVars>>

(* Some request is next that waits for ACTIVE: before it sends members and *)
(* before it polls them, and before it deletes a pool or a listener.       *)
Awaits ==
    \/ waiting \/ pc = "applied"
    \/ pc = "members" /\ \E p \in todo :
          /\ NodesAddressable(req) /\ p.nodePort # 0
          /\ membersChanged(ListedMembers(Key(p)), DesiredMembers(req, p))
    \/ pc = "cleanup" /\ \/ \E k \in ObsoletePools : HasPool(k)
                         \/ \E k \in ObsoleteListeners : HasListener(k)
    \/ pc = "delListeners" /\ victim # NoKey

(* The wait sees ERROR, or the load balancer is not there any more.        *)
AwaitFails ==
    /\ Awaits
    /\ lb \in {"ERROR", "ABSENT"}
    /\ Fail

-----------------------------------------------------------------------------
(* ensureLoadBalancerListeners                                             *)

ListListeners ==
    /\ pc = "listeners" /\ ~waiting
    /\ pc' = "listener" /\ existing' = listeners /\ todo' = req.ports
    /\ UNCHANGED <<cloudVars, serviceVars, waiting, port, victim, req, seen, addr>>

ToReload(p) ==
    /\ pc' = "reload" /\ port' = p
    /\ UNCHANGED <<serviceVars, todo, victim, passVars>>

CreateListener(p) ==
    /\ pc = "listener" /\ p \in todo
    /\ existing[Key(p)] = NoListener
    /\ AcceptsListener(Key(p))
    /\ PutListener(Key(p), buildListenerCreateRequest(req))
    /\ waiting' = TRUE
    /\ ToReload(p)

UpdateListener(p) ==
    /\ pc = "listener" /\ p \in todo
    /\ existing[Key(p)] # NoListener
    /\ ListenerNeedsUpdate(existing[Key(p)], req)
    /\ AcceptsUpdate(Key(p))
    /\ PutListener(Key(p), UpdatedListener(listeners[Key(p)], req))
    /\ waiting' = TRUE
    /\ ToReload(p)

KeepListener(p) ==
    /\ pc = "listener" /\ p \in todo
    /\ existing[Key(p)] # NoListener
    /\ ~ListenerNeedsUpdate(existing[Key(p)], req)
    /\ ToReload(p)
    /\ UNCHANGED <<cloudVars, waiting>>

(* The API rejects the create or the update; neither is retried.           *)
ListenerRejected(p) ==
    /\ pc = "listener" /\ p \in todo
    /\ IF existing[Key(p)] = NoListener
       THEN ~AcceptsListener(Key(p))
       ELSE ListenerNeedsUpdate(existing[Key(p)], req) /\ ~AcceptsUpdate(Key(p))
    /\ Fail

(* getListenerByID after the wait.                                         *)
Reload ==
    /\ pc = "reload" /\ ~waiting
    /\ pc' = "listener" /\ todo' = todo \ {port} /\ port' = NoPort
    /\ UNCHANGED <<cloudVars, serviceVars, waiting, victim, passVars>>

(* getListenerByID fails: it returned a nil listener, and building the     *)
(* error message reads that listener's ID.                                 *)
ReloadPanics ==
    /\ pc = "reload" /\ ~waiting
    /\ pc' = "panicked"
    /\ UNCHANGED <<cloudVars, serviceVars, waiting, todo, port, victim, passVars>>

ListenersDone ==
    /\ pc = "listener" /\ todo = {}
    /\ pc' = "poolsList" /\ waiting' = TRUE
    /\ UNCHANGED <<cloudVars, serviceVars, todo, port, victim, passVars>>

-----------------------------------------------------------------------------
(* ensureLoadBalancerPools                                                 *)

ListPools ==
    /\ pc = "poolsList" /\ ~waiting
    /\ pc' = "pools" /\ seen' = pools /\ todo' = req.ports
    /\ UNCHANGED <<cloudVars, serviceVars, waiting, port, victim, req, existing, addr>>

CreatePool(p) ==
    /\ pc = "pools" /\ ~waiting /\ p \in todo
    /\ seen[Key(p)] = NoPool
    /\ AcceptsPool(Key(p))
    /\ PutPool(Key(p), [members |-> {}, target |-> {}])
    /\ waiting' = TRUE /\ todo' = todo \ {p}
    /\ UNCHANGED <<serviceVars, pc, port, victim, passVars>>

(* Fault: a pool that is there is dropped, to be made anew.                *)
DropPool(p) ==
    /\ pc = "pools" /\ ~waiting /\ p \in todo
    /\ seen[Key(p)] # NoPool /\ HasPool(Key(p)) /\ lb = "ACTIVE"
    /\ PutPool(Key(p), NoPool)
    /\ waiting' = TRUE /\ todo' = todo \ {p}
    /\ UNCHANGED <<serviceVars, pc, port, victim, passVars>>

KeepPool(p) ==
    /\ pc = "pools" /\ ~waiting /\ p \in todo
    /\ seen[Key(p)] # NoPool
    /\ todo' = todo \ {p}
    /\ UNCHANGED <<cloudVars, serviceVars, pc, waiting, port, victim, passVars>>

PoolRejected(p) ==
    /\ pc = "pools" /\ ~waiting /\ p \in todo
    /\ seen[Key(p)] = NoPool
    /\ ~AcceptsPool(Key(p))
    /\ Fail

PoolsDone ==
    /\ pc = "pools" /\ ~waiting /\ todo = {}
    /\ pc' = "members" /\ waiting' = TRUE /\ todo' = req.ports
    /\ UNCHANGED <<cloudVars, serviceVars, port, victim, passVars>>

-----------------------------------------------------------------------------
(* reconcilePoolMembers                                                    *)

(* A node without a usable address, or a port without a node port.         *)
MembersRejected(p) ==
    /\ pc = "members" /\ ~waiting /\ p \in todo
    /\ ~NodesAddressable(req) \/ p.nodePort = 0
    /\ Fail

MembersReady(p) ==
    /\ pc = "members" /\ ~waiting /\ p \in todo
    /\ NodesAddressable(req) /\ p.nodePort # 0

KeepMembers(p) ==
    /\ MembersReady(p)
    /\ ~membersChanged(ListedMembers(Key(p)), DesiredMembers(req, p))
    /\ todo' = todo \ {p}
    /\ UNCHANGED <<cloudVars, serviceVars, pc, waiting, port, victim, passVars>>

UpdateMembers(p) ==
    /\ MembersReady(p)
    /\ membersChanged(ListedMembers(Key(p)), DesiredMembers(req, p))
    /\ PoolUpdate(Key(p), DesiredMembers(req, p))
    /\ pc' = "applied" /\ port' = p
    /\ UNCHANGED <<serviceVars, waiting, todo, victim, passVars>>

(* Fault: an ACTIVE load balancer is taken for applied members.            *)
ActiveIsApplied ==
    /\ pc = "applied" /\ lb = "ACTIVE"
    /\ pc' = "members" /\ todo' = todo \ {port} /\ port' = NoPort
    /\ UNCHANGED <<cloudVars, serviceVars, waiting, victim, passVars>>

(* Fault: members that are not there yet are sent again, without end.      *)
ResendMembers ==
    /\ pc = "applied" /\ lb = "ACTIVE"
    /\ pc' = "members" /\ port' = NoPort
    /\ UNCHANGED <<cloudVars, serviceVars, waiting, todo, victim, passVars>>

(* waitPoolMembersApplied: ACTIVE, and the members are the desired ones.   *)
MembersApplied ==
    /\ pc = "applied" /\ lb = "ACTIVE"
    /\ ~membersChanged(pools[Key(port)].members, DesiredMembers(req, port))
    /\ pc' = "members" /\ todo' = todo \ {port} /\ port' = NoPort
    /\ UNCHANGED <<cloudVars, serviceVars, waiting, victim, passVars>>

MembersDone == pc = "members" /\ ~waiting /\ todo = {} /\ Goto("cleanup")

-----------------------------------------------------------------------------
(* deleteObsoleteListenersAndPools: all obsolete pools, then the listeners.*)
(* Each delete waits for ACTIVE before and after.                          *)

CleanPool(k) ==
    /\ pc = "cleanup" /\ ~waiting /\ lb = "ACTIVE"
    /\ k \in ObsoletePools /\ HasPool(k)
    /\ PutPool(k, NoPool)
    /\ waiting' = TRUE
    /\ UNCHANGED <<serviceVars, pc, todo, port, victim, passVars>>

(* Fault: listeners are removed before the pools are.                      *)
CleanListenerFirst(k) ==
    /\ pc = "cleanup" /\ ~waiting /\ lb = "ACTIVE"
    /\ k \in ObsoleteListeners /\ HasListener(k)
    /\ PutListener(k, NoListener)
    /\ waiting' = TRUE
    /\ UNCHANGED <<serviceVars, pc, todo, port, victim, passVars>>

CleanListener(k) ==
    /\ pc = "cleanup" /\ ~waiting /\ lb = "ACTIVE"
    /\ \A j \in ObsoletePools : ~HasPool(j)
    /\ k \in ObsoleteListeners /\ HasListener(k)
    /\ PutListener(k, NoListener)
    /\ waiting' = TRUE
    /\ UNCHANGED <<serviceVars, pc, todo, port, victim, passVars>>

(* Fault: only the obsolete pools are cleaned up.                          *)
CleanPoolsOnly ==
    /\ pc = "cleanup" /\ ~waiting
    /\ \A k \in ObsoletePools : ~HasPool(k)
    /\ Goto("address")

CleanDone ==
    /\ pc = "cleanup" /\ ~waiting
    /\ \A k \in ObsoletePools : ~HasPool(k)
    /\ \A k \in ObsoleteListeners : ~HasListener(k)
    /\ Goto("address")

-----------------------------------------------------------------------------
(* The address: the VIP of an internal Service, or EnsureFloatingIP.       *)

Address(a) ==
    /\ addr' = a /\ pc' = "sg"
    /\ UNCHANGED <<serviceVars, waiting, todo, port, victim, req, existing, seen>>

UseVip ==
    /\ pc = "address" /\ req.internal
    /\ Address(Vip)
    /\ UNCHANGED cloudVars

KeepFloatingIP(a) ==
    /\ pc = "address" /\ ~req.internal
    /\ Attached = {a}
    /\ Address(a)
    /\ UNCHANGED cloudVars

(* Fault: the published address is returned without being assigned.        *)
ReuseUnassigned(a) ==
    /\ pc = "address" /\ ~req.internal /\ Attached = {}
    /\ ingress = a /\ fips[a] = "free"
    /\ Address(a)
    /\ UNCHANGED cloudVars

(* The port has none: the published address is assigned to it again.       *)
ReuseFloatingIP(a) ==
    /\ pc = "address" /\ ~req.internal /\ Attached = {}
    /\ ingress = a /\ fips[a] = "free"
    /\ PutFip(a, "attached")
    /\ Address(a)

(* Faults: the floating IPs of the port, or the published address, are not *)
(* looked at before a new one is created.                                  *)
CreateBlindly(a) ==
    /\ pc = "address" /\ ~req.internal
    /\ ingress = NoAddr /\ fips[a] = "absent"
    /\ PutFip(a, "attached")
    /\ Address(a)

CreateAnyway(a) ==
    /\ pc = "address" /\ ~req.internal /\ Attached = {}
    /\ fips[a] = "absent"
    /\ PutFip(a, "attached")
    /\ Address(a)

CreateFloatingIP(a) ==
    /\ pc = "address" /\ ~req.internal /\ Attached = {}
    /\ ingress = NoAddr /\ fips[a] = "absent"
    /\ PutFip(a, "attached")
    /\ Address(a)

(* "floating ip ... does not exist": the published address is not in the   *)
(* list of floating IPs, as when an internal Service becomes external.  Or *)
(* none is published and the cloud has none left to create.                *)
NoFloatingIP ==
    IF ingress = NoAddr THEN \A a \in FipAddrs : fips[a] # "absent"
    ELSE ingress \in FipAddrs => fips[ingress] = "absent"

FloatingIPMissing ==
    /\ pc = "address" /\ ~req.internal /\ Attached = {}
    /\ NoFloatingIP
    /\ Fail

-----------------------------------------------------------------------------
(* ensureSecurityGroup: the group, one rule per port, then the instances.  *)

SkipSecurityGroup == pc = "sg" /\ ~req.manageSecurityGroups /\ Goto("ensured")

EnsureGroup ==
    /\ pc = "sg" /\ req.manageSecurityGroups
    /\ PutGroup([sg EXCEPT !.exists = TRUE])
    /\ pc' = "sgRules"
    /\ UNCHANGED <<serviceVars, waiting, todo, port, victim, passVars>>

AddRule(p) ==
    /\ pc = "sgRules" /\ req.subnet # NoSubnet
    /\ p \in req.ports /\ RuleFor(req, p) \notin sg.rules
    /\ PutGroup([sg EXCEPT !.rules = @ \cup {RuleFor(req, p)}])
    /\ UNCHANGED <<serviceVars, pc, waiting, todo, port, victim, passVars>>

(* Subnetworks.Get("") fails when only a network was configured.           *)
SubnetMissing == pc = "sgRules" /\ req.subnet = NoSubnet /\ Fail

RulesDone ==
    /\ pc = "sgRules" /\ req.subnet # NoSubnet
    /\ \A p \in req.ports : RuleFor(req, p) \in sg.rules
    /\ Goto("sgNodes")

AssignNode(n) ==
    /\ pc = "sgNodes"
    /\ n \in (req.nodes \cap Eligible) \ sg.nodes
    /\ PutGroup([sg EXCEPT !.nodes = @ \cup {n}])
    /\ UNCHANGED <<serviceVars, pc, waiting, todo, port, victim, passVars>>

(* Fault: a node that cannot carry the group ends the loop.                *)
IneligibleEndsLoop ==
    pc = "sgNodes" /\ (req.nodes \subseteq Eligible => req.nodes \subseteq sg.nodes) /\ Goto("ensured")

NodesDone == pc = "sgNodes" /\ req.nodes \cap Eligible \subseteq sg.nodes /\ Goto("ensured")

(* The controller writes the returned status into the Service.             *)
Publish ==
    /\ pc = "ensured"
    /\ ingress' = addr
    /\ EndPass
    /\ UNCHANGED <<cloudVars, desired, phase, dirty>>

-----------------------------------------------------------------------------
(* EnsureLoadBalancerDeleted                                               *)

(* Nothing by that name, or it is being deleted: nothing is left to do.    *)
(* (The controller asks GetLoadBalancer first, which says the same.)       *)
DeleteNothing ==
    /\ pc = "idle" /\ phase = "deleting" /\ dirty
    /\ ~Found
    /\ pc' = "delDone" /\ dirty' = FALSE
    /\ UNCHANGED <<cloudVars, desired, phase, ingress, waiting, todo, port, victim, passVars>>

StartDelete ==
    /\ pc = "idle" /\ phase = "deleting" /\ dirty
    /\ Found
    /\ pc' = "delListeners" /\ dirty' = FALSE
    /\ req' = desired /\ existing' = listeners
    /\ UNCHANGED <<cloudVars, desired, phase, ingress, waiting, todo, port, victim, seen, addr>>

(* ensureListenerDeleted, for one listener after the other.                *)
PickListener(k) ==
    /\ pc = "delListeners" /\ ~waiting /\ victim = NoKey
    /\ existing[k] # NoListener /\ HasListener(k)
    /\ victim' = k
    /\ UNCHANGED <<cloudVars, serviceVars, pc, waiting, todo, port, passVars>>

DeletePool ==
    /\ pc = "delListeners" /\ ~waiting /\ victim # NoKey /\ lb = "ACTIVE"
    /\ HasPool(victim)
    /\ PutPool(victim, NoPool)
    /\ waiting' = TRUE
    /\ UNCHANGED <<serviceVars, pc, todo, port, victim, passVars>>

DeleteListener ==
    /\ pc = "delListeners" /\ ~waiting /\ victim # NoKey /\ lb = "ACTIVE"
    /\ ~HasPool(victim)
    /\ PutListener(victim, NoListener)
    /\ waiting' = TRUE /\ victim' = NoKey
    /\ UNCHANGED <<serviceVars, pc, todo, port, passVars>>

(* Fault: the load balancer is deleted before its listeners are.           *)
ListenersLeft == pc = "delListeners" /\ ~waiting /\ victim = NoKey

ListenersGone ==
    /\ pc = "delListeners" /\ ~waiting /\ victim = NoKey
    /\ \A k \in Keys : existing[k] # NoListener => ~HasListener(k)

DeleteLB ==
    /\ ListenersGone
    /\ lb \in {"ACTIVE", "ERROR"}
    /\ lb' = "PENDING_DELETE" /\ pc' = "delWait"
    /\ UNCHANGED <<listeners, pools, fips, sg, serviceVars, waiting, todo, port, victim, passVars>>

DeleteLBRejected ==
    /\ ListenersGone
    /\ lb \notin {"ACTIVE", "ERROR"}
    /\ Fail

(* Fault: the wait looks for a status that never comes.                    *)
LBMarkedDeleted == pc = "delWait" /\ lb = "DELETED" /\ Goto("delSG")

LBDeleted == pc = "delWait" /\ lb = "ABSENT" /\ Goto("delSG")

SkipGroupDelete ==
    /\ pc = "delSG" /\ (req.manageSecurityGroups => ~sg.exists)
    /\ Goto("delFip")

UnassignNode(n) ==
    /\ pc = "delSG" /\ req.manageSecurityGroups /\ sg.exists /\ UseOctavia
    /\ n \in sg.nodes
    /\ PutGroup([sg EXCEPT !.nodes = @ \ {n}])
    /\ UNCHANGED <<serviceVars, pc, waiting, todo, port, victim, passVars>>

DeleteGroup ==
    /\ pc = "delSG" /\ req.manageSecurityGroups /\ sg.exists /\ sg.nodes = {}
    /\ PutGroup(NoGroup)
    /\ pc' = "delFip"
    /\ UNCHANGED <<serviceVars, waiting, todo, port, victim, passVars>>

(* Fault: the error of the group's deletion is ignored.                    *)
GroupInUseIgnored ==
    /\ pc = "delSG" /\ req.manageSecurityGroups /\ sg.exists /\ ~UseOctavia
    /\ sg.nodes # {}
    /\ Goto("delFip")

(* Without use-octavia the instances keep the group, and a group in use    *)
(* cannot be deleted.                                                      *)
GroupInUse ==
    /\ pc = "delSG" /\ req.manageSecurityGroups /\ sg.exists /\ ~UseOctavia
    /\ sg.nodes # {}
    /\ Fail

(* The save-floating annotation is not a boolean: an error, and only here. *)
SaveFloatingInvalid == pc = "delFip" /\ req.saveFloating = "invalid" /\ Fail

(* Fault: the save-floating annotation is not honoured.                    *)
FloatingIPAlwaysGoes == ingress \in FipAddrs /\ fips[ingress] # "absent"

(* The floating IP goes unless the annotation saves it, the status has no  *)
(* address, or no floating IP has that address.                            *)
FloatingIPGoes ==
    req.saveFloating = "no" /\ ingress \in FipAddrs /\ fips[ingress] # "absent"

DeleteFloatingIP ==
    /\ pc = "delFip" /\ FloatingIPGoes
    /\ PutFip(ingress, "absent")
    /\ pc' = "delDone"
    /\ UNCHANGED <<serviceVars, waiting, todo, port, victim, passVars>>

SkipFloatingIP ==
    /\ pc = "delFip" /\ req.saveFloating # "invalid" /\ ~FloatingIPGoes
    /\ Goto("delDone")

(* Failing to delete it is logged, and nothing else.                       *)
FloatingIPDeleteFails == pc = "delFip" /\ FloatingIPGoes /\ Goto("delDone")

(* The controller removes the finalizer.                                   *)
Finalize ==
    /\ pc = "delDone"
    /\ phase' = "gone"
    /\ EndPass
    /\ UNCHANGED <<cloudVars, desired, ingress, dirty>>

-----------------------------------------------------------------------------
(* Faults: an API error or an expired wait ends the pass at any call (but  *)
(* see ReloadPanics and FloatingIPDeleteFails); the process may be killed  *)
(* or lose its leadership, and a starting controller queues every Service. *)

Abort ==
    /\ pc \notin {"idle", "panicked", "delFip"}
    /\ pc = "reload" => waiting
    /\ Fail

Restart ==
    /\ phase # "gone" /\ pc # "panicked"
    /\ pc # "idle" \/ ~dirty
    /\ Fail

Recover == pc = "panicked" /\ Fail

(* The user.                                                               *)
Edit(s) ==
    /\ phase = "live" /\ s # desired /\ <<desired, s>> \in Edits
    /\ desired' = s /\ dirty' = TRUE
    /\ UNCHANGED <<cloudVars, phase, ingress, pc, waiting, todo, port, victim, passVars>>

DeleteService ==
    /\ phase = "live"
    /\ phase' = "deleting" /\ dirty' = TRUE
    /\ UNCHANGED <<cloudVars, desired, ingress, pc, waiting, todo, port, victim, passVars>>

(* The cloud.                                                              *)
workerVars == <<serviceVars, pc, waiting, todo, port, victim, passVars>>

CloudSettle == Settle /\ UNCHANGED workerVars
CloudBreak == Break /\ UNCHANGED workerVars
CloudApply(k) == ApplyMembers(k) /\ UNCHANGED workerVars
CloudDelete == FinishDelete /\ UNCHANGED workerVars

(* Between two passes: a pass that loses its load balancer can only abort. *)
CloudLose == pc = "idle" /\ phase = "live" /\ Lose /\ UNCHANGED workerVars

(* Nothing happens to a Service that is gone.                              *)
Gone == phase = "gone" /\ UNCHANGED vars

-----------------------------------------------------------------------------
EnsureStep ==
    \/ StartEnsure \/ EnsureLB \/ AwaitActive \/ AwaitFails
    \/ ListListeners \/ Reload \/ ListenersDone
    \/ \E p \in todo : CreateListener(p) \/ UpdateListener(p) \/ KeepListener(p)
                       \/ ListenerRejected(p)
    \/ ListPools \/ PoolsDone
    \/ \E p \in todo : CreatePool(p) \/ KeepPool(p) \/ PoolRejected(p)
    \/ MembersApplied \/ MembersDone
    \/ \E p \in todo : KeepMembers(p) \/ UpdateMembers(p) \/ MembersRejected(p)
    \/ \E k \in Keys : CleanPool(k) \/ CleanListener(k)
    \/ CleanDone
    \/ UseVip \/ FloatingIPMissing
    \/ \E a \in FipAddrs : KeepFloatingIP(a) \/ ReuseFloatingIP(a) \/ CreateFloatingIP(a)
    \/ SkipSecurityGroup \/ EnsureGroup \/ SubnetMissing \/ RulesDone \/ NodesDone
    \/ \E p \in req.ports : AddRule(p)
    \/ \E n \in Nodes : AssignNode(n)
    \/ Publish

DeleteStep ==
    \/ DeleteNothing \/ StartDelete
    \/ \E k \in Keys : PickListener(k)
    \/ DeletePool \/ DeleteListener \/ DeleteLB \/ DeleteLBRejected \/ LBDeleted
    \/ SkipGroupDelete \/ DeleteGroup \/ GroupInUse
    \/ \E n \in Nodes : UnassignNode(n)
    \/ SaveFloatingInvalid \/ DeleteFloatingIP \/ SkipFloatingIP \/ Finalize

(* What the provider does unless something goes wrong.                     *)
WorkerStep == EnsureStep \/ DeleteStep \/ Recover

(* What goes wrong in a pass.                                              *)
Fault == Abort \/ Restart \/ ReloadPanics \/ FloatingIPDeleteFails

(* What breaks in the cloud, and what users and operators do.              *)
Outside ==
    \/ CloudBreak \/ CloudLose
    \/ DeleteService \/ \E s \in Specs : Edit(s)

Disturbance == Fault \/ Outside

CloudStep == CloudSettle \/ CloudDelete \/ \E k \in Keys : CloudApply(k)

Next == WorkerStep \/ CloudStep \/ Disturbance \/ Gone

Spec == Init /\ [][Next]_vars

(* The worker goroutine runs on, and the cloud finishes what it accepted.  *)
FairSpec ==
    /\ Spec
    /\ WF_vars(WorkerStep)
    /\ WF_vars(CloudSettle) /\ WF_vars(CloudDelete)
    /\ \A k \in Keys : WF_vars(CloudApply(k))

-----------------------------------------------------------------------------
(* Correctness.                                                            *)

(* The listener carries what the request says.  X-Forwarded-For is left    *)
(* out under TLS, where the code never changes it on an existing listener. *)
ListenerServes(a, s) ==
    /\ a.secret = s.secret
    /\ TimeoutGiven(s) => a.timeout = s.timeout
    /\ s.secret = NoSecret => a.xff = s.keepClientIP

(* Exactly the listeners and pools the request calls for, and no other.    *)
ShapeServes(s) ==
    /\ {k \in Keys : HasListener(k)} = Wanted(s)
    /\ {k \in Keys : HasPool(k)} = Wanted(s)
    /\ \A k \in Wanted(s) : ListenerServes(listeners[k], s)

(* The last pass succeeded and nothing is queued.                          *)
Settled == phase = "live" /\ pc = "idle" /\ ~dirty /\ lb # "ABSENT"

(* After a successful EnsureLoadBalancer, whatever passes failed or died   *)
(* before it and however often the Service changed, the load balancer has  *)
(* exactly the listeners and pools of the Service's ports, with its secret,*)
(* timeout and forwarding mode: nothing obsolete survives, nothing wanted  *)
(* is missing.                                                             *)
SettledServed == Settled => ShapeServes(desired)

(* Once reconcilePoolMembers has passed, every pool holds exactly the      *)
(* node addresses of the pass, unless a PoolUpdate of an earlier pass was  *)
(* still under way when the pools were listed, or two ports share the      *)
(* listener.                                                               *)
MembersServed ==
    (pc \in {"cleanup", "address", "sg", "sgRules", "sgNodes", "ensured"}
        /\ DistinctListeners(req)) =>
      \A p \in req.ports : ~Stray(Key(p)) =>
        pools[Key(p)] = [members |-> DesiredMembers(req, p), target |-> DesiredMembers(req, p)]

(* No pool outlives its listener: cleanup and deletion both remove the     *)
(* pool first, and neither a crash nor an error reverses that.             *)
NoOrphanPool == \A k \in Keys : HasPool(k) => HasListener(k)

(* A pass never takes away a listener or a pool of a port it serves: the   *)
(* port keeps answering while the pass works.                              *)
WantedKept ==
    [][(pc \in EnsurePCs) => \A k \in Wanted(req) :
          (HasListener(k) => HasListener(k)') /\ (HasPool(k) => HasPool(k)')]_vars

(* Everything the request asks for is there.                               *)
FullyServed(s) ==
    /\ ShapeServes(s)
    /\ \A p \in s.ports : pools[ListenerKey(s, p)] =
          [members |-> DesiredMembers(s, p), target |-> DesiredMembers(s, p)]
    /\ s.internal \/ Attached # {}
    /\ s.manageSecurityGroups =>
          /\ sg.exists
          /\ \A p \in s.ports : RuleFor(s, p) \in sg.rules
          /\ s.nodes \cap Eligible \subseteq sg.nodes

(* A repeated pass disturbs nothing: while everything its request asks for *)
(* is there, whatever the pass listed before and whatever it therefore     *)
(* sends, no listener, pool, floating IP or group becomes another.  (It    *)
(* may send an update that changes nothing: updateListenerIfNeeded finds a *)
(* timeout nobody asked for different in every pass.)                      *)
RepeatHarmless ==
    [][(pc \in EnsurePCs /\ FullyServed(req)) => UNCHANGED <<listeners, pools, fips, sg>>]_vars

(* The load balancer never has two floating IPs ("more than one floating   *)
(* IPs for port" would end every later pass).                              *)
OneFloatingIP == \A a, b \in Attached : a = b

(* A settled external Service publishes the floating IP its load balancer  *)
(* has, an internal one the VIP.                                           *)
SettledAddress ==
    Settled => IF desired.internal THEN ingress = Vip ELSE Attached = {ingress}

(* A published floating IP stays the Service's address across failures,    *)
(* restarts and the loss of the load balancer, until the Service is made   *)
(* internal.                                                               *)
AddressStable == [][(ingress \in FipAddrs) => ingress' \in {ingress, Vip}]_vars

(* A floating IP is destroyed only for a Service that is being deleted and *)
(* does not save it, only if it is the published one, and only after the   *)
(* load balancer is gone.                                                  *)
FloatingIPDestroyed ==
    [][\A a \in FipAddrs : (fips[a] # "absent" /\ fips'[a] = "absent") =>
          /\ phase = "deleting" /\ desired.saveFloating = "no"
          /\ a = ingress /\ lb = "ABSENT"]_vars

(* A settled Service's security group lets the load balancer's subnet in   *)
(* on every node port and sits on every node that can carry it.            *)
SettledGuarded ==
    (Settled /\ desired.manageSecurityGroups) =>
        /\ sg.exists
        /\ \A p \in desired.ports : RuleFor(desired, p) \in sg.rules
        /\ desired.nodes \cap Eligible \subseteq sg.nodes

(* The load balancer itself goes last: by the time its deletion is asked   *)
(* for, no listener and no pool is left, even if an earlier attempt or an  *)
(* unfinished pass left some behind.                                       *)
TeardownOrder ==
    lb = "PENDING_DELETE" => \A k \in Keys : ~HasListener(k) /\ ~HasPool(k)

(* A deletion that reaches its floating-IP step has removed the load       *)
(* balancer and, when groups are managed, the group, from every instance.  *)
DeletionReleases ==
    pc = "delFip" => /\ lb = "ABSENT" /\ Attached = {}
                     /\ req.manageSecurityGroups => sg = NoGroup

(* How far a pass has come: the stages of EnsureLoadBalancer and of        *)
(* EnsureLoadBalancerDeleted, in their order.                              *)
Stage(l) ==
    CASE l \in {"ensureLB", "delListeners"} -> 1
      [] l \in {"listeners", "delWait"} -> 2
      [] l \in {"listener", "reload", "delSG"} -> 3
      [] l \in {"poolsList", "delFip"} -> 4
      [] l \in {"pools", "delDone"} -> 5
      [] l \in {"members", "applied"} -> 6
      [] l = "cleanup" -> 7
      [] l = "address" -> 8
      [] l = "sg" -> 9
      [] l = "sgRules" -> 10
      [] l = "sgNodes" -> 11
      [] l = "ensured" -> 12
      [] OTHER -> 13

(* What the loop of a stage has still to go through.                       *)
WorkLeft ==
    CASE pc \in {"listener", "reload", "pools", "members", "applied"} -> todo
      [] pc \in {"cleanup", "delListeners"} ->
            {<<"listener", k>> : k \in {j \in Keys : HasListener(j)}}
              \cup {<<"pool", k>> : k \in {j \in Keys : HasPool(j)}}
      [] pc = "sgRules" -> {p \in req.ports : RuleFor(req, p) \notin sg.rules}
      [] pc = "sgNodes" -> Nodes \ sg.nodes
      [] pc = "delSG" -> sg.nodes
      [] OTHER -> {}

(* The steps the current round of the loop has still to take, at most.     *)
RoundSteps ==
    (IF pc \in {"reload", "applied"} \/ victim # NoKey THEN 0 ELSE 2)
      + (IF waiting THEN 1 ELSE 0)

Advances ==
    \/ Stage(pc') > Stage(pc)
    \/ /\ Stage(pc') = Stage(pc)
       /\ WorkLeft' \subseteq WorkLeft
       /\ WorkLeft' = WorkLeft => RoundSteps' < RoundSteps

(* A pass cannot go round in circles: each step it takes reaches a later   *)
(* stage, takes something off the work of its loop for good, or comes      *)
(* nearer to the end of the round; and nothing that the cloud or the user  *)
(* does meanwhile gives it more to do.  So every pass is over after a      *)
(* bounded number of its own steps, whatever fails and whatever changes.   *)
PassProgress ==
    [][(pc # "idle" /\ pc' # "idle") =>
          \/ Advances
          \/ UNCHANGED <<Stage(pc), WorkLeft, RoundSteps>> /\ ~(WorkerStep \/ Fault)]_vars

(* The Services no pass can serve: one that is refused, one with a node    *)
(* that has no usable address or a port that has no node port, one whose   *)
(* load balancer is in ERROR, one whose rules need a subnet that nobody    *)
(* named, and an external one that cannot get its floating IP.  And the    *)
(* one no pass can delete: its load balancer is in ERROR and has           *)
(* listeners, which only go from an ACTIVE one.                            *)
DeadEnd ==
    \/ phase = "deleting" /\ lb = "ERROR" /\ \E k \in Keys : HasListener(k)
    \/ /\ phase = "live"
       /\ \/ ~Accepted(desired)
          \/ ~NodesAddressable(desired)
          \/ \E p \in desired.ports : p.nodePort = 0
          \/ lb = "ERROR"
          \/ desired.manageSecurityGroups /\ desired.subnet = NoSubnet
          \/ ~desired.internal /\ Attached = {} /\ NoFloatingIP

(* When faults and changes stop, the queue drains: the last change is      *)
(* served by a successful pass, or the Service is gone, and the worker     *)
(* rests.  The dead ends are the only Services that are retried for ever:  *)
(* any other deletion ends, whatever its passes left behind.  An error the *)
(* code returns by itself is no fault, though its step looks like one.     *)
EventuallySettled ==
    \/ []<><<Fault /\ ~WorkerStep>>_vars
    \/ []<><<Outside>>_vars
    \/ <>[](pc = "idle" /\ ~dirty /\ phase # "deleting")
    \/ <>[]DeadEnd

-----------------------------------------------------------------------------
(* What the repository's documentation says, where the code differs.       *)

(* loadbalancer.go:545: EnsureLoadBalancerDeleted deletes "the load        *)
(* balancer and all dependent resources associated with the Service,       *)
(* including listeners, pools, floating IPs and security groups".          *)
GoneReleased ==
    phase = "gone" =>
        /\ ~sg.exists
        /\ desired.saveFloating = "no" => \A a \in FipAddrs : fips[a] = "absent"

(* loadbalancer_pools.go:103: "reconcilePoolMembers synchronizes backend   *)
(* members for each pool with the current node set": the pools of a        *)
(* settled Service hold, or are about to hold, the desired members of each *)
(* port.                                                                   *)
SettledMembers ==
    Settled => \A p \in desired.ports :
        pools[ListenerKey(desired, p)].target = DesiredMembers(desired, p)
=============================================================================
