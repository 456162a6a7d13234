------------------------------ MODULE EdgeCloud ------------------------------
(***************************************************************************)
(* The cloud as the provider uses it: one load balancer with its listeners *)
(* and pools, the floating IPs, and the Service's security group.  The API *)
(* is a library and a remote service, so all of it is modelled from the    *)
(* calls the provider makes and from the outcomes it prepares for:         *)
(*                                                                         *)
(*  - a create, an update or a delete is rejected unless the load balancer *)
(*    is ACTIVE (isLoadBalancerImmutableError), and leaves it              *)
(*    PENDING_UPDATE for a while (every mutation is followed by a wait);   *)
(*  - PoolUpdate returns before its members are applied                    *)
(*    (waitPoolMembersApplied polls for them), so an update can still be   *)
(*    under way when the pass that sent it has given up;                   *)
(*  - a load balancer may end in ERROR (the wait has a case for it);       *)
(*  - deleting a load balancer takes time and detaches its floating IPs.   *)
(***************************************************************************)
EXTENDS ServiceSpec

CONSTANTS
    FipAddrs,       \* addresses of the floating IP pool
    Vip,            \* the load balancer's own address
    NoListener,     \* no listener under that key
    NoPool,         \* the listener has no pool
    MayBreak,       \* TRUE: a pending load balancer may end in ERROR
    MayLose         \* TRUE: an operator may remove the load balancer by hand

Pool == [members : SUBSET Member, target : SUBSET Member]

ASSUME CloudConstants ==
    /\ MayBreak \in BOOLEAN /\ MayLose \in BOOLEAN
    /\ Vip \notin FipAddrs /\ NoAddr \notin FipAddrs /\ NoAddr # Vip
    /\ NoListener \notin Attr
    /\ NoPool \notin Pool

VARIABLES
    lb,         \* provisioning status of the load balancer
    listeners,  \* its listeners, by key
    pools,      \* the pool of each listener: members, and those last asked for
    fips,       \* state of every floating IP address
    sg          \* the Service's security group, its rules and its instances

cloudVars == <<lb, listeners, pools, fips, sg>>

LbStates == {"ABSENT", "PENDING_CREATE", "ACTIVE", "PENDING_UPDATE", "ERROR", "PENDING_DELETE"}

NoGroup == [exists |-> FALSE, rules |-> {}, nodes |-> {}]

CloudTypeOK ==
    /\ lb \in LbStates
    /\ listeners \in [Keys -> Attr \cup {NoListener}]
    /\ pools \in [Keys -> Pool \cup {NoPool}]
    /\ fips \in [FipAddrs -> {"absent", "free", "attached"}]
    /\ sg \in [exists : BOOLEAN, rules : SUBSET Rule, nodes : SUBSET Nodes]

CloudInit ==
    /\ lb = "ABSENT"
    /\ listeners = [k \in Keys |-> NoListener]
    /\ pools = [k \in Keys |-> NoPool]
    /\ fips = [a \in FipAddrs |-> "absent"]
    /\ sg = NoGroup

HasListener(k) == listeners[k] # NoListener
HasPool(k) == pools[k] # NoPool
UpdatePending(k) == HasPool(k) /\ pools[k].target # pools[k].members
Attached == {a \in FipAddrs : fips[a] = "attached"}

-----------------------------------------------------------------------------
(* Calls of the API, used by the provider's actions.                       *)

AcceptsListener(k) == lb = "ACTIVE" /\ ~HasListener(k)

AcceptsUpdate(k) == lb = "ACTIVE" /\ HasListener(k)

AcceptsPool(k) == lb = "ACTIVE" /\ HasListener(k) /\ ~HasPool(k)

PutListener(k, a) ==
    /\ lb' = "PENDING_UPDATE"
    /\ listeners' = [listeners EXCEPT ![k] = a]
    /\ UNCHANGED <<pools, fips, sg>>

PutPool(k, q) ==
    /\ lb' = "PENDING_UPDATE"
    /\ pools' = [pools EXCEPT ![k] = q]
    /\ UNCHANGED <<listeners, fips, sg>>

(* The task is queued: neither the members nor the status change yet.      *)
PoolUpdate(k, members) ==
    /\ lb = "ACTIVE" /\ HasPool(k)
    /\ pools' = [pools EXCEPT ![k] = [@ EXCEPT !.target = members]]
    /\ UNCHANGED <<lb, listeners, fips, sg>>

PutFip(a, state) ==
    /\ fips' = [fips EXCEPT ![a] = state]
    /\ UNCHANGED <<lb, listeners, pools, sg>>

PutGroup(g) ==
    /\ sg' = g
    /\ UNCHANGED <<lb, listeners, pools, fips>>

-----------------------------------------------------------------------------
(* Steps the cloud takes by itself.                                        *)

Settle ==
    /\ lb \in {"PENDING_CREATE", "PENDING_UPDATE"}
    /\ lb' = "ACTIVE"
    /\ UNCHANGED <<listeners, pools, fips, sg>>

Break ==
    /\ MayBreak
    /\ lb \in {"PENDING_CREATE", "PENDING_UPDATE"}
    /\ lb' = "ERROR"
    /\ UNCHANGED <<listeners, pools, fips, sg>>

ApplyMembers(k) ==
    /\ lb = "ACTIVE"
    /\ UpdatePending(k)
    /\ PutPool(k, [pools[k] EXCEPT !.members = pools[k].target])

Detached == [a \in FipAddrs |-> IF fips[a] = "attached" THEN "free" ELSE fips[a]]

FinishDelete ==
    /\ lb = "PENDING_DELETE"
    /\ lb' = "ABSENT"
    /\ fips' = Detached
    /\ UNCHANGED <<listeners, pools, sg>>

(* An operator removes the load balancer, with everything under it.        *)
Lose ==
    /\ MayLose
    /\ lb \in {"ACTIVE", "ERROR"}
    /\ lb' = "ABSENT"
    /\ listeners' = [k \in Keys |-> NoListener]
    /\ pools' = [k \in Keys |-> NoPool]
    /\ fips' = Detached
    /\ UNCHANGED sg
=============================================================================
