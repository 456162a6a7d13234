------------------------------ MODULE Instances ------------------------------
(***************************************************************************)
(* The instances of the cluster and the Kubernetes nodes they back.        *)
(*                                                                         *)
(* Three loops of the cloud controller manager ask the provider about a    *)
(* node: "init" initializes a node that is new, "refresh" updates the      *)
(* addresses of an initialized node, and "monitor" looks at a node that is *)
(* not Ready, to remove it when its instance is gone or to taint it when   *)
(* its instance is shut off.  Each loop takes a copy of the node, asks     *)
(* (one request to the cloud), and acts on the answer, so the node and the *)
(* instance can change between any two of the three.                       *)
(*                                                                         *)
(* The loops belong to k8s.io/cloud-provider and are modelled as external; *)
(* the answers are the code of instances.go.                               *)
(***************************************************************************)
EXTENDS Naturals, FiniteSets, SequencesExt

CONSTANTS
    Names,               \* names of instances
    Cluster,             \* the names that nodes of the cluster have
    Ids,                 \* instance IDs
    NoProvider,          \* spec.providerID is empty
    BadProvider,         \* a providerID that is not edgecenter:///<instance-id>
    NoNode,              \* no node object under that name
    NameOf,              \* the name an instance is created with
    Flavored,            \* the instances whose flavor has an ID or a name
    HostName,            \* an instance's hostname metadata, or NoHost
    NoHost,
    LastNetwork,         \* the networks are numbered 1 .. LastNetwork, in the order of their names
    PublicNetworkName,   \* one of the networks, or 0 when the option is not set
    InternalNetworkName, \* one of the networks, or 0 when the option is not set
    IPv6SupportDisabled,
    Addrs,
    Shared,              \* addresses that start with "100."
    IPv6,
    Interfaces,          \* interfaces an instance can have: [network, addr, kind]
    Plugs,               \* which of them may be plugged into which instance
    MaxPorts,            \* bound: interfaces of an instance in one network
    Registrations        \* providerIDs a kubelet may register its node with

Networks == 1 .. LastNetwork

ASSUME InstancesConstants ==
    /\ NameOf \in [Ids -> Names] /\ Flavored \subseteq Ids /\ Cluster \subseteq Names
    /\ HostName \in [Ids -> Addrs \cup {NoHost}]
    /\ LastNetwork \in Nat
    /\ {PublicNetworkName, InternalNetworkName} \subseteq Networks \cup {0}
    /\ Interfaces \subseteq [network : Networks, addr : Addrs, kind : {"fixed", "floating"}]
    /\ Plugs \subseteq Ids \X Interfaces
    /\ \A p, q \in Plugs : p[1] = q[1] /\ p[2].network = q[2].network => p = q
    /\ Registrations \subseteq {NoProvider, BadProvider}
    /\ IPv6SupportDisabled \in BOOLEAN /\ MaxPorts \in Nat \ {0}
    /\ NoProvider # BadProvider /\ Ids \cap {NoProvider, BadProvider} = {}
    /\ Ids \cap {"malformed", "apiNotFound", "InstanceNotFound", "apiError"} = {}

VARIABLES
    inst,   \* the cloud's instances: status, and addresses by network
    node,   \* the Kubernetes nodes by name
    call,   \* what each loop is doing
    behind  \* history: the instances behind the node "monitor" asks about, when it took its copy

vars == <<inst, node, call, behind>>

Loops == {"init", "refresh", "monitor"}

-----------------------------------------------------------------------------
(* What the provider computes.                                             *)

(* Fault: no check for an address that is already listed.                  *)
AlwaysAppend(addrs, a) == Append(addrs, a)

(* An address is appended unless it is already there with the same type.   *)
AddToNodeAddresses(addrs, a) == IF Contains(addrs, a) THEN addrs ELSE Append(addrs, a)

(* ExternalIP, InternalIP, or left out by internal-network-name.           *)
AddressType(network, p) ==
    IF p.kind = "floating" \/ network = PublicNetworkName THEN "ExternalIP"
    ELSE IF InternalNetworkName \in {0, network} THEN "InternalIP" ELSE "ignored"

Published(a) ==
    /\ a.addr \notin Shared
    /\ a.type # "ignored"
    /\ ~(a.addr \in IPv6 /\ IPv6SupportDisabled)

(* What an entry of a network's list is published as.                      *)
Entry(network, p) == [type |-> AddressType(network, p), addr |-> p.addr]

(* One entry: it is skipped, or added to what has been found so far.       *)
Collect(addrs, network, p) ==
    IF Published(Entry(network, p)) THEN AddToNodeAddresses(addrs, Entry(network, p)) ELSE addrs

(* The entries of a network, one after the other.                          *)
CollectNetwork(addrs, network, list) ==
    LET after[j \in 0 .. Len(list)] ==
          IF j = 0 THEN addrs ELSE Collect(after[j - 1], network, list[j])
    IN  after[Len(list)]

(* The networks in the order of their names; the host name comes last.     *)
nodeAddresses(i, ports) ==
    LET after[n \in 0 .. LastNetwork] ==
          IF n = 0 THEN <<>> ELSE CollectNetwork(after[n - 1], n, ports[n])
        found == after[LastNetwork]
    IN  IF HostName[i] = NoHost THEN found
        ELSE AddToNodeAddresses(found, [type |-> "Hostname", addr |-> HostName[i]])

Living(i) == inst[i].status \in {"ACTIVE", "SHUTOFF"}
(* Fault: the list request forgets the name.                               *)
UnfilteredByName(name) == {i \in Ids : Living(i)}

getInstanceByName(name) == {i \in Ids : Living(i) /\ NameOf[i] = name}

(* The living instances a node stands for.                                 *)
Backing(name, provider) ==
    IF provider = NoProvider THEN getInstanceByName(name)
    ELSE {i \in Ids : i = provider /\ Living(i)}

(* Instances.Get answers a missing instance with an error of the API; the  *)
(* list by name is only empty, which the provider turns into its own       *)
(* InstanceNotFound.  Of several instances the list may begin with any.    *)
instanceByNode(name, provider) ==
    CASE provider = BadProvider -> {"malformed"}
      [] provider \in Ids       -> IF Living(provider) THEN {provider} ELSE {"apiNotFound"}
      [] OTHER                  -> IF getInstanceByName(name) = {} THEN {"InstanceNotFound"}
                                   ELSE getInstanceByName(name)

Error == [kind |-> "error"]

(* Faults: any error counts as a missing instance; none does; another      *)
(* status; a providerID made of the name; no answer about a stopped        *)
(* instance.                                                               *)
ErrorMeansGone(r) == IF r \in Ids THEN [kind |-> "exists"] ELSE [kind |-> "gone"]
NotFoundIsError(r) == IF r \in Ids THEN [kind |-> "exists"] ELSE Error
StoppedIsShutdown(r) ==
    IF r \in Ids THEN [kind |-> "status", shutdown |-> inst[r].status = "STOPPED"] ELSE Error
MetadataByName(r) ==
    IF r \in Flavored
    THEN [kind |-> "metadata", provider |-> NameOf[r], addresses |-> nodeAddresses(r, inst[r].ports)]
    ELSE Error
MetadataOfRunning(r) ==
    IF r \in Flavored /\ inst[r].status = "ACTIVE"
    THEN [kind |-> "metadata", provider |-> r, addresses |-> nodeAddresses(r, inst[r].ports)]
    ELSE Error

srvInstanceType(r) == r \in Flavored

(* The answers to a loop, given what instanceByNode returned.              *)
InstanceExists(r) ==
    IF r \in Ids THEN [kind |-> "exists"]
    ELSE IF r = "InstanceNotFound" THEN [kind |-> "gone"] ELSE Error

InstanceShutdown(r) ==
    IF r \in Ids THEN [kind |-> "status", shutdown |-> inst[r].status = "SHUTOFF"] ELSE Error

InstanceMetadata(r) ==
    IF srvInstanceType(r)
    THEN [kind |-> "metadata", provider |-> r, addresses |-> nodeAddresses(r, inst[r].ports)]
    ELSE Error

-----------------------------------------------------------------------------
(* The cloud and the kubelets.                                             *)

Idle == [step |-> "idle"]
NewNode(p) ==
    [provider |-> p, initialized |-> FALSE, ready |-> TRUE, shutdown |-> FALSE, addresses |-> <<>>]

Init ==
    /\ inst = [i \in Ids |-> [status |-> "unborn", ports |-> [n \in Networks |-> <<>>]]]
    /\ node = [n \in Cluster |-> NoNode]
    /\ call = [l \in Loops |-> Idle]
    /\ behind = {}

SetStatus(i, from, to) ==
    /\ inst[i].status \in from
    /\ inst' = [inst EXCEPT ![i].status = to]
    /\ UNCHANGED <<node, call, behind>>

Create(i) == SetStatus(i, {"unborn"}, "ACTIVE")
Stop(i) == SetStatus(i, {"ACTIVE"}, "SHUTOFF")
Start(i) == SetStatus(i, {"SHUTOFF"}, "ACTIVE")
Destroy(i) == SetStatus(i, {"ACTIVE", "SHUTOFF"}, "gone")

Plug(i, f) ==
    LET port == [addr |-> f.addr, kind |-> f.kind]
    IN  /\ Living(i) /\ ~Contains(inst[i].ports[f.network], port)
        /\ inst' = [inst EXCEPT ![i].ports[f.network] = Append(@, port)]
        /\ UNCHANGED <<node, call, behind>>

Runs(name) == \E i \in Ids : NameOf[i] = name /\ inst[i].status = "ACTIVE"

Register(name, p) ==
    /\ node[name] = NoNode /\ Runs(name)
    /\ node' = [node EXCEPT ![name] = NewNode(p)]
    /\ UNCHANGED <<inst, call, behind>>

(* The kubelet's heartbeats stop and come back.                            *)
LoseContact(name) ==
    /\ node[name] # NoNode /\ node[name].ready
    /\ node' = [node EXCEPT ![name].ready = FALSE]
    /\ UNCHANGED <<inst, call, behind>>

(* A node that is Ready again loses the shutdown taint.                    *)
Heartbeat(name) ==
    /\ node[name] # NoNode /\ ~node[name].ready /\ Runs(name)
    /\ node' = [node EXCEPT ![name].ready = TRUE, ![name].shutdown = FALSE]
    /\ UNCHANGED <<inst, call, behind>>

-----------------------------------------------------------------------------
(* The loops.                                                              *)

Looks(l, name) ==
    /\ node[name] # NoNode
    /\ CASE l = "init" -> ~node[name].initialized
         [] l = "refresh" -> node[name].initialized
         [] l = "monitor" -> ~node[name].ready

Ask(l, name) ==
    /\ call[l] = Idle /\ Looks(l, name)
    /\ call' = [call EXCEPT ![l] = [step |-> IF l = "monitor" THEN "exists" ELSE "metadata",
                                    name |-> name, provider |-> node[name].provider]]
    /\ behind' = IF l = "monitor" THEN Backing(name, node[name].provider) ELSE behind
    /\ UNCHANGED <<inst, node>>

Answer(l, reply) ==
    /\ call' = [call EXCEPT ![l] = [step |-> "act", name |-> @.name, provider |-> @.provider,
                                    reply |-> reply]]
    /\ UNCHANGED <<inst, node, behind>>

Resolved(l) == instanceByNode(call[l].name, call[l].provider)

Reply(l, r) ==
    CASE call[l].step = "metadata" -> InstanceMetadata(r)
      [] call[l].step = "exists"   -> InstanceExists(r)
      [] call[l].step = "shutdown" -> InstanceShutdown(r)

Asking(l) == call[l].step \in {"metadata", "exists", "shutdown"}

Answered(l) == Asking(l) /\ \E r \in Resolved(l) : Answer(l, Reply(l, r))

(* The request fails for any other reason: a timeout, a server error.      *)
RequestFails(l) == Asking(l) /\ Answer(l, Reply(l, "apiError"))

Replied(l, kind) == call[l].step = "act" /\ call[l].reply.kind = kind
Done(l) ==
    /\ call' = [call EXCEPT ![l] = Idle]
    /\ behind' = IF l = "monitor" THEN {} ELSE behind
Present(l) == node[call[l].name] # NoNode

(* An error, or a node that has been removed: the loop comes round again.  *)
GiveUp(l) ==
    /\ call[l].step = "act"
    /\ Replied(l, "error") \/ (~Present(l) /\ ~Replied(l, "exists"))
    /\ Done(l) /\ UNCHANGED <<inst, node>>

(* The providerID is set only where there is none.                         *)
Initialize ==
    /\ Replied("init", "metadata") /\ Present("init")
    /\ LET name == call["init"].name
           reply == call["init"].reply
       IN  node' = [node EXCEPT ![name].initialized = TRUE,
                                ![name].provider = IF @ = NoProvider THEN reply.provider ELSE @,
                                ![name].addresses = reply.addresses]
    /\ Done("init") /\ UNCHANGED inst

Refresh ==
    /\ Replied("refresh", "metadata") /\ Present("refresh")
    /\ node' = [node EXCEPT ![call["refresh"].name].addresses = call["refresh"].reply.addresses]
    /\ Done("refresh") /\ UNCHANGED inst

(* The instance exists: ask whether it is shut off.                        *)
AskShutdown ==
    /\ Replied("monitor", "exists")
    /\ call' = [call EXCEPT !["monitor"] = [step |-> "shutdown", name |-> @.name,
                                            provider |-> @.provider]]
    /\ UNCHANGED <<inst, node, behind>>

RemoveNode ==
    /\ Replied("monitor", "gone") /\ Present("monitor")
    /\ node' = [node EXCEPT ![call["monitor"].name] = NoNode]
    /\ Done("monitor") /\ UNCHANGED inst

Taint ==
    /\ Replied("monitor", "status") /\ Present("monitor")
    /\ node' = [node EXCEPT ![call["monitor"].name].shutdown = @ \/ call["monitor"].reply.shutdown]
    /\ Done("monitor") /\ UNCHANGED inst

CloudStep ==
    \/ \E i \in Ids : Create(i) \/ Stop(i) \/ Start(i) \/ Destroy(i)
    \/ \E p \in Plugs : Plug(p[1], p[2])

KubeletStep ==
    \E name \in Cluster :
        LoseContact(name) \/ Heartbeat(name) \/ \E p \in Registrations : Register(name, p)

(* What a loop does with its answer.                                       *)
Act(l) ==
    \/ GiveUp(l)
    \/ l = "init" /\ Initialize
    \/ l = "refresh" /\ Refresh
    \/ l = "monitor" /\ (AskShutdown \/ RemoveNode \/ Taint)

LoopStep ==
    \/ \E l \in Loops, name \in Cluster : Ask(l, name)
    \/ \E l \in Loops : Answered(l) \/ RequestFails(l) \/ Act(l)

Next == CloudStep \/ KubeletStep \/ LoopStep

Spec == Init /\ [][Next]_vars

(* The loops keep going round every node and requests do not fail for      *)
(* ever; a kubelet that does not run stops sending heartbeats.  Nothing is *)
(* assumed of the users of the cloud.                                      *)
Fairness ==
    /\ \A l \in Loops, name \in Cluster : SF_vars(Ask(l, name))
    /\ \A l \in {"init", "refresh"} : SF_vars(Answered(l))
    /\ \A step \in {"exists", "shutdown"} :
         SF_vars(call["monitor"].step = step /\ Answered("monitor"))
    /\ \A l \in Loops : WF_vars(Act(l))
    /\ \A name \in Cluster : WF_vars(~Runs(name) /\ LoseContact(name))

FairSpec == Spec /\ Fairness

-----------------------------------------------------------------------------
(* Properties.                                                             *)

(* Every list of interfaces an instance can have, within the bound.        *)
PortLists(n) ==
    LET here == {[addr |-> f.addr, kind |-> f.kind] : f \in {g \in Interfaces : g.network = n}}
    IN  UNION {[1 .. k -> here] : k \in 0 .. MaxPorts}

AllPorts == {p \in [Networks -> UNION {PortLists(n) : n \in Networks}] :
               \A n \in Networks : p[n] \in PortLists(n)}

(* What is known of a node; NoNode, the absence of a node object, is none  *)
(* of it.                                                                  *)
Providers == Ids \cup {NoProvider, BadProvider}

AddressLists == {nodeAddresses(i, ports) : i \in Ids, ports \in AllPorts} \cup {<<>>}

NodeRecords ==
    [ provider : Providers, initialized : BOOLEAN, ready : BOOLEAN, shutdown : BOOLEAN,
      addresses : AddressLists ]

ASSUME NoNodeIsNone == NoNode \notin NodeRecords

(* Only addresses of a published type reach a node (nodeAddresses, and the *)
(* loops that publish its result).                                         *)
TypeOK ==
    /\ \A i \in Ids :
         /\ inst[i].status \in {"unborn", "ACTIVE", "SHUTOFF", "gone"}
         /\ inst[i].ports \in AllPorts
    /\ \A name \in Cluster : node[name] # NoNode =>
         /\ node[name].provider \in Providers
         /\ \A k \in DOMAIN node[name].addresses :
              node[name].addresses[k] \in [type : {"ExternalIP", "InternalIP", "Hostname"}, addr : Addrs]
    /\ \A l \in Loops : call[l].step \in {"idle", "metadata", "exists", "shutdown", "act"}
    /\ behind \subseteq Ids

(* A node is never given the identity of another node's instance: its      *)
(* providerID is an instance of its own name, which may be gone, so that   *)
(* no two nodes stand for one instance (getInstanceByName, InstanceMetadata*)
(* and the patch that follows).                                            *)
OwnInstance ==
    \A name \in Cluster :
        node[name] # NoNode /\ node[name].provider \in Ids => NameOf[node[name].provider] = name

(* A node is removed only when every instance that stood behind it when    *)
(* the monitor took its copy has gone by now: an API error is no reason    *)
(* to remove a node (InstanceExists).                                      *)
RemovedOnlyWhenGone ==
    [][\A name \in Cluster :
         node[name] # NoNode /\ node'[name] = NoNode => \A i \in behind : ~Living(i)]_vars

(* The addresses of a node as a set: what an operator expects of the       *)
(* networking options, whatever the order of the interfaces.               *)
ExpectedAddresses(i, ports) ==
    LET all == UNION {{<<n, ports[n][j]>> : j \in DOMAIN ports[n]} : n \in Networks}
        usable == {x \in all : x[2].addr \notin Shared /\ (IPv6SupportDisabled => x[2].addr \notin IPv6)}
        public == {x \in usable : x[2].kind = "floating" \/ x[1] = PublicNetworkName}
        private == {x \in usable \ public : InternalNetworkName # 0 => x[1] = InternalNetworkName}
    IN  {[type |-> "ExternalIP", addr |-> x[2].addr] : x \in public}
          \cup {[type |-> "InternalIP", addr |-> x[2].addr] : x \in private}
          \cup {[type |-> "Hostname", addr |-> HostName[i]] : h \in {HostName[i]} \ {NoHost}}

AddressListRight(i, ports) ==
    LET a == nodeAddresses(i, ports)
        NetworksOf(e) == {n \in Networks : \E j \in DOMAIN ports[n] :
                            ports[n][j].addr = e.addr /\ AddressType(n, ports[n][j]) = e.type}
        First(e) == CHOOSE n \in NetworksOf(e) : \A m \in NetworksOf(e) : n <= m
    IN  /\ ToSet(a) = ExpectedAddresses(i, ports)
        /\ Cardinality(ToSet(a)) = Len(a)
        /\ \A j, k \in DOMAIN a :
             j < k /\ "Hostname" \notin {a[j].type, a[k].type} => First(a[j]) <= First(a[k])

AllListsRight == \A i \in Ids, ports \in AllPorts : AddressListRight(i, ports)

(* nodeAddresses lists every expected address once, and the addresses of a *)
(* type come in the order of the networks: nodeAddressForLB takes the first*)
(* internal one as the load balancer's member.                             *)
(* So it is for the interfaces an instance has now, however they came, and *)
(* for every other list of them.                                           *)
AddressesRight ==
    /\ \A i \in Ids : AddressListRight(i, inst[i].ports)
    /\ AllListsRight

(* Instances that can be described stand behind the node, and the one it   *)
(* was given is still there.  A node that its kubelet registered with the  *)
(* ID of another cloud has none.                                           *)
Backed(name) ==
    /\ node[name] # NoNode /\ node[name].provider # BadProvider
    /\ getInstanceByName(name) # {} /\ getInstanceByName(name) \subseteq Flavored
    /\ node[name].provider \in Ids => Living(node[name].provider)

Current(name) ==
    /\ node[name] # NoNode /\ node[name].initialized /\ node[name].provider \in Ids
    /\ node[name].addresses = nodeAddresses(node[name].provider, inst[node[name].provider].ports)

(* A node whose instance stays gets initialized, and the addresses of the  *)
(* node become and stay those of its instance (InstanceMetadata).          *)
EventuallyCurrent == \A name \in Cluster : <>[]Backed(name) => <>[]Current(name)

ShutOff(name) ==
    /\ node[name] # NoNode /\ node[name].provider \in Ids /\ ~Runs(name)
    /\ inst[node[name].provider].status = "SHUTOFF"

(* A node whose instance stays shut off is marked, so that its volumes can *)
(* be detached (InstanceShutdown).                                         *)
EventuallyTainted ==
    \A name \in Cluster : <>[]ShutOff(name) => <>[](node[name] # NoNode /\ node[name].shutdown)

Gone(name) == node[name] # NoNode /\ getInstanceByName(name) = {}

(* A node that was never initialized is removed once no instance has its   *)
(* name (InstanceExists by name).                                          *)
NewNodeRemoved ==
    \A name \in Cluster :
        Gone(name) /\ node[name].provider = NoProvider
          ~> ~Gone(name) \/ node[name].provider # NoProvider

(* The same of every node: what the comment on InstanceExists leads the    *)
(* monitor to rely on.                                                     *)
GoneNodeRemoved == \A name \in Cluster : Gone(name) ~> ~Gone(name)

=============================================================================
