--------------------------- MODULE Instances_proofs ---------------------------
(***************************************************************************)
(* Nodes keep the identity of their own instances and are removed only     *)
(* without one, and their addresses are the right ones, for every number   *)
(* of instances, nodes, networks and interfaces.                           *)
(***************************************************************************)
EXTENDS Instances, WellFoundedInduction, FiniteSetTheorems, TLAPS

(***************************************************************************)
(* The inductive invariant.  It follows the identity of an instance from   *)
(* the cloud through the copy of the node, the request and the reply, to   *)
(* the node; and it says that the instances `behind' a monitored node      *)
(* have existed, so that none of them can appear after the list by name    *)
(* was empty.                                                              *)
(***************************************************************************)

Replies ==
    [kind : {"error", "exists", "gone"}] \cup [kind : {"status"}, shutdown : BOOLEAN]
      \cup [kind : {"metadata"}, provider : Ids, addresses : AddressLists]

CallTypes ==
    [step : {"idle"}]
      \cup [step : {"metadata", "exists", "shutdown"}, name : Cluster, provider : Providers]
      \cup [step : {"act"}, name : Cluster, provider : Providers, reply : Replies]

Statuses == {"unborn", "ACTIVE", "SHUTOFF", "gone"}

(* An instance has at most one interface in a network.                     *)
PortsOK(i, n, list) ==
    \/ list = <<>>
    \/ \E p \in Plugs : /\ p[1] = i /\ p[2].network = n
                        /\ list = <<[addr |-> p[2].addr, kind |-> p[2].kind]>>

InstancesOK ==
    /\ inst \in [Ids -> [status : Statuses, ports : AllPorts]]
    /\ \A i \in Ids, n \in Networks : PortsOK(i, n, inst[i].ports[n])

NodesOK == node \in [Cluster -> NodeRecords \cup {NoNode}] /\ OwnInstance

(* The copy that a loop took, and the reply to it, are about one name.     *)
CallOK(k) ==
    k.step # "idle" =>
      /\ k.provider \in Ids => NameOf[k.provider] = k.name
      /\ k.step = "act" /\ k.reply.kind = "metadata" => NameOf[k.reply.provider] = k.name

CallsOK == call \in [Loops -> CallTypes] /\ \A l \in Loops : CallOK(call[l])

BehindOK ==
    /\ behind \subseteq Ids
    /\ \A i \in behind : inst[i].status # "unborn"
    /\ LET k == call["monitor"]
       IN  /\ k.step = "idle" => behind = {}
           /\ k.step # "idle" /\ k.provider = NoProvider => \A i \in behind : NameOf[i] = k.name
           /\ k.step = "act" /\ k.reply.kind = "gone" => \A i \in behind : inst[i].status = "gone"

IInv == InstancesOK /\ NodesOK /\ CallsOK /\ BehindOK

-----------------------------------------------------------------------------
(* The lists of interfaces that plugging can lead to are within the bound. *)
LEMMA PluggedPorts ==
    ASSUME NEW p \in Plugs
    PROVE  /\ p[1] \in Ids /\ p[2] \in Interfaces /\ p[2].network \in Networks
           /\ <<>> \in PortLists(p[2].network)
           /\ <<[addr |-> p[2].addr, kind |-> p[2].kind]>> \in PortLists(p[2].network)
  <1> DEFINE f == p[2]
             port == [addr |-> f.addr, kind |-> f.kind]
             here == {[addr |-> g.addr, kind |-> g.kind] : g \in {h \in Interfaces : h.network = f.network}}
  <1>1. p[1] \in Ids /\ f \in Interfaces /\ f.network \in Networks
    BY InstancesConstants
  <1>2. port \in here
    BY <1>1
  <1>3. PortLists(f.network) = UNION {[1 .. k -> here] : k \in 0 .. MaxPorts}
    BY DEF PortLists
  <1>4. 0 \in 0 .. MaxPorts /\ 1 \in 0 .. MaxPorts
    BY InstancesConstants
  <1> HIDE DEF port, here
  <1>5. <<>> \in [1 .. 0 -> here] /\ <<port>> \in [1 .. 1 -> here]
    BY <1>2
  <1>6. <<>> \in PortLists(f.network) /\ <<port>> \in PortLists(f.network)
    BY <1>3, <1>4, <1>5
  <1> QED
    BY <1>1, <1>6 DEF port

(* Without any interface, too.                                             *)
LEMMA NoPorts == [n \in Networks |-> <<>>] \in AllPorts
  <1>1. ASSUME NEW n \in Networks PROVE <<>> \in PortLists(n)
    <2> DEFINE here == {[addr |-> g.addr, kind |-> g.kind] : g \in {h \in Interfaces : h.network = n}}
    <2>1. PortLists(n) = UNION {[1 .. k -> here] : k \in 0 .. MaxPorts}
      BY DEF PortLists
    <2>2. 0 \in 0 .. MaxPorts
      BY InstancesConstants
    <2> HIDE DEF here
    <2>3. <<>> \in [1 .. 0 -> here]
      OBVIOUS
    <2> QED
      BY <2>1, <2>2, <2>3
  <1> QED
    BY <1>1 DEF AllPorts

(* The invariant holds at the start.                                       *)
LEMMA InitOK == Init => IInv
  <1> SUFFICES ASSUME Init PROVE IInv
    OBVIOUS
  <1>1. InstancesOK
    BY NoPorts DEF Init, InstancesOK, Statuses, PortsOK
  <1>2. NodesOK
    BY DEF Init, NodesOK, OwnInstance
  <1>3. CallsOK
    BY DEF Init, CallsOK, CallTypes, CallOK, Idle
  <1>4. BehindOK
    BY DEF Init, BehindOK, Idle, Loops
  <1> QED
    BY <1>1, <1>2, <1>3, <1>4 DEF IInv

-----------------------------------------------------------------------------
(* The cloud changes the status of an instance: none comes back.           *)
LEMMA StatusKeeps ==
    ASSUME IInv, NEW i \in Ids, Create(i) \/ Stop(i) \/ Start(i) \/ Destroy(i)
    PROVE  IInv' /\ UNCHANGED node
  <1>1. PICK to \in {"ACTIVE", "SHUTOFF", "gone"} :
           inst[i].status # "gone" /\ inst' = [inst EXCEPT ![i].status = to]
    BY DEF Create, Stop, Start, Destroy, SetStatus
  <1>2. UNCHANGED <<node, call, behind>>
    BY DEF Create, Stop, Start, Destroy, SetStatus
  <1>3. inst' = [inst EXCEPT ![i] = [inst[i] EXCEPT !.status = to]]
    BY <1>1
  <1>4. /\ inst[i] \in [status : Statuses, ports : AllPorts]
        /\ [inst[i] EXCEPT !.status = to] \in [status : Statuses, ports : AllPorts]
    BY <1>1 DEF IInv, InstancesOK, Statuses
  <1>5. inst' \in [Ids -> [status : Statuses, ports : AllPorts]]
    BY <1>3, <1>4 DEF IInv, InstancesOK
  <1>6. ASSUME NEW j \in Ids
        PROVE  inst'[j].ports = inst[j].ports /\ inst'[j].status \in {inst[j].status, to}
               /\ (j # i => inst'[j].status = inst[j].status)
    BY <1>3, <1>4 DEF IInv, InstancesOK
  <1>7. InstancesOK'
    BY <1>5, <1>6 DEF IInv, InstancesOK
  <1>8. NodesOK' /\ CallsOK'
    BY <1>2 DEF IInv, NodesOK, OwnInstance, CallsOK
  <1>9. BehindOK'
    BY <1>1, <1>2, <1>6 DEF IInv, BehindOK
  <1> QED
    BY <1>2, <1>7, <1>8, <1>9 DEF IInv

(* An interface is plugged in: it is the first of its network.             *)
LEMMA PlugKeeps ==
    ASSUME IInv, NEW p \in Plugs, Plug(p[1], p[2])
    PROVE  IInv' /\ UNCHANGED node
  <1> DEFINE i == p[1]  n == p[2].network
             port == [addr |-> p[2].addr, kind |-> p[2].kind]
             ports == [inst[i].ports EXCEPT ![n] = <<port>>]
  <1>1. /\ i \in Ids /\ n \in Networks /\ <<port>> \in PortLists(n)
    BY PluggedPorts
  <1>2. /\ UNCHANGED <<node, call, behind>> /\ ~Contains(inst[i].ports[n], port)
        /\ inst' = [inst EXCEPT ![i].ports[n] = Append(@, port)]
    BY DEF Plug
  <1> HIDE DEF port
  <1>3. inst[i].ports[n] = <<>>
    <2>1. PortsOK(i, n, inst[i].ports[n])
      BY <1>1 DEF IInv, InstancesOK
    <2>2. inst[i].ports[n] # <<port>>
      <3>1. Contains(<<port>>, port)
        BY DEF Contains
      <3> QED
        BY <1>2, <3>1
    <2>3. ASSUME NEW q \in Plugs, q[1] = i, q[2].network = n
          PROVE  <<[addr |-> q[2].addr, kind |-> q[2].kind]>> = <<port>>
      <3>1. q = p
        BY <2>3, InstancesConstants
      <3> QED
        BY <3>1 DEF port
    <2> QED
      BY <2>1, <2>2, <2>3 DEF PortsOK
  <1>4. Append(inst[i].ports[n], port) = <<port>>
    BY <1>3
  <1>5. inst' = [inst EXCEPT ![i] = [inst[i] EXCEPT !.ports = ports]]
    BY <1>2, <1>4
  <1>6. inst[i] \in [status : Statuses, ports : AllPorts]
    BY <1>1 DEF IInv, InstancesOK
  <1>7. ports \in AllPorts
    <2>1. inst[i].ports \in [Networks -> UNION {PortLists(m) : m \in Networks}]
          /\ \A m \in Networks : inst[i].ports[m] \in PortLists(m)
      BY <1>6 DEF AllPorts
    <2>2. ports \in [Networks -> UNION {PortLists(m) : m \in Networks}]
      BY <1>1, <2>1
    <2>3. \A m \in Networks : ports[m] \in PortLists(m)
      BY <1>1, <2>1
    <2> QED
      BY <2>2, <2>3 DEF AllPorts
  <1>8. \A m \in Networks : PortsOK(i, m, ports[m])
    <2>1. ASSUME NEW m \in Networks PROVE ports[m] = IF m = n THEN <<port>> ELSE inst[i].ports[m]
      BY <1>6 DEF AllPorts
    <2>2. PortsOK(i, n, <<port>>)
      BY DEF PortsOK, port
    <2> QED
      BY <1>1, <2>1, <2>2 DEF IInv, InstancesOK
  <1> HIDE DEF ports
  <1>9. [inst[i] EXCEPT !.ports = ports] \in [status : Statuses, ports : AllPorts]
    BY <1>6, <1>7
  <1>10. InstancesOK' /\ \A j \in Ids : inst'[j].status = inst[j].status
    <2>1. inst' \in [Ids -> [status : Statuses, ports : AllPorts]]
      BY <1>5, <1>9 DEF IInv, InstancesOK
    <2>2. ASSUME NEW j \in Ids
          PROVE  /\ inst'[j].status = inst[j].status
                 /\ inst'[j].ports = IF j = i THEN ports ELSE inst[j].ports
      BY <1>5, <1>6 DEF IInv, InstancesOK
    <2> QED
      BY <1>8, <2>1, <2>2 DEF IInv, InstancesOK
  <1>11. NodesOK' /\ CallsOK' /\ BehindOK'
    BY <1>2, <1>10 DEF IInv, NodesOK, OwnInstance, CallsOK, BehindOK
  <1> QED
    BY <1>2, <1>10, <1>11 DEF IInv

-----------------------------------------------------------------------------
(* A node is written, with its provider or one of its own name.            *)
LEMMA NodeWritten ==
    ASSUME IInv, NEW name \in Cluster, NEW new \in NodeRecords, node' = [node EXCEPT ![name] = new],
           new.provider \in Ids => NameOf[new.provider] = name
    PROVE  NodesOK' /\ \A m \in Cluster : node[m] # NoNode => node'[m] # NoNode
  <1>1. new # NoNode
    BY NoNodeIsNone
  <1>2. \A m \in Cluster : node'[m] = IF m = name THEN new ELSE node[m]
    BY DEF IInv, NodesOK
  <1>3. node' \in [Cluster -> NodeRecords \cup {NoNode}]
    BY DEF IInv, NodesOK
  <1> QED
    BY <1>1, <1>2, <1>3 DEF IInv, NodesOK, OwnInstance

(* A node that is there.                                                   *)
LEMMA NodePresent ==
    ASSUME IInv, NEW name \in Cluster, node[name] # NoNode
    PROVE  /\ node[name] \in NodeRecords
           /\ node[name].provider \in Ids => NameOf[node[name].provider] = name
  BY DEF IInv, NodesOK, OwnInstance

(* The kubelets: Register brings no instance ID.                           *)
LEMMA KubeletKeeps ==
    ASSUME IInv, NEW name \in Cluster,
           LoseContact(name) \/ Heartbeat(name) \/ \E p \in Registrations : Register(name, p)
    PROVE  IInv' /\ \A m \in Cluster : node[m] # NoNode => node'[m] # NoNode
  <1>1. UNCHANGED <<inst, call, behind>>
    BY DEF LoseContact, Heartbeat, Register
  <1>2. NodesOK' /\ \A m \in Cluster : node[m] # NoNode => node'[m] # NoNode
    <2>1. CASE LoseContact(name)
      <3> DEFINE k == node[name]  new == [k EXCEPT !.ready = FALSE]
      <3>1. k \in NodeRecords /\ (k.provider \in Ids => NameOf[k.provider] = name)
        BY <2>1, NodePresent DEF LoseContact
      <3>2. new \in NodeRecords /\ new.provider = k.provider
        BY <3>1 DEF NodeRecords
      <3>3. node' = [node EXCEPT ![name] = new]
        BY <2>1 DEF LoseContact
      <3> HIDE DEF new
      <3> QED
        BY <3>1, <3>2, <3>3, NodeWritten
    <2>2. CASE Heartbeat(name)
      <3> DEFINE k == node[name]  new == [k EXCEPT !.ready = TRUE, !.shutdown = FALSE]
      <3>1. k \in NodeRecords /\ (k.provider \in Ids => NameOf[k.provider] = name)
        BY <2>2, NodePresent DEF Heartbeat
      <3>2. new \in NodeRecords /\ new.provider = k.provider
        BY <3>1 DEF NodeRecords
      <3>3. node' = [node EXCEPT ![name] = new]
        BY <2>2 DEF Heartbeat, IInv, NodesOK
      <3> HIDE DEF new
      <3> QED
        BY <3>1, <3>2, <3>3, NodeWritten
    <2>3. ASSUME NEW p \in Registrations, Register(name, p)
          PROVE  NodesOK' /\ \A m \in Cluster : node[m] # NoNode => node'[m] # NoNode
      <3>1. p \in Providers /\ p \notin Ids
        BY InstancesConstants DEF Providers
      <3>2. <<>> \in AddressLists
        BY DEF AddressLists
      <3>3. NewNode(p) \in NodeRecords /\ NewNode(p).provider = p
        BY <3>1, <3>2 DEF NewNode, NodeRecords
      <3>4. node' = [node EXCEPT ![name] = NewNode(p)]
        BY <2>3 DEF Register
      <3> QED
        BY <3>1, <3>3, <3>4, NodeWritten
    <2> QED
      BY <2>1, <2>2, <2>3
  <1> QED
    BY <1>1, <1>2 DEF IInv, InstancesOK, CallsOK, BehindOK

-----------------------------------------------------------------------------
(* Ask: a loop copies the node; the instances behind it are living.        *)
LEMMA AskKeeps ==
    ASSUME IInv, NEW l \in Loops, NEW name \in Cluster, Ask(l, name)
    PROVE  IInv' /\ UNCHANGED node
  <1> DEFINE provider == node[name].provider
             new == [step |-> IF l = "monitor" THEN "exists" ELSE "metadata",
                     name |-> name, provider |-> provider]
  <1>1. UNCHANGED <<inst, node>> /\ call' = [call EXCEPT ![l] = new] /\ node[name] # NoNode
    BY DEF Ask, Looks
  <1>2. provider \in Providers /\ (provider \in Ids => NameOf[provider] = name)
    BY <1>1, NodePresent DEF NodeRecords
  <1> HIDE DEF provider
  <1>3. /\ new \in CallTypes /\ new.step \in {"exists", "metadata"} /\ new.name = name
        /\ new.provider = provider
    BY <1>2 DEF CallTypes
  <1> HIDE DEF new
  <1>4. CallsOK'
    BY <1>1, <1>2, <1>3 DEF IInv, CallsOK, CallOK
  <1>5. \A m \in Loops : call'[m] = IF m = l THEN new ELSE call[m]
    BY <1>1 DEF IInv, CallsOK
  <1>6. BehindOK'
    <2>1. CASE l = "monitor"
      <3>1. behind' = Backing(name, provider)
        BY <2>1 DEF Ask, provider
      <3>2. behind' \subseteq {i \in Ids : Living(i)}
        BY <3>1 DEF Backing, getInstanceByName
      <3>3. provider = NoProvider => \A i \in behind' : NameOf[i] = name
        BY <3>1 DEF Backing, getInstanceByName
      <3> QED
        BY <1>1, <1>3, <1>5, <2>1, <3>2, <3>3 DEF BehindOK, Living, Loops
    <2>2. CASE l # "monitor"
      <3>1. behind' = behind /\ call'["monitor"] = call["monitor"]
        BY <1>5, <2>2 DEF Ask, Loops
      <3> QED
        BY <1>1, <3>1 DEF IInv, BehindOK
    <2> QED
      BY <2>1, <2>2
  <1>7. InstancesOK' /\ NodesOK'
    BY <1>1 DEF IInv, InstancesOK, NodesOK, OwnInstance
  <1> QED
    BY <1>1, <1>4, <1>6, <1>7 DEF IInv

(* A request to the cloud has been made by a loop that copied the node.    *)
LEMMA AskingFacts ==
    ASSUME IInv, NEW l \in Loops, Asking(l)
    PROVE  /\ call[l].name \in Cluster /\ call[l].provider \in Providers
           /\ call[l].provider \in Ids => NameOf[call[l].provider] = call[l].name
  BY DEF IInv, CallsOK, CallTypes, CallOK, Asking

(* A reply arrives: its metadata are those of an instance of the name, and *)
(* it says "gone" only if no instance of the name lives.                   *)
LEMMA AnswerKeeps ==
    ASSUME IInv, NEW l \in Loops, Asking(l), NEW reply \in Replies, Answer(l, reply),
           reply.kind = "metadata" => NameOf[reply.provider] = call[l].name,
           reply.kind = "gone" => /\ call[l].provider = NoProvider
                                  /\ getInstanceByName(call[l].name) = {}
    PROVE  IInv' /\ UNCHANGED node
  <1> DEFINE k == call[l]
             new == [step |-> "act", name |-> k.name, provider |-> k.provider, reply |-> reply]
  <1>1. UNCHANGED <<inst, node, behind>> /\ call' = [call EXCEPT ![l] = new]
    BY DEF Answer
  <1>2. k.name \in Cluster /\ k.provider \in Providers /\ (k.provider \in Ids => NameOf[k.provider] = k.name)
    BY AskingFacts
  <1>3. /\ new \in CallTypes /\ new.step = "act" /\ new.name = k.name /\ new.provider = k.provider
        /\ new.reply = reply
    BY <1>2 DEF CallTypes
  <1> HIDE DEF new
  <1>4. CallsOK'
    BY <1>1, <1>2, <1>3 DEF IInv, CallsOK, CallOK
  <1>5. \A m \in Loops : call'[m] = IF m = l THEN new ELSE call[m]
    BY <1>1 DEF IInv, CallsOK
  <1>6. BehindOK'
    <2>1. CASE l = "monitor"
      <3>1. k.step # "idle" /\ call'["monitor"] = new
        BY <1>5, <2>1 DEF Asking
      <3>2. reply.kind = "gone" => \A i \in behind : inst[i].status = "gone"
        <4>1. ASSUME reply.kind = "gone", NEW i \in behind PROVE inst[i].status = "gone"
          <5>1. i \in Ids /\ NameOf[i] = k.name /\ inst[i].status # "unborn"
            BY <2>1, <3>1, <4>1 DEF IInv, BehindOK
          <5>2. ~Living(i)
            BY <4>1, <5>1 DEF getInstanceByName
          <5> QED
            BY <5>1, <5>2 DEF Living, IInv, InstancesOK, Statuses
        <4> QED
          BY <4>1
      <3> QED
        BY <1>1, <1>3, <2>1, <3>1, <3>2 DEF IInv, BehindOK
    <2>2. CASE l # "monitor"
      BY <1>1, <1>5, <2>2 DEF IInv, BehindOK, Loops
    <2> QED
      BY <2>1, <2>2
  <1>7. InstancesOK' /\ NodesOK'
    BY <1>1 DEF IInv, InstancesOK, NodesOK, OwnInstance
  <1> QED
    BY <1>1, <1>4, <1>6, <1>7 DEF IInv

(* What instanceByNode resolves a node to: an instance of its name, or one *)
(* of the ways not to find any.                                            *)
LEMMA ResolvedFacts ==
    ASSUME IInv, NEW l \in Loops, Asking(l), NEW r \in Resolved(l) \cup {"apiError"}
    PROVE  /\ r \in Ids => NameOf[r] = call[l].name
           /\ r = "InstanceNotFound" => /\ call[l].provider = NoProvider
                                        /\ getInstanceByName(call[l].name) = {}
  <1> DEFINE k == call[l]
  <1>1. k.provider \in Providers /\ (k.provider \in Ids => NameOf[k.provider] = k.name)
    BY AskingFacts
  <1>2. Ids \cap {"malformed", "apiNotFound", "InstanceNotFound", "apiError"} = {}
        /\ NoProvider # BadProvider /\ NoProvider \notin Ids /\ BadProvider \notin Ids
    BY InstancesConstants
  <1>3. CASE r = "apiError"
    BY <1>2, <1>3
  <1>4. CASE r \in instanceByNode(k.name, k.provider) /\ k.provider = BadProvider
    <2>1. r = "malformed"
      BY <1>2, <1>4 DEF instanceByNode
    <2> QED
      BY <1>2, <2>1
  <1>5. CASE r \in instanceByNode(k.name, k.provider) /\ k.provider \in Ids
    <2>1. r \in {k.provider, "apiNotFound"}
      BY <1>2, <1>5 DEF instanceByNode
    <2> QED
      BY <1>1, <1>2, <1>5, <2>1
  <1>6. CASE r \in instanceByNode(k.name, k.provider) /\ k.provider = NoProvider
    <2>1. instanceByNode(k.name, k.provider) = IF getInstanceByName(k.name) = {} THEN {"InstanceNotFound"}
                                               ELSE getInstanceByName(k.name)
      BY <1>2, <1>6 DEF instanceByNode
    <2>2. getInstanceByName(k.name) \subseteq {i \in Ids : NameOf[i] = k.name}
      BY DEF getInstanceByName
    <2> QED
      BY <1>2, <1>6, <2>1, <2>2
  <1> QED
    BY <1>1, <1>3, <1>4, <1>5, <1>6 DEF Resolved, Providers

(* A reply of the provider.                                                *)
LEMMA ReplyFacts ==
    ASSUME IInv, NEW l \in Loops, Asking(l), NEW r \in Resolved(l) \cup {"apiError"}
    PROVE  /\ Reply(l, r) \in Replies
           /\ Reply(l, r).kind = "metadata" => NameOf[Reply(l, r).provider] = call[l].name
           /\ Reply(l, r).kind = "gone" => /\ call[l].provider = NoProvider
                                           /\ getInstanceByName(call[l].name) = {}
  <1>1. /\ r \in Ids => NameOf[r] = call[l].name
        /\ r = "InstanceNotFound" => /\ call[l].provider = NoProvider
                                     /\ getInstanceByName(call[l].name) = {}
    BY ResolvedFacts
  <1>2. CASE call[l].step = "metadata"
    <2>1. Reply(l, r) = InstanceMetadata(r)
      BY <1>2 DEF Reply
    <2>2. CASE r \in Flavored
      <3>1. r \in Ids /\ inst[r].ports \in AllPorts
        BY <2>2, InstancesConstants DEF IInv, InstancesOK
      <3>2. nodeAddresses(r, inst[r].ports) \in AddressLists
        BY <3>1 DEF AddressLists
      <3>3. Reply(l, r) = [kind |-> "metadata", provider |-> r,
                           addresses |-> nodeAddresses(r, inst[r].ports)]
        BY <2>1, <2>2 DEF InstanceMetadata, srvInstanceType
      <3> QED
        BY <1>1, <3>1, <3>2, <3>3 DEF Replies
    <2>3. CASE r \notin Flavored
      BY <2>1, <2>3 DEF InstanceMetadata, srvInstanceType, Error, Replies
    <2> QED
      BY <2>2, <2>3
  <1>3. CASE call[l].step = "exists"
    <2>1. Reply(l, r) = InstanceExists(r)
      BY <1>3 DEF Reply
    <2> QED
      BY <1>1, <2>1 DEF InstanceExists, Error, Replies
  <1>4. CASE call[l].step = "shutdown"
    <2>1. Reply(l, r) = InstanceShutdown(r)
      BY <1>4 DEF Reply
    <2>2. CASE r \in Ids
      <3>1. (inst[r].status = "SHUTOFF") \in BOOLEAN
        OBVIOUS
      <3>2. Reply(l, r) = [kind |-> "status", shutdown |-> inst[r].status = "SHUTOFF"]
        BY <2>1, <2>2 DEF InstanceShutdown
      <3> QED
        BY <3>1, <3>2 DEF Replies
    <2>3. CASE r \notin Ids
      BY <2>1, <2>3 DEF InstanceShutdown, Error, Replies
    <2> QED
      BY <2>2, <2>3
  <1> QED
    BY <1>2, <1>3, <1>4 DEF Asking

(* Answered and RequestFails.                                              *)
LEMMA AnsweredKeeps ==
    ASSUME IInv, NEW l \in Loops, Answered(l) \/ RequestFails(l)
    PROVE  IInv' /\ UNCHANGED node
  <1>1. Asking(l)
    BY DEF Answered, RequestFails
  <1>2. PICK r \in Resolved(l) \cup {"apiError"} : Answer(l, Reply(l, r))
    BY DEF Answered, RequestFails
  <1> QED
    BY <1>1, <1>2, ReplyFacts, AnswerKeeps

-----------------------------------------------------------------------------
(* A loop that has its reply.                                              *)
LEMMA ActFacts ==
    ASSUME IInv, NEW l \in Loops, call[l].step = "act"
    PROVE  /\ call[l].name \in Cluster /\ call[l].provider \in Providers /\ call[l].reply \in Replies
           /\ call[l].provider \in Ids => NameOf[call[l].provider] = call[l].name
           /\ call[l].reply.kind = "metadata" =>
                /\ call[l].reply.provider \in Ids /\ call[l].reply.addresses \in AddressLists
                /\ NameOf[call[l].reply.provider] = call[l].name
  <1>1. call[l] \in CallTypes /\ CallOK(call[l])
    BY DEF IInv, CallsOK
  <1>2. call[l].name \in Cluster /\ call[l].provider \in Providers /\ call[l].reply \in Replies
    BY <1>1 DEF CallTypes
  <1> QED
    BY <1>1, <1>2 DEF CallOK, Replies

(* A loop that is done.                                                    *)
LEMMA DoneKeeps ==
    ASSUME IInv, NEW l \in Loops, Done(l), UNCHANGED inst
    PROVE  InstancesOK' /\ CallsOK' /\ BehindOK'
  <1>1. \A m \in Loops : call'[m] = IF m = l THEN Idle ELSE call[m]
    BY DEF Done, IInv, CallsOK
  <1>2. Idle \in CallTypes /\ Idle.step = "idle"
    BY DEF Idle, CallTypes
  <1>3. CallsOK'
    <2>1. call' \in [Loops -> CallTypes]
      BY <1>2 DEF Done, IInv, CallsOK
    <2> QED
      BY <1>1, <1>2, <2>1 DEF IInv, CallsOK, CallOK
  <1>4. BehindOK'
    <2>1. CASE l = "monitor"
      BY <1>1, <1>2, <2>1 DEF Done, BehindOK
    <2>2. CASE l # "monitor"
      BY <1>1, <2>2 DEF Done, IInv, BehindOK, Loops
    <2> QED
      BY <2>1, <2>2
  <1> QED
    BY <1>3, <1>4 DEF IInv, InstancesOK

(* Initialize: the providerID, where there was none, is an instance of the *)
(* node's name.                                                            *)
LEMMA InitializeKeeps ==
    ASSUME IInv, Initialize
    PROVE  IInv' /\ \A m \in Cluster : node[m] # NoNode => node'[m] # NoNode
  <1> DEFINE name == call["init"].name  reply == call["init"].reply  k == node[name]
             provider == IF k.provider = NoProvider THEN reply.provider ELSE k.provider
             new == [k EXCEPT !.initialized = TRUE, !.provider = provider, !.addresses = reply.addresses]
  <1>1. /\ name \in Cluster /\ reply.provider \in Ids /\ reply.addresses \in AddressLists
        /\ NameOf[reply.provider] = name
    BY ActFacts DEF Initialize, Replied, Loops
  <1>2. k \in NodeRecords /\ (k.provider \in Ids => NameOf[k.provider] = name)
    BY <1>1, NodePresent DEF Initialize, Present
  <1>3. provider \in Providers /\ (provider \in Ids => NameOf[provider] = name)
    BY <1>1, <1>2 DEF Providers, NodeRecords
  <1>4. node' = [node EXCEPT ![name].initialized = TRUE,
                             ![name].provider = IF @ = NoProvider THEN reply.provider ELSE @,
                             ![name].addresses = reply.addresses]
    BY DEF Initialize
  <1>5. node' = [node EXCEPT ![name] = new]
    BY <1>1, <1>2, <1>4 DEF IInv, NodesOK, NodeRecords
  <1> HIDE DEF provider
  <1>6. new \in NodeRecords /\ new.provider = provider
    BY <1>1, <1>2, <1>3 DEF NodeRecords
  <1> HIDE DEF new
  <1>7. NodesOK' /\ \A m \in Cluster : node[m] # NoNode => node'[m] # NoNode
    BY <1>1, <1>3, <1>5, <1>6, NodeWritten
  <1>8. InstancesOK' /\ CallsOK' /\ BehindOK'
    BY DoneKeeps DEF Initialize, Loops
  <1> QED
    BY <1>7, <1>8 DEF IInv

(* Refresh leaves the identity of the node.                                *)
LEMMA RefreshKeeps ==
    ASSUME IInv, Refresh
    PROVE  IInv' /\ \A m \in Cluster : node[m] # NoNode => node'[m] # NoNode
  <1> DEFINE name == call["refresh"].name  addresses == call["refresh"].reply.addresses
             k == node[name]  new == [k EXCEPT !.addresses = addresses]
  <1>1. name \in Cluster /\ addresses \in AddressLists
    BY ActFacts DEF Refresh, Replied, Loops
  <1>2. k \in NodeRecords /\ (k.provider \in Ids => NameOf[k.provider] = name)
    BY <1>1, NodePresent DEF Refresh, Present
  <1>3. node' = [node EXCEPT ![name] = new]
    BY DEF Refresh
  <1>4. new \in NodeRecords /\ new.provider = k.provider
    BY <1>1, <1>2 DEF NodeRecords
  <1> HIDE DEF new
  <1>5. NodesOK' /\ \A m \in Cluster : node[m] # NoNode => node'[m] # NoNode
    BY <1>1, <1>2, <1>3, <1>4, NodeWritten
  <1>6. InstancesOK' /\ CallsOK' /\ BehindOK'
    BY DoneKeeps DEF Refresh, Loops
  <1> QED
    BY <1>5, <1>6 DEF IInv

(* AskShutdown: the copy of the node is used a second time.                *)
LEMMA AskShutdownKeeps ==
    ASSUME IInv, AskShutdown
    PROVE  IInv' /\ UNCHANGED node
  <1> DEFINE k == call["monitor"]
             new == [step |-> "shutdown", name |-> k.name, provider |-> k.provider]
  <1>1. UNCHANGED <<inst, node, behind>> /\ call' = [call EXCEPT !["monitor"] = new] /\ k.step = "act"
    BY DEF AskShutdown, Replied
  <1>2. k.name \in Cluster /\ k.provider \in Providers /\ (k.provider \in Ids => NameOf[k.provider] = k.name)
    BY <1>1, ActFacts DEF Loops
  <1>3. new \in CallTypes /\ new.step = "shutdown" /\ new.name = k.name /\ new.provider = k.provider
    BY <1>2 DEF CallTypes
  <1> HIDE DEF new
  <1>4. CallsOK' /\ call'["monitor"] = new
    BY <1>1, <1>2, <1>3 DEF IInv, CallsOK, CallOK, Loops
  <1>5. BehindOK'
    BY <1>1, <1>3, <1>4 DEF IInv, BehindOK
  <1>6. InstancesOK' /\ NodesOK'
    BY <1>1 DEF IInv, InstancesOK, NodesOK, OwnInstance
  <1> QED
    BY <1>1, <1>4, <1>5, <1>6 DEF IInv

(* RemoveNode: every instance that stood behind the node has gone.         *)
LEMMA RemoveNodeKeeps ==
    ASSUME IInv, RemoveNode
    PROVE  IInv' /\ \A i \in behind : ~Living(i)
  <1>1. \A i \in behind : inst[i].status = "gone"
    BY DEF RemoveNode, Replied, IInv, BehindOK
  <1>2. NodesOK'
    BY DEF RemoveNode, IInv, NodesOK, OwnInstance
  <1>3. InstancesOK' /\ CallsOK' /\ BehindOK'
    BY DoneKeeps DEF RemoveNode, Loops
  <1> QED
    BY <1>1, <1>2, <1>3 DEF IInv, Living

(* Taint leaves the identity of the node.                                  *)
LEMMA TaintKeeps ==
    ASSUME IInv, Taint
    PROVE  IInv' /\ \A m \in Cluster : node[m] # NoNode => node'[m] # NoNode
  <1> DEFINE name == call["monitor"].name  k == node[name]
             shutdown == k.shutdown \/ call["monitor"].reply.shutdown
             new == [k EXCEPT !.shutdown = shutdown]
  <1>1. name \in Cluster
    BY ActFacts DEF Taint, Replied, Loops
  <1>2. k \in NodeRecords /\ (k.provider \in Ids => NameOf[k.provider] = name)
    BY <1>1, NodePresent DEF Taint, Present
  <1>3. node' = [node EXCEPT ![name] = new]
    BY DEF Taint
  <1>4. shutdown \in BOOLEAN
    OBVIOUS
  <1> HIDE DEF shutdown
  <1>5. new \in NodeRecords /\ new.provider = k.provider
    BY <1>2, <1>4 DEF NodeRecords
  <1> HIDE DEF new
  <1>6. NodesOK' /\ \A m \in Cluster : node[m] # NoNode => node'[m] # NoNode
    BY <1>1, <1>2, <1>3, <1>5, NodeWritten
  <1>7. InstancesOK' /\ CallsOK' /\ BehindOK'
    BY DoneKeeps DEF Taint, Loops
  <1> QED
    BY <1>6, <1>7 DEF IInv

(* What every step does to the invariant and to the nodes that are there.  *)
LEMMA StepOK ==
    ASSUME IInv, Next
    PROVE  /\ IInv'
           /\ \A m \in Cluster : node[m] # NoNode /\ node'[m] = NoNode => \A i \in behind : ~Living(i)
  <1>1. ASSUME CloudStep PROVE IInv' /\ UNCHANGED node
    BY <1>1, StatusKeeps, PlugKeeps DEF CloudStep
  <1>2. ASSUME KubeletStep
        PROVE  IInv' /\ \A m \in Cluster : node[m] # NoNode => node'[m] # NoNode
    BY <1>2, KubeletKeeps DEF KubeletStep
  <1>3. ASSUME NEW l \in Loops, GiveUp(l) PROVE IInv' /\ UNCHANGED node
    <2>1. UNCHANGED <<inst, node>> /\ Done(l)
      BY <1>3 DEF GiveUp
    <2> QED
      BY <2>1, DoneKeeps DEF IInv, NodesOK, OwnInstance
  <1>4. ASSUME LoopStep
        PROVE  /\ IInv'
               /\ \A m \in Cluster : node[m] # NoNode /\ node'[m] = NoNode =>
                    \A i \in behind : ~Living(i)
    BY <1>3, <1>4, AskKeeps, AnsweredKeeps, InitializeKeeps, RefreshKeeps, AskShutdownKeeps,
       RemoveNodeKeeps, TaintKeeps DEF LoopStep, Act
  <1> QED
    BY <1>1, <1>2, <1>4 DEF Next

-----------------------------------------------------------------------------
(* The identity of an instance reaches only nodes of its name, and no      *)
(* instance that stood behind a monitored node appears out of nothing.     *)
THEOREM InstancesInvariant == Spec => []IInv
  <1>1. IInv /\ [Next]_vars => IInv'
    <2> SUFFICES ASSUME IInv, [Next]_vars PROVE IInv'
      OBVIOUS
    <2>1. CASE UNCHANGED vars
      BY <2>1 DEF vars, IInv, InstancesOK, NodesOK, OwnInstance, CallsOK, BehindOK
    <2> QED
      BY <2>1, StepOK
  <1> QED
    BY <1>1, InitOK, PTL DEF Spec

(* A node never stands for an instance of another name, whatever changes   *)
(* between the copy of the node, the request and the patch                 *)
(* (getInstanceByName, InstanceMetadata).                                  *)
THEOREM AlwaysOwnInstance == Spec => []OwnInstance
  <1>1. IInv => OwnInstance
    BY DEF IInv, NodesOK
  <1> QED
    BY <1>1, InstancesInvariant, PTL

(* No node is removed for an API error, nor while one of the instances     *)
(* lives that stood behind it when the monitor took its copy               *)
(* (InstanceExists).                                                       *)
THEOREM NeverRemovedTooSoon == Spec => RemovedOnlyWhenGone
  <1>1. IInv /\ [Next]_vars =>
          [\A name \in Cluster :
             node[name] # NoNode /\ node'[name] = NoNode => \A i \in behind : ~Living(i)]_vars
    BY StepOK
  <1> QED
    BY <1>1, InstancesInvariant, PTL DEF Spec, RemovedOnlyWhenGone

-----------------------------------------------------------------------------
(***************************************************************************)
(* What nodeAddresses computes.  Its loops are recursive functions, about  *)
(* which nothing is known before it is shown that they exist; then what    *)
(* the loops keep true is shown by looking at the least iteration after    *)
(* which it would not be.                                                  *)
(***************************************************************************)

(* Every set of naturals that is not empty has a least element.            *)
LEMMA LeastNatural ==
    ASSUME NEW S, S \subseteq Nat, S # {}
    PROVE  \E x \in S : \A y \in S : x <= y
  <1> DEFINE R == {ss \in Nat \X Nat : ss[1] < ss[2]}
  <1>1. OpToRel(<, Nat) = R
    BY DEF OpToRel
  <1>2. IsWellFoundedOn(R, Nat)
    BY <1>1, NatLessThanWellFounded, Zenon
  <1>3. PICK x \in S : \A y \in S : ~(<<y, x>> \in R)
    <2> HIDE DEF R
    <2> QED
      BY <1>2, WFMin
  <1>4. ASSUME NEW y \in S, y < x PROVE FALSE
    <2>1. <<y, x>> \in R
      BY <1>4
    <2> HIDE DEF R
    <2> QED
      BY <1>3, <2>1
  <1>5. \A y \in S : y \in Nat /\ x \in Nat
    OBVIOUS
  <1> QED
    BY <1>4, <1>5

(* Induction: a set that holds 0 and, with a number below m, the next one, *)
(* holds every number up to m.                                             *)
LEMMA UpTo ==
    ASSUME NEW m \in Nat, NEW S, 0 \in S, \A k \in 1 .. m : k - 1 \in S => k \in S
    PROVE  0 .. m \subseteq S
  <1> DEFINE Left == {k \in 0 .. m : k \notin S}
  <1> SUFFICES ASSUME Left # {} PROVE FALSE
    OBVIOUS
  <1>1. Left \subseteq Nat
    OBVIOUS
  <1>2. PICK x \in Left : \A y \in Left : x <= y
    BY <1>1, LeastNatural
  <1>3. x \in 1 .. m /\ x \notin S
    OBVIOUS
  <1>4. x - 1 \in 0 .. m /\ ~(x <= x - 1)
    BY <1>3
  <1>5. x - 1 \in S
    BY <1>2, <1>4
  <1> QED
    BY <1>3, <1>5

(* The inner loop of nodeAddresses over the first m entries of a list, and *)
(* its outer loop over the first m networks.                               *)
EntryLoop(g, m, addrs, network, list) ==
    g = [j \in 0 .. m |-> IF j = 0 THEN addrs ELSE Collect(g[j - 1], network, list[j])]

NetworkLoop(g, m, ports) ==
    g = [n \in 0 .. m |-> IF n = 0 THEN <<>> ELSE CollectNetwork(g[n - 1], n, ports[n])]

(* The inner loop runs.                                                    *)
LEMMA EntryLoopExists ==
    ASSUME NEW m \in Nat, NEW addrs, NEW network, NEW list
    PROVE  \E g : EntryLoop(g, m, addrs, network, list)
  <1> DEFINE S == {k \in Nat : \E g : EntryLoop(g, k, addrs, network, list)}
  <1>1. 0 \in S
    <2> DEFINE g == [j \in 0 .. 0 |-> addrs]
    <2>1. EntryLoop(g, 0, addrs, network, list)
      BY DEF EntryLoop
    <2> QED
      BY <2>1
  <1>2. ASSUME NEW x \in 1 .. m, x - 1 \in S PROVE x \in S
    <2>1. PICK g : EntryLoop(g, x - 1, addrs, network, list)
      BY <1>2
    <2> DEFINE h == [j \in 0 .. x |-> IF j = x THEN Collect(g[x - 1], network, list[x]) ELSE g[j]]
    <2>2. ASSUME NEW j \in 0 .. x
          PROVE  h[j] = IF j = 0 THEN addrs ELSE Collect(h[j - 1], network, list[j])
      <3>1. CASE j = x
        BY <3>1
      <3>2. CASE j # x
        <4>1. j \in 0 .. x - 1 /\ h[j] = g[j] /\ (j # 0 => h[j - 1] = g[j - 1])
          BY <3>2
        <4>2. g[j] = IF j = 0 THEN addrs ELSE Collect(g[j - 1], network, list[j])
          BY <2>1, <4>1 DEF EntryLoop
        <4> QED
          BY <4>1, <4>2
      <3> QED
        BY <3>1, <3>2
    <2>3. h = [j \in 0 .. x |-> h[j]]
      OBVIOUS
    <2> HIDE DEF h
    <2>4. EntryLoop(h, x, addrs, network, list)
      BY <2>2, <2>3 DEF EntryLoop
    <2> QED
      BY <2>4
  <1> HIDE DEF S
  <1>3. m \in S
    BY <1>1, <1>2, UpTo
  <1> QED
    BY <1>3 DEF S

(* The outer loop runs.                                                    *)
LEMMA NetworkLoopExists ==
    ASSUME NEW m \in Nat, NEW ports
    PROVE  \E g : NetworkLoop(g, m, ports)
  <1> DEFINE S == {k \in Nat : \E g : NetworkLoop(g, k, ports)}
  <1>1. 0 \in S
    <2> DEFINE g == [j \in 0 .. 0 |-> <<>>]
    <2>1. NetworkLoop(g, 0, ports)
      BY DEF NetworkLoop
    <2> QED
      BY <2>1
  <1>2. ASSUME NEW x \in 1 .. m, x - 1 \in S PROVE x \in S
    <2>1. PICK g : NetworkLoop(g, x - 1, ports)
      BY <1>2
    <2> DEFINE h == [n \in 0 .. x |-> IF n = x THEN CollectNetwork(g[x - 1], x, ports[x]) ELSE g[n]]
    <2>2. ASSUME NEW n \in 0 .. x
          PROVE  h[n] = IF n = 0 THEN <<>> ELSE CollectNetwork(h[n - 1], n, ports[n])
      <3>1. CASE n = x
        BY <3>1
      <3>2. CASE n # x
        <4>1. n \in 0 .. x - 1 /\ h[n] = g[n] /\ (n # 0 => h[n - 1] = g[n - 1])
          BY <3>2
        <4>2. g[n] = IF n = 0 THEN <<>> ELSE CollectNetwork(g[n - 1], n, ports[n])
          BY <2>1, <4>1 DEF NetworkLoop
        <4> QED
          BY <4>1, <4>2
      <3> QED
        BY <3>1, <3>2
    <2>3. h = [n \in 0 .. x |-> h[n]]
      OBVIOUS
    <2> HIDE DEF h
    <2>4. NetworkLoop(h, x, ports)
      BY <2>2, <2>3 DEF NetworkLoop
    <2> QED
      BY <2>4
  <1> HIDE DEF S
  <1>3. m \in S
    BY <1>1, <1>2, UpTo
  <1> QED
    BY <1>3 DEF S

(* So CollectNetwork is the last value of its loop,                        *)
LEMMA CollectNetworkUnfolds ==
    ASSUME NEW addrs, NEW network, NEW list, Len(list) \in Nat
    PROVE  \E g : /\ EntryLoop(g, Len(list), addrs, network, list)
                  /\ CollectNetwork(addrs, network, list) = g[Len(list)]
  <1> DEFINE after == CHOOSE g : EntryLoop(g, Len(list), addrs, network, list)
  <1>1. EntryLoop(after, Len(list), addrs, network, list)
    BY EntryLoopExists
  <1>2. CollectNetwork(addrs, network, list) = after[Len(list)]
    BY DEF CollectNetwork, EntryLoop
  <1> QED
    BY <1>1, <1>2

(* and nodeAddresses the last value of its own, with the host name.        *)
LEMMA nodeAddressesUnfolds ==
    ASSUME NEW i, NEW ports
    PROVE  \E g : /\ NetworkLoop(g, LastNetwork, ports)
                  /\ nodeAddresses(i, ports) =
                       IF HostName[i] = NoHost THEN g[LastNetwork]
                       ELSE AddToNodeAddresses(g[LastNetwork], [type |-> "Hostname", addr |-> HostName[i]])
  <1> DEFINE after == CHOOSE g : NetworkLoop(g, LastNetwork, ports)
  <1>1. NetworkLoop(after, LastNetwork, ports)
    BY NetworkLoopExists, InstancesConstants
  <1>2. nodeAddresses(i, ports) =
           IF HostName[i] = NoHost THEN after[LastNetwork]
           ELSE AddToNodeAddresses(after[LastNetwork], [type |-> "Hostname", addr |-> HostName[i]])
    BY DEF nodeAddresses, NetworkLoop
  <1> QED
    BY <1>1, <1>2

-----------------------------------------------------------------------------
(* The entries that can be published, and the ports that yield them.       *)
PortRecords == [addr : Addrs, kind : {"fixed", "floating"}]
Publishable == {e \in [type : {"ExternalIP", "InternalIP"}, addr : Addrs] : Published(e)}

(* The list a of addresses has been gathered from the networks before n    *)
(* and the first j entries of n: these published ones and no others, each  *)
(* once, and no entry comes before one that an earlier network has.        *)
EntrySeen(e, ports, n, j) ==
    \E m \in Networks : \E l \in DOMAIN ports[m] :
        (m < n \/ (m = n /\ l <= j)) /\ Entry(m, ports[m][l]) = e

EntryNetworks(e, ports) ==
    {n \in Networks : \E j \in DOMAIN ports[n] :
       ports[n][j].addr = e.addr /\ AddressType(n, ports[n][j]) = e.type}

Complete(a, ports, n, j) ==
    \A e \in Publishable : (\E x \in DOMAIN a : a[x] = e) <=> EntrySeen(e, ports, n, j)

InNetworkOrder(a, ports) ==
    \A x, y \in DOMAIN a : x < y =>
        \A m \in EntryNetworks(a[y], ports) : \E k \in EntryNetworks(a[x], ports) : k <= m

Gathered(a, ports, n, j) ==
    a \in Seq(Publishable) /\ IsInjective(a) /\ Complete(a, ports, n, j) /\ InNetworkOrder(a, ports)

(* The interfaces of a network come as a list.                             *)
LEMMA PortListFacts ==
    ASSUME NEW ports \in AllPorts, NEW n \in Networks
    PROVE  /\ ports[n] \in Seq(PortRecords) /\ Len(ports[n]) \in Nat
           /\ DOMAIN ports[n] = 1 .. Len(ports[n])
  <1> DEFINE here == {[addr |-> g.addr, kind |-> g.kind] : g \in {h \in Interfaces : h.network = n}}
  <1>1. ports[n] \in UNION {[1 .. k -> here] : k \in 0 .. MaxPorts}
    BY DEF AllPorts, PortLists
  <1>2. here \subseteq PortRecords
    BY InstancesConstants DEF PortRecords
  <1> HIDE DEF here
  <1>3. PICK k \in 0 .. MaxPorts : ports[n] \in [1 .. k -> here]
    BY <1>1
  <1>4. k \in Nat /\ ports[n] \in [1 .. k -> PortRecords]
    BY <1>2, <1>3, InstancesConstants
  <1>5. ports[n] \in Seq(PortRecords)
    BY <1>4
  <1> QED
    BY <1>5

(* An entry that is published is an address of one of the two types.       *)
LEMMA EntryFacts ==
    ASSUME NEW n \in Networks, NEW p \in PortRecords
    PROVE  /\ Entry(n, p).addr = p.addr /\ Entry(n, p).type = AddressType(n, p)
           /\ Published(Entry(n, p)) <=> Entry(n, p) \in Publishable
           /\ Published(Entry(n, p)) <=> /\ p.addr \notin Shared /\ AddressType(n, p) # "ignored"
                                         /\ ~(p.addr \in IPv6 /\ IPv6SupportDisabled)
  <1>1. AddressType(n, p) \in {"ExternalIP", "InternalIP", "ignored"}
    BY DEF AddressType
  <1>2. p.addr \in Addrs
    BY DEF PortRecords
  <1> QED
    BY <1>1, <1>2 DEF Entry, Published, Publishable

(* The networks of an entry are those where it has been seen.              *)
LEMMA EntryNetworksFacts ==
    ASSUME NEW ports \in AllPorts, NEW e \in Publishable, NEW m \in Networks
    PROVE  m \in EntryNetworks(e, ports) <=> \E l \in DOMAIN ports[m] : Entry(m, ports[m][l]) = e
  BY DEF EntryNetworks, Entry, Publishable

(* One entry more: Collect.                                                *)
LEMMA CollectGathers ==
    ASSUME NEW ports \in AllPorts, NEW n \in Networks, NEW j \in 1 .. Len(ports[n]), NEW a,
           Gathered(a, ports, n, j - 1)
    PROVE  Gathered(Collect(a, n, ports[n][j]), ports, n, j)
  <1> DEFINE p == ports[n][j]  e == Entry(n, p)  b == Collect(a, n, p)
  <1>0. n \in Nat /\ Networks \subseteq Nat
    BY InstancesConstants DEF Networks
  <1>1. /\ DOMAIN ports[n] = 1 .. Len(ports[n]) /\ Len(ports[n]) \in Nat /\ p \in PortRecords
    BY PortListFacts
  <1>2. Published(e) <=> e \in Publishable
    BY <1>1, EntryFacts
  <1> HIDE DEF p, e
  <1>3. ASSUME NEW d \in Publishable
        PROVE  EntrySeen(d, ports, n, j) <=> EntrySeen(d, ports, n, j - 1) \/ d = e
    <2>1. ASSUME NEW m \in Networks, NEW l \in DOMAIN ports[m], m < n \/ (m = n /\ l <= j),
                 Entry(m, ports[m][l]) = d
          PROVE  EntrySeen(d, ports, n, j - 1) \/ d = e
      <3>1. CASE m = n /\ l = j
        BY <2>1, <3>1 DEF e, p
      <3>2. CASE ~(m = n /\ l = j)
        <4>1. m < n \/ (m = n /\ l <= j - 1)
          BY <1>0, <1>1, <2>1, <3>2
        <4> QED
          BY <2>1, <4>1 DEF EntrySeen
      <3> QED
        BY <3>1, <3>2
    <2>2. ASSUME EntrySeen(d, ports, n, j - 1) PROVE EntrySeen(d, ports, n, j)
      <3>0. PICK m \in Networks : \E l \in DOMAIN ports[m] :
               (m < n \/ (m = n /\ l <= j - 1)) /\ Entry(m, ports[m][l]) = d
        BY <2>2 DEF EntrySeen
      <3>1. PICK l \in DOMAIN ports[m] :
               (m < n \/ (m = n /\ l <= j - 1)) /\ Entry(m, ports[m][l]) = d
        BY <3>0
      <3>2. m < n \/ (m = n /\ l <= j)
        BY <1>0, <1>1, <3>1
      <3> QED
        BY <3>1, <3>2 DEF EntrySeen
    <2>3. EntrySeen(e, ports, n, j)
      BY <1>1 DEF EntrySeen, e, p
    <2> QED
      BY <2>1, <2>2, <2>3 DEF EntrySeen
  <1>4. CASE e \notin Publishable \/ Contains(a, e)
    <2>1. b = a
      BY <1>2, <1>4 DEF Collect, AddToNodeAddresses, e, p
    <2>2. ASSUME NEW d \in Publishable
          PROVE  EntrySeen(d, ports, n, j) <=> EntrySeen(d, ports, n, j - 1)
      <3>1. CASE d = e
        <4>1. \E x \in DOMAIN a : a[x] = e
          BY <1>4, <3>1 DEF Contains, Gathered
        <4> QED
          BY <1>3, <3>1, <4>1 DEF Gathered, Complete
      <3> QED
        BY <1>3, <3>1
    <2> QED
      BY <2>1, <2>2 DEF Gathered, Complete, p
  <1>5. CASE e \in Publishable /\ ~Contains(a, e)
    <2>1. b = Append(a, e)
      BY <1>2, <1>5 DEF Collect, AddToNodeAddresses, e, p
    <2> HIDE DEF b
    <2>2. a \in Seq(Publishable) /\ Len(a) \in Nat /\ DOMAIN a = 1 .. Len(a)
      BY DEF Gathered
    <2>3. /\ b \in Seq(Publishable) /\ DOMAIN b = 1 .. Len(a) + 1
          /\ \A x \in 1 .. Len(a) : b[x] = a[x] /\ a[x] # e
          /\ b[Len(a) + 1] = e
      BY <1>5, <2>1, <2>2 DEF Contains
    <2>4. IsInjective(b)
      BY <2>2, <2>3 DEF Gathered, IsInjective
    <2>5. Complete(b, ports, n, j)
      <3> SUFFICES ASSUME NEW d \in Publishable
                   PROVE  (\E x \in DOMAIN b : b[x] = d) <=> EntrySeen(d, ports, n, j)
        BY DEF Complete
      <3>1. (\E x \in DOMAIN b : b[x] = d) <=> (\E x \in DOMAIN a : a[x] = d) \/ d = e
        BY <2>2, <2>3
      <3> QED
        BY <1>3, <3>1 DEF Gathered, Complete
    <2>6. InNetworkOrder(b, ports)
      <3> SUFFICES ASSUME NEW x \in DOMAIN b, NEW y \in DOMAIN b, x < y, NEW m \in EntryNetworks(b[y], ports)
                   PROVE  \E k \in EntryNetworks(b[x], ports) : k <= m
        BY DEF InNetworkOrder
      <3>1. x \in DOMAIN a /\ b[x] = a[x]
        BY <2>2, <2>3
      <3>2. CASE y \in DOMAIN a
        BY <2>2, <2>3, <3>1, <3>2 DEF Gathered, InNetworkOrder
      <3>3. CASE y \notin DOMAIN a
        <4>1. b[y] = e /\ m \in Networks
          BY <2>2, <2>3, <3>3 DEF EntryNetworks
        <4>2. n <= m
          <5> SUFFICES ASSUME m < n PROVE FALSE
            BY <1>0, <4>1
          <5>1. PICK l \in DOMAIN ports[m] : Entry(m, ports[m][l]) = e
            BY <1>5, <4>1, EntryNetworksFacts
          <5>2. EntrySeen(e, ports, n, j - 1)
            BY <4>1, <5>1 DEF EntrySeen
          <5>3. \E z \in DOMAIN a : a[z] = e
            BY <1>5, <5>2 DEF Gathered, Complete
          <5> QED
            BY <2>2, <2>3, <5>3
        <4>3. a[x] \in Publishable
          BY <2>2, <3>1
        <4>4. EntrySeen(a[x], ports, n, j - 1)
          BY <3>1, <4>3 DEF Gathered, Complete
        <4>5. PICK k \in Networks : \E l \in DOMAIN ports[k] :
                 (k < n \/ (k = n /\ l <= j - 1)) /\ Entry(k, ports[k][l]) = a[x]
          BY <4>4 DEF EntrySeen
        <4>6. k \in EntryNetworks(a[x], ports)
          BY <4>3, <4>5, EntryNetworksFacts
        <4>7. k <= m
          BY <1>0, <4>1, <4>2, <4>5
        <4> QED
          BY <3>1, <4>6, <4>7
      <3> QED
        BY <3>2, <3>3
    <2> QED
      BY <2>3, <2>4, <2>5, <2>6 DEF Gathered, b, p
  <1> QED
    BY <1>4, <1>5

(* One network more: CollectNetwork.                                       *)
LEMMA CollectNetworkGathers ==
    ASSUME NEW ports \in AllPorts, NEW n \in Networks, NEW a, Gathered(a, ports, n, 0)
    PROVE  Gathered(CollectNetwork(a, n, ports[n]), ports, n + 1, 0)
  <1> DEFINE list == ports[n]  m == Len(list)
  <1>0. Networks \subseteq Nat
    BY InstancesConstants DEF Networks
  <1>1. m \in Nat /\ DOMAIN list = 1 .. m
    BY PortListFacts
  <1>2. PICK g : EntryLoop(g, m, a, n, list) /\ CollectNetwork(a, n, list) = g[m]
    BY <1>1, CollectNetworkUnfolds
  <1>3. /\ g[0] = a
        /\ \A j \in 1 .. m : g[j] = Collect(g[j - 1], n, list[j])
    <2>1. \A j \in 0 .. m : g[j] = IF j = 0 THEN a ELSE Collect(g[j - 1], n, list[j])
      BY <1>2 DEF EntryLoop
    <2> QED
      BY <1>1, <2>1
  <1>4. Gathered(g[m], ports, n, m)
    <2> DEFINE S == {j \in 0 .. m : Gathered(g[j], ports, n, j)}
    <2>1. 0 \in S
      BY <1>1, <1>3
    <2>2. \A j \in 1 .. m : j - 1 \in S => j \in S
      BY <1>1, <1>3, CollectGathers
    <2> HIDE DEF S, m
    <2>3. m \in S
      BY <1>1, <2>1, <2>2, UpTo
    <2> QED
      BY <2>3 DEF S
  <1>5. ASSUME NEW e \in Publishable
        PROVE  EntrySeen(e, ports, n, m) <=> EntrySeen(e, ports, n + 1, 0)
    <2>1. ASSUME NEW k \in Networks, NEW l \in DOMAIN ports[k]
          PROVE  (k < n \/ (k = n /\ l <= m)) <=> (k < n + 1 \/ (k = n + 1 /\ l <= 0))
      <3>1. l \in 1 .. Len(ports[k]) /\ Len(ports[k]) \in Nat
        BY PortListFacts
      <3> QED
        BY <1>0, <1>1, <3>1
    <2> QED
      BY <2>1 DEF EntrySeen
  <1> QED
    BY <1>2, <1>4, <1>5 DEF Gathered, Complete

(* All of them: what the outer loop leaves for the host name.              *)
LEMMA NetworkLoopGathers ==
    ASSUME NEW ports \in AllPorts, NEW g, NetworkLoop(g, LastNetwork, ports)
    PROVE  Gathered(g[LastNetwork], ports, LastNetwork + 1, 0)
  <1> DEFINE S == {n \in 0 .. LastNetwork : Gathered(g[n], ports, n + 1, 0)}
  <1>0. LastNetwork \in Nat
    BY InstancesConstants
  <1>1. g[0] = <<>> /\ \A n \in 1 .. LastNetwork : g[n] = CollectNetwork(g[n - 1], n, ports[n])
    <2>1. \A n \in 0 .. LastNetwork :
             g[n] = IF n = 0 THEN <<>> ELSE CollectNetwork(g[n - 1], n, ports[n])
      BY DEF NetworkLoop
    <2> QED
      BY <1>0, <2>1
  <1>2. Gathered(<<>>, ports, 1, 0)
    <2>1. ASSUME NEW m \in Networks, NEW l \in DOMAIN ports[m]
          PROVE  ~(m < 1 \/ (m = 1 /\ l <= 0))
      <3>1. l \in 1 .. Len(ports[m]) /\ Len(ports[m]) \in Nat
        BY PortListFacts
      <3> QED
        BY <1>0, <3>1 DEF Networks
    <2> QED
      BY <2>1 DEF Gathered, IsInjective, Complete, InNetworkOrder, EntrySeen
  <1>3. 0 \in S
    BY <1>0, <1>1, <1>2
  <1>4. ASSUME NEW n \in 1 .. LastNetwork, n - 1 \in S PROVE n \in S
    <2>1. Gathered(g[n - 1], ports, n, 0) /\ n \in Networks
      BY <1>0, <1>4 DEF Networks
    <2>2. Gathered(CollectNetwork(g[n - 1], n, ports[n]), ports, n + 1, 0)
      BY <2>1, CollectNetworkGathers
    <2> QED
      BY <1>0, <1>1, <2>2
  <1> HIDE DEF S
  <1>5. LastNetwork \in S
    BY <1>0, <1>3, <1>4, UpTo
  <1> QED
    BY <1>5 DEF S

-----------------------------------------------------------------------------
(* The host name an instance publishes, as a list and as a set.            *)
HostEntry(i) == [type |-> "Hostname", addr |-> HostName[i]]

(* nodeAddresses, in terms of what its loops gather: the addresses of the  *)
(* networks and then, if there is one, the host name.                      *)
LEMMA nodeAddressesGathers ==
    ASSUME NEW i \in Ids, NEW ports \in AllPorts
    PROVE  \E found : /\ Gathered(found, ports, LastNetwork + 1, 0)
                      /\ nodeAddresses(i, ports) =
                           IF HostName[i] = NoHost THEN found ELSE Append(found, HostEntry(i))
  <1>1. PICK g : /\ NetworkLoop(g, LastNetwork, ports)
                 /\ nodeAddresses(i, ports) =
                       IF HostName[i] = NoHost THEN g[LastNetwork]
                       ELSE AddToNodeAddresses(g[LastNetwork], HostEntry(i))
    BY nodeAddressesUnfolds DEF HostEntry
  <1>2. Gathered(g[LastNetwork], ports, LastNetwork + 1, 0)
    BY <1>1, NetworkLoopGathers
  <1>3. ~Contains(g[LastNetwork], HostEntry(i))
    <2>1. g[LastNetwork] \in Seq(Publishable)
      BY <1>2 DEF Gathered
    <2>2. \A e \in Publishable : e.type # "Hostname"
      BY DEF Publishable
    <2>3. \A x \in 1 .. Len(g[LastNetwork]) : g[LastNetwork][x] \in Publishable
      BY <2>1
    <2> QED
      BY <2>2, <2>3 DEF Contains, HostEntry
  <1> QED
    BY <1>1, <1>2, <1>3 DEF AddToNodeAddresses

(* What was seen when the loops are over are all entries of all networks.  *)
LEMMA AllSeen ==
    ASSUME NEW ports \in AllPorts, NEW e
    PROVE  EntrySeen(e, ports, LastNetwork + 1, 0) <=>
             \E m \in Networks : \E l \in DOMAIN ports[m] : Entry(m, ports[m][l]) = e
  BY InstancesConstants DEF EntrySeen, Networks

-----------------------------------------------------------------------------
(* A list without repetitions is as long as it has elements.               *)
LEMMA InjectiveLength ==
    ASSUME NEW T, NEW a \in Seq(T), IsInjective(a)
    PROVE  Cardinality(ToSet(a)) = Len(a)
  <1> DEFINE S == 1 .. Len(a)
  <1>1. Len(a) \in Nat /\ DOMAIN a = S /\ a = [x \in S |-> a[x]]
    OBVIOUS
  <1>2. a \in Surjection(S, ToSet(a)) /\ a \in Injection(S, ToSet(a))
    BY <1>1 DEF Surjection, Injection, ToSet
  <1>3. ExistsBijection(S, ToSet(a))
    BY <1>2 DEF ExistsBijection, Bijection
  <1> QED
    BY <1>1, <1>3, FS_CountingElements

(* The least of the networks that have an entry.                           *)
LEMMA FirstNetwork ==
    ASSUME NEW ports \in AllPorts, NEW e, EntryNetworks(e, ports) # {}
    PROVE  LET first == CHOOSE n \in EntryNetworks(e, ports) : \A m \in EntryNetworks(e, ports) : n <= m
           IN  /\ first \in EntryNetworks(e, ports) /\ first \in Nat
               /\ \A m \in EntryNetworks(e, ports) : first <= m
  <1>1. EntryNetworks(e, ports) \subseteq Nat
    BY InstancesConstants DEF EntryNetworks, Networks
  <1> QED
    BY <1>1, LeastNatural

(* The set of the published addresses is what the options call for.        *)
LEMMA ExpectedAddressesFacts ==
    ASSUME NEW i \in Ids, NEW ports \in AllPorts, NEW e
    PROVE  e \in ExpectedAddresses(i, ports) <=>
             \/ /\ e \in Publishable
                /\ \E n \in Networks : \E j \in DOMAIN ports[n] : Entry(n, ports[n][j]) = e
             \/ HostName[i] # NoHost /\ e = HostEntry(i)
  <1> DEFINE all == UNION {{<<n, ports[n][j]>> : j \in DOMAIN ports[n]} : n \in Networks}
             Usable(x) == x[2].addr \notin Shared /\ (IPv6SupportDisabled => x[2].addr \notin IPv6)
             usable == {x \in all : Usable(x)}
             Public(x) == x[2].kind = "floating" \/ x[1] = PublicNetworkName
             public == {x \in usable : Public(x)}
             Private(x) == InternalNetworkName # 0 => x[1] = InternalNetworkName
             private == {x \in usable \ public : Private(x)}
             hosts == {[type |-> "Hostname", addr |-> HostName[i]] : h \in {HostName[i]} \ {NoHost}}
  <1>1. ExpectedAddresses(i, ports) =
          {[type |-> "ExternalIP", addr |-> x[2].addr] : x \in public}
            \cup {[type |-> "InternalIP", addr |-> x[2].addr] : x \in private}
            \cup hosts
    BY DEF ExpectedAddresses
  <1>2. e \in hosts <=> HostName[i] # NoHost /\ e = HostEntry(i)
    BY DEF HostEntry
  <1>3. ASSUME NEW n \in Networks, NEW j \in DOMAIN ports[n]
        PROVE  LET x == <<n, ports[n][j]>>
               IN  /\ x \in all
                   /\ Usable(x) /\ Public(x) =>
                        Entry(n, ports[n][j]) = [type |-> "ExternalIP", addr |-> x[2].addr]
                   /\ Usable(x) /\ ~Public(x) /\ Private(x) =>
                        Entry(n, ports[n][j]) = [type |-> "InternalIP", addr |-> x[2].addr]
                   /\ Entry(n, ports[n][j]) \in Publishable <=>
                        Usable(x) /\ (Public(x) \/ Private(x))
    <2>0. n # 0
      BY InstancesConstants DEF Networks
    <2>1. ports[n][j] \in PortRecords
      BY PortListFacts
    <2>2. <<n, ports[n][j]>> \in all
      OBVIOUS
    <2>3. Entry(n, ports[n][j]) \in Publishable <=>
            /\ ports[n][j].addr \notin Shared /\ AddressType(n, ports[n][j]) # "ignored"
            /\ ~(ports[n][j].addr \in IPv6 /\ IPv6SupportDisabled)
      BY <2>1, EntryFacts
    <2> HIDE DEF all
    <2> QED
      BY <2>0, <2>2, <2>3, InstancesConstants DEF Entry, AddressType
  <1>4. ASSUME NEW x \in all
        PROVE  \E n \in Networks : \E j \in DOMAIN ports[n] : x = <<n, ports[n][j]>>
    OBVIOUS
  <1> DEFINE Yields == \E n \in Networks : \E j \in DOMAIN ports[n] : Entry(n, ports[n][j]) = e
  <1> HIDE DEF all, hosts, Usable, Public, Private
  <1>5. (\E x \in public : e = [type |-> "ExternalIP", addr |-> x[2].addr])
          \/ (\E x \in private : e = [type |-> "InternalIP", addr |-> x[2].addr])
        <=> e \in Publishable /\ Yields
    <2>1. ASSUME NEW x \in public, e = [type |-> "ExternalIP", addr |-> x[2].addr]
          PROVE  e \in Publishable /\ Yields
      BY <1>3, <1>4, <2>1
    <2>2. ASSUME NEW x \in private, e = [type |-> "InternalIP", addr |-> x[2].addr]
          PROVE  e \in Publishable /\ Yields
      BY <1>3, <1>4, <2>2
    <2>3. ASSUME NEW n \in Networks, NEW j \in DOMAIN ports[n], Entry(n, ports[n][j]) = e, e \in Publishable
          PROVE  \/ \E x \in public : e = [type |-> "ExternalIP", addr |-> x[2].addr]
                 \/ \E x \in private : e = [type |-> "InternalIP", addr |-> x[2].addr]
      BY <1>3, <2>3
    <2> QED
      BY <2>1, <2>2, <2>3
  <1> QED
    BY <1>1, <1>2, <1>5

-----------------------------------------------------------------------------
(* nodeAddresses lists the expected addresses, each once, in the order of  *)
(* the networks, for every instance and every list of interfaces.          *)
LEMMA EveryListRight ==
    ASSUME NEW i \in Ids, NEW ports \in AllPorts
    PROVE  /\ AddressListRight(i, ports)
           /\ nodeAddresses(i, ports) \in
                Seq([type : {"ExternalIP", "InternalIP", "Hostname"}, addr : Addrs])
  <1> DEFINE a == nodeAddresses(i, ports)
             Records == [type : {"ExternalIP", "InternalIP", "Hostname"}, addr : Addrs]
             Hosted == HostName[i] # NoHost
  <1>1. PICK found : /\ Gathered(found, ports, LastNetwork + 1, 0)
                     /\ a = IF Hosted THEN Append(found, HostEntry(i)) ELSE found
    BY nodeAddressesGathers
  <1> HIDE DEF a
  <1>2. /\ found \in Seq(Publishable) /\ Len(found) \in Nat /\ DOMAIN found = 1 .. Len(found)
        /\ \A x \in DOMAIN found : found[x] \in Publishable
        /\ IsInjective(found) /\ InNetworkOrder(found, ports)
    BY <1>1 DEF Gathered
  <1>3. \A e \in Publishable : e \in Records /\ e.type # "Hostname"
    BY DEF Publishable
  <1>4. Hosted => HostEntry(i) \in Records /\ HostEntry(i).type = "Hostname"
    BY InstancesConstants DEF HostEntry
  <1> HIDE DEF Records, Hosted
  <1>5. found \in Seq(Records)
    BY <1>2, <1>3
  <1>6. /\ a \in Seq(Records) /\ Len(a) \in Nat /\ DOMAIN a = 1 .. Len(a)
        /\ Len(a) = IF Hosted THEN Len(found) + 1 ELSE Len(found)
        /\ \A x \in DOMAIN found : x \in DOMAIN a /\ a[x] = found[x]
        /\ Hosted => a[Len(a)] = HostEntry(i)
    BY <1>1, <1>2, <1>4, <1>5
  <1>7. ASSUME NEW x \in DOMAIN a
        PROVE  x \in DOMAIN found \/ (Hosted /\ x = Len(a) /\ a[x] = HostEntry(i))
    BY <1>2, <1>6
  <1>8. IsInjective(a)
    <2> SUFFICES ASSUME NEW x \in DOMAIN a, NEW y \in DOMAIN a, a[x] = a[y] PROVE x = y
      BY DEF IsInjective
    <2>1. CASE x \in DOMAIN found /\ y \in DOMAIN found
      BY <1>2, <1>6, <2>1 DEF IsInjective
    <2>2. CASE x \notin DOMAIN found /\ y \notin DOMAIN found
      BY <1>7, <2>2
    <2>3. CASE x \in DOMAIN found /\ y \notin DOMAIN found
      BY <1>2, <1>3, <1>4, <1>6, <1>7, <2>3
    <2>4. CASE x \notin DOMAIN found /\ y \in DOMAIN found
      BY <1>2, <1>3, <1>4, <1>6, <1>7, <2>4
    <2> QED
      BY <2>1, <2>2, <2>3, <2>4
  <1>9. Cardinality(ToSet(a)) = Len(a)
    BY <1>6, <1>8, InjectiveLength
  <1>10. ToSet(a) = ExpectedAddresses(i, ports)
    <2>1. ASSUME NEW e
          PROVE  (\E x \in DOMAIN found : found[x] = e) <=>
                   /\ e \in Publishable
                   /\ \E n \in Networks : \E j \in DOMAIN ports[n] : Entry(n, ports[n][j]) = e
      <3>1. CASE e \in Publishable
        BY <1>1, <3>1, AllSeen DEF Gathered, Complete
      <3>2. CASE e \notin Publishable
        BY <1>2, <3>2
      <3> QED
        BY <3>1, <3>2
    <2>2. ASSUME NEW e
          PROVE  e \in ToSet(a) <=> (\E x \in DOMAIN found : found[x] = e) \/ (Hosted /\ e = HostEntry(i))
      <3>1. Hosted => Len(a) \in DOMAIN a
        BY <1>2, <1>6
      <3> QED
        BY <1>6, <1>7, <3>1 DEF ToSet
    <2>3. ASSUME NEW e PROVE e \in ToSet(a) <=> e \in ExpectedAddresses(i, ports)
      BY <2>1, <2>2, ExpectedAddressesFacts DEF Hosted
    <2> QED
      BY <2>3
  <1> DEFINE First(e) == CHOOSE n \in EntryNetworks(e, ports) : \A m \in EntryNetworks(e, ports) : n <= m
  <1>11. ASSUME NEW x \in DOMAIN a, NEW y \in DOMAIN a, x < y, "Hostname" \notin {a[x].type, a[y].type}
         PROVE  First(a[x]) <= First(a[y])
    <2>1. x \in DOMAIN found /\ y \in DOMAIN found
      BY <1>4, <1>7, <1>11
    <2>2. a[x] = found[x] /\ a[y] = found[y] /\ a[y] \in Publishable
      BY <1>2, <1>6, <2>1
    <2>3. EntryNetworks(a[y], ports) # {}
      <3>1. PICK n \in Networks : \E j \in DOMAIN ports[n] : Entry(n, ports[n][j]) = a[y]
        BY <1>1, <2>1, <2>2, AllSeen DEF Gathered, Complete
      <3> QED
        BY <2>2, <3>1, EntryNetworksFacts
    <2>4. First(a[y]) \in EntryNetworks(a[y], ports) /\ First(a[y]) \in Nat
      BY <2>3, FirstNetwork
    <2>5. PICK k \in EntryNetworks(a[x], ports) : k <= First(a[y])
      BY <1>2, <1>11, <2>1, <2>2, <2>4 DEF InNetworkOrder
    <2>6. First(a[x]) \in Nat /\ First(a[x]) <= k
      BY <2>5, FirstNetwork
    <2>7. k \in Nat
      BY InstancesConstants DEF EntryNetworks, Networks
    <2> HIDE DEF First
    <2> QED
      BY <2>4, <2>5, <2>6, <2>7
  <1>12. AddressListRight(i, ports)
    BY <1>9, <1>10, <1>11 DEF AddressListRight, EntryNetworks, a
  <1> QED
    BY <1>6, <1>12 DEF a, Records

(* The addresses that nodeAddresses gives to a node are the expected ones, *)
(* each once and in the order of the networks, for the interfaces that     *)
(* every instance has and for every other list of them.                    *)
THEOREM AddressesAlwaysRight == Spec => []AddressesRight
  <1>1. AllListsRight
    BY EveryListRight DEF AllListsRight
  <1>2. IInv => AddressesRight
    <2> SUFFICES ASSUME IInv PROVE AddressesRight
      OBVIOUS
    <2>1. \A i \in Ids : inst[i].ports \in AllPorts
      BY DEF IInv, InstancesOK
    <2> QED
      BY <1>1, <2>1, EveryListRight DEF AddressesRight
  <1> QED
    BY <1>2, InstancesInvariant, PTL

(* Instances and nodes are of their types in every state; in particular    *)
(* only addresses of a published type reach a node (nodeAddresses, and the *)
(* loops that publish its result).                                         *)
THEOREM TypeCorrect == Spec => []TypeOK
  <1> DEFINE Records == [type : {"ExternalIP", "InternalIP", "Hostname"}, addr : Addrs]
  <1>1. ASSUME NEW list \in AddressLists PROVE list \in Seq(Records)
    <2>1. \A i \in Ids, ports \in AllPorts : nodeAddresses(i, ports) \in Seq(Records)
      BY EveryListRight
    <2>2. <<>> \in Seq(Records)
      OBVIOUS
    <2>3. list = <<>> \/ \E i \in Ids, ports \in AllPorts : list = nodeAddresses(i, ports)
      BY <1>1 DEF AddressLists
    <2> HIDE DEF Records
    <2> QED
      BY <2>1, <2>2, <2>3
  <1>2. IInv => TypeOK
    <2> SUFFICES ASSUME IInv PROVE TypeOK
      OBVIOUS
    <2>1. \A i \in Ids : inst[i].status \in Statuses /\ inst[i].ports \in AllPorts
      BY DEF IInv, InstancesOK
    <2>2. ASSUME NEW name \in Cluster, node[name] # NoNode
          PROVE  /\ node[name].provider \in Providers
                 /\ \A k \in DOMAIN node[name].addresses : node[name].addresses[k] \in Records
      <3>1. node[name] \in NodeRecords
        BY <2>2, NodePresent
      <3>2. node[name].provider \in Providers /\ node[name].addresses \in Seq(Records)
        BY <1>1, <3>1 DEF NodeRecords
      <3> HIDE DEF Records
      <3> QED
        BY <3>2
    <2>3. \A l \in Loops : call[l].step \in {"idle", "metadata", "exists", "shutdown", "act"}
      BY DEF IInv, CallsOK, CallTypes
    <2>4. behind \subseteq Ids
      BY DEF IInv, BehindOK
    <2> QED
      BY <2>1, <2>2, <2>3, <2>4 DEF TypeOK, Statuses
  <1> QED
    BY <1>2, InstancesInvariant, PTL
=============================================================================
