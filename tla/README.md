# Edgecenter cloud controller manager: verification project

TLA+ models of the cloud provider in `src/internal/edgecenter`, TLC
configurations that check them on small instances, and TLAPS proofs of all of the
safety properties that hold, among them a refinement. Line numbers below are those of files in
`src/internal/edgecenter` unless a path is given.

## 1. The system

The program is a Kubernetes cloud controller manager. Controllers of
`k8s.io/cloud-provider` (not in the repository) watch Services and Nodes and
call the provider, which talks to the Edgecenter API (an SDK and a remote
service, not in the repository either). It runs as a DaemonSet with leader
election, so one process is active at a time, but that process may die or lose
its leadership at any moment. The provider stores nothing: what it knows is what
the API lists and what is in the Kubernetes objects.

| Component | Source | State | Operations |
|---|---|---|---|
| Load balancer provider | `loadbalancer.go`, `_listeners.go`, `_pools.go`, `_utils.go` | none of its own; the load balancer, listeners, pools and members in the cloud, the Service's published address | `GetLoadBalancer`, `EnsureLoadBalancer`, `UpdateLoadBalancer`, `EnsureLoadBalancerDeleted` |
| Floating IPs | `loadbalancer_floatingip.go` | floating IPs and the port each is on | `EnsureFloatingIP`, deletion in `EnsureLoadBalancerDeleted` |
| Security groups | `loadbalancer_securitygroups.go` | one group per Service, its rules, the instances that carry it | `ensureSecurityGroup`, `EnsureSecurityGroupDeleted` |
| Service options | `loadbalancer.go:190`, `_annotations.go`, `_secrets.go` | none; recomputed in every pass | `resolveServiceOptions` |
| Instances | `instances.go`, `edgecenter.go` | instances in the cloud, Node objects | `InstanceExists`, `InstanceShutdown`, `InstanceMetadata` |
| Volumes | `volumes.go` | volumes and their attachments | create, attach, detach, expand, delete, query |
| Metadata | `src/internal/util/metadata` | a process-wide cache; the directory the config drive is mounted on | `Get` and its callers (`GetZone`, `CurrentNodeName`, `InstanceID`), `GetDevicePath` |
| Device search | `volumes.go:381-485`, `src/internal/util/mount` | none; the devices the kernel shows | the `GetDevicePath` of the provider and of `Mount` |
| Configuration | `edgecenter.go` | read once | `ReadConfig`, checks |
| Zones, routes, mount helpers, block devices, metrics, utilities, command | the other files | none | look-ups, local I/O, counters |

How they interact. The service controller keeps a work queue. It takes a Service
off the queue, calls `EnsureLoadBalancer` with a copy of the Service and of the
node list (or `EnsureLoadBalancerDeleted`), writes the returned address into the
status, and queues the Service again after an error. When the nodes change, its
node sync calls `UpdateLoadBalancer` for every Service, beside the workers. A pass first resolves the
options, then works through load balancer, listeners, pools, members, clean-up,
address and security group, in that order, one API request after the other, with
a wait for the load balancer to become ACTIVE after each change; deletions and
member updates go through a loop that waits, acts, waits again and starts over
when a wait fails. Three node
loops ask about instances. Volume operations come from any number of callers at
the same time, and so do the questions about the host itself.

What is hard about it: a pass can end at every request, and the next one has to
cope with whatever is there; some requests are applied after they have returned
(member updates); what a pass listed at its beginning is used after many waits;
the order of a teardown matters; two passes may work on one load balancer with
different copies of the Service; a mutation may have been carried out although
its caller saw it fail; caches and the mount directory are shared without a lock;
and the same question (where does this load
balancer go, does this instance exist) is answered anew, from other inputs, each
time it is asked.

What makes each part correct:

* load balancer: once a pass has succeeded, exactly the wanted listeners and
  pools are there, with the wanted settings and members; nothing wanted is taken
  away on the way; pools go before listeners and listeners before the load
  balancer; passes come to an end when nothing disturbs them;
* floating IPs: one per load balancer, stable, published as attached, destroyed
  only with the Service and only when it may be;
* security group: complete once a pass has succeeded, gone after a deletion;
* options: usable by the later phases, same subnet for the rules as for the load
  balancer;
* instances: a node stands for an instance of its own name, is removed when
  (and only when) the instance is gone, is tainted when it is shut off, and shows
  the instance's addresses;
* volumes: what a call returns was true at some moment of the call;
* host: a source of metadata that can be reached is used, the cache settles, an
  ID that was stored is not lost, and a device path leads to the volume that was
  asked for.

`PROJECT.json` lists the hazards line by line, with the properties that watch
them.

## 2. The modules

| Module | Models | Extends |
|---|---|---|
| `ServiceSpec` | the request of a pass and the pure decisions on it: listener protocol, create and update requests, members, rules | |
| `EdgeCloud` | the load balancer API (external): one load balancer, its listeners, pools, floating IPs, security group | `ServiceSpec` |
| `LbaasV2` | one Service and the passes of the worker, one action per request | `EdgeCloud` |
| `PassContract` | abstract: what the service controller relies on when it runs a pass | |
| `Passes` | two passes over one port side by side, with the retry loops, shown to implement `PassContract` | `EdgeCloud` |
| `ServiceOptions` | `resolveServiceOptions` and its effect over several passes | |
| `Instances` | instances, nodes, the three node loops (external) and the answers of `instances.go` | |
| `Volumes` | volumes, concurrent callers | |
| `Host` | the metadata cache and its sources, the instance ID, the device searches, concurrent callers | |
| `ServiceSpec_proofs`, `Passes_proofs`, `ServiceOptions_proofs`, `Instances_proofs`, `Volumes_proofs`, `Host_proofs` | theorems about the module of that name | that module |
| `LbaasV2_proofs`, `LbaasV2_resource_proofs` | theorems about listeners, pools and the progress of a pass; about members, floating IPs and the security group | `LbaasV2`; `LbaasV2_proofs` |
| `MCLbaasV2`, `MCPasses`, `MCServiceOptions`, `MCInstances`, `MCVolumes`, `MCHost` | the small instances for TLC | |

Definitions keep the names of the functions they model where there is one
function for one definition. A definition whose comment begins with *Fault* is a
wrong version of the definition after it; `PROJECT.json` pairs each with the
property that notices it. No specification uses one.

### LbaasV2

`desired`, `phase`, `ingress` and `dirty` are the Service object and its place
in the queue. `pc`, `waiting`, `todo`, `port`, `victim` and the variables `req`,
`existing`, `seen` and `addr` are the locals of the pass: its copy of the
Service, the listeners and pools it listed, the address it will publish. The
variables of `EdgeCloud` are what the API would show.

`EnsureLoadBalancer` is `StartEnsure`, `EnsureLB`, then the phases
`ListListeners` ... `ListenersDone` (`ensureLoadBalancerListeners`), `ListPools`
... `PoolsDone` (`ensureLoadBalancerPools`), `KeepMembers` ... `MembersDone`
(`reconcilePoolMembers`), `CleanPool` ... `CleanDone`
(`deleteObsoleteListenersAndPools`), `UseVip` ... `FloatingIPMissing`
(`EnsureFloatingIP`), `EnsureGroup` ... `NodesDone` (`ensureSecurityGroup`) and
`Publish`. `EnsureLoadBalancerDeleted` is `DeleteNothing` or `StartDelete` up to
`Finalize`. Loops over ports and listeners may take them in any order.

What can go wrong: `Abort` (an error or an expired wait at any request),
`Restart` (the process dies), `ReloadPanics` (see section 6), the load balancer in
ERROR (`CloudBreak`), the load balancer removed by an operator (`CloudLose`), and
every edit or deletion of the Service in the middle of a pass.

Assumptions about the cloud, all read off the waits and error branches of the
code: changes are rejected unless the load balancer is ACTIVE; a
`ListenerUpdate` has taken effect when the load balancer is ACTIVE again, while a
`PoolUpdate` is applied later (the code polls for it, `loadbalancer_pools.go:372`);
a deleted load balancer lets go of its floating IPs; a security group in use
cannot be deleted. A create that the cloud refuses for reasons of its own (for
instance because another listener has the port) is covered by `Abort`.

Simplifications: one timeout stands for the three; the retry of
`runLBOperationWithRetry` is one attempt that succeeds or fails, and there is one
pass at a time (both are in `Passes`); the load balancer is lost to an operator
only between passes; `UpdateLoadBalancer`, which calls `EnsureLoadBalancer` and
drops the status, is the same pass; a request that
is refused before anything is touched never starts a pass.

### Passes and PassContract

`PassContract` has two variables: the `result` of a pass (idle, running, ok,
error) and `holds`: since the pass began, the cloud has shown what it was asked
for. A pass succeeds only while `holds`; who else changes the cloud is left open;
and a pass that runs ends, or its process dies (`Die`).

`Passes` has two callers, the worker and the node sync, on the port `ThePort` of
one Service, each going from the listing of the listeners to the clean-up. `now`
is the Service with its nodes, `call[c].req` the copy a caller was handed,
`call[c].step`, `op` and `tries` its place in the pass and in the retry loop
(`before`, `act`, `after` for `runLBOperationWithRetry`, `pollWait`, `pollGet`
for `waitPoolMembersApplied`). `call[c].listener`, `pool` and `obsolete` are the
IDs a caller works with. The code goes on with an ID after the other pass has
deleted what it stood for, and a new listener under the same name has another ID,
so an ID stands for what is there (`live`, `bound`), for the pool whose listener
was deleted under it (`left`), or for something `gone`. A pass with an old copy
may create anew what the other has just deleted.

A mutation may be carried out and its answer lost (`Mutation(c, TRUE)`), every
request may fail (`RequestFails`), a listener that cannot be read back ends the
process with both passes (`Panic`), and the load balancer may go to ERROR. There
are three histories. `shown` is what the cloud has shown of the wanted things
since a call began. `stale` says that a pass with an old copy may have had the
last word, and `looked` which callers have since listed the listeners for the
latest Service: once such a caller has listed the pools too, it puts right what
the old copy did. `WorkerContract` and `SyncContract` instantiate `PassContract`
with the result of each caller and `holds <- Shown(c)`.

### Host

`call[c]` holds the locals of a caller: the sources still to be asked (`left`),
the metadata it read (`md`), the attempts of a device search (`tries`). The
config drive is mounted, read, unmounted and its directory removed in four steps,
the last two being the deferred calls. `os.Remove` succeeds only on an empty
directory that is not a mount point; a drive that is mounted there already cannot
be mounted again. A path is modelled by the bus address it leads to: by serial
the kernel shows where the volume is now, by metadata the caller knows where the
list says it is. `was` and `steady` are history: the addresses a volume had
during the call, and the sources the caller could have used throughout.

`localId` is the unlocked `localInstanceID`. A caller that finds no source reads
the instance-id file and stores what it says, which for a blank file is the empty
string, whatever another caller has stored meanwhile; a caller that returns while
a string is being written may return neither of the two (`TornId`). `blanked` is
history: the callers whose ID another caller has overwritten with the empty one.

### ServiceOptions

`cfg` and `svc` are inputs of `resolveServiceOptions`, `first` is the first node
of the list, from which the subnet is taken when nothing else names one. `vip`
is where the creating pass put the load balancer and the Service it put it there
for, `rules` the rules of the group, `pass` the options of the pass under way. An
annotation is unset, empty or has a value, and a Boolean annotation may be
something that is no Boolean. The user may edit everything, network, subnet and
class included: nothing in the code refuses that, and the load balancer stays
where it is. `Edits` bounds the edits of a run.

### Instances

`inst` is the cloud, `node` the Node objects, `call` what each of the loops
"init", "refresh" and "monitor" is doing. A loop takes a copy of a node
(`Ask`), gets an answer computed by the provider (`Answered`), and acts on it
(`Initialize`, `Refresh`, `RemoveNode`, `Taint`, `AskShutdown`); node and
instance may change in between. Networks are numbered in the order of their
names, which is the order `nodeAddresses` sorts them into; its two nested loops
are two recursive functions (the entries of a network in `CollectNetwork`, the
networks in `nodeAddresses`), each giving what has been collected after so many
rounds. The filter of the list request by instance name
is assumed to be exact, as `getInstanceByName` assumes.

### Volumes

A caller starts a request, reads the volume, decides (`Handler`), and sends a
second request, which may be rejected or be carried out with its answer lost.
`held` is a history variable: the attachments of the volume since the call began.

## 3. The runs

| Run | Expect | What it shows |
|---|---|---|
| `serve` | pass | Ports and nodes come and go, two ports share a listener, one has no node port; or one port goes through HTTP, TLS with two secrets, and timeouts set, changed, removed and malformed, with security groups not managed. Passes die anywhere. `SettledServed`, `MembersServed`, `NoOrphanPool`, `TeardownOrder`, `WantedKept`, and `RepeatHarmless`: a pass over a Service that has all it asks for changes nothing. |
| `address` | pass | External, internal, saved address, no subnet, malformed annotation, a node without a usable address, a port without a node port; the load balancer may break or be lost. `TypeOK`, `OneFloatingIP`, `SettledAddress`, `AddressStable`, `FloatingIPDestroyed`, `SettledGuarded`, `DeletionReleases`, `PassProgress`: no pass goes round in circles, and nobody gives a pass more to do; and `EventuallySettled`: when faults and edits stop, the queue drains, except for the dead ends that `DeadEnd` names. |
| `passes` | pass | Worker and node sync side by side, from the listing of the listeners to the clean-up, each with the IDs it has listed. `KeepsContract` and `PassesEnd` are the two halves of `PassContract`; `WrongOnlyIfStale`: at rest listener and pool are right and nothing is left over, unless a pass with an old copy wrote last; `OneLeft`: pools without a listener do not pile up; `PassesBounded`: a pass is over after at most `12 * Steps + 7` of its own steps; `EventuallyQuiet`: without faults both come to rest; `TypeOK`. |
| `nodes` | pass | Three instances, two with one name, recreated under three loops with stale copies, with interfaces in three networks. `TypeOK`, `OwnInstance`, `RemovedOnlyWhenGone`, `AddressesRight`, `EventuallyCurrent`, `EventuallyTainted`, `NewNodeRemoved`. |
| `vol` | pass | Two callers, one volume, two servers. `VerdictsTrue`, `ExpandedEnough`. |
| `options` | pass | All placements, classes and configs; nodes in different subnets; a placed Service moved to every other place and back. `VipPlaced`, `OptionsUsable`, and `FixedSubnetAdmitted`: the rules admit the load balancer whenever the Service it was created for and that of the pass fix the same subnet. |
| `host` | pass | Two callers that both ask for the instance's ID, with an instance-id file that was changed or is blank, two volumes that follow each other at one address, every valid search order, sources that fail and come back. `PathsRight`, `MountKept`, `ErrorsJustified`, `CacheFinal`, `EventuallyIdentified`, `TypeOK`. |
| `leak` | violation | `GoneReleased`, see section 6. |
| `late` | violation | `SettledMembers`. |
| `gone` | violation | `GoneNodeRemoved`. |
| `moving` | violation | `RulesAdmitLoadBalancer`. |
| `stale` | violation | `DevicePathRight`. |

Bounds, and why they are enough:

* `serve`: two port numbers, so that one port is kept while another comes or
  goes; two nodes, so that member sets can grow, shrink and differ; a port
  without node port and two ports for one listener. For the modes one port, and
  requests that reach each listener protocol a TCP port can have and each change
  within TLS (`ApiTimeout = 10` makes the API report a timeout nobody set, and
  one request asks for the same value). `Edits` keeps the two families apart: a
  Service changes its ports or its modes; security groups are managed in the
  first family and not in the second, since the option is the config's.
* `address`: two addresses, so that a second floating IP could be created; two
  nodes, one of which can carry the group, and a third without an address;
  without use-octavia, so that the group is not taken off the instances before it
  is deleted. The two Services whose port or node fails every pass
  exist from the start, and may be edited to a plain one.
* `passes`: two node sets with different timeouts, and a Service in which another
  port has taken the place of this one. Two changes (`MaxChanges`) take the port
  away and bring it back, so that either pass is overtaken, with an old copy on
  either side; two attempts (`Steps`), so that a loop has a first and a last one.
* `nodes`: the third instance belongs to another node, so that one could take
  the other's instance. `AddressesRight` looks at every list of at most two
  interfaces per network (`MaxPorts = 2`), with the same address in two networks;
  one interface is plugged in while the loops run.
* `vol`: sizes up to 3 GiB of 2 bytes, so that there are sizes that are
  multiples and sizes that are not. Two callers are enough for every race between
  a read and the request that follows it.
* `options`: two configs that name everything or nothing, one without
  use-octavia and without managed groups; three nodes, one of which has a subnet
  that is not found. Edits are between Services that can be placed, in every
  direction (`MCMoves`), with one port or two; `moving` needs none of these: only
  the ports change there, and whether the Service is internal (`MCPortEdits`).
* `host`: three changes of the surroundings (`MaxEvents`) are enough for a volume
  to be replaced by another under a filled cache, and for each source to come and
  go once; two attempts (`Steps`) of a device search. Two callers are enough for
  every conflict about the cache, which each fills once, about the directory, and
  about the stored ID, which one stores and the other overwrites.

Deadlock is checked in all runs but those of `Instances`, where it is no error
that nothing happens any more once every instance has been created and destroyed
and no node is left, and that of `Passes`, where both controllers rest once the
changes are used up.

## 4. Fairness

`LbaasV2!FairSpec`: the worker goroutine goes on whenever it can (`WorkerStep`),
and the cloud finishes what it has accepted. Nothing is assumed of faults, edits
or operators: `EventuallySettled` says that they go on for ever or the Service
comes to rest, or is a dead end. A fault ends a pass just as an error does that
the code returns by itself, and the two steps may look alike; such a step counts
as the code's (`Fault /\ ~WorkerStep` is the fault that is excused), so a Service
that fails for ever without a fault is not excused. That a failed pass is
followed by another is the rate-limited queue of the service controller.

`Passes!FairSpec`: each of the two goroutines goes on, and the cloud finishes
what it has accepted. `PassesEnd` holds although requests may fail for ever;
`EventuallyQuiet` excuses faults that never end, in the same way, and a load
balancer in ERROR.

`Host!FairSpec`: each caller goes on. `EventuallyIdentified` is about callers that
ask again and again and a source that stays within reach.

`Instances!FairSpec`: the loops come round to every node again and again
(strong fairness of `Ask`: the loops are periodic over all nodes), requests do
not fail for ever (strong fairness of `Answered`), what a loop has begun it
finishes, and the heartbeats of a node that does not run stop. Nothing is
assumed about what users do with instances.

## 5. The proofs

Every theorem holds for all values of the constants that satisfy the named
assumptions of its modules. These say what the sets and functions are made of,
that special values are special, and that counts are natural numbers
(`NodesFinite`, `AddressTypes`, `DistinctAddresses`, `SpecialTimeouts`,
`CloudConstants`, `ProviderConstants`, `PassesConstants`, `OptionsConstants`,
`NamedFloatingNets`, `InstancesConstants`, `NoNodeIsNone`, `VolumesConstants`,
`HostConstants`). So the bounds of section 3, on nodes, ports, addresses,
callers, attempts or changes, play no part in what follows. `DistinctAddresses`
is a fact about clusters: no two nodes have one address. Each argument has the
same form: an invariant that every step keeps, and that implies the property.
TLC has checked each of these invariants on the instances of the runs.

| Module | Theorems |
|---|---|
| `ServiceSpec_proofs` | `MembersChangedIsDifference`: counting and looking up, as `membersChanged` does, decides whether two finite sets of members differ |
| `LbaasV2_proofs` | `TypeCorrect` (`TypeOK`), `ServedWhenSettled` (`SettledServed`), `PoolsHaveListeners` (`NoOrphanPool`), `LoadBalancerGoesLast` (`TeardownOrder`), `PassesProgress` (`PassProgress`) |
| `LbaasV2_resource_proofs` | `NeverTwoFloatingIPs` (`OneFloatingIP`), `PublishedIsAttached` (`SettledAddress`), `FloatingIPStays` (`AddressStable`), `DestroyedOnlyWithService` (`FloatingIPDestroyed`), `GuardedWhenSettled` (`SettledGuarded`), `ReleasedBeforeFloatingIP` (`DeletionReleases`), `MembersServedAlways` (`MembersServed`), `ServedPortsStay` (`WantedKept`), `RepeatedPassHarmless` (`RepeatHarmless`) |
| `Passes_proofs` | `TypeCorrect` (`TypeOK`), `ContractKept` (`KeepsContract`), `OneLeftAtMost` (`OneLeft`), `RightUnlessStale` (`WrongOnlyIfStale`), `PassesAreBounded` (`PassesBounded`) |
| `ServiceOptions_proofs` | `AlwaysPlaced` (`VipPlaced`), `AlwaysUsable` (`OptionsUsable`), `FixedSubnetAlwaysAdmitted` (`FixedSubnetAdmitted`) |
| `Instances_proofs` | `AlwaysOwnInstance` (`OwnInstance`), `NeverRemovedTooSoon` (`RemovedOnlyWhenGone`), `AddressesAlwaysRight` (`AddressesRight`), `TypeCorrect` (`TypeOK`) |
| `Volumes_proofs` | `VerdictsAlwaysTrue` (`VerdictsTrue`), `ExpandedAlwaysEnough` (`ExpandedEnough`) |
| `Host_proofs` | `TypeCorrect` (`TypeOK`), `PathsAlwaysRight` (`PathsRight`), `MountAlwaysKept` (`MountKept`), `ErrorsAlwaysJustified` (`ErrorsJustified`), `CacheStaysFinal` (`CacheFinal`) |

### LbaasV2: listeners and pools

`SettledServed` speaks of the time between passes, so it is not inductive: when
`Publish` ends a pass, what the pass has established must be known. The inductive
invariant `CoreInv` follows the pass:

* `ListenersInv`: since the listing, every listener was listed or is wanted;
  ports already handled have a listener that serves them. The listing may be
  stale, so this is the point of the argument: nothing but the pass itself adds
  a listener, and the only ones it adds are wanted. It lets `CleanDone`, which
  looks only at what was listed, conclude about what is there.
* `PoolsInv`: the same for pools; a wanted pool that was listed is still there.
* `TodoInv`: the loops run over the ports of the request.
* `ForwardInv`: outside TLS, X-Forwarded-For is a matter of the listener's
  protocol, so an existing listener needs no update for it.
* `CopyInv`: unless the Service is queued again, the pass works on its current
  version. Together with `ShapeInv` (after the clean-up the request is served)
  this gives `SettledServed` at `Publish`.
* `DeletionInv`: the deletion has listed every listener, hence `TeardownOrder`.

One lemma per phase shows that its steps keep `CoreInv`, `CoreInductive` puts
them together, and `CoreInvariant` is `Spec => []CoreInv`.

### LbaasV2: progress

`PassProgress` is what remains of "every pass ends" without fairness. A pass has
a rank: its `Stage`, the work its loop has left (`WorkLeft`: ports to handle,
listeners and pools to delete, rules to add, nodes to put the group on or take it
off) and the steps left of the present round (`RoundSteps`). A step of a pass
that does not end it goes to a later stage, or takes something off the work, or
shortens the round with the work unchanged; a step of the cloud or the user
leaves the rank alone. A Service has finitely many ports and a cluster finitely
many nodes, so a pass cannot go on for ever by itself. The work shrinks for good
only if each round is about something still to be done, which is the invariant
`RoundInv`: the port that is reloaded or polled is in `todo`, and the listener
under deletion is there. Then there is one case per action (`EnsureAdvances`,
`DeleteAdvances`, `FaultAdvances`, `OthersKeepRank`).

### LbaasV2: address, group, members

`ResourceInv` has three parts. `LifeInv` is about the load balancer itself: no
pass of `EnsureLoadBalancer` runs on one that is under deletion, and one that is
gone has no floating IP. Without it the floating IP could be taken off in the
middle of a pass. `AddressInv` then says that at most one is attached, that it
is the published one once there is one, and that the address a pass carries from
`EnsureFloatingIP` to `Publish` is still the attached one. `GroupInv` follows the
group through `ensureSecurityGroup`: rules first, then nodes, and nothing is
taken away on the way; in a deletion, gone before the floating IP is looked at.
`AddressStable` and `FloatingIPDestroyed` are action properties and follow from
`ResourceInv`, step by step.

`MembersServed` needs `MembersInv`: the pool of a port is as listed or created
until its turn comes, then asked for the members of the request, then full of
them. That the pool is as listed holds only because no update was under way
when it was (`Stray` names the other pools), which is where the finding `late`
comes from. `WantedKept` needs only the types: the clean-up's victims are not
wanted by their definition.

`RepeatHarmless` is the idempotence of a pass. Where everything is in place, a
request that the pass sends all the same, because its listing is old or because
`updateListenerIfNeeded` compares a timeout that nobody asked for, puts back what
is there (`UpdateIdle`, `FullyServedFacts`); creating and deleting need something
missing or unwanted. It needs `TodoInv` (the ports handled are the request's),
`GroupInv` (the rules are looked at only for managed groups) and `LifeInv` (no
load balancer disappears under the pass, taking the floating IP off).

### Passes

`ContractKept` is the refinement: both passes implement the safety part of
`PassContract` under the mapping `result <- Result(c)`, `holds <- Shown(c)`.
Initial states map to initial states, and every step of the worker, of the sync,
of the cloud or of the user to a step of the contract or to a stutter, for either
caller. The invariant `IInv` adds to the types:

* `PoolsInv`: member sets are finite (so that counting compares them), and a
  bound pool has its listener;
* `CallInv`: the IDs and the operation of a call fit its place in the pass and
  its request;
* `IDsInv`: what a caller calls by an ID that is not `gone` is there. A caller
  that is about to delete the listener has every pool that was left among its
  own, or there is none; hence `OneLeft`;
* `SeenInv` and `ShownInv`: what the cloud has shown a call by the time it is
  where it is. A pass that has come past the listener has seen it, one that has
  come past the members has seen them, and one that waits after the deletion has
  seen the listener absent. This is what survives when the other pass creates or
  deletes the listener meanwhile, and it is all that a success says.

`WrongOnlyIfStale` is about both controllers at rest; while they are not, it must
be known who will put things right. `LatestInv` says that, as long as nothing is
suspect, an update under way has the members of the latest request (`Orderly`),
and listener and pool are `Right` or some caller `WillCorrect` them: it is due,
has failed (and will be due), or works with the latest request and what it has
yet to do is `Effective`. The last is not a matter of course: a pass that has
come to the listener no longer looks at the pool, so the pool has to be gone, and
a pass that no longer has the right ID fails and runs again. What a pass with an
old copy did is forgiven when a caller in `looked` lists the pools, since from
there on that caller is `Effective`. Steps that change neither what is there nor
who will act (`Gentle`) are dealt with once.

`PassesBounded` puts a number on the retry loops. `StepsLeft` counts the steps a
pass can still take: three for each attempt left, a whole loop for each yet to
come (at most four: three pools of different IDs and the listener, or the update
and its poll), and the steps between them; every step of the pass, a failing one
too, makes it smaller (`OwnStepAdvances`), and nothing else touches it
(`OthersStepsLeft`).

### ServiceOptions

`FixedSubnetAdmitted` compares a load balancer that an earlier pass placed with
the rules of the present one. The invariant says that the load balancer is in the
subnet that config, annotation and class fixed for the Service it was created
for, and the options of the pass in the one they fix for its own; whatever was
edited in between, the two agree when the fixed subnets do. The finding `moving`
is what happens when nothing fixes one, or an edit does. The other two are
consequences of `ResolvedOptions`, a lemma about `resolveServiceOptions` for
every Service it does not refuse.

### Instances

The invariant follows an identity from the cloud through the copy of the node,
the request and the reply to the node: at each place it is one of the node's own
name, though instances come and go and the copies are old. For
`RemovedOnlyWhenGone`, `BehindOK` says that the instances behind a monitored node
have existed; since an ID is not used twice, none of them can appear after the
list by name was empty.

`AddressesRight` is about a computation. The proof follows the two loops of
`nodeAddresses`: `EntryLoopExists` and `NetworkLoopExists` show that the recursive
functions are what their equations say, and `CollectNetworkGathers` and
`NetworkLoopGathers` that after each round the list has exactly the addresses
met so far, none twice, and in the order of the networks. Both are inductions
over the rounds. The library's induction theorems take an operator and cannot be
used, so they are done by the least counterexample (`LeastNatural`, from the
first-order theorem on minimal elements of a well-founded relation): the first
round where the claim fails is not round 0, so the round before satisfies it, and
one more round of the loop keeps it. `TypeCorrect` follows, since the addresses
of a node are results of `nodeAddresses`.

### Volumes

A volume is attached exactly when it is in use, does not shrink and does not come
back; a call under way has the present attachment in its history, and what it has
been told is true by that history (`ToldTrue`). `RoundedUp` is the arithmetic
behind `ExpandedEnough`, for every number of bytes and every unit.

### Host

The invariant says where each kind of call may be and what it knows there
(`CallOK`), and that the sources of the search order that were within reach all
along are among those still to be asked (`SourcesOK`). `MountKept` is a part of
it: whoever reads or unmounts has mounted the drive, and a drive that is mounted
cannot be mounted again, which is what keeps callers apart without a lock.

`ErrorsJustified` also says where an empty ID comes from. `BlanksOK` follows it: a
caller that is about to return the stored ID has either itself found every source
out of reach, or the stored ID is not empty or was overwritten during its call,
and only a blank file ever puts an empty one there.

### What is only model-checked

Liveness (`EventuallySettled`, `PassesEnd`, `EventuallyQuiet`,
`EventuallyCurrent`, `EventuallyTainted`, `NewNodeRemoved`,
`EventuallyIdentified`): fairness and `ENABLED` are outside the prover. Of the
first two the safety half is proved, `PassProgress` and `PassesBounded`: no pass
can take infinitely many steps. What is left to TLC is that the next step is
always possible and taken, and that the pass after a failed one gets further.

## 6. Where code and text differ

Shown by a run (details in `PROJECT.json`):

* `leak`: a deletion that ends while it waits for the load balancer to go, or in
  the security group step, is repeated, finds no load balancer, and reports
  success (`loadbalancer.go:557`) with floating IP and group left over.
* `late`: a member update of an aborted pass that is applied after the next pass
  has listed the pools leaves the old members for good
  (`loadbalancer_pools.go:137`).
* `gone`: an initialized node whose instance is gone is never removed, since the
  API's not-found error is none of those `InstanceExists` looks for
  (`instances.go:246`).
* `moving`: without a configured subnet each pass takes that of the first node,
  and the rules may be for another subnet than the load balancer's
  (`loadbalancer.go:202`). An edit of subnet-id or of the class does the same:
  `src/README.md:28` and `:30` say that it does not move an existing VIP, and the
  rules follow the edit.
* `stale`: `getDevicePathFromInstanceMetadata` hands `metadata.Get` a metadata
  version where the search order is expected (`volumes.go:420`). With an empty
  cache the look-up always fails; with a filled one it uses the device list of
  that moment, and may return the path of a volume that has taken the address.

Met on the way, in the models as the code has them, without a run of their own:

* When `getListenerByID` fails, `loadbalancer_listeners.go:55` reads the ID of
  the nil listener and panics (`ReloadPanics`).
* X-Forwarded-For switched on a TLS listener changes nothing
  (`loadbalancer_listeners.go:153`), though `src/README.md:34` says it triggers
  recreation; `ListenerServes` leaves it out under TLS.
* A TCP and an SCTP port of one number share a listener and a pool
  (`loadbalancer_listeners.go:118`); `MembersServed` is stated for requests
  without such ports.
* `DisksAreAttached` reports a volume that is gone as attached
  (`volumes.go:524`; `getVolume` never returns the error it looks for);
  `VerdictsTrue` says so.
* `readInstanceID` returns an empty ID without an error when the instance-id file
  is blank or says "iid-datasource-none" (`edgecenter.go:317`: the error of
  `metadata.Get` has been overwritten). `InstanceID` then stores the empty string
  over what another caller has stored (`instances.go:130`), and that caller returns
  an empty ID although its source was within reach; `ErrorsJustified` says so.
* A pass with an old copy creates the listener of a removed port anew
  (`loadbalancer_listeners.go:39`), while the pass that removed it reports
  success: so a pass can promise only that the cloud has shown what it was asked
  for (`PassContract`), and the port may stay served until the next pass
  (`WrongOnlyIfStale`).
* A failed attempt to mount the config drive removes an empty temporary directory
  (`src/internal/util/metadata/metadata.go:165`); `EventuallyIdentified` counts a
  drive without the directory as out of reach.
* `getNodeInstanceID` takes the last segment of any providerID for the instance
  ID (`instances.go:303`), though its comment says that an invalid one falls back
  to the name; `instanceByNode` refuses such a providerID.
* A Service whose load balancer is in ERROR with listeners on it cannot be
  deleted; an internal Service made external never gets its address; one node
  without a usable address (`loadbalancer_pools.go:108`) or one port without a
  node port (`loadbalancer_pools.go:124`) fails every pass for the whole Service.
  All are dead ends of `EventuallySettled`.
* A listener for which no timeout was asked, when the API reports one, is updated
  in every pass, without effect (`loadbalancer_listeners.go:158`: nil is compared
  with the reported value); `RepeatHarmless` says "without effect".
* With a class, the internal annotation is not read (`loadbalancer.go:242`).
* `src/docs/service-annotations.md:54` offers proxy-protocol "v1" and "v2", which
  are refused as no Booleans, and line 47 a keep-floatingip annotation that no
  code reads.

## 7. Not modelled

Zones by node (stateless look-ups), routes (stubs), the helpers of the mount
package and block devices (single calls of the operating system), `ScanForAttach`
(the rescan that `Probe` models, for a given path), metrics (read by no
decision), most of the configuration and the command (straight-line code),
`updateSecurityGroup` and the member-by-member functions of the pools (nobody
calls them), the older by-name and by-providerID methods of `Instances` (the
controllers use `InstancesV2`, which the provider offers), labels, flavors,
balancing methods, session affinity, health monitors (passed through to the API).

Two Services whose names are equal after they are cut to 63 characters
(`loadbalancer.go:506`) would work on one load balancer; the models have one
Service.

## 8. Plan

Done: `ServiceSpec`, `EdgeCloud`, `LbaasV2` with its liveness; `Passes` as an
implementation of `PassContract`; `Instances`, `Volumes`, `ServiceOptions`, `Host`.
All safety properties of the passing runs are proved, and so is the safety core
of the liveness of a pass.

Next: lemmas about the rest of `ServiceSpec` (which listener updates and rules
follow from which requests), and measures for the calls of `Host` and `Volumes`.
