------------------------------- MODULE Passes -------------------------------
(***************************************************************************)
(* Two passes over one port of a Service, side by side: the work queue's   *)
(* worker (EnsureLoadBalancer) and the node sync (UpdateLoadBalancer, which*)
(* is the same code).  Nothing keeps them apart, and each works on the     *)
(* copy of the Service and of the node list that it was handed.            *)
(*                                                                         *)
(* A pass on an existing load balancer, request by request: list the       *)
(* listeners, create or update the port's and read it back; list the pools,*)
(* create the one that is missing; update the members and wait for them;   *)
(* delete what was listed and is not used, pools before listeners.         *)
(* What a pass has listed or created it goes on calling by its ID, whatever*)
(* the other pass has deleted or created anew meanwhile.  The mutations of *)
(* the last two phases go through runLBOperationWithRetry: wait for ACTIVE,*)
(* act, wait for ACTIVE again; a failed wait or an "immutable" answer is   *)
(* another attempt, also when the mutation has been carried out, and any   *)
(* other error ends the pass.                                              *)
(*                                                                         *)
(* The cloud is the one of EdgeCloud, and a pool whose listener is deleted *)
(* under it stays behind.  A pass without nodes or without ports is        *)
(* refused before it gets here; the other ports of the Service, on other   *)
(* listeners, are left out.                                                *)
(***************************************************************************)
EXTENDS EdgeCloud

CONSTANTS
    Specs,       \* what the Service and its node list can be
    ThePort,     \* the port the passes work on
    Steps,       \* attempts of a retry loop (6 in the code)
    MaxChanges   \* bound: changes of the Service and of the node list

TheKey == <<IF ThePort.proto = "UDP" THEN "UDP" ELSE "TCP", ThePort.port>>

ASSUME PassesConstants ==
    /\ Specs \subseteq Request /\ ThePort \in Port
    /\ \A s \in Specs : s.secret = NoSecret /\ ~s.keepClientIP /\ Accepted(s) /\ NodesAddressable(s)
    /\ ThePort.nodePort # 0
    /\ Steps \in Nat \ {0} /\ MaxChanges \in Nat

Callers == {"worker", "sync"}

VARIABLES
    left,     \* the pool whose listener was deleted under it, or NoPool
    now,      \* the Service and its nodes
    changes,  \* how often they have changed
    due,      \* the callers that have to run (again)
    call,     \* what each caller is doing
    stale,    \* history: a pass with an old copy may have had the last word
    looked,   \* history: callers that listed the listeners since the last change,
              \* and since an old copy wrote
    shown     \* history: what the cloud has shown since each call began

cloud == <<cloudVars, left>>
history == <<stale, looked, shown>>
vars == <<cloud, now, changes, due, call, history>>

(* What the IDs a caller holds stand for by now: its listener, the pool it *)
(* works on and the obsolete pools it still has to delete.  IDs are not    *)
(* used twice, so what is gone stays gone.                                 *)
ListenerIDs == {"none", "live", "gone"}
PoolIDs == {"bound", "left", "gone"}

Calls ==
    [ step : {"idle", "list", "create", "update", "settle", "reload", "pools", "createPool", "members",
              "before", "act", "after", "pollWait", "pollGet", "ok", "error"},
      req : Specs, op : {"none", "update", "deletePool", "deleteListener"}, tries : 0 .. Steps - 1,
      listener : ListenerIDs, pool : PoolIDs \cup {"none"}, obsolete : SUBSET PoolIDs ]

Facts == {"listener", "members", "absent"}

TypeOK ==
    /\ CloudTypeOK /\ left \in Pool \cup {NoPool}
    /\ now \in Specs /\ changes \in 0 .. MaxChanges
    /\ due \subseteq Callers /\ call \in [Callers -> Calls]
    /\ stale \in BOOLEAN /\ looked \subseteq Callers /\ shown \in [Callers -> SUBSET Facts]

Asked(s) == ThePort \in s.ports
Desired(c) == DesiredMembers(call[c].req, ThePort)
InCall(c) == call[c].step \notin {"idle", "ok", "error"}
Old(c) == InCall(c) /\ call[c].req # now

Idle(s) ==
    [ step |-> "idle", req |-> s, op |-> "none", tries |-> 0,
      listener |-> "none", pool |-> "none", obsolete |-> {} ]

Init ==
    /\ now \in {s \in Specs : Asked(s)}
    /\ lb = "ACTIVE" /\ left = NoPool
    /\ listeners = [k \in Keys |-> IF k = TheKey THEN buildListenerCreateRequest(now) ELSE NoListener]
    /\ pools = [k \in Keys |-> IF k = TheKey
                               THEN [members |-> DesiredMembers(now, ThePort), target |-> DesiredMembers(now, ThePort)]
                               ELSE NoPool]
    /\ fips = [a \in FipAddrs |-> "absent"] /\ sg = NoGroup
    /\ changes = 0 /\ due = {} /\ stale = FALSE /\ looked = {}
    /\ call = [c \in Callers |-> Idle(now)] /\ shown = [c \in Callers |-> {}]

-----------------------------------------------------------------------------
(* The cloud, as far as EdgeCloud leaves it open: what becomes of the pool *)
(* of a deleted listener, and what the callers' IDs then stand for.        *)

ThePool(id) == CASE id = "bound" -> pools[TheKey] [] id = "left" -> left [] OTHER -> NoPool

DropListener ==
    /\ lb' = "PENDING_UPDATE"
    /\ listeners' = [listeners EXCEPT ![TheKey] = NoListener]
    /\ pools' = [pools EXCEPT ![TheKey] = NoPool]
    /\ left' = IF HasPool(TheKey) THEN pools[TheKey] ELSE left
    /\ UNCHANGED <<fips, sg>>

DropPool(id) ==
    \/ id = "bound" /\ HasPool(TheKey) /\ PutPool(TheKey, NoPool) /\ UNCHANGED left
    \/ id = "left" /\ left # NoPool /\ left' = NoPool
         /\ lb' = "PENDING_UPDATE" /\ UNCHANGED <<listeners, pools, fips, sg>>

SetMembers(id, members) ==
    \/ id = "bound" /\ PoolUpdate(TheKey, members) /\ UNCHANGED left
    \/ id = "left" /\ left # NoPool /\ left' = [left EXCEPT !.target = members]
         /\ UNCHANGED cloudVars

(* The IDs of a call after its pool, or the listener, was deleted.         *)
WithoutPool(k, id) ==
    [k EXCEPT !.pool = IF @ = id THEN "gone" ELSE @,
              !.obsolete = {IF p = id THEN "gone" ELSE p : p \in @}]
WithoutListener(k) ==
    [k EXCEPT !.listener = IF @ = "live" THEN "gone" ELSE @,
              !.pool = IF @ = "bound" THEN "left" ELSE @,
              !.obsolete = {IF p = "bound" THEN "left" ELSE p : p \in @}]

-----------------------------------------------------------------------------
(* Moving on in a call.                                                    *)

Goto(c, step) == call' = [call EXCEPT ![c].step = step]

End(k, result) == [Idle(k.req) EXCEPT !.step = result]
Fail(c) == call' = [call EXCEPT ![c] = End(call[c], "error")]

(* Fault: the attempts are not counted.                                    *)
NextTryForever(c, step) == call' = [call EXCEPT ![c].step = step]

(* Fault: one attempt too many.                                            *)
NextTryLate(c, step) ==
    call' = IF call[c].tries < Steps
            THEN [call EXCEPT ![c].step = step, ![c].tries = @ + 1]
            ELSE [call EXCEPT ![c] = End(call[c], "error")]

(* One more attempt, from the loop's first step, or the end of the pass.   *)
NextTry(c, step) ==
    call' = IF call[c].tries + 1 < Steps
            THEN [call EXCEPT ![c].step = step, ![c].tries = @ + 1]
            ELSE [call EXCEPT ![c] = End(call[c], "error")]

(* The attempts of a loop are counted from the start of the loop.          *)
Operate(k, op) == [k EXCEPT !.step = "before", !.op = op, !.tries = 0]

(* Fault: the listener goes first.                                         *)
ListenerFirst(k) ==
    IF ~Asked(k.req) /\ k.listener # "none" /\ k.op # "deleteListener" THEN {Operate(k, "deleteListener")}
    ELSE IF k.obsolete # {}
    THEN {Operate([k EXCEPT !.pool = p, !.obsolete = @ \ {p}], "deletePool") : p \in k.obsolete}
    ELSE {End(k, "ok")}

(* deleteObsoleteListenersAndPools: what is left to do after the members   *)
(* phase, or after a deletion.                                             *)
CleanUp(k) ==
    IF k.obsolete # {}
    THEN {Operate([k EXCEPT !.pool = p, !.obsolete = @ \ {p}], "deletePool") : p \in k.obsolete}
    ELSE IF ~Asked(k.req) /\ k.listener # "none" /\ k.op # "deleteListener"
    THEN {Operate(k, "deleteListener")}
    ELSE {End(k, "ok")}

(* A mutation was carried out.  The answer comes back, or it is lost: then *)
(* it has failed for the caller, and so has a check of what it did.        *)
Answer(c, k, lost) == call' = [call EXCEPT ![c] = IF lost THEN End(call[c], "error") ELSE k]

Continue(c, ks) == \E k \in ks : call' = [call EXCEPT ![c] = k]

(* What the cloud shows of the things c was asked for, and, kept for the   *)
(* contract, what it has shown since the call began.                       *)
Listed == {id \in PoolIDs : ThePool(id) # NoPool}
Seen(c) ==
    IF Asked(call[c].req)
    THEN (IF HasListener(TheKey) THEN {"listener"} ELSE {})
         \cup (IF \E id \in Listed : ThePool(id).members = Desired(c) THEN {"members"} ELSE {})
    ELSE IF HasListener(TheKey) THEN {} ELSE {"absent"}

Remember ==
    shown' = [c \in Callers |-> IF call'[c].step \in {"idle", "error"} THEN {} ELSE shown[c] \cup Seen(c)']

(* A mutation asked for by a pass with an old copy makes the cloud suspect.*)
Mutates(c) ==
    /\ stale' = (stale \/ Old(c)) /\ looked' = IF Old(c) THEN {} ELSE looked
    /\ UNCHANGED <<now, changes, due>> /\ Remember

Looks == UNCHANGED <<cloud, now, changes, due, stale, looked>> /\ Remember

(* The load balancer has become ACTIVE in time, or is when it has to be.   *)
Active(c, step) == call[c].step = step /\ lb = "ACTIVE"

-----------------------------------------------------------------------------
(* The listeners phase.                                                    *)

(* The controller hands the provider a copy of what there is now.          *)
Start(c) ==
    /\ c \in due /\ call[c].step = "idle"
    /\ call' = [call EXCEPT ![c] = [Idle(now) EXCEPT !.step = "list"]]
    /\ due' = due \ {c}
    /\ UNCHANGED <<cloud, now, changes, stale, looked>> /\ Remember

(* Fault: no listener that is listed counts as the port's.                 *)
ListedInVain(c) ==
    /\ Active(c, "list")
    /\ call' = [call EXCEPT ![c].step = IF Asked(call[c].req) THEN "create" ELSE "pools",
                           ![c].listener = IF HasListener(TheKey) THEN "live" ELSE "none"]
    /\ UNCHANGED <<cloud, now, changes, due, stale, looked>> /\ Remember

(* findListenerForServicePort finds the port's listener, or it is created. *)
ListListeners(c) ==
    /\ Active(c, "list")
    /\ LET found == IF HasListener(TheKey) THEN "live" ELSE "none"
           next == CASE ~Asked(call[c].req) -> "pools"
                     [] Asked(call[c].req) /\ ~HasListener(TheKey) -> "create"
                     [] OTHER -> IF ListenerNeedsUpdate(listeners[TheKey], call[c].req)
                                 THEN "update" ELSE "reload"
       IN  call' = [call EXCEPT ![c].step = next, ![c].listener = found]
    /\ looked' = IF call[c].req = now THEN looked \cup {c} ELSE looked \ {c}
    /\ UNCHANGED <<cloud, now, changes, due, stale>> /\ Remember

CreateListener(c, lost) ==
    /\ Active(c, "create") /\ AcceptsListener(TheKey)
    /\ PutListener(TheKey, buildListenerCreateRequest(call[c].req)) /\ UNCHANGED left
    /\ Answer(c, [call[c] EXCEPT !.step = "settle", !.listener = "live"], lost)
    /\ Mutates(c)

UpdateListener(c, lost) ==
    /\ Active(c, "update") /\ call[c].listener = "live"
    /\ PutListener(TheKey, UpdatedListener(listeners[TheKey], call[c].req)) /\ UNCHANGED left
    /\ Answer(c, [call[c] EXCEPT !.step = "settle"], lost)
    /\ Mutates(c)

(* Another pass has created or deleted the listener, or the load balancer  *)
(* is immutable: outside a retry loop that is the end of the pass.         *)
ListenerRejected(c) ==
    /\ \/ call[c].step = "create" /\ ~AcceptsListener(TheKey)
       \/ call[c].step = "update" /\ (lb # "ACTIVE" \/ call[c].listener = "gone")
    /\ Fail(c)
    /\ Looks

Settled(c) ==
    /\ Active(c, "settle")
    /\ Goto(c, "reload")
    /\ Looks

Reload(c) ==
    /\ call[c].step = "reload" /\ call[c].listener = "live"
    /\ Goto(c, "pools")
    /\ Looks

(* A listener that cannot be read back is nil, and the error message reads *)
(* its ID: the process dies with both passes, and every Service is queued. *)
Panic ==
    /\ call' = [c \in Callers |-> Idle(call[c].req)]
    /\ due' = Callers /\ looked' = {}
    /\ UNCHANGED <<cloud, now, changes, stale>> /\ Remember

ReloadPanics(c) ==
    /\ call[c].step = "reload" /\ call[c].listener = "gone"
    /\ Panic

-----------------------------------------------------------------------------
(* The pools phase.                                                        *)

(* What a pass with the latest request has listed, in both phases after    *)
(* the last write of an older one, it brings in order.                     *)
Clears(c) == c \in looked /\ ~UpdatePending(TheKey)

(* The pool of the listener is the one that refers to its ID.              *)
ListPools(c) ==
    /\ Active(c, "pools")
    /\ LET mine == IF Asked(call[c].req) /\ call[c].listener = "live" THEN Listed \cap {"bound"} ELSE {}
           k == [call[c] EXCEPT !.obsolete = Listed \ mine]
       IN  call' = [call EXCEPT ![c] =
             IF Asked(k.req) /\ mine = {} THEN [k EXCEPT !.step = "createPool"]
             ELSE [k EXCEPT !.step = "members",
                            !.pool = IF mine = {} THEN "none" ELSE "bound",
                            !.op = IF mine # {} /\ membersChanged(pools[TheKey].members, Desired(c))
                                   THEN "update" ELSE "none"]]
    /\ stale' = (stale /\ ~Clears(c)) /\ looked' = looked \ {c}
    /\ UNCHANGED <<cloud, now, changes, due>> /\ Remember

CreatePool(c, lost) ==
    /\ Active(c, "createPool") /\ call[c].listener = "live" /\ AcceptsPool(TheKey)
    /\ PutPool(TheKey, [members |-> {}, target |-> {}]) /\ UNCHANGED left
    /\ Answer(c, [call[c] EXCEPT !.step = "members", !.pool = "bound",
                                 !.op = IF membersChanged({}, Desired(c)) THEN "update" ELSE "none"],
              lost)
    /\ Mutates(c)

PoolRejected(c) ==
    /\ call[c].step = "createPool" /\ ~(call[c].listener = "live" /\ AcceptsPool(TheKey))
    /\ Fail(c)
    /\ Looks

(* The members phase, and what follows it when there is nothing to update. *)
Members(c) ==
    /\ Active(c, "members")
    /\ Continue(c, IF call[c].op = "update" THEN {Operate(call[c], "update")} ELSE CleanUp(call[c]))
    /\ Looks

(* The load balancer is not ACTIVE in time, or in ERROR.                   *)
WaitFails(c) ==
    /\ call[c].step \in {"list", "settle", "pools", "members"} /\ lb # "ACTIVE"
    /\ Fail(c)
    /\ Looks

-----------------------------------------------------------------------------
(* runLBOperationWithRetry.                                                *)

AwaitBefore(c) ==
    /\ Active(c, "before")
    /\ Goto(c, "act")
    /\ Looks

(* The operation is carried out on what the pass has the ID of.            *)
Carried(c) ==
    \/ call[c].op = "update" /\ SetMembers(call[c].pool, Desired(c))
    \/ call[c].op = "deletePool" /\ DropPool(call[c].pool)
    \/ call[c].op = "deleteListener" /\ call[c].listener = "live" /\ DropListener

(* What the IDs of a call stand for after the operation of c.              *)
After(c, k) ==
    CASE call[c].op = "deletePool" -> WithoutPool(k, call[c].pool)
      [] call[c].op = "deleteListener" -> WithoutListener(k)
      [] OTHER -> k

Operation(c, lost) ==
    /\ Active(c, "act") /\ Carried(c)
    /\ call' = [d \in Callers |->
         IF d # c THEN After(c, call[d])
         ELSE IF lost THEN End(call[c], "error") ELSE [After(c, call[c]) EXCEPT !.step = "after"]]
    /\ Mutates(c)

(* isLoadBalancerImmutableError.                                           *)
OperationImmutable(c) ==
    /\ call[c].step = "act" /\ lb # "ACTIVE"
    /\ NextTry(c, "before")
    /\ Looks

(* What an earlier attempt, or another pass, has deleted is not found.     *)
OperationRejected(c) ==
    /\ Active(c, "act")
    /\ IF call[c].op = "deleteListener" THEN call[c].listener = "gone" ELSE call[c].pool = "gone"
    /\ Fail(c)
    /\ Looks

(* Fault: an accepted update is taken for an applied one.                  *)
AcceptedIsApplied(c) ==
    /\ Active(c, "after")
    /\ Continue(c, CleanUp(call[c]))
    /\ Looks

(* Success: what follows the operation in the pass.                        *)
AwaitAfter(c) ==
    /\ Active(c, "after")
    /\ Continue(c, IF call[c].op = "update" THEN {[call[c] EXCEPT !.step = "pollWait", !.tries = 0]}
                   ELSE CleanUp(call[c]))
    /\ Looks

(* The load balancer is not ACTIVE in time, or in ERROR: another attempt,  *)
(* also after the operation.                                               *)
AwaitFails(c) ==
    /\ call[c].step \in {"before", "after"} /\ lb # "ACTIVE"
    /\ NextTry(c, "before")
    /\ Looks

-----------------------------------------------------------------------------
(* waitPoolMembersApplied.                                                 *)

PollWait(c) ==
    /\ call[c].step = "pollWait"
    /\ IF lb = "ACTIVE" THEN Goto(c, "pollGet") ELSE NextTry(c, "pollWait")
    /\ Looks

PollGet(c) ==
    /\ call[c].step = "pollGet"
    /\ IF call[c].pool # "gone" /\ ~membersChanged(ThePool(call[c].pool).members, Desired(c))
       THEN Continue(c, CleanUp(call[c])) ELSE NextTry(c, "pollWait")
    /\ Looks

(* Fault: UpdateLoadBalancer drops the error.                              *)
ReturnSyncErrorDropped(c) ==
    /\ call[c].step \in {"ok", "error"}
    /\ call' = [call EXCEPT ![c] = Idle(call[c].req)]
    /\ due' = IF call[c].step = "error" /\ c = "worker" THEN due \cup {c} ELSE due
    /\ looked' = looked \ {c}
    /\ UNCHANGED <<cloud, now, changes, stale>> /\ Remember

(* The controller takes the result; an error is retried.                   *)
Return(c) ==
    /\ call[c].step \in {"ok", "error"}
    /\ call' = [call EXCEPT ![c] = Idle(call[c].req)]
    /\ due' = IF call[c].step = "error" THEN due \cup {c} ELSE due
    /\ looked' = looked \ {c}
    /\ UNCHANGED <<cloud, now, changes, stale>> /\ Remember

(* Any request may fail: within a loop's waits and polls that is another   *)
(* attempt, when a listener is read back the process dies, and elsewhere   *)
(* the pass is over.                                                       *)
RequestFails(c) ==
    /\ InCall(c)
    /\ CASE call[c].step \in {"before", "after"} -> NextTry(c, "before") /\ Looks
         [] call[c].step \in {"pollWait", "pollGet"} -> NextTry(c, "pollWait") /\ Looks
         [] call[c].step = "reload" -> Panic
         [] OTHER -> Fail(c) /\ Looks

-----------------------------------------------------------------------------
(* The user edits the Service, whatever it is in it (the worker is         *)
(* queued), nodes come and go (the node sync is).                          *)
Change(s) ==
    /\ changes < MaxChanges /\ s # now
    /\ now' = s /\ changes' = changes + 1
    /\ due' = due \cup (IF s.nodes # now.nodes THEN {"sync"} ELSE {})
                  \cup (IF [s EXCEPT !.nodes = now.nodes] # now THEN {"worker"} ELSE {})
    /\ stale' = (stale \/ UpdatePending(TheKey)) /\ looked' = {}
    /\ UNCHANGED <<cloud, call>> /\ Remember

(* What the cloud does by itself, also to the pool that was left.          *)
Unasked == UNCHANGED <<now, changes, due, call, stale, looked>> /\ Remember

CloudSettle == Settle /\ UNCHANGED left /\ Unasked
CloudBreak == Break /\ UNCHANGED left /\ Unasked

ApplyToLeft ==
    /\ lb = "ACTIVE" /\ left # NoPool /\ left.target # left.members
    /\ left' = [left EXCEPT !.members = left.target]
    /\ lb' = "PENDING_UPDATE" /\ UNCHANGED <<listeners, pools, fips, sg>>

CloudApply ==
    /\ \/ ApplyMembers(TheKey) /\ UNCHANGED left
       \/ ApplyToLeft
    /\ Unasked

Mutation(c, lost) ==
    CreateListener(c, lost) \/ UpdateListener(c, lost) \/ CreatePool(c, lost) \/ Operation(c, lost)

PassStep(c) ==
    \/ ListListeners(c) \/ ListenerRejected(c) \/ Settled(c) \/ Reload(c) \/ ReloadPanics(c)
    \/ ListPools(c) \/ PoolRejected(c) \/ Members(c) \/ WaitFails(c)
    \/ Mutation(c, FALSE)
    \/ AwaitBefore(c) \/ OperationImmutable(c) \/ OperationRejected(c)
    \/ AwaitAfter(c) \/ AwaitFails(c) \/ PollWait(c) \/ PollGet(c)

ControllerStep(c) == Start(c) \/ Return(c)

(* What the network does.                                                  *)
Fault == \E c \in Callers : RequestFails(c) \/ Mutation(c, TRUE)

Ordinary ==
    \/ \E c \in Callers : PassStep(c) \/ ControllerStep(c)
    \/ CloudSettle \/ CloudBreak \/ CloudApply
    \/ \E s \in Specs : Change(s)

Next == Ordinary \/ Fault

Spec == Init /\ [][Next]_vars

(* Each goroutine runs on, and the cloud finishes what it accepted.        *)
FairSpec ==
    /\ Spec
    /\ \A c \in Callers : WF_vars(PassStep(c) \/ ControllerStep(c))
    /\ WF_vars(CloudSettle) /\ WF_vars(CloudApply)

-----------------------------------------------------------------------------
(* Properties.                                                             *)

Result(c) == IF InCall(c) THEN "running" ELSE call[c].step

(* Since the call began, the cloud has shown what it was asked for: the    *)
(* listener, and a pool with exactly the members; or that there is none.   *)
Shown(c) == shown[c] = IF Asked(call[c].req) THEN {"listener", "members"} ELSE {"absent"}

WorkerContract == INSTANCE PassContract WITH result <- Result("worker"), holds <- Shown("worker")
SyncContract == INSTANCE PassContract WITH result <- Result("sync"), holds <- Shown("sync")

(* Whatever the other pass does and whatever fails, EnsureLoadBalancer     *)
(* succeeds only if, since it was called, the listener has been there and a*)
(* pool has had exactly the members it was asked for, or the listener it   *)
(* had to remove has been gone.  More cannot be said, for by the time it   *)
(* returns the other pass may have created the listener anew or deleted it *)
(* (ensureLoadBalancerListeners); but no retry, no operation that was      *)
(* carried out although it was reported failed, and no pool of another ID  *)
(* turns into a false success (runLBOperationWithRetry,                    *)
(* waitPoolMembersApplied).                                                *)
KeepsContract == WorkerContract!Safety /\ SyncContract!Safety

(* A pass that is running ends, with success or with an error, or its      *)
(* process dies, even while requests go on failing and the other pass goes *)
(* on rewriting the pool it waits for: the attempts are bounded            *)
(* (runLBOperationWithRetry, waitPoolMembersApplied).                      *)
PassesEnd == WorkerContract!Fairness /\ SyncContract!Fairness

(* How many steps a call can still take, whatever answers it gets: three   *)
(* for every attempt of a retry loop, the loops that may follow one after  *)
(* the other (the poll after an update, one for each obsolete pool, one    *)
(* for the listener), and the steps that lead to them.                     *)
StepsLeft(k) ==
    LET loop == 3 * Steps
        attempts == 3 * (Steps - 1 - k.tries)
        has(id) == IF id \in k.obsolete THEN 1 ELSE 0
        listener == IF ~Asked(k.req) /\ k.listener # "none" /\ k.op # "deleteListener" THEN 1 ELSE 0
        deletions == has("bound") + has("left") + has("gone") + listener
        poll == IF k.op = "update" THEN 1 ELSE 0
    IN  CASE k.step = "list"       -> 4 * loop + 7
          [] k.step \in {"create", "update"} -> 4 * loop + 6
          [] k.step = "settle"     -> 4 * loop + 5
          [] k.step = "reload"     -> 4 * loop + 4
          [] k.step = "pools"      -> 4 * loop + 3
          [] k.step = "createPool" -> (deletions + 2) * loop + 2
          [] k.step = "members"    -> (deletions + 2 * poll) * loop + 1
          [] k.step = "before"     -> (deletions + poll) * loop + attempts + 3
          [] k.step = "act"        -> (deletions + poll) * loop + attempts + 2
          [] k.step = "after"      -> (deletions + poll) * loop + attempts + 1
          [] k.step = "pollWait"   -> deletions * loop + attempts + 2
          [] k.step = "pollGet"    -> deletions * loop + attempts + 1
          [] OTHER                 -> 0

(* A pass is over after at most 12 * Steps + 7 steps of its own, however   *)
(* its requests fail and whatever the other pass and the cloud do          *)
(* meanwhile: every step leaves it fewer, and nobody else gives it more    *)
(* (the attempts of runLBOperationWithRetry and waitPoolMembersApplied,    *)
(* which are counted anew for each loop).                                  *)
PassesBounded ==
    [][\A c \in Callers : ~Start(c) =>
         /\ StepsLeft(call[c])' \in 0 .. StepsLeft(call[c])
         /\ PassStep(c) \/ RequestFails(c) \/ Mutation(c, TRUE) =>
              StepsLeft(call[c])' # StepsLeft(call[c])]_vars

Quiet == due = {} /\ \A c \in Callers : call[c].step = "idle"

Right ==
    /\ left = NoPool
    /\ IF Asked(now)
       THEN /\ HasListener(TheKey) /\ (TimeoutGiven(now) => listeners[TheKey].timeout = now.timeout)
            /\ HasPool(TheKey) /\ pools[TheKey].members = DesiredMembers(now, ThePort)
            /\ ~UpdatePending(TheKey)
       ELSE ~HasPool(TheKey) /\ ~HasListener(TheKey)

(* When both controllers are at rest, listener and pool are right and      *)
(* nothing is left over, although the two passes share them without a lock,*)
(* unless a pass with an old copy of the Service wrote while, or after, the*)
(* last pass looked: UpdateLoadBalancer beside the worker is the one way to*)
(* wrong members and to a removed port that is served again.               *)
WrongOnlyIfStale == Quiet /\ ~stale => Right

(* A listener is never deleted from under its pool while another pool is   *)
(* left without one: every pass deletes what it lists, pools first, so     *)
(* what two passes leave behind does not pile up (deletePoolWithRetry      *)
(* before deleteListenerWithRetry in deleteObsoleteListenersAndPools).     *)
OneLeft == [][HasPool(TheKey) /\ ~HasListener(TheKey)' => left = NoPool]_vars

(* When the faults end, both controllers come to rest: two passes do not   *)
(* reject each other's requests for ever, and a deletion that failed for   *)
(* its caller after it was carried out is not retried for ever.  Only a    *)
(* load balancer in ERROR is tried again and again.  A wait that fails by  *)
(* itself is no fault, though its step looks like one.                     *)
EventuallyQuiet == []<><<Fault /\ ~Ordinary>>_vars \/ <>[](Quiet \/ lb = "ERROR")
=============================================================================
