---------------------------- MODULE Passes_proofs ----------------------------
(***************************************************************************)
(* What Passes guarantees for every set of requests and nodes and any      *)
(* number of attempts: type correctness, that both passes keep the         *)
(* contract, that a pass is over after a bounded number of its own steps,  *)
(* that no second pool is left without a listener, and that listener and   *)
(* pool are right at rest unless an old copy had the last word.  For the   *)
(* last it must be known who is still to correct what is not right.        *)
(***************************************************************************)
EXTENDS Passes, ServiceSpec_proofs

Early == {"list", "create", "update", "settle", "reload", "pools"}
Loop == {"before", "act", "after"}
Poll == {"pollWait", "pollGet"}
Over == {"idle", "ok", "error"}

(* The members of a pool are finite sets, so that counting them compares   *)
(* them; a pool has a listener unless its listener was deleted.            *)
PoolsInv ==
    /\ HasPool(TheKey) => /\ HasListener(TheKey)
                          /\ IsFiniteSet(pools[TheKey].members) /\ IsFiniteSet(pools[TheKey].target)
    /\ left # NoPool => IsFiniteSet(left.members) /\ IsFiniteSet(left.target)

(* A caller is at a step that fits its operation and its request, a retry  *)
(* loop is left only when its operation was carried out, and a pass whose  *)
(* port is there never has the listener's pool among the obsolete ones.    *)
CallInv(k) ==
    /\ k.step \in Early \cup {"createPool"} => k.op = "none" /\ k.pool = "none"
    /\ k.step \in Early => k.obsolete = {}
    /\ k.step \in {"create", "update", "settle", "reload", "createPool"} \cup Poll => Asked(k.req)
    /\ k.step = "members" => k.op \in {"none", "update"} /\ (k.pool = "none" <=> ~Asked(k.req))
    /\ k.step \in Loop => k.op # "none"
    /\ k.step \in Loop /\ k.op # "deleteListener" => k.pool # "none"
    /\ k.op = "update" => Asked(k.req)
    /\ k.op = "deleteListener" => ~Asked(k.req) /\ k.obsolete = {} /\ k.pool \in {"none", "gone"}
    /\ k.step = "after" /\ k.op = "deletePool" => k.pool = "gone"
    /\ k.step = "after" /\ k.op = "deleteListener" => k.listener # "live"
    /\ k.step \in Poll => k.op = "update" /\ k.pool # "none"
    /\ Asked(k.req) /\ (k.step = "createPool" => k.listener = "live") => "bound" \notin k.obsolete
    /\ Asked(k.req) /\ k.op = "deletePool" => k.pool # "bound"

(* What a caller has the ID of is there unless it has gone.  A pass that is*)
(* to delete the listener knows of every pool that was left before.        *)
IDsInv(k) ==
    /\ k.listener = "live" => HasListener(TheKey)
    /\ k.pool = "bound" => HasPool(TheKey)
    /\ k.pool = "left" => left # NoPool
    /\ "bound" \in k.obsolete => HasPool(TheKey)
    /\ "left" \in k.obsolete => left # NoPool
    /\ /\ ~Asked(k.req) /\ k.listener = "live" /\ k.step \in {"members"} \cup Loop
       /\ left # NoPool
       => "left" \in k.obsolete \cup {k.pool}

(* What a call has been shown, by the time it is where it is.              *)
SeenInv(k, seen) ==
    /\ Asked(k.req) /\ k.step \notin Over \cup {"list", "create"} => "listener" \in seen
    /\ /\ Asked(k.req)
       /\ \/ k.step = "members" /\ k.op = "none"
          \/ k.step \in Loop /\ k.op = "deletePool"
       => "members" \in seen
    /\ ~Asked(k.req) /\ k.step \notin Over \cup {"list"} /\ k.listener # "live" => "absent" \in seen

(* What is remembered of a call is what there was to see.                  *)
ShownInv(c) ==
    /\ call[c].step \in {"idle", "error"} => shown[c] = {}
    /\ call[c].step \notin {"idle", "error"} => Seen(c) \subseteq shown[c]
    /\ Asked(call[c].req) => shown[c] \subseteq {"listener", "members"}
    /\ ~Asked(call[c].req) => shown[c] \subseteq {"absent"}

CallerInv(c) ==
    CallInv(call[c]) /\ IDsInv(call[c]) /\ SeenInv(call[c], shown[c]) /\ ShownInv(c)

IInv == TypeOK /\ PoolsInv /\ \A c \in Callers : CallerInv(c)

-----------------------------------------------------------------------------
(* Constants and helpers.                                                  *)

(* The port's listener has a key the model knows.                          *)
LEMMA TheKeyType == TheKey \in Keys
  BY PassesConstants DEF TheKey, Keys, Port, ListenerProtocols

(* A request of Specs is a request with finitely many nodes, and some.     *)
LEMMA SpecsType ==
    \A s \in Specs : s \in Request /\ s.nodes # {} /\ s.nodes \subseteq Nodes /\ IsFiniteSet(s.nodes)
  BY PassesConstants, NodesFinite, FS_Subset DEF Request, Accepted

(* What a request asks of the pool: some finite set of members.            *)
LEMMA DesiredType ==
    ASSUME NEW s \in Specs
    PROVE  /\ DesiredMembers(s, ThePort) \in SUBSET Member
           /\ IsFiniteSet(DesiredMembers(s, ThePort))
           /\ DesiredMembers(s, ThePort) # {}
  <1>1. DesiredMembers(s, ThePort) \in SUBSET Member
    BY SpecsType, MembersType, PassesConstants
  <1>2. IsFiniteSet(DesiredMembers(s, ThePort))
    <2> DEFINE f == [n \in s.nodes |-> [addr |-> nodeAddressForLB(n), port |-> ThePort.nodePort,
                                        subnet |-> s.subnet]]
    <2>1. f \in Surjection(s.nodes, DesiredMembers(s, ThePort))
      BY DEF Surjection, DesiredMembers
    <2> QED
      BY <2>1, SpecsType, FS_Surjection DEF ExistsSurjection
  <1>3. DesiredMembers(s, ThePort) # {}
    BY SpecsType DEF DesiredMembers
  <1> QED
    BY <1>1, <1>2, <1>3

(* A call that ends, or has not begun, holds nothing.                      *)
Empty(k) ==
    /\ k.op = "none" /\ k.tries = 0
    /\ k.listener = "none" /\ k.pool = "none" /\ k.obsolete = {}

LEMMA EndType ==
    ASSUME NEW k \in Calls, NEW result \in {"ok", "error"}
    PROVE  /\ End(k, result) \in Calls /\ Empty(End(k, result))
           /\ End(k, result).step = result /\ End(k, result).req = k.req
  <1>1. 0 \in 0 .. Steps - 1
    BY PassesConstants
  <1>2. End(k, result) = [ step |-> result, req |-> k.req, op |-> "none", tries |-> 0,
                           listener |-> "none", pool |-> "none", obsolete |-> {} ]
    BY DEF End, Idle
  <1> QED
    BY <1>1, <1>2 DEF Calls, ListenerIDs, PoolIDs, Empty

(* An idle caller, and one that has just been started.                     *)
LEMMA IdleType ==
    ASSUME NEW s \in Specs
    PROVE  /\ Idle(s) \in Calls /\ Empty(Idle(s)) /\ Idle(s).step = "idle" /\ Idle(s).req = s
           /\ LET k == [Idle(s) EXCEPT !.step = "list"]
              IN  k \in Calls /\ Empty(k) /\ k.step = "list" /\ k.req = s
  <1>1. 0 \in 0 .. Steps - 1
    BY PassesConstants
  <1> QED
    BY <1>1 DEF Calls, ListenerIDs, PoolIDs, Idle, Empty

(* Such a call satisfies its invariants, whatever the cloud is like.       *)
LEMMA EmptyInv ==
    ASSUME NEW k, Empty(k), k.step \in Over \cup {"list"}, NEW seen
    PROVE  CallInv(k) /\ IDsInv(k) /\ SeenInv(k, seen)
  BY DEF Empty, CallInv, IDsInv, SeenInv, Early, Loop, Poll, Over

-----------------------------------------------------------------------------
(* Moving on in a call.                                                    *)

OnlyMoves(c) ==
    call' \in [Callers -> Calls] /\ \A d \in Callers \ {c} : call'[d] = call[d]

SameIDs(c) ==
    /\ call'[c].req = call[c].req /\ call'[c].listener = call[c].listener
    /\ call'[c].pool = call[c].pool /\ call'[c].obsolete = call[c].obsolete

Ends(c, result) ==
    call'[c].step = result /\ call'[c].req = call[c].req /\ Empty(call[c])'

(* A step is followed by the next, and nothing else changes in the call.   *)
LEMMA GotoType ==
    ASSUME call \in [Callers -> Calls], NEW c \in Callers,
           NEW step \in {"reload", "pools", "act", "pollGet"}, Goto(c, step)
    PROVE  /\ OnlyMoves(c) /\ SameIDs(c) /\ call'[c].step = step
           /\ call'[c].op = call[c].op /\ call'[c].tries = call[c].tries
  <1>1. call' = [call EXCEPT ![c] = [call[c] EXCEPT !.step = step]]
    BY DEF Goto
  <1>2. [call[c] EXCEPT !.step = step] \in Calls
    BY DEF Calls
  <1> QED
    BY <1>1, <1>2 DEF OnlyMoves, SameIDs, Calls

(* A pass ends with an error.                                              *)
LEMMA FailType ==
    ASSUME call \in [Callers -> Calls], NEW c \in Callers, Fail(c)
    PROVE  OnlyMoves(c) /\ Ends(c, "error")
  BY EndType DEF Fail, OnlyMoves, Ends, Empty

(* Attempts go on or end in an error.                                      *)
LEMMA NextTryType ==
    ASSUME call \in [Callers -> Calls], NEW c \in Callers,
           NEW step \in {"before", "pollWait"}, NextTry(c, step)
    PROVE  /\ OnlyMoves(c)
           /\ \/ /\ SameIDs(c) /\ call'[c].step = step /\ call'[c].op = call[c].op
                 /\ call'[c].tries = call[c].tries + 1
              \/ Ends(c, "error")
  <1>1. CASE call[c].tries + 1 < Steps
    <2>1. call' = [call EXCEPT ![c] = [call[c] EXCEPT !.step = step, !.tries = @ + 1]]
      BY <1>1 DEF NextTry
    <2>2. call[c].tries + 1 \in 0 .. Steps - 1
      BY <1>1, PassesConstants DEF Calls
    <2>3. [call[c] EXCEPT !.step = step, !.tries = @ + 1] \in Calls
      BY <2>2 DEF Calls
    <2> QED
      BY <2>1, <2>3 DEF OnlyMoves, SameIDs, Calls
  <1>2. CASE ~(call[c].tries + 1 < Steps)
    <2>1. Fail(c)
      BY <1>2 DEF NextTry, Fail
    <2> QED
      BY <2>1, FailType
  <1> QED
    BY <1>1, <1>2

(* What comes after the members phase, or after a deletion: an obsolete    *)
(* pool, the listener, or success.                                         *)
NextPool(c) ==
    /\ call[c].obsolete # {} /\ call'[c].pool \in call[c].obsolete
    /\ call'[c].obsolete = call[c].obsolete \ {call'[c].pool}
    /\ call'[c].step = "before" /\ call'[c].op = "deletePool" /\ call'[c].tries = 0
    /\ call'[c].req = call[c].req /\ call'[c].listener = call[c].listener

NextListener(c) ==
    /\ call[c].obsolete = {} /\ ~Asked(call[c].req)
    /\ call[c].listener # "none" /\ call[c].op # "deleteListener"
    /\ call'[c].step = "before" /\ call'[c].op = "deleteListener" /\ call'[c].tries = 0
    /\ SameIDs(c)

AllDone(c) ==
    /\ call[c].obsolete = {}
    /\ Asked(call[c].req) \/ call[c].listener = "none" \/ call[c].op = "deleteListener"
    /\ Ends(c, "ok")

(* The clean-up goes on in one of the three ways.                          *)
LEMMA CleanUpType ==
    ASSUME call \in [Callers -> Calls], NEW c \in Callers, Continue(c, CleanUp(call[c]))
    PROVE  OnlyMoves(c) /\ (NextPool(c) \/ NextListener(c) \/ AllDone(c))
  <1>1. PICK k \in CleanUp(call[c]) : call' = [call EXCEPT ![c] = k]
    BY DEF Continue
  <1>2. 0 \in 0 .. Steps - 1
    BY PassesConstants
  <1>3. CASE call[c].obsolete # {}
    <2>1. PICK p \in call[c].obsolete :
            k = [call[c] EXCEPT !.pool = p, !.obsolete = call[c].obsolete \ {p},
                                !.step = "before", !.op = "deletePool", !.tries = 0]
      BY <1>1, <1>3 DEF CleanUp, Operate, Calls
    <2>2. /\ k \in Calls /\ k.pool = p /\ k.obsolete = call[c].obsolete \ {p}
          /\ k.step = "before" /\ k.op = "deletePool" /\ k.tries = 0
          /\ k.req = call[c].req /\ k.listener = call[c].listener
      BY <1>2, <2>1 DEF Calls
    <2>3. NextPool(c)
      BY <1>1, <1>3, <2>2 DEF NextPool
    <2> QED
      BY <1>1, <2>2, <2>3 DEF OnlyMoves
  <1>4. CASE /\ call[c].obsolete = {}
             /\ ~Asked(call[c].req) /\ call[c].listener # "none" /\ call[c].op # "deleteListener"
    <2>1. k = [call[c] EXCEPT !.step = "before", !.op = "deleteListener", !.tries = 0]
      BY <1>1, <1>4 DEF CleanUp, Operate
    <2>2. /\ k \in Calls /\ k.pool = call[c].pool /\ k.obsolete = call[c].obsolete
          /\ k.step = "before" /\ k.op = "deleteListener" /\ k.tries = 0
          /\ k.req = call[c].req /\ k.listener = call[c].listener
      BY <1>2, <2>1 DEF Calls
    <2>3. NextListener(c)
      BY <1>1, <1>4, <2>2 DEF NextListener, SameIDs
    <2> QED
      BY <1>1, <2>2, <2>3 DEF OnlyMoves
  <1>5. CASE /\ call[c].obsolete = {}
             /\ Asked(call[c].req) \/ call[c].listener = "none" \/ call[c].op = "deleteListener"
    <2>1. k = End(call[c], "ok")
      BY <1>1, <1>5 DEF CleanUp
    <2>2. k \in Calls /\ k.step = "ok" /\ k.req = call[c].req /\ Empty(k)
      BY <2>1, EndType
    <2>3. AllDone(c)
      BY <1>1, <1>5, <2>2 DEF AllDone, Ends, Empty
    <2> QED
      BY <1>1, <2>2, <2>3 DEF OnlyMoves
  <1> QED
    BY <1>3, <1>4, <1>5

-----------------------------------------------------------------------------
(* A step of one caller.                                                   *)

(* What the contract allows a pass to do.                                  *)
ContractStep(c) ==
    \/ Result(c)' = Result(c)
    \/ Result(c) = "idle" /\ Result(c)' = "running"
    \/ Result(c) = "running" /\ Shown(c) /\ Result(c)' = "ok"
    \/ Result(c) = "running" /\ Result(c)' \in {"error", "idle"}
    \/ Result(c) \in {"ok", "error"} /\ Result(c)' = "idle"

EnvOK ==
    /\ now \in Specs /\ changes \in 0 .. MaxChanges /\ due \subseteq Callers
    /\ stale \in BOOLEAN /\ looked \subseteq Callers

CloudOK == CloudTypeOK /\ left \in Pool \cup {NoPool} /\ PoolsInv

(* What the callers hold the IDs of is not taken from them.                *)
NothingLost ==
    /\ HasListener(TheKey) => HasListener(TheKey)'
    /\ HasPool(TheKey) => HasPool(TheKey)'
    /\ left # NoPool <=> left' # NoPool

Keeps == IInv' /\ \A d \in Callers : ContractStep(d)

(* What has been shown of a call is kept until it ends, and what there is  *)
(* to see is added.                                                        *)
LEMMA ShownKept ==
    ASSUME NEW c \in Callers, ShownInv(c), Remember,
           call'[c].req = call[c].req \/ shown[c] = {}
    PROVE  /\ ShownInv(c)'
           /\ call'[c].step \notin {"idle", "error"} => shown'[c] = shown[c] \cup Seen(c)'
           /\ call'[c].step \in {"idle", "error"} => shown'[c] = {}
  <1>1. shown'[c] = IF call'[c].step \in {"idle", "error"} THEN {} ELSE shown[c] \cup Seen(c)'
    BY DEF Remember
  <1>2. Seen(c)' \subseteq IF Asked(call[c].req)' THEN {"listener", "members"} ELSE {"absent"}
    BY DEF Seen
  <1>3. call'[c].req = call[c].req => (Asked(call[c].req)' <=> Asked(call[c].req))
    BY DEF Asked
  <1> QED
    BY <1>1, <1>2, <1>3 DEF ShownInv

(* What is known about types is known of the next state.                   *)
LEMMA TypesKept ==
    ASSUME IInv, call' \in [Callers -> Calls], Remember, EnvOK', CloudOK'
    PROVE  TypeOK' /\ PoolsInv'
  <1>1. \A c \in Callers : Seen(c)' \subseteq Facts
    BY DEF Seen, Facts
  <1>2. shown' \in [Callers -> SUBSET Facts]
    BY <1>1 DEF Remember, IInv, TypeOK
  <1> QED
    BY <1>2 DEF TypeOK, EnvOK, CloudOK

(* A caller that does not move keeps what it knows, when nothing is lost.  *)
LEMMA OtherKeeps ==
    ASSUME IInv, NEW d \in Callers, call'[d] = call[d], Remember, NothingLost
    PROVE  CallerInv(d)' /\ ContractStep(d)
  <1>1. /\ ShownInv(d)'
        /\ call'[d].step \notin {"idle", "error"} => shown'[d] = shown[d] \cup Seen(d)'
    BY ShownKept DEF IInv, CallerInv
  <1>2. CallInv(call[d])' /\ IDsInv(call[d])'
    BY DEF IInv, CallerInv, CallInv, IDsInv, NothingLost, Asked
  <1>3. SeenInv(call[d], shown[d])'
    <2>1. SeenInv(call[d], shown[d])
      BY DEF IInv, CallerInv
    <2>2. call[d].step \in {"idle", "error"} => SeenInv(call[d], shown[d])'
      BY DEF SeenInv, Over, Loop
    <2> QED
      BY <1>1, <2>1, <2>2 DEF SeenInv, Asked
  <1>4. ContractStep(d)
    BY DEF ContractStep, Result, InCall
  <1> QED
    BY <1>1, <1>2, <1>3, <1>4 DEF CallerInv

(* A step of a caller that goes on, or ends, and loses nothing.            *)
LEMMA CallerKeeps ==
    ASSUME IInv, NEW c \in Callers, OnlyMoves(c), Remember, NothingLost, CloudOK', EnvOK',
           InCall(c), call'[c].req = call[c].req, call'[c].step # "idle",
           call'[c].step = "ok" => Shown(c),
           CallInv(call[c])', IDsInv(call[c])', SeenInv(call'[c], shown[c] \cup Seen(c)')
    PROVE  Keeps
  <1>1. TypeOK' /\ PoolsInv'
    BY TypesKept DEF OnlyMoves
  <1>2. ASSUME NEW d \in Callers, d # c PROVE CallerInv(d)' /\ ContractStep(d)
    BY <1>2, OtherKeeps DEF OnlyMoves
  <1>3. /\ ShownInv(c)'
        /\ call'[c].step \notin {"idle", "error"} => shown'[c] = shown[c] \cup Seen(c)'
    BY ShownKept DEF IInv, CallerInv
  <1>4. SeenInv(call[c], shown[c])'
    <2>1. CASE call'[c].step = "error"
      BY <2>1 DEF SeenInv, Over, Loop
    <2>2. CASE call'[c].step # "error"
      BY <1>3, <2>2
    <2> QED
      BY <2>1, <2>2
  <1>5. ContractStep(c)
    BY DEF ContractStep, Result, InCall
  <1> QED
    BY <1>1, <1>2, <1>3, <1>4, <1>5 DEF Keeps, IInv, CallerInv

(* A step that leaves the cloud alone.                                     *)
LEMMA SameCloud ==
    ASSUME IInv, UNCHANGED cloud
    PROVE  /\ NothingLost /\ CloudOK'
           /\ HasListener(TheKey)' <=> HasListener(TheKey)
           /\ HasPool(TheKey)' <=> HasPool(TheKey)
  BY DEF IInv, TypeOK, cloud, cloudVars, CloudTypeOK, CloudOK, PoolsInv, HasPool, HasListener,
         NothingLost

(* What there is to see does not change by it.                             *)
LEMMA SameSeen ==
    ASSUME NEW c \in Callers, UNCHANGED cloud, call'[c].req = call[c].req
    PROVE  Seen(c)' = Seen(c)
  BY DEF cloud, cloudVars, Seen, Asked, Listed, ThePool, HasListener, Desired, TheKey

(* A step of a caller that leaves the cloud alone.                         *)
LEMMA LookKeeps ==
    ASSUME IInv, NEW c \in Callers, OnlyMoves(c), Remember, UNCHANGED cloud, EnvOK',
           InCall(c), call'[c].req = call[c].req, call'[c].step # "idle",
           call'[c].step = "ok" => Shown(c),
           CallInv(call'[c]), IDsInv(call'[c]), SeenInv(call'[c], shown[c])
    PROVE  Keeps
  <1>1. NothingLost /\ CloudOK'
        /\ (HasListener(TheKey)' <=> HasListener(TheKey)) /\ (HasPool(TheKey)' <=> HasPool(TheKey))
    BY SameCloud
  <1>2. Seen(c)' \subseteq shown[c]
    BY SameSeen DEF IInv, CallerInv, ShownInv, InCall
  <1>3. SeenInv(call'[c], shown[c] \cup Seen(c)')
    BY <1>2 DEF SeenInv
  <1>4. CallInv(call[c])' /\ IDsInv(call[c])'
    BY <1>1 DEF CallInv, IDsInv, Asked, cloud
  <1> QED
    BY <1>1, <1>3, <1>4, CallerKeeps

(* The environment stays well formed.                                      *)
LEMMA LooksOK ==
    ASSUME IInv, Looks
    PROVE  UNCHANGED cloud /\ EnvOK' /\ Remember
  BY DEF Looks, IInv, TypeOK, EnvOK

(* Also when the cloud is changed.                                         *)
LEMMA MutatesOK ==
    ASSUME IInv, NEW c \in Callers, Mutates(c)
    PROVE  EnvOK' /\ Remember
  BY DEF Mutates, IInv, TypeOK, EnvOK, Old, InCall

(* A pass that ends with an error.                                         *)
LEMMA ErrorKeeps ==
    ASSUME IInv, NEW c \in Callers, OnlyMoves(c), Ends(c, "error"), InCall(c),
           Remember, NothingLost, CloudOK', EnvOK'
    PROVE  Keeps
  <1>1. CallInv(call[c])' /\ IDsInv(call[c])'
    BY DEF Ends, Empty, CallInv, IDsInv, Early, Loop, Poll, Over
  <1>2. SeenInv(call'[c], shown[c] \cup Seen(c)')
    BY DEF Ends, SeenInv, Over, Loop
  <1> QED
    BY <1>1, <1>2, CallerKeeps DEF Ends

(* A request that fails outside a retry loop ends the pass.                *)
LEMMA FailKeeps ==
    ASSUME IInv, NEW c \in Callers, InCall(c), Fail(c), Looks
    PROVE  Keeps
  <1>1. OnlyMoves(c) /\ Ends(c, "error")
    BY FailType DEF IInv, TypeOK
  <1> QED
    BY <1>1, LooksOK, SameCloud, ErrorKeeps

(* Within a retry loop it is another attempt.                              *)
LEMMA RetryKeeps ==
    ASSUME IInv, NEW c \in Callers, Looks,
           \/ call[c].step \in Loop /\ NextTry(c, "before")
           \/ call[c].step \in Poll /\ NextTry(c, "pollWait")
    PROVE  Keeps
  <1>1. PICK step \in {"before", "pollWait"} :
          NextTry(c, step) /\ (step = "before" <=> call[c].step \in Loop)
                           /\ (step = "pollWait" <=> call[c].step \in Poll)
    BY DEF Loop, Poll
  <1>2. InCall(c)
    BY <1>1 DEF InCall, Loop, Poll
  <1>3. OnlyMoves(c)
        /\ \/ /\ SameIDs(c) /\ call'[c].step = step /\ call'[c].op = call[c].op
              /\ call'[c].tries = call[c].tries + 1
           \/ Ends(c, "error")
    BY <1>1, NextTryType DEF IInv, TypeOK
  <1>4. CASE Ends(c, "error")
    BY <1>2, <1>3, <1>4, LooksOK, SameCloud, ErrorKeeps
  <1>5. CASE SameIDs(c) /\ call'[c].step = step /\ call'[c].op = call[c].op
    <2>1. CallInv(call'[c]) /\ IDsInv(call'[c]) /\ SeenInv(call'[c], shown[c])
      BY <1>1, <1>5 DEF IInv, CallerInv, SameIDs, CallInv, IDsInv, SeenInv, Early, Loop, Poll, Over
    <2> QED
      BY <1>2, <1>3, <1>5, <2>1, LooksOK, LookKeeps DEF SameIDs
  <1> QED
    BY <1>3, <1>4, <1>5

-----------------------------------------------------------------------------
(* What a call of the API leaves.                                          *)

(* A listener is created or updated.                                       *)
LEMMA PutListenerKeeps ==
    ASSUME CloudOK, NEW a \in Attr, PutListener(TheKey, a), UNCHANGED left
    PROVE  CloudOK' /\ NothingLost /\ HasListener(TheKey)' /\ listeners'[TheKey] = a
  <1>1. listeners' \in [Keys -> Attr \cup {NoListener}] /\ listeners'[TheKey] = a
    BY TheKeyType DEF PutListener, CloudOK, CloudTypeOK
  <1>2. CloudTypeOK'
    BY <1>1 DEF CloudOK, CloudTypeOK, PutListener, LbStates
  <1>3. HasListener(TheKey)'
    BY <1>1, CloudConstants DEF HasListener, TheKey
  <1> QED
    BY <1>1, <1>2, <1>3 DEF CloudOK, PutListener, PoolsInv, HasPool, NothingLost

(* A pool is created, or its members are applied.                          *)
LEMMA PutPoolKeeps ==
    ASSUME CloudOK, NEW q \in Pool, PutPool(TheKey, q), UNCHANGED left, HasListener(TheKey),
           IsFiniteSet(q.members), IsFiniteSet(q.target)
    PROVE  CloudOK' /\ NothingLost /\ HasPool(TheKey)' /\ pools'[TheKey] = q
           /\ listeners' = listeners
  <1>1. pools' \in [Keys -> Pool \cup {NoPool}] /\ pools'[TheKey] = q
    BY TheKeyType DEF PutPool, CloudOK, CloudTypeOK
  <1>2. CloudTypeOK'
    BY <1>1 DEF CloudOK, CloudTypeOK, PutPool, LbStates
  <1>3. HasPool(TheKey)'
    BY <1>1, CloudConstants DEF HasPool, TheKey
  <1> QED
    BY <1>1, <1>2, <1>3 DEF CloudOK, PutPool, PoolsInv, HasListener, NothingLost

(* New members are asked for.                                              *)
LEMMA SetMembersKeeps ==
    ASSUME CloudOK, NEW id \in PoolIDs, NEW m \in SUBSET Member, IsFiniteSet(m), SetMembers(id, m)
    PROVE  CloudOK' /\ NothingLost /\ listeners' = listeners
  <1>1. CASE id = "bound" /\ PoolUpdate(TheKey, m) /\ UNCHANGED left
    <2>1. pools[TheKey] \in Pool
      BY <1>1, TheKeyType DEF PoolUpdate, CloudOK, CloudTypeOK, HasPool
    <2>2. pools' = [pools EXCEPT ![TheKey] = [pools[TheKey] EXCEPT !.target = m]]
      BY <1>1 DEF PoolUpdate
    <2>3. [pools[TheKey] EXCEPT !.target = m] \in Pool
          /\ [pools[TheKey] EXCEPT !.target = m].target = m
          /\ [pools[TheKey] EXCEPT !.target = m].members = pools[TheKey].members
      BY <2>1 DEF Pool
    <2>4. pools' \in [Keys -> Pool \cup {NoPool}] /\ pools'[TheKey] \in Pool
          /\ pools'[TheKey].target = m /\ pools'[TheKey].members = pools[TheKey].members
      BY <2>2, <2>3, TheKeyType DEF CloudOK, CloudTypeOK
    <2>5. CloudTypeOK'
      BY <1>1, <2>4 DEF CloudOK, CloudTypeOK, PoolUpdate
    <2>6. HasPool(TheKey)' /\ HasPool(TheKey)
      BY <1>1, <2>4, CloudConstants DEF HasPool, TheKey, PoolUpdate
    <2> QED
      BY <1>1, <2>4, <2>5, <2>6 DEF CloudOK, PoolUpdate, PoolsInv, HasListener, NothingLost
  <1>2. CASE id = "left" /\ left # NoPool /\ left' = [left EXCEPT !.target = m]
             /\ UNCHANGED cloudVars
    <2>1. left \in Pool
      BY <1>2 DEF CloudOK
    <2>2. left' \in Pool /\ left'.target = m /\ left'.members = left.members
      BY <1>2, <2>1 DEF Pool
    <2>3. left' # NoPool
      BY <2>2, CloudConstants
    <2> QED
      BY <1>2, <2>2, <2>3 DEF CloudOK, CloudTypeOK, cloudVars, PoolsInv, HasPool, HasListener, NothingLost
  <1> QED
    BY <1>1, <1>2 DEF SetMembers

(* A pool is deleted.                                                      *)
LEMMA DropPoolKeeps ==
    ASSUME CloudOK, NEW id \in PoolIDs, DropPool(id)
    PROVE  /\ CloudOK' /\ listeners' = listeners
           /\ id = "bound" => ~HasPool(TheKey)' /\ left' = left
           /\ id = "left" => pools' = pools /\ left' = NoPool
           /\ id # "gone"
  <1>1. CASE id = "bound" /\ PutPool(TheKey, NoPool) /\ UNCHANGED left
    <2>1. pools' \in [Keys -> Pool \cup {NoPool}] /\ pools'[TheKey] = NoPool
      BY <1>1, TheKeyType DEF PutPool, CloudOK, CloudTypeOK
    <2>2. CloudTypeOK'
      BY <1>1, <2>1 DEF CloudOK, CloudTypeOK, PutPool, LbStates
    <2>3. ~HasPool(TheKey)'
      BY <2>1 DEF HasPool, TheKey
    <2> QED
      BY <1>1, <2>2, <2>3 DEF CloudOK, PutPool, PoolsInv
  <1>2. CASE id = "left" /\ left' = NoPool /\ lb' = "PENDING_UPDATE"
             /\ UNCHANGED <<listeners, pools, fips, sg>>
    BY <1>2 DEF CloudOK, CloudTypeOK, LbStates, PoolsInv, HasPool, HasListener
  <1> QED
    BY <1>1, <1>2 DEF DropPool

(* A listener is deleted, and its pool, if it has one, is left.            *)
LEMMA DropListenerKeeps ==
    ASSUME CloudOK, DropListener
    PROVE  /\ CloudOK' /\ ~HasListener(TheKey)' /\ ~HasPool(TheKey)'
           /\ left' = IF HasPool(TheKey) THEN pools[TheKey] ELSE left
           /\ HasPool(TheKey) => left' # NoPool
  <1>1. listeners' \in [Keys -> Attr \cup {NoListener}] /\ listeners'[TheKey] = NoListener
    BY TheKeyType DEF DropListener, CloudOK, CloudTypeOK
  <1>2. pools' \in [Keys -> Pool \cup {NoPool}] /\ pools'[TheKey] = NoPool
    BY TheKeyType DEF DropListener, CloudOK, CloudTypeOK
  <1>3. CloudTypeOK'
    BY <1>1, <1>2 DEF CloudOK, CloudTypeOK, DropListener, LbStates
  <1>4. ~HasListener(TheKey)' /\ ~HasPool(TheKey)'
    BY <1>1, <1>2 DEF HasListener, HasPool, TheKey
  <1>5. /\ left' = IF HasPool(TheKey) THEN pools[TheKey] ELSE left
        /\ HasPool(TheKey) => pools[TheKey] # NoPool /\ pools[TheKey] \in Pool
    BY TheKeyType DEF DropListener, HasPool, CloudOK, CloudTypeOK
  <1>6. left' \in Pool \cup {NoPool} /\ PoolsInv'
    BY <1>4, <1>5 DEF CloudOK, PoolsInv
  <1> QED
    BY <1>3, <1>4, <1>5, <1>6 DEF CloudOK

-----------------------------------------------------------------------------
(* The passes, step by step.                                               *)

(* The invariant, in the parts the steps use.                              *)
LEMMA Typed ==
    ASSUME IInv
    PROVE  CloudOK /\ call \in [Callers -> Calls] /\ EnvOK
  BY DEF IInv, TypeOK, CloudOK, EnvOK

(* A pass starts.                                                          *)
LEMMA StartKeeps ==
    ASSUME IInv, NEW c \in Callers, Start(c)
    PROVE  Keeps
  <1>1. OnlyMoves(c) /\ Empty(call[c])' /\ call'[c].step = "list"
    BY Typed, IdleType DEF EnvOK, Start, OnlyMoves, Empty
  <1>2. /\ Remember /\ EnvOK' /\ NothingLost /\ CloudOK' /\ call[c].step = "idle"
        /\ TypeOK' /\ PoolsInv'
    BY <1>1, Typed, SameCloud, TypesKept DEF Start, EnvOK, OnlyMoves
  <1>3. ASSUME NEW d \in Callers, d # c PROVE CallerInv(d)' /\ ContractStep(d)
    BY <1>1, <1>2, <1>3, OtherKeeps DEF OnlyMoves
  <1>4. ShownInv(c)'
    BY <1>2, ShownKept DEF IInv, CallerInv, ShownInv
  <1>5. CallInv(call[c])' /\ IDsInv(call[c])' /\ SeenInv(call[c], shown[c])'
    BY <1>1 DEF Empty, CallInv, IDsInv, SeenInv, Early, Loop, Poll, Over
  <1>6. ContractStep(c)
    BY <1>1, <1>2 DEF ContractStep, Result, InCall
  <1> QED
    BY <1>2, <1>3, <1>4, <1>5, <1>6 DEF Keeps, IInv, CallerInv

(* A pass hands over its result.                                           *)
LEMMA ReturnKeeps ==
    ASSUME IInv, NEW c \in Callers, Return(c)
    PROVE  Keeps
  <1>1. OnlyMoves(c) /\ Empty(call[c])' /\ call'[c].step = "idle" /\ call'[c].req = call[c].req
    <2>1. call[c].req \in Specs
      BY Typed DEF Calls
    <2> QED
      BY <2>1, Typed, IdleType DEF Return, OnlyMoves, Empty
  <1>2. /\ Remember /\ EnvOK' /\ NothingLost /\ CloudOK' /\ call[c].step \in {"ok", "error"}
        /\ TypeOK' /\ PoolsInv'
    BY <1>1, Typed, SameCloud, TypesKept DEF Return, EnvOK, OnlyMoves
  <1>3. ASSUME NEW d \in Callers, d # c PROVE CallerInv(d)' /\ ContractStep(d)
    BY <1>1, <1>2, <1>3, OtherKeeps DEF OnlyMoves
  <1>4. ShownInv(c)'
    BY <1>1, <1>2, ShownKept DEF IInv, CallerInv
  <1>5. CallInv(call[c])' /\ IDsInv(call[c])' /\ SeenInv(call[c], shown[c])'
    BY <1>1 DEF Empty, CallInv, IDsInv, SeenInv, Early, Loop, Poll, Over
  <1>6. ContractStep(c)
    BY <1>1, <1>2 DEF ContractStep, Result, InCall
  <1> QED
    BY <1>2, <1>3, <1>4, <1>5, <1>6 DEF Keeps, IInv, CallerInv

(* The process dies.                                                       *)
LEMMA PanicKeeps ==
    ASSUME IInv, Panic
    PROVE  Keeps
  <1>1. call' \in [Callers -> Calls]
        /\ \A d \in Callers : /\ Empty(call[d])' /\ call'[d].step = "idle"
                              /\ call'[d].req = call[d].req
    <2>1. \A d \in Callers : call[d].req \in Specs
      BY Typed DEF Calls
    <2> QED
      BY <2>1, IdleType DEF Panic, Empty
  <1>2. Remember /\ EnvOK' /\ CloudOK' /\ TypeOK' /\ PoolsInv'
    BY <1>1, Typed, SameCloud, TypesKept DEF Panic, EnvOK
  <1>3. ASSUME NEW d \in Callers PROVE CallerInv(d)' /\ ContractStep(d)
    <2>1. ShownInv(d)'
      BY <1>1, <1>2, ShownKept DEF IInv, CallerInv
    <2>2. CallInv(call[d])' /\ IDsInv(call[d])' /\ SeenInv(call[d], shown[d])'
      BY <1>1 DEF Empty, CallInv, IDsInv, SeenInv, Early, Loop, Poll, Over
    <2>3. ContractStep(d)
      BY <1>1 DEF ContractStep, Result, InCall
    <2> QED
      BY <2>1, <2>2, <2>3 DEF CallerInv
  <1> QED
    BY <1>2, <1>3 DEF Keeps, IInv

(* What a mutation that loses nothing leaves, when its answer is lost.     *)
LEMMA LostKeeps ==
    ASSUME IInv, NEW c \in Callers, InCall(c), Mutates(c), CloudOK', NothingLost,
           NEW k, Answer(c, k, TRUE)
    PROVE  Keeps
  <1>1. Fail(c)
    BY DEF Answer, Fail
  <1>2. OnlyMoves(c) /\ Ends(c, "error")
    BY <1>1, Typed, FailType
  <1> QED
    BY <1>2, MutatesOK, ErrorKeeps

(* The listeners are listed.                                               *)
LEMMA ListListenersKeeps ==
    ASSUME IInv, NEW c \in Callers, ListListeners(c)
    PROVE  Keeps
  <1>1. call[c] \in Calls /\ call[c].step = "list" /\ InCall(c) /\ UNCHANGED cloud /\ Remember
    BY Typed DEF ListListeners, Active, InCall
  <1>2. PICK next \in {"create", "update", "reload", "pools"} :
          /\ next = "create" => Asked(call[c].req) /\ ~HasListener(TheKey)
          /\ next \in {"update", "reload"} => Asked(call[c].req) /\ HasListener(TheKey)
          /\ next = "pools" => ~Asked(call[c].req)
          /\ call' = [call EXCEPT ![c] = [call[c] EXCEPT !.step = next, !.listener =
                        IF HasListener(TheKey) THEN "live" ELSE "none"]]
    BY DEF ListListeners
  <1>3. /\ OnlyMoves(c) /\ call'[c].step = next /\ call'[c].req = call[c].req
        /\ call'[c].listener = IF HasListener(TheKey) THEN "live" ELSE "none"
        /\ call'[c].op = call[c].op /\ call'[c].pool = call[c].pool
        /\ call'[c].obsolete = call[c].obsolete
    BY <1>1, <1>2, Typed DEF OnlyMoves, Calls, ListenerIDs
  <1>4. EnvOK'
    BY Typed DEF ListListeners, EnvOK
  <1>5. CallInv(call'[c]) /\ IDsInv(call'[c])
    BY <1>1, <1>2, <1>3 DEF IInv, CallerInv, CallInv, IDsInv, Early, Loop, Poll, Over
  <1>6. Seen(c) \subseteq shown[c]
    BY <1>1 DEF IInv, CallerInv, ShownInv
  <1>7. SeenInv(call'[c], shown[c])
    BY <1>2, <1>3, <1>5, <1>6 DEF Seen, SeenInv, CallInv, Early, Loop, Poll, Over
  <1> QED
    BY <1>1, <1>2, <1>3, <1>4, <1>5, <1>7, LookKeeps

(* A pass that is answered goes on to a step before the pools are listed.  *)
LEMMA AnsweredKeeps ==
    ASSUME IInv, NEW c \in Callers, call[c].step \in {"create", "update"},
           CloudOK', NothingLost, HasListener(TheKey)', Mutates(c),
           NEW k, k = [call[c] EXCEPT !.step = "settle", !.listener = "live"],
           Answer(c, k, FALSE)
    PROVE  Keeps
  <1>1. call[c] \in Calls /\ InCall(c) /\ Asked(call[c].req)
    BY Typed DEF InCall, IInv, CallerInv, CallInv, Early
  <1>2. /\ OnlyMoves(c) /\ call'[c].step = "settle" /\ call'[c].req = call[c].req
        /\ call'[c].listener = "live" /\ call'[c].op = call[c].op /\ call'[c].pool = call[c].pool
        /\ call'[c].obsolete = call[c].obsolete
    BY <1>1, Typed DEF Answer, OnlyMoves, Calls, ListenerIDs
  <1>3. CallInv(call[c])' /\ IDsInv(call[c])'
    BY <1>1, <1>2 DEF IInv, CallerInv, CallInv, IDsInv, Early, Loop, Poll, Over, Asked
  <1>4. "listener" \in Seen(c)'
    BY <1>1, <1>2 DEF Seen, Asked
  <1>5. SeenInv(call'[c], shown[c] \cup Seen(c)')
    BY <1>1, <1>2, <1>4 DEF SeenInv, Over, Loop
  <1> QED
    BY <1>1, <1>2, <1>3, <1>5, MutatesOK, CallerKeeps

(* The listener is created.                                                *)
LEMMA CreateListenerKeeps ==
    ASSUME IInv, NEW c \in Callers, NEW lost \in BOOLEAN, CreateListener(c, lost)
    PROVE  Keeps
  <1>1. InCall(c) /\ call[c].step = "create"
    BY DEF CreateListener, Active, InCall
  <1>2. buildListenerCreateRequest(call[c].req) \in Attr
    BY Typed, SpecsType, CreatedType DEF Calls
  <1>3. CloudOK' /\ NothingLost /\ HasListener(TheKey)'
    BY <1>2, Typed, PutListenerKeeps DEF CreateListener
  <1>4. CASE lost = TRUE
    BY <1>1, <1>3, <1>4, LostKeeps DEF CreateListener
  <1>5. CASE lost = FALSE
    BY <1>1, <1>3, <1>5, AnsweredKeeps DEF CreateListener
  <1> QED
    BY <1>4, <1>5

(* The listener is updated.                                                *)
LEMMA UpdateListenerKeeps ==
    ASSUME IInv, NEW c \in Callers, NEW lost \in BOOLEAN, UpdateListener(c, lost)
    PROVE  Keeps
  <1>1. InCall(c) /\ call[c].step = "update" /\ call[c].listener = "live" /\ HasListener(TheKey)
    BY DEF UpdateListener, Active, InCall, IInv, CallerInv, IDsInv
  <1>2. listeners[TheKey] \in Attr
    BY <1>1, Typed, TheKeyType DEF CloudOK, CloudTypeOK, HasListener
  <1>3. UpdatedListener(listeners[TheKey], call[c].req) \in Attr
    BY <1>2, Typed, SpecsType, UpdatedType DEF Calls
  <1>4. CloudOK' /\ NothingLost /\ HasListener(TheKey)'
    BY <1>3, Typed, PutListenerKeeps DEF UpdateListener
  <1>5. CASE lost = TRUE
    BY <1>1, <1>4, <1>5, LostKeeps DEF UpdateListener
  <1>6. CASE lost = FALSE
    <2>1. [call[c] EXCEPT !.step = "settle"] = [call[c] EXCEPT !.step = "settle", !.listener = "live"]
      BY <1>1, Typed DEF Calls
    <2> QED
      BY <1>1, <1>4, <1>6, <2>1, AnsweredKeeps DEF UpdateListener
  <1> QED
    BY <1>5, <1>6

(* What a pass is refused outside a retry loop, and what it waits for in   *)
(* vain, ends it.                                                          *)
LEMMA RejectedKeeps ==
    ASSUME IInv, NEW c \in Callers,
           \/ ListenerRejected(c) \/ PoolRejected(c) \/ WaitFails(c) \/ OperationRejected(c)
    PROVE  Keeps
  <1>1. InCall(c) /\ Fail(c) /\ Looks
    BY DEF ListenerRejected, PoolRejected, WaitFails, OperationRejected, Active, InCall
  <1> QED
    BY <1>1, FailKeeps

(* A pass goes on without more ado.                                        *)
LEMMA GoesOnKeeps ==
    ASSUME IInv, NEW c \in Callers, Settled(c) \/ Reload(c) \/ AwaitBefore(c)
    PROVE  Keeps
  <1>1. PICK step \in {"reload", "pools", "act"} :
          /\ Goto(c, step) /\ Looks
          /\ step = "reload" => call[c].step = "settle"
          /\ step = "pools" => call[c].step = "reload"
          /\ step = "act" => call[c].step = "before"
    BY DEF Settled, Reload, AwaitBefore, Active
  <1>2. InCall(c)
    BY <1>1 DEF InCall
  <1>3. OnlyMoves(c) /\ SameIDs(c) /\ call'[c].step = step /\ call'[c].op = call[c].op
    BY <1>1, Typed, GotoType
  <1>4. CallInv(call'[c]) /\ IDsInv(call'[c])
    BY <1>1, <1>3 DEF IInv, CallerInv, SameIDs, CallInv, IDsInv, Early, Loop, Poll, Over
  <1>5. SeenInv(call'[c], shown[c])
    BY <1>1, <1>3, <1>4 DEF IInv, CallerInv, CallInv, SameIDs, SeenInv, Early, Loop, Poll, Over
  <1> QED
    BY <1>1, <1>2, <1>3, <1>4, <1>5, LooksOK, LookKeeps DEF SameIDs

(* Comparing the members of a pool that is there decides whether they are  *)
(* the wanted ones.                                                        *)
LEMMA ComparesSets ==
    ASSUME IInv, NEW c \in Callers, NEW id \in {"bound", "left"}, ThePool(id) # NoPool
    PROVE  membersChanged(ThePool(id).members, Desired(c)) <=> ThePool(id).members # Desired(c)
  <1>1. IsFiniteSet(Desired(c))
    BY Typed, DesiredType DEF Calls, Desired
  <1>2. IsFiniteSet(ThePool(id).members)
    BY DEF IInv, PoolsInv, ThePool, HasPool
  <1> QED
    BY <1>1, <1>2, MembersChangedIsDifference

(* The pool that a pass takes for its own.                                 *)
Mine(c) ==
    IF Asked(call[c].req) /\ call[c].listener = "live" THEN Listed \cap {"bound"} ELSE {}

(* What becomes of a call when the pools are listed.                       *)
LEMMA ListPoolsType ==
    ASSUME IInv, NEW c \in Callers, ListPools(c)
    PROVE  /\ OnlyMoves(c) /\ call[c].step = "pools" /\ InCall(c)
           /\ UNCHANGED <<cloud, now, due>> /\ Remember /\ EnvOK'
           /\ call'[c].req = call[c].req /\ call'[c].listener = call[c].listener
           /\ call'[c].obsolete = Listed \ Mine(c)
           /\ Asked(call[c].req) /\ Mine(c) = {} =>
                /\ call'[c].step = "createPool" /\ call'[c].pool = call[c].pool
                /\ call'[c].op = call[c].op
           /\ ~(Asked(call[c].req) /\ Mine(c) = {}) =>
                /\ call'[c].step = "members"
                /\ call'[c].pool = IF Mine(c) = {} THEN "none" ELSE "bound"
                /\ call'[c].op = IF /\ Mine(c) # {}
                                    /\ membersChanged(pools[TheKey].members, Desired(c))
                                 THEN "update" ELSE "none"
           /\ "bound" \in Listed <=> HasPool(TheKey)
           /\ "left" \in Listed <=> left # NoPool
           /\ Listed \subseteq PoolIDs
  <1> DEFINE k == call[c]
             mine == Mine(c)
             changed == membersChanged(pools[TheKey].members, Desired(c))
  <1>1. /\ k \in Calls /\ k.step = "pools" /\ InCall(c) /\ UNCHANGED <<cloud, now, due>> /\ Remember
        /\ EnvOK'
    BY Typed DEF ListPools, Active, InCall, EnvOK
  <1>2. /\ "bound" \in Listed <=> HasPool(TheKey)
        /\ "left" \in Listed <=> left # NoPool
        /\ Listed \subseteq PoolIDs
    BY DEF Listed, PoolIDs, ThePool, HasPool
  <1> DEFINE o == Listed \ mine
             k0 == [k EXCEPT !.obsolete = o]
             e == IF Asked(k0.req) /\ mine = {} THEN [k0 EXCEPT !.step = "createPool"]
                  ELSE [k0 EXCEPT !.step = "members", !.pool = IF mine = {} THEN "none" ELSE "bound",
                                  !.op = IF mine # {} /\ changed THEN "update" ELSE "none"]
  <1>3. o \subseteq PoolIDs /\ o = Listed \ mine
    BY <1>2
  <1>4. call' = [call EXCEPT ![c] = e]
    BY DEF ListPools, Mine
  <1> HIDE DEF mine, o, changed
  <1>5. /\ k0 \in Calls /\ k0.step = k.step /\ k0.req = k.req /\ k0.listener = k.listener
        /\ k0.pool = k.pool /\ k0.op = k.op /\ k0.obsolete = o
    BY <1>1, <1>3 DEF Calls
  <1> HIDE DEF k0
  <1>6. /\ e \in Calls /\ e.req = k.req /\ e.listener = k.listener /\ e.obsolete = Listed \ mine
        /\ Asked(k.req) /\ mine = {} => e.step = "createPool" /\ e.pool = k.pool /\ e.op = k.op
        /\ ~(Asked(k.req) /\ mine = {}) =>
             /\ e.step = "members" /\ e.pool = IF mine = {} THEN "none" ELSE "bound"
             /\ e.op = IF mine # {} /\ changed THEN "update" ELSE "none"
    <2>1. CASE Asked(k.req) /\ mine = {}
      <3>1. e = [k0 EXCEPT !.step = "createPool"]
        BY <1>5, <2>1
      <3> QED
        BY <1>3, <1>5, <2>1, <3>1 DEF Calls
    <2>2. CASE ~(Asked(k.req) /\ mine = {})
      <3>1. e = [k0 EXCEPT !.step = "members", !.pool = IF mine = {} THEN "none" ELSE "bound",
                           !.op = IF mine # {} /\ changed THEN "update" ELSE "none"]
        BY <1>5, <2>2
      <3> HIDE DEF e
      <3>2. CASE mine = {}
        BY <1>3, <1>5, <2>2, <3>1, <3>2 DEF Calls, PoolIDs
      <3>3. CASE mine # {}
        BY <1>3, <1>5, <2>2, <3>1, <3>3 DEF Calls, PoolIDs
      <3> QED
        BY <3>2, <3>3
    <2> QED
      BY <2>1, <2>2
  <1> HIDE DEF e
  <1>7. OnlyMoves(c) /\ call'[c] = e
    BY <1>4, <1>6, Typed DEF OnlyMoves
  <1> QED
    BY <1>1, <1>2, <1>6, <1>7 DEF mine, changed

(* The pools are listed.                                                   *)
LEMMA ListPoolsKeeps ==
    ASSUME IInv, NEW c \in Callers, ListPools(c)
    PROVE  Keeps
  <1>1. /\ OnlyMoves(c) /\ call[c].step = "pools" /\ InCall(c) /\ UNCHANGED cloud /\ Remember
        /\ EnvOK' /\ call'[c].req = call[c].req
    BY ListPoolsType
  <1>2. /\ CallInv(call[c]) /\ IDsInv(call[c]) /\ SeenInv(call[c], shown[c])
        /\ Seen(c) \subseteq shown[c]
    BY <1>1 DEF IInv, CallerInv, ShownInv
  <1>3. CallInv(call'[c]) /\ IDsInv(call'[c])
    BY <1>1, <1>2, ListPoolsType DEF Mine, CallInv, IDsInv, Early, Loop, Poll, Over, PoolIDs
  <1>4. SeenInv(call'[c], shown[c])
    <2>1. ASSUME Asked(call[c].req), call'[c].step = "members", call'[c].op = "none"
          PROVE  "members" \in shown[c]
      <3>1. "bound" \in Listed /\ ~membersChanged(pools[TheKey].members, Desired(c))
        BY <2>1, ListPoolsType DEF Mine
      <3>2. ThePool("bound") = pools[TheKey] /\ ThePool("bound") # NoPool
        BY <3>1 DEF ThePool, Listed
      <3>3. ThePool("bound").members = Desired(c)
        BY <3>1, <3>2, ComparesSets
      <3>4. "members" \in Seen(c)
        BY <2>1, <3>1, <3>3 DEF Seen
      <3> QED
        BY <1>2, <3>4
    <2> QED
      BY <1>1, <1>2, <2>1, ListPoolsType DEF SeenInv, Over, Loop
  <1>5. call'[c].step \in {"createPool", "members"}
    BY ListPoolsType
  <1> QED
    BY <1>1, <1>3, <1>4, <1>5, LookKeeps

(* The missing pool is created, and its members are still to come.         *)
LEMMA CreatePoolKeeps ==
    ASSUME IInv, NEW c \in Callers, NEW lost \in BOOLEAN, CreatePool(c, lost)
    PROVE  Keeps
  <1> DEFINE q == [members |-> {}, target |-> {}]
  <1>1. /\ call[c] \in Calls /\ call[c].step = "createPool" /\ InCall(c)
        /\ call[c].listener = "live" /\ HasListener(TheKey)
        /\ CallInv(call[c]) /\ IDsInv(call[c]) /\ SeenInv(call[c], shown[c])
    BY Typed DEF CreatePool, Active, InCall, IInv, CallerInv, AcceptsPool
  <1>2. q \in Pool /\ IsFiniteSet(q.members) /\ IsFiniteSet(q.target)
    BY FS_EmptySet DEF Pool
  <1>3. CloudOK' /\ NothingLost /\ HasPool(TheKey)' /\ listeners' = listeners
    <2> HIDE DEF q
    <2> QED
      BY <1>1, <1>2, Typed, PutPoolKeeps DEF CreatePool, q
  <1>4. CASE lost = TRUE
    BY <1>1, <1>3, <1>4, LostKeeps DEF CreatePool
  <1>5. CASE lost = FALSE
    <2>1. Asked(call[c].req)
      BY <1>1 DEF CallInv
    <2>2. membersChanged({}, Desired(c))
      <3>1. Desired(c) # {}
        BY Typed, DesiredType DEF Calls, Desired
      <3> QED
        BY <3>1 DEF membersChanged
    <2>3. call' = [call EXCEPT ![c] = [call[c] EXCEPT !.step = "members", !.pool = "bound",
                                                      !.op = "update"]]
      BY <1>5, <2>2 DEF CreatePool, Answer
    <2>4. /\ OnlyMoves(c) /\ call'[c].step = "members" /\ call'[c].pool = "bound"
          /\ call'[c].op = "update" /\ call'[c].req = call[c].req
          /\ call'[c].listener = "live" /\ call'[c].obsolete = call[c].obsolete
      BY <1>1, <2>3, Typed DEF OnlyMoves, Calls, PoolIDs
    <2>5. CallInv(call[c])' /\ IDsInv(call[c])'
      BY <1>1, <1>3, <2>1, <2>4 DEF NothingLost, CallInv, IDsInv, Early, Loop, Poll, Over, Asked
    <2>6. SeenInv(call'[c], shown[c] \cup Seen(c)')
      BY <1>1, <2>1, <2>4 DEF SeenInv, Over, Loop
    <2>7. Mutates(c)
      BY DEF CreatePool
    <2> QED
      BY <1>1, <1>3, <2>4, <2>5, <2>6, <2>7, MutatesOK, CallerKeeps
  <1> QED
    BY <1>4, <1>5

(* The clean-up starts, or goes on, or the pass succeeds.                  *)
LEMMA CleanUpKeeps ==
    ASSUME IInv, NEW c \in Callers, Continue(c, CleanUp(call[c])), Looks,
           \/ call[c].step = "members" /\ call[c].op = "none"
           \/ call[c].step = "after" /\ call[c].op # "update"
           \/ call[c].step = "pollGet" /\ "members" \in shown[c]
    PROVE  Keeps
  <1>1. /\ InCall(c) /\ call[c].step \in {"members", "after", "pollGet"}
        /\ CallInv(call[c]) /\ IDsInv(call[c]) /\ SeenInv(call[c], shown[c]) /\ ShownInv(c)
    BY DEF InCall, IInv, CallerInv
  <1>2. /\ Asked(call[c].req) => "members" \in shown[c] /\ "listener" \in shown[c]
        /\ ~Asked(call[c].req) /\ call[c].listener # "live" => "absent" \in shown[c]
    <2>1. call[c].step = "after" /\ Asked(call[c].req) /\ call[c].op # "update" =>
            call[c].op = "deletePool"
      BY <1>1, Typed DEF CallInv, Calls, Loop
    <2> QED
      BY <1>1, <2>1 DEF SeenInv, Over, Loop
  <1>3. OnlyMoves(c) /\ (NextPool(c) \/ NextListener(c) \/ AllDone(c))
    BY Typed, CleanUpType
  <1>4. /\ call[c].obsolete \subseteq PoolIDs
        /\ ~Asked(call[c].req) => /\ call[c].pool \in {"none", "gone"}
                                  /\ call[c].step \in {"members"} \cup Loop
    BY <1>1, Typed DEF CallInv, Calls, Loop, Poll
  <1>5. CASE NextPool(c)
    <2>1. CallInv(call'[c])
      BY <1>1, <1>4, <1>5 DEF NextPool, CallInv, Early, Loop, Poll, Over, PoolIDs
    <2>2. IDsInv(call'[c])
      BY <1>1, <1>4, <1>5 DEF NextPool, IDsInv, Early, Loop, Poll, Over, PoolIDs
    <2>3. SeenInv(call'[c], shown[c])
      BY <1>1, <1>2, <1>5 DEF NextPool, SeenInv, Over, Loop
    <2> QED
      BY <1>1, <1>3, <1>5, <2>1, <2>2, <2>3, LooksOK, LookKeeps DEF NextPool
  <1>6. CASE NextListener(c)
    <2>1. CallInv(call'[c])
      BY <1>1, <1>4, <1>6 DEF NextListener, SameIDs, CallInv, Early, Loop, Poll, Over
    <2>2. IDsInv(call'[c])
      BY <1>1, <1>4, <1>6 DEF NextListener, SameIDs, IDsInv, Early, Loop, Poll, Over
    <2>3. SeenInv(call'[c], shown[c])
      BY <1>1, <1>2, <1>6 DEF NextListener, SameIDs, SeenInv, Over, Loop
    <2> QED
      BY <1>1, <1>3, <1>6, <2>1, <2>2, <2>3, LooksOK, LookKeeps DEF NextListener, SameIDs
  <1>7. CASE AllDone(c)
    <2>1. CallInv(call'[c]) /\ IDsInv(call'[c]) /\ SeenInv(call'[c], shown[c])
      BY <1>7 DEF AllDone, Ends, Empty, CallInv, IDsInv, SeenInv, Early, Loop, Poll, Over
    <2>2. ~Asked(call[c].req) => call[c].listener # "live"
      BY <1>1, <1>7 DEF AllDone, CallInv, Loop, Poll
    <2>3. Shown(c)
      BY <1>1, <1>2, <2>2 DEF Shown, ShownInv
    <2> QED
      BY <1>1, <1>3, <1>7, <2>1, <2>3, LooksOK, LookKeeps DEF AllDone, Ends
  <1> QED
    BY <1>3, <1>5, <1>6, <1>7

(* The members are brought up to date, or the clean-up starts.             *)
LEMMA MembersKeeps ==
    ASSUME IInv, NEW c \in Callers, Members(c)
    PROVE  Keeps
  <1>1. /\ InCall(c) /\ call[c].step = "members" /\ Looks /\ call[c] \in Calls
        /\ CallInv(call[c]) /\ IDsInv(call[c]) /\ SeenInv(call[c], shown[c])
    BY Typed DEF Members, Active, InCall, IInv, CallerInv
  <1>2. CASE call[c].op = "update"
    <2>1. call' = [call EXCEPT ![c] =
                     [call[c] EXCEPT !.step = "before", !.op = "update", !.tries = 0]]
      BY <1>2 DEF Members, Continue, Operate
    <2>2. 0 \in 0 .. Steps - 1
      BY PassesConstants
    <2>3. OnlyMoves(c) /\ SameIDs(c) /\ call'[c].step = "before" /\ call'[c].op = "update"
      BY <1>1, <2>1, <2>2, Typed DEF OnlyMoves, SameIDs, Calls
    <2>4. CallInv(call'[c]) /\ IDsInv(call'[c]) /\ SeenInv(call'[c], shown[c])
      BY <1>1, <1>2, <2>3 DEF SameIDs, CallInv, IDsInv, SeenInv, Early, Loop, Poll, Over
    <2> QED
      BY <1>1, <2>3, <2>4, LooksOK, LookKeeps DEF SameIDs
  <1>3. CASE call[c].op # "update"
    <2>1. call[c].op = "none" /\ Continue(c, CleanUp(call[c]))
      BY <1>1, <1>3 DEF Members, CallInv
    <2> QED
      BY <1>1, <2>1, CleanUpKeeps
  <1> QED
    BY <1>2, <1>3

(* The retry loops.                                                        *)
LEMMA RetriesKeep ==
    ASSUME IInv, NEW c \in Callers, OperationImmutable(c) \/ AwaitFails(c)
    PROVE  Keeps
  <1>1. call[c].step \in Loop /\ NextTry(c, "before") /\ Looks
    BY DEF OperationImmutable, AwaitFails, Loop
  <1> QED
    BY <1>1, RetryKeeps

(* After an update its members are waited for, after a deletion the        *)
(* clean-up goes on.                                                       *)
LEMMA AwaitAfterKeeps ==
    ASSUME IInv, NEW c \in Callers, AwaitAfter(c)
    PROVE  Keeps
  <1>1. /\ InCall(c) /\ call[c].step = "after" /\ Looks /\ call[c] \in Calls
        /\ CallInv(call[c]) /\ IDsInv(call[c]) /\ SeenInv(call[c], shown[c])
    BY Typed DEF AwaitAfter, Active, InCall, IInv, CallerInv
  <1>2. CASE call[c].op = "update"
    <2>1. call' = [call EXCEPT ![c] = [call[c] EXCEPT !.step = "pollWait", !.tries = 0]]
      BY <1>2 DEF AwaitAfter, Continue
    <2>2. 0 \in 0 .. Steps - 1
      BY PassesConstants
    <2>3. OnlyMoves(c) /\ SameIDs(c) /\ call'[c].step = "pollWait" /\ call'[c].op = call[c].op
      BY <1>1, <2>1, <2>2, Typed DEF OnlyMoves, SameIDs, Calls
    <2>4. CallInv(call'[c]) /\ IDsInv(call'[c]) /\ SeenInv(call'[c], shown[c])
      BY <1>1, <1>2, <2>3 DEF SameIDs, CallInv, IDsInv, SeenInv, Early, Loop, Poll, Over
    <2> QED
      BY <1>1, <2>3, <2>4, LooksOK, LookKeeps DEF SameIDs
  <1>3. CASE call[c].op # "update"
    BY <1>1, <1>3, CleanUpKeeps DEF AwaitAfter
  <1> QED
    BY <1>2, <1>3

(* The poll waits for the load balancer.                                   *)
LEMMA PollWaitKeeps ==
    ASSUME IInv, NEW c \in Callers, PollWait(c)
    PROVE  Keeps
  <1>1. /\ InCall(c) /\ call[c].step = "pollWait" /\ Looks
        /\ CallInv(call[c]) /\ IDsInv(call[c]) /\ SeenInv(call[c], shown[c])
    BY DEF PollWait, InCall, IInv, CallerInv
  <1>2. CASE lb = "ACTIVE"
    <2>1. OnlyMoves(c) /\ SameIDs(c) /\ call'[c].step = "pollGet" /\ call'[c].op = call[c].op
      BY <1>2, Typed, GotoType DEF PollWait
    <2>2. CallInv(call'[c]) /\ IDsInv(call'[c]) /\ SeenInv(call'[c], shown[c])
      BY <1>1, <2>1 DEF SameIDs, CallInv, IDsInv, SeenInv, Early, Loop, Poll, Over
    <2> QED
      BY <1>1, <2>1, <2>2, LooksOK, LookKeeps DEF SameIDs
  <1>3. CASE lb # "ACTIVE"
    BY <1>1, <1>3, RetryKeeps DEF PollWait, Poll
  <1> QED
    BY <1>2, <1>3

(* The poll reads the members.                                             *)
LEMMA PollGetKeeps ==
    ASSUME IInv, NEW c \in Callers, PollGet(c)
    PROVE  Keeps
  <1>1. /\ call[c].step = "pollGet" /\ Looks /\ call[c] \in Calls
        /\ CallInv(call[c]) /\ IDsInv(call[c]) /\ ShownInv(c)
    BY Typed DEF PollGet, IInv, CallerInv
  <1>2. CASE call[c].pool # "gone" /\ ~membersChanged(ThePool(call[c].pool).members, Desired(c))
    <2>1. call[c].pool \in {"bound", "left"} /\ ThePool(call[c].pool) # NoPool
      BY <1>1, <1>2 DEF CallInv, IDsInv, Calls, PoolIDs, Poll, ThePool, HasPool
    <2>2. ThePool(call[c].pool).members = Desired(c)
      BY <1>2, <2>1, ComparesSets
    <2>3. "members" \in Seen(c)
      BY <1>1, <2>1, <2>2 DEF Seen, Listed, PoolIDs, CallInv, Poll
    <2>4. "members" \in shown[c]
      BY <1>1, <2>3 DEF ShownInv
    <2> QED
      BY <1>1, <1>2, <2>4, CleanUpKeeps DEF PollGet
  <1>3. CASE ~(call[c].pool # "gone" /\ ~membersChanged(ThePool(call[c].pool).members, Desired(c)))
    BY <1>1, <1>3, RetryKeeps DEF PollGet, Poll
  <1> QED
    BY <1>2, <1>3

(* A request fails.                                                        *)
LEMMA RequestFailsKeeps ==
    ASSUME IInv, NEW c \in Callers, RequestFails(c)
    PROVE  Keeps
  <1>1. CASE call[c].step \in {"before", "after"}
    BY <1>1, RetryKeeps DEF RequestFails, Loop
  <1>2. CASE call[c].step \in {"pollWait", "pollGet"}
    BY <1>2, RetryKeeps DEF RequestFails, Poll
  <1>3. CASE call[c].step = "reload"
    BY <1>3, PanicKeeps DEF RequestFails
  <1>4. CASE call[c].step \notin {"before", "after", "pollWait", "pollGet", "reload"}
    BY <1>4, FailKeeps DEF RequestFails
  <1> QED
    BY <1>1, <1>2, <1>3, <1>4

-----------------------------------------------------------------------------
(* A mutation inside a retry loop, which every caller's IDs feel.          *)

(* What the IDs of a call stand for after a pool was deleted.              *)
LEMMA WithoutPoolType ==
    ASSUME NEW k \in Calls, NEW id \in PoolIDs, NEW w, w = WithoutPool(k, id)
    PROVE  /\ w \in Calls /\ w.step = k.step /\ w.req = k.req /\ w.op = k.op /\ w.tries = k.tries
           /\ w.listener = k.listener /\ w.pool = IF k.pool = id THEN "gone" ELSE k.pool
           /\ w.obsolete = {IF p = id THEN "gone" ELSE p : p \in k.obsolete}
  <1>1. {IF p = id THEN "gone" ELSE p : p \in k.obsolete} \in SUBSET PoolIDs
    BY DEF Calls, PoolIDs
  <1>2. (IF k.pool = id THEN "gone" ELSE k.pool) \in PoolIDs \cup {"none"}
    BY DEF Calls, PoolIDs
  <1>3. w = [k EXCEPT !.pool = IF k.pool = id THEN "gone" ELSE k.pool,
                      !.obsolete = {IF p = id THEN "gone" ELSE p : p \in k.obsolete}]
    BY DEF WithoutPool
  <1> DEFINE o == {IF p = id THEN "gone" ELSE p : p \in k.obsolete}
             q == IF k.pool = id THEN "gone" ELSE k.pool
  <1>4. o \in SUBSET PoolIDs /\ q \in PoolIDs \cup {"none"} /\ w = [k EXCEPT !.pool = q, !.obsolete = o]
    BY <1>1, <1>2, <1>3
  <1> HIDE DEF o, q
  <1>5. /\ w \in Calls /\ w.step = k.step /\ w.req = k.req /\ w.op = k.op /\ w.tries = k.tries
        /\ w.listener = k.listener /\ w.pool = q /\ w.obsolete = o
    BY <1>4 DEF Calls
  <1> QED
    BY <1>5 DEF o, q

(* And after the listener was deleted.                                     *)
LEMMA WithoutListenerType ==
    ASSUME NEW k \in Calls, NEW w, w = WithoutListener(k)
    PROVE  /\ w \in Calls /\ w.step = k.step /\ w.req = k.req /\ w.op = k.op /\ w.tries = k.tries
           /\ w.listener = IF k.listener = "live" THEN "gone" ELSE k.listener
           /\ w.pool = IF k.pool = "bound" THEN "left" ELSE k.pool
           /\ w.obsolete = {IF p = "bound" THEN "left" ELSE p : p \in k.obsolete}
  <1> DEFINE o == {IF p = "bound" THEN "left" ELSE p : p \in k.obsolete}
             q == IF k.pool = "bound" THEN "left" ELSE k.pool
             l == IF k.listener = "live" THEN "gone" ELSE k.listener
  <1>1. o \in SUBSET PoolIDs
    BY DEF Calls, PoolIDs
  <1>2. q \in PoolIDs \cup {"none"} /\ l \in ListenerIDs
    BY DEF Calls, PoolIDs, ListenerIDs
  <1>3. w = [k EXCEPT !.listener = l, !.pool = q, !.obsolete = o]
    BY DEF WithoutListener
  <1> HIDE DEF o, q, l
  <1>4. /\ w \in Calls /\ w.step = k.step /\ w.req = k.req /\ w.op = k.op /\ w.tries = k.tries
        /\ w.listener = l /\ w.pool = q /\ w.obsolete = o
    BY <1>1, <1>2, <1>3 DEF Calls
  <1> QED
    BY <1>4 DEF o, q, l

(* A caller's invariants survive the deletion of a pool.                   *)
LEMMA WithoutPoolInv ==
    ASSUME CloudOK, NEW k \in Calls, CallInv(k), IDsInv(k),
           NEW id \in PoolIDs, DropPool(id), NEW w, w = WithoutPool(k, id)
    PROVE  CallInv(w) /\ IDsInv(w)'
  <1>1. /\ w \in Calls /\ w.step = k.step /\ w.req = k.req /\ w.op = k.op
        /\ w.listener = k.listener /\ w.pool = IF k.pool = id THEN "gone" ELSE k.pool
    BY WithoutPoolType
  <1>2. /\ k.obsolete = {} => w.obsolete = {}
        /\ \A p \in {"bound", "left"} : p \in w.obsolete <=> p \in k.obsolete /\ p # id
    BY WithoutPoolType
  <1>3. /\ listeners' = listeners
        /\ id = "bound" => ~HasPool(TheKey)' /\ left' = left
        /\ id = "left" => pools' = pools /\ left' = NoPool
        /\ id # "gone"
    BY DropPoolKeeps
  <1>4. CallInv(w)
    BY <1>1, <1>2 DEF CallInv, Early, Loop, Poll, Over, PoolIDs
  <1>5. /\ HasListener(TheKey)' <=> HasListener(TheKey)
        /\ id = "left" => (HasPool(TheKey)' <=> HasPool(TheKey))
    BY <1>3 DEF HasListener, HasPool
  <1>6. id \in {"bound", "left"}
    BY <1>3 DEF PoolIDs
  <1>7. IDsInv(w)'
    BY <1>1, <1>2, <1>3, <1>5, <1>6 DEF IDsInv, Loop, Asked
  <1> QED
    BY <1>4, <1>7

(* And that of the listener.                                               *)
LEMMA WithoutListenerInv ==
    ASSUME CloudOK, NEW k \in Calls, CallInv(k), IDsInv(k), DropListener,
           NEW w, w = WithoutListener(k)
    PROVE  CallInv(w) /\ IDsInv(w)'
  <1>1. /\ w \in Calls /\ w.step = k.step /\ w.req = k.req /\ w.op = k.op
        /\ w.listener = IF k.listener = "live" THEN "gone" ELSE k.listener
        /\ w.pool = IF k.pool = "bound" THEN "left" ELSE k.pool
    BY WithoutListenerType
  <1>2. /\ k.obsolete = {} => w.obsolete = {}
        /\ "bound" \notin w.obsolete
        /\ "left" \in w.obsolete <=> "left" \in k.obsolete \/ "bound" \in k.obsolete
    BY WithoutListenerType
  <1>3. /\ left' = IF HasPool(TheKey) THEN pools[TheKey] ELSE left
        /\ HasPool(TheKey) => left' # NoPool
    BY DropListenerKeeps
  <1>4. CallInv(w)
    BY <1>1, <1>2 DEF CallInv, Early, Loop, Poll, Over
  <1>5. IDsInv(w)'
    BY <1>1, <1>2, <1>3 DEF IDsInv, Loop, Asked
  <1> QED
    BY <1>4, <1>5

(* What a mutation inside a loop leaves of the cloud and of every call.    *)
LEMMA CarriedKeeps ==
    ASSUME IInv, NEW c \in Callers, call[c].step = "act", Carried(c), NEW d \in Callers,
           NEW w, w = After(c, call[d])
    PROVE  /\ CloudOK' /\ w \in Calls /\ CallInv(w) /\ IDsInv(w)'
           /\ w.step = call[d].step /\ w.req = call[d].req /\ w.op = call[d].op
           /\ w.tries = call[d].tries
           /\ w.listener # call[d].listener => ~HasListener(TheKey)'
           /\ call[c].op = "deletePool" /\ d = c => w.pool = "gone"
           /\ call[c].op = "deleteListener" /\ d = c => w.listener # "live"
  <1>1. /\ CloudOK /\ call[c] \in Calls /\ call[d] \in Calls
        /\ CallInv(call[c]) /\ CallInv(call[d]) /\ IDsInv(call[d])
    BY Typed DEF IInv, CallerInv
  <1>2. call[c].op # "deleteListener" => call[c].pool \in PoolIDs
    BY <1>1 DEF CallInv, Loop, Calls
  <1>3. CASE call[c].op = "update" /\ SetMembers(call[c].pool, Desired(c))
    <2>1. w = call[d]
      BY <1>3 DEF After
    <2>2. Desired(c) \in SUBSET Member /\ IsFiniteSet(Desired(c))
      BY <1>1, DesiredType DEF Calls, Desired
    <2>3. CloudOK' /\ NothingLost
      BY <1>1, <1>2, <1>3, <2>2, SetMembersKeeps
    <2>4. IDsInv(w)'
      BY <1>1, <2>1, <2>3 DEF IDsInv, NothingLost, Asked
    <2> QED
      BY <1>1, <1>3, <2>1, <2>3, <2>4
  <1>4. CASE call[c].op = "deletePool" /\ DropPool(call[c].pool)
    <2>1. w = WithoutPool(call[d], call[c].pool)
      BY <1>4 DEF After
    <2>2. CallInv(w) /\ IDsInv(w)'
      BY <1>1, <1>2, <1>4, <2>1, WithoutPoolInv
    <2>3. CloudOK'
      BY <1>1, <1>2, <1>4, DropPoolKeeps
    <2> QED
      BY <1>1, <1>2, <1>4, <2>1, <2>2, <2>3, WithoutPoolType
  <1>5. CASE call[c].op = "deleteListener" /\ DropListener
    <2>1. w = WithoutListener(call[d])
      BY <1>5 DEF After
    <2>2. CallInv(w) /\ IDsInv(w)'
      BY <1>1, <1>5, <2>1, WithoutListenerInv
    <2>3. CloudOK' /\ ~HasListener(TheKey)'
      BY <1>1, <1>5, DropListenerKeeps
    <2> QED
      BY <1>1, <1>5, <2>1, <2>2, <2>3, WithoutListenerType
  <1> QED
    BY <1>3, <1>4, <1>5 DEF Carried

(* The mutation itself.                                                    *)
LEMMA OperationKeeps ==
    ASSUME IInv, NEW c \in Callers, NEW lost \in BOOLEAN, Operation(c, lost)
    PROVE  Keeps
  <1>1. /\ call \in [Callers -> Calls] /\ call[c].step = "act" /\ Carried(c) /\ Mutates(c)
        /\ EnvOK' /\ Remember
    BY Typed, MutatesOK DEF Operation, Active
  <1>2. ASSUME NEW d \in Callers, d # c
        PROVE  /\ call'[d] \in Calls /\ CloudOK'
               /\ CallerInv(d)' /\ ContractStep(d)
    <2>1. call'[d] = After(c, call[d])
      BY <1>2 DEF Operation
    <2>2. /\ CloudOK' /\ call'[d] \in Calls /\ CallInv(call'[d]) /\ IDsInv(call[d])'
          /\ call'[d].step = call[d].step /\ call'[d].req = call[d].req
          /\ call'[d].op = call[d].op
          /\ call'[d].listener # call[d].listener => ~HasListener(TheKey)'
      BY <1>1, <2>1, CarriedKeeps
    <2>3. CallInv(call[d])'
      BY <2>2 DEF CallInv, Asked
    <2>4. /\ ShownInv(d)'
          /\ call'[d].step \notin {"idle", "error"} => shown'[d] = shown[d] \cup Seen(d)'
      BY <1>1, <2>2, ShownKept DEF IInv, CallerInv
    <2>5. SeenInv(call[d], shown[d])'
      <3>1. SeenInv(call[d], shown[d])
        BY DEF IInv, CallerInv
      <3>2. ~HasListener(TheKey)' /\ ~Asked(call[d].req) => "absent" \in Seen(d)'
        BY <2>2 DEF Seen, Asked
      <3> QED
        BY <2>2, <2>4, <3>1, <3>2 DEF SeenInv, Over, Loop, Asked
    <2>6. ContractStep(d)
      BY <2>2 DEF ContractStep, Result, InCall
    <2> QED
      BY <2>2, <2>3, <2>4, <2>5, <2>6 DEF CallerInv
  <1>3. /\ call'[c] \in Calls /\ CloudOK' /\ CallerInv(c)' /\ ContractStep(c)
    <2>1. PICK w : w = After(c, call[c])
      OBVIOUS
    <2>2. /\ CloudOK' /\ w \in Calls /\ CallInv(w) /\ IDsInv(w)'
          /\ w.step = "act" /\ w.req = call[c].req /\ w.op = call[c].op
          /\ w.listener # call[c].listener => ~HasListener(TheKey)'
          /\ call[c].op = "deletePool" => w.pool = "gone"
          /\ call[c].op = "deleteListener" => w.listener # "live"
      BY <1>1, <2>1, CarriedKeeps
    <2>3. CASE lost = TRUE
      <3>1. call'[c] = End(call[c], "error")
        BY <2>3 DEF Operation
      <3>2. call'[c] \in Calls /\ Ends(c, "error")
        BY <1>1, <3>1, EndType DEF Ends, Empty
      <3>3. ShownInv(c)'
        BY <1>1, <3>2, ShownKept DEF IInv, CallerInv, Ends
      <3>4. CallInv(call[c])' /\ IDsInv(call[c])' /\ SeenInv(call[c], shown[c])'
        BY <3>2 DEF Ends, Empty, CallInv, IDsInv, SeenInv, Early, Loop, Poll, Over
      <3>5. ContractStep(c)
        BY <1>1, <3>2 DEF Ends, ContractStep, Result, InCall
      <3> QED
        BY <2>2, <3>2, <3>3, <3>4, <3>5 DEF CallerInv
    <2>4. CASE lost = FALSE
      <3>1. call'[c] = [w EXCEPT !.step = "after"]
        BY <2>1, <2>4 DEF Operation
      <3>2. /\ call'[c] \in Calls /\ call'[c].step = "after" /\ call'[c].req = call[c].req
            /\ call'[c].op = call[c].op /\ call'[c].listener = w.listener
            /\ call'[c].pool = w.pool /\ call'[c].obsolete = w.obsolete
        BY <2>2, <3>1 DEF Calls
      <3>3. CallInv(call[c])'
        BY <2>2, <3>2 DEF CallInv, Early, Loop, Poll, Over, Asked
      <3>4. IDsInv(call[c])'
        BY <2>2, <3>2 DEF IDsInv, Loop, Asked
      <3>5. ShownInv(c)' /\ shown'[c] = shown[c] \cup Seen(c)'
        BY <1>1, <3>2, ShownKept DEF IInv, CallerInv
      <3>6. SeenInv(call[c], shown[c])'
        <4>1. SeenInv(call[c], shown[c])
          BY DEF IInv, CallerInv
        <4>2. ~HasListener(TheKey)' /\ ~Asked(call[c].req) => "absent" \in Seen(c)'
          BY <3>2 DEF Seen, Asked
        <4> QED
          BY <1>1, <2>2, <3>2, <3>5, <4>1, <4>2 DEF SeenInv, Over, Loop, Asked
      <3>7. ContractStep(c)
        BY <1>1, <3>2 DEF ContractStep, Result, InCall
      <3> QED
        BY <2>2, <3>2, <3>3, <3>4, <3>5, <3>6, <3>7 DEF CallerInv
    <2> QED
      BY <2>3, <2>4
  <1>4. call' \in [Callers -> Calls]
    <2>1. \A d \in Callers : call'[d] \in Calls
      BY <1>2, <1>3
    <2>2. call' = [d \in Callers |-> call'[d]]
      BY DEF Operation
    <2> QED
      BY <2>1, <2>2
  <1>5. TypeOK' /\ PoolsInv'
    BY <1>1, <1>3, <1>4, TypesKept
  <1> QED
    BY <1>2, <1>3, <1>5 DEF Keeps, IInv

-----------------------------------------------------------------------------
(* Steps of the others: no caller moves.                                   *)

(* When no caller moves and nothing is lost, all is kept.                  *)
LEMMA OthersKeep ==
    ASSUME IInv, call' = call, Remember, NothingLost, CloudOK', EnvOK'
    PROVE  Keeps
  <1>1. TypeOK' /\ PoolsInv'
    BY Typed, TypesKept
  <1>2. \A d \in Callers : CallerInv(d)' /\ ContractStep(d)
    BY OtherKeeps
  <1> QED
    BY <1>1, <1>2 DEF Keeps, IInv

(* The user's and the nodes' changes.                                      *)
LEMMA ChangeKeeps ==
    ASSUME IInv, NEW s \in Specs, Change(s)
    PROVE  Keeps
  <1>1. EnvOK'
    <2>1. changes' \in 0 .. MaxChanges
      BY Typed, PassesConstants DEF Change, EnvOK
    <2>2. due' \subseteq Callers /\ looked' \subseteq Callers /\ now' \in Specs
      BY Typed DEF Change, EnvOK, Callers
    <2>3. stale' \in BOOLEAN
      BY Typed DEF Change, EnvOK, UpdatePending
    <2> QED
      BY <2>1, <2>2, <2>3 DEF EnvOK
  <1> QED
    BY <1>1, SameCloud, OthersKeep DEF Change

(* The load balancer becomes ACTIVE or breaks, or members are applied.     *)
LEMMA CloudKeeps ==
    ASSUME IInv, CloudSettle \/ CloudBreak \/ CloudApply
    PROVE  Keeps
  <1>1. EnvOK' /\ call' = call /\ Remember
    BY Typed DEF CloudSettle, CloudBreak, CloudApply, Unasked, EnvOK
  <1>2. CASE CloudSettle \/ CloudBreak
    <2>1. CloudOK' /\ NothingLost
      BY <1>2, Typed DEF CloudSettle, CloudBreak, Settle, Break, CloudOK, CloudTypeOK, LbStates,
                         PoolsInv, HasPool, HasListener, NothingLost
    <2> QED
      BY <1>1, <2>1, OthersKeep
  <1>3. CASE ApplyMembers(TheKey) /\ UNCHANGED left
    <2> DEFINE q == [pools[TheKey] EXCEPT !.members = pools[TheKey].target]
    <2>1. HasPool(TheKey) /\ PutPool(TheKey, q)
      BY <1>3 DEF ApplyMembers, UpdatePending
    <2>2. pools[TheKey] \in Pool /\ IsFiniteSet(pools[TheKey].target) /\ HasListener(TheKey)
      BY <2>1, Typed, TheKeyType DEF CloudOK, CloudTypeOK, HasPool, PoolsInv
    <2>3. q \in Pool /\ q.members = pools[TheKey].target /\ q.target = pools[TheKey].target
      BY <2>2 DEF Pool
    <2> HIDE DEF q
    <2>4. CloudOK' /\ NothingLost
      BY <1>3, <2>1, <2>2, <2>3, Typed, PutPoolKeeps
    <2> QED
      BY <1>1, <2>4, OthersKeep
  <1>4. CASE ApplyToLeft
    <2>1. left \in Pool /\ IsFiniteSet(left.target)
      BY <1>4, Typed DEF ApplyToLeft, CloudOK, PoolsInv
    <2>2. left' = [left EXCEPT !.members = left.target]
      BY <1>4 DEF ApplyToLeft
    <2>3. left' \in Pool /\ left'.members = left.target /\ left'.target = left.target
      BY <2>1, <2>2 DEF Pool
    <2>4. left' # NoPool /\ left # NoPool
      BY <1>4, <2>3, CloudConstants DEF ApplyToLeft
    <2>5. CloudOK' /\ NothingLost
      BY <1>4, <2>1, <2>3, <2>4, Typed DEF ApplyToLeft, CloudOK, CloudTypeOK, LbStates, PoolsInv,
                                           HasPool, HasListener, NothingLost
    <2> QED
      BY <1>1, <2>5, OthersKeep
  <1> QED
    BY <1>2, <1>3, <1>4 DEF CloudApply, CloudSettle, CloudBreak

-----------------------------------------------------------------------------
(* The theorems about types and about the contract.                        *)

(* The invariant holds at the start.                                       *)
LEMMA InitIInv == Init => IInv
  <1> SUFFICES ASSUME Init PROVE IInv
    OBVIOUS
  <1> DEFINE m == DesiredMembers(now, ThePort)
  <1>1. now \in Specs /\ m \in SUBSET Member /\ IsFiniteSet(m)
    BY DesiredType DEF Init
  <1>2. buildListenerCreateRequest(now) \in Attr
    BY <1>1, SpecsType, CreatedType
  <1>3. listeners \in [Keys -> Attr \cup {NoListener}] /\ HasListener(TheKey)
    BY <1>2, TheKeyType, CloudConstants DEF Init, HasListener
  <1>4. pools \in [Keys -> Pool \cup {NoPool}] /\ pools[TheKey] = [members |-> m, target |-> m]
    BY <1>1, TheKeyType DEF Init, Pool
  <1>5. CloudTypeOK
    BY <1>3, <1>4 DEF Init, CloudTypeOK, LbStates, NoGroup
  <1>6. PoolsInv
    BY <1>1, <1>3, <1>4 DEF Init, PoolsInv
  <1>7. \A c \in Callers : call[c] = Idle(now) /\ shown[c] = {}
    BY DEF Init
  <1>8. call \in [Callers -> Calls]
    BY <1>1, IdleType DEF Init
  <1>9. TypeOK
    <2>1. changes \in 0 .. MaxChanges
      BY PassesConstants DEF Init
    <2>2. stale \in BOOLEAN /\ due \subseteq Callers /\ looked \subseteq Callers /\ left = NoPool
      BY DEF Init
    <2>3. shown \in [Callers -> SUBSET Facts]
      BY DEF Init
    <2> QED
      BY <1>1, <1>5, <1>8, <2>1, <2>2, <2>3 DEF TypeOK
  <1>10. ASSUME NEW c \in Callers PROVE CallerInv(c)
    <2>1. Empty(call[c]) /\ call[c].step = "idle"
      BY <1>1, <1>7, IdleType
    <2>2. ShownInv(c)
      BY <1>7, <2>1 DEF ShownInv
    <2>3. CallInv(call[c]) /\ IDsInv(call[c]) /\ SeenInv(call[c], shown[c])
      BY <2>1 DEF Empty, CallInv, IDsInv, SeenInv, Early, Loop, Poll, Over
    <2> QED
      BY <2>2, <2>3 DEF CallerInv
  <1> QED
    BY <1>6, <1>9, <1>10 DEF IInv

(* A step of a pass, or of the controller that runs it.                    *)
LEMMA PassKeeps ==
    ASSUME IInv, NEW c \in Callers,
           PassStep(c) \/ ControllerStep(c) \/ RequestFails(c) \/ Mutation(c, TRUE)
    PROVE  Keeps
  <1>1. ASSUME NEW lost \in BOOLEAN, Mutation(c, lost) PROVE Keeps
    BY <1>1, CreateListenerKeeps, UpdateListenerKeeps, CreatePoolKeeps, OperationKeeps DEF Mutation
  <1>2. CASE PassStep(c)
    BY <1>1, <1>2, ListListenersKeeps, RejectedKeeps, GoesOnKeeps, PanicKeeps, ListPoolsKeeps,
       MembersKeeps, RetriesKeep, AwaitAfterKeeps, PollWaitKeeps, PollGetKeeps
       DEF PassStep, ReloadPanics
  <1>3. CASE ControllerStep(c)
    BY <1>3, StartKeeps, ReturnKeeps DEF ControllerStep
  <1> QED
    BY <1>1, <1>2, <1>3, RequestFailsKeeps

(* Every step keeps the invariant, and both contracts.                     *)
LEMMA NextKeeps ==
    ASSUME IInv, [Next]_vars
    PROVE  IInv' /\ \A d \in Callers : ContractStep(d)
  <1>1. CASE UNCHANGED vars
    <2>1. IInv'
      BY <1>1 DEF vars, cloud, cloudVars, history, IInv, TypeOK, CloudTypeOK, PoolsInv, CallerInv,
                  CallInv, IDsInv, SeenInv, ShownInv, Seen, Listed, ThePool, HasPool, HasListener,
                  Asked, Desired
    <2>2. \A d \in Callers : ContractStep(d)
      BY <1>1 DEF vars, ContractStep, Result, InCall
    <2> QED
      BY <2>1, <2>2
  <1>2. CASE Ordinary
    BY <1>2, PassKeeps, CloudKeeps, ChangeKeeps DEF Ordinary, Keeps
  <1>3. CASE Fault
    BY <1>3, PassKeeps DEF Fault, Keeps
  <1> QED
    BY <1>1, <1>2, <1>3 DEF Next

(* Every reachable state is well typed: in particular no loop counts past  *)
(* its attempts (runLBOperationWithRetry, waitPoolMembersApplied).         *)
THEOREM TypeCorrect == Spec => []TypeOK
  <1>1. IInv /\ [Next]_vars => IInv'
    BY NextKeeps
  <1>2. IInv => TypeOK
    BY DEF IInv
  <1> QED
    BY <1>1, <1>2, InitIInv, PTL DEF Spec

(* A step that keeps the contract is one of the abstract specification.    *)
LEMMA ContractNext ==
    ASSUME \A d \in Callers : ContractStep(d)
    PROVE  WorkerContract!Next /\ SyncContract!Next
  <1>1. Shown("worker")' \in BOOLEAN /\ Shown("sync")' \in BOOLEAN
    BY DEF Shown
  <1>2. ContractStep("worker") /\ ContractStep("sync")
    BY DEF Callers
  <1>3. WorkerContract!Next
    BY <1>1, <1>2 DEF ContractStep, WorkerContract!Next, WorkerContract!Begin, WorkerContract!Succeed,
                      WorkerContract!Fail, WorkerContract!Return, WorkerContract!Die,
                      WorkerContract!Others
  <1>4. SyncContract!Next
    BY <1>1, <1>2 DEF ContractStep, SyncContract!Next, SyncContract!Begin, SyncContract!Succeed,
                      SyncContract!Fail, SyncContract!Return, SyncContract!Die,
                      SyncContract!Others
  <1> QED
    BY <1>3, <1>4

(* Both passes implement PassContract: whatever the other pass deletes or  *)
(* creates anew and whatever fails, a pass succeeds only if, since it was  *)
(* called, the listener has been there and a pool has had exactly its      *)
(* members, or the listener it had to remove has been gone                 *)
(* (ensureLoadBalancerListeners, runLBOperationWithRetry,                  *)
(* waitPoolMembersApplied).                                                *)
THEOREM ContractKept == Spec => KeepsContract
  <1>1. Init => WorkerContract!Init /\ SyncContract!Init
    <2>1. Init => \A c \in Callers : Result(c) = "idle"
      BY DEF Init, Result, InCall, Idle
    <2>2. \A c \in Callers : Shown(c) \in BOOLEAN
      BY DEF Shown
    <2>3. "worker" \in Callers /\ "sync" \in Callers
      BY DEF Callers
    <2> QED
      BY <2>1, <2>2, <2>3 DEF WorkerContract!Init, SyncContract!Init
  <1>2. IInv /\ [Next]_vars => IInv'
    BY NextKeeps
  <1>3. IInv /\ [Next]_vars => [WorkerContract!Next]_(WorkerContract!vars)
                              /\ [SyncContract!Next]_(SyncContract!vars)
    BY NextKeeps, ContractNext
  <1> QED
    BY <1>1, <1>2, <1>3, InitIInv, PTL
       DEF Spec, KeepsContract, WorkerContract!Safety, SyncContract!Safety

-----------------------------------------------------------------------------
(* Who leaves a pool without a listener.                                   *)

(* Only a pass that is to delete the listener takes it away.               *)
LEMMA OnlyDeleted ==
    ASSUME IInv, Next, HasListener(TheKey), ~HasListener(TheKey)'
    PROVE  \E c \in Callers : /\ call[c].step = "act" /\ call[c].op = "deleteListener"
                              /\ call[c].listener = "live"
  <1>1. listeners' # listeners
    BY DEF HasListener, TheKey
  <1>2. ASSUME NEW c \in Callers, NEW lost \in BOOLEAN,
               CreateListener(c, lost) \/ UpdateListener(c, lost)
        PROVE  FALSE
    <2>1. call[c].req \in Specs /\ CloudOK
      BY Typed DEF Calls
    <2>2. listeners[TheKey] \in Attr
      BY <2>1, TheKeyType DEF CloudOK, CloudTypeOK, HasListener
    <2>3. PICK a \in Attr : PutListener(TheKey, a) /\ UNCHANGED left
      BY <1>2, <2>1, <2>2, SpecsType, CreatedType, UpdatedType DEF CreateListener, UpdateListener
    <2> QED
      BY <2>1, <2>3, PutListenerKeeps
  <1>3. ASSUME NEW c \in Callers, NEW lost \in BOOLEAN, CreatePool(c, lost) PROVE FALSE
    BY <1>1, <1>3 DEF CreatePool, PutPool
  <1>4. ASSUME NEW c \in Callers, NEW lost \in BOOLEAN, Operation(c, lost)
        PROVE  call[c].step = "act" /\ call[c].op = "deleteListener" /\ call[c].listener = "live"
    BY <1>1, <1>4 DEF Operation, Active, Carried, SetMembers, PoolUpdate, DropPool, PutPool, cloudVars
  <1>5. ASSUME NEW c \in Callers,
               \/ ListListeners(c) \/ ListenerRejected(c) \/ Settled(c) \/ Reload(c)
               \/ ReloadPanics(c) \/ ListPools(c) \/ PoolRejected(c) \/ Members(c) \/ WaitFails(c)
               \/ AwaitBefore(c) \/ OperationImmutable(c) \/ OperationRejected(c)
               \/ AwaitAfter(c) \/ AwaitFails(c) \/ PollWait(c) \/ PollGet(c)
               \/ ControllerStep(c) \/ RequestFails(c)
        PROVE  FALSE
    BY <1>1, <1>5 DEF ListListeners, ListenerRejected, Settled, Reload, ReloadPanics, Panic, ListPools,
       PoolRejected, Members, WaitFails, AwaitBefore, OperationImmutable, OperationRejected,
       AwaitAfter, AwaitFails, PollWait, PollGet, ControllerStep, Start, Return, RequestFails,
       Looks, cloud, cloudVars
  <1>6. ASSUME CloudSettle \/ CloudBreak \/ CloudApply \/ \E s \in Specs : Change(s) PROVE FALSE
    BY <1>1, <1>6 DEF CloudSettle, CloudBreak, CloudApply, Settle, Break, ApplyMembers, PutPool,
       ApplyToLeft, Change, cloud, cloudVars
  <1> QED
    BY <1>2, <1>3, <1>4, <1>5, <1>6 DEF Next, Ordinary, Fault, PassStep, Mutation

(* A listener is never deleted from under its pool while another pool is   *)
(* left without one: the pass that deletes it has listed, after the        *)
(* listener, every pool that was left, and has deleted it before           *)
(* (deleteObsoleteListenersAndPools).                                      *)
THEOREM OneLeftAtMost == Spec => OneLeft
  <1>1. IInv /\ [Next]_vars => [HasPool(TheKey) /\ ~HasListener(TheKey)' => left = NoPool]_vars
    <2> SUFFICES ASSUME IInv, Next, HasPool(TheKey), ~HasListener(TheKey)' PROVE left = NoPool
      OBVIOUS
    <2>1. HasListener(TheKey)
      BY DEF IInv, PoolsInv
    <2>2. PICK c \in Callers : /\ call[c].step = "act" /\ call[c].op = "deleteListener"
                               /\ call[c].listener = "live"
      BY <2>1, OnlyDeleted
    <2>3. CallInv(call[c]) /\ IDsInv(call[c])
      BY DEF IInv, CallerInv
    <2> QED
      BY <2>2, <2>3 DEF CallInv, IDsInv, Loop
  <1>2. IInv /\ [Next]_vars => IInv'
    BY NextKeeps
  <1> QED
    BY <1>1, <1>2, InitIInv, PTL DEF Spec, OneLeft

-----------------------------------------------------------------------------
(* How long a pass can take.                                               *)

(* The deletions a call has before it.                                     *)
Deletions(k) ==
    (IF "bound" \in k.obsolete THEN 1 ELSE 0) + (IF "left" \in k.obsolete THEN 1 ELSE 0)
    + (IF "gone" \in k.obsolete THEN 1 ELSE 0)
    + (IF ~Asked(k.req) /\ k.listener # "none" /\ k.op # "deleteListener" THEN 1 ELSE 0)

(* The steps of n retry loops.                                             *)
Loops(n) == n * (3 * Steps)

(* There are at most four deletions.                                       *)
LEMMA DeletionsType ==
    ASSUME NEW k
    PROVE  Deletions(k) \in 0 .. 4
  BY DEF Deletions

(* One loop more.                                                          *)
LEMMA LoopsAdd ==
    /\ Loops(0) = 0 /\ \A n \in 0 .. 6 : Loops(n) \in Nat /\ Loops(n + 1) = Loops(n) + 3 * Steps
    /\ Steps \in Nat /\ Steps > 0
  BY PassesConstants DEF Loops

(* Fewer loops take fewer steps.                                           *)
LEMMA LoopsMonotone ==
    ASSUME NEW m \in 0 .. 6, NEW n \in 0 .. 6, m <= n
    PROVE  Loops(m) <= Loops(n)
  <1>1. \A l \in 0 .. 5 : Loops(l) <= Loops(l + 1)
    BY LoopsAdd
  <1> QED
    BY <1>1, LoopsAdd

(* The steps a call has left, as the sum of its loops and what follows.    *)
LEMMA StepsLeftFacts ==
    ASSUME NEW k \in Calls
    PROVE  LET n == Deletions(k)
               attempts == 3 * (Steps - 1 - k.tries)
           IN  /\ attempts \in Nat
               /\ k.step = "list" => StepsLeft(k) = Loops(4) + 7
               /\ k.step \in {"create", "update"} => StepsLeft(k) = Loops(4) + 6
               /\ k.step = "settle" => StepsLeft(k) = Loops(4) + 5
               /\ k.step = "reload" => StepsLeft(k) = Loops(4) + 4
               /\ k.step = "pools" => StepsLeft(k) = Loops(4) + 3
               /\ k.step = "createPool" => StepsLeft(k) = Loops(n + 2) + 2
               /\ k.step = "members" =>
                    StepsLeft(k) = Loops(n + IF k.op = "update" THEN 2 ELSE 0) + 1
               /\ k.step \in Loop =>
                    StepsLeft(k) = Loops(n + IF k.op = "update" THEN 1 ELSE 0) + attempts
                                   + CASE k.step = "before" -> 3 [] k.step = "act" -> 2 [] OTHER -> 1
               /\ k.step = "pollWait" => StepsLeft(k) = Loops(n) + attempts + 2
               /\ k.step = "pollGet" => StepsLeft(k) = Loops(n) + attempts + 1
               /\ k.step \in Over => StepsLeft(k) = 0
  <1> DEFINE poll == IF k.op = "update" THEN 1 ELSE 0
  <1>1. k.tries \in Nat /\ k.tries <= Steps - 1 /\ Steps \in Nat
    BY PassesConstants DEF Calls
  <1>2. Deletions(k) + 2 * poll = Deletions(k) + IF k.op = "update" THEN 2 ELSE 0
    BY DeletionsType
  <1>3. StepsLeft(k) =
          CASE k.step = "list"       -> Loops(4) + 7
            [] k.step \in {"create", "update"} -> Loops(4) + 6
            [] k.step = "settle"     -> Loops(4) + 5
            [] k.step = "reload"     -> Loops(4) + 4
            [] k.step = "pools"      -> Loops(4) + 3
            [] k.step = "createPool" -> Loops(Deletions(k) + 2) + 2
            [] k.step = "members"    -> Loops(Deletions(k) + 2 * poll) + 1
            [] k.step = "before"     -> Loops(Deletions(k) + poll) + 3 * (Steps - 1 - k.tries) + 3
            [] k.step = "act"        -> Loops(Deletions(k) + poll) + 3 * (Steps - 1 - k.tries) + 2
            [] k.step = "after"      -> Loops(Deletions(k) + poll) + 3 * (Steps - 1 - k.tries) + 1
            [] k.step = "pollWait"   -> Loops(Deletions(k)) + 3 * (Steps - 1 - k.tries) + 2
            [] k.step = "pollGet"    -> Loops(Deletions(k)) + 3 * (Steps - 1 - k.tries) + 1
            [] OTHER                 -> 0
    BY DEF StepsLeft, Loops, Deletions
  <1> QED
    BY <1>1, <1>2, <1>3 DEF Loop, Over

Advances(c) == StepsLeft(call[c])' \in 0 .. StepsLeft(call[c]) - 1

(* A call that is not over has steps left.                                 *)
LEMMA StepsLeftType ==
    ASSUME NEW k \in Calls
    PROVE  StepsLeft(k) \in Nat /\ (k.step \notin Over => StepsLeft(k) > 0)
  <1>1. Deletions(k) \in 0 .. 4
    BY DeletionsType
  <1>2. /\ Loops(Deletions(k)) \in Nat /\ Loops(Deletions(k) + 1) \in Nat
        /\ Loops(Deletions(k) + 2) \in Nat /\ Loops(4) \in Nat /\ Deletions(k) + 0 = Deletions(k)
    BY <1>1, LoopsAdd
  <1>3. k.step \in {"list", "create", "update", "settle", "reload", "pools", "createPool", "members",
                    "pollWait", "pollGet"} \cup Loop \cup Over
    BY DEF Calls, Loop, Over
  <1> QED
    BY <1>2, <1>3, StepsLeftFacts DEF Loop, Over

(* A pass that ends has none.                                              *)
LEMMA OverAdvances ==
    ASSUME IInv, NEW c \in Callers, InCall(c), call' \in [Callers -> Calls], call'[c].step \in Over
    PROVE  Advances(c)
  <1>1. call[c] \in Calls /\ call'[c] \in Calls /\ call[c].step \notin Over
    BY Typed DEF InCall, Over
  <1>2. StepsLeft(call'[c]) = 0 /\ StepsLeft(call[c]) \in Nat /\ StepsLeft(call[c]) > 0
    BY <1>1, StepsLeftFacts, StepsLeftType
  <1> QED
    BY <1>2 DEF Advances

(* Another attempt takes one of those that are left.                       *)
LEMMA NextTryAdvances ==
    ASSUME IInv, NEW c \in Callers,
           \/ call[c].step \in Loop /\ NextTry(c, "before")
           \/ call[c].step \in Poll /\ NextTry(c, "pollWait")
    PROVE  Advances(c)
  <1>1. PICK step \in {"before", "pollWait"} :
          NextTry(c, step) /\ (step = "before" <=> call[c].step \in Loop)
                           /\ (step = "pollWait" <=> call[c].step \in Poll)
    BY DEF Loop, Poll
  <1>2. OnlyMoves(c)
        /\ \/ /\ SameIDs(c) /\ call'[c].step = step /\ call'[c].op = call[c].op
              /\ call'[c].tries = call[c].tries + 1
           \/ Ends(c, "error")
    BY <1>1, Typed, NextTryType
  <1>3. CASE Ends(c, "error")
    BY <1>1, <1>2, <1>3, OverAdvances DEF Ends, OnlyMoves, InCall, Over, Loop, Poll
  <1>4. CASE /\ SameIDs(c) /\ call'[c].step = step /\ call'[c].op = call[c].op
             /\ call'[c].tries = call[c].tries + 1
    <2>1. call[c] \in Calls /\ call'[c] \in Calls
      BY <1>2, Typed DEF OnlyMoves
    <2>2. Deletions(call'[c]) = Deletions(call[c])
      BY <1>4 DEF SameIDs, Deletions
    <2>3. /\ Loops(Deletions(call[c]) + IF call[c].op = "update" THEN 1 ELSE 0) \in Nat
          /\ Loops(Deletions(call[c])) \in Nat
      BY DeletionsType, LoopsAdd
    <2>4. 3 * (Steps - 1 - call'[c].tries) = 3 * (Steps - 1 - call[c].tries) - 3
          /\ 3 * (Steps - 1 - call'[c].tries) \in Nat /\ 3 * (Steps - 1 - call[c].tries) \in Nat
      BY <1>4, <2>1, PassesConstants DEF Calls
    <2>5. CASE step = "before"
      <3>1. StepsLeft(call'[c]) = Loops(Deletions(call[c]) + IF call[c].op = "update" THEN 1 ELSE 0)
                                  + 3 * (Steps - 1 - call'[c].tries) + 3
        BY <1>4, <2>1, <2>2, <2>5, StepsLeftFacts DEF Loop
      <3>2. StepsLeft(call[c]) >= Loops(Deletions(call[c]) + IF call[c].op = "update" THEN 1 ELSE 0)
                                  + 3 * (Steps - 1 - call[c].tries) + 1
            /\ StepsLeft(call[c]) \in Nat
        BY <1>1, <2>1, <2>3, <2>4, <2>5, StepsLeftFacts, StepsLeftType DEF Loop
      <3> QED
        BY <2>3, <2>4, <3>1, <3>2 DEF Advances
    <2>6. CASE step = "pollWait"
      <3>1. StepsLeft(call'[c]) = Loops(Deletions(call[c])) + 3 * (Steps - 1 - call'[c].tries) + 2
        BY <1>4, <2>1, <2>2, <2>6, StepsLeftFacts
      <3>2. StepsLeft(call[c]) >= Loops(Deletions(call[c])) + 3 * (Steps - 1 - call[c].tries) + 1
            /\ StepsLeft(call[c]) \in Nat
        BY <1>1, <2>1, <2>3, <2>4, <2>6, StepsLeftFacts, StepsLeftType DEF Poll
      <3> QED
        BY <2>3, <2>4, <3>1, <3>2 DEF Advances
    <2> QED
      BY <2>5, <2>6
  <1> QED
    BY <1>2, <1>3, <1>4

(* The clean-up takes one deletion after the other.                        *)
LEMMA CleanUpAdvances ==
    ASSUME IInv, NEW c \in Callers, InCall(c), Continue(c, CleanUp(call[c])),
           StepsLeft(call[c]) >= Loops(Deletions(call[c])) + 1
    PROVE  Advances(c)
  <1>1. OnlyMoves(c) /\ (NextPool(c) \/ NextListener(c) \/ AllDone(c))
    BY Typed, CleanUpType
  <1>2. call[c] \in Calls /\ call'[c] \in Calls /\ CallInv(call[c]) /\ StepsLeft(call[c]) \in Nat
    BY <1>1, Typed, StepsLeftType DEF OnlyMoves, IInv, CallerInv
  <1>3. CASE AllDone(c)
    BY <1>1, <1>3, OverAdvances DEF AllDone, Ends, OnlyMoves, Over
  <1>4. CASE NextPool(c) \/ NextListener(c)
    <2>1. Deletions(call[c]) = Deletions(call'[c]) + 1
      <3>1. CASE NextPool(c)
        <4>1. call[c].op # "deleteListener" /\ call[c].obsolete \subseteq PoolIDs
          BY <1>2, <3>1 DEF NextPool, CallInv, Calls
        <4> QED
          BY <3>1, <4>1 DEF NextPool, Deletions, PoolIDs
      <3>2. CASE NextListener(c)
        BY <3>2 DEF NextListener, SameIDs, Deletions
      <3> QED
        BY <1>4, <3>1, <3>2
    <2>2. call'[c].step = "before" /\ call'[c].op # "update" /\ call'[c].tries = 0
      BY <1>4 DEF NextPool, NextListener
    <2>3. Deletions(call'[c]) \in 0 .. 4 /\ Deletions(call'[c]) + 0 = Deletions(call'[c])
      BY DeletionsType
    <2>4. StepsLeft(call'[c]) = Loops(Deletions(call'[c])) + 3 * (Steps - 1 - 0) + 3
      BY <1>2, <2>2, <2>3, StepsLeftFacts DEF Loop
    <2>5. Loops(Deletions(call[c])) = Loops(Deletions(call'[c])) + 3 * Steps
          /\ Loops(Deletions(call'[c])) \in Nat /\ Steps \in Nat /\ Steps > 0
      BY <2>1, <2>3, LoopsAdd
    <2>6. StepsLeft(call'[c]) = Loops(Deletions(call[c])) /\ StepsLeft(call'[c]) \in Nat
      BY <2>4, <2>5
    <2> QED
      BY <1>2, <2>6 DEF Advances
  <1> QED
    BY <1>1, <1>3, <1>4

(* Before the pools are listed every step leads to a later one.            *)
LEMMA EarlyAdvances ==
    ASSUME IInv, NEW c \in Callers, NEW lost \in BOOLEAN,
           \/ ListListeners(c) \/ CreateListener(c, lost) \/ UpdateListener(c, lost)
           \/ Settled(c) \/ Reload(c)
    PROVE  Advances(c)
  <1>1. /\ call' \in [Callers -> Calls] /\ InCall(c)
        /\ call[c].step = "list" => call'[c].step \in {"create", "update", "reload", "pools"}
        /\ call[c].step \in {"create", "update"} => call'[c].step \in {"settle", "error"}
        /\ call[c].step = "settle" => call'[c].step = "reload"
        /\ call[c].step = "reload" => call'[c].step = "pools"
        /\ call[c].step \in Early \ {"pools"}
    <2>1. IInv' /\ call[c] \in Calls /\ call \in [Callers -> Calls]
      BY Typed, ListListenersKeeps, CreateListenerKeeps, UpdateListenerKeeps, GoesOnKeeps DEF Keeps
    <2>2. call' \in [Callers -> Calls]
      BY <2>1 DEF IInv, TypeOK
    <2>3. CASE ListListeners(c)
      BY <2>1, <2>2, <2>3 DEF ListListeners, Active, InCall, Calls, Early
    <2>4. CASE Settled(c) \/ Reload(c)
      BY <2>1, <2>2, <2>4 DEF Settled, Reload, Goto, Active, InCall, Calls, Early
    <2>5. CASE CreateListener(c, lost)
      <3>1. call'[c].step \in {"settle", "error"}
        BY <2>1, <2>5, EndType DEF CreateListener, Answer, Calls
      <3> QED
        BY <2>2, <2>5, <3>1 DEF CreateListener, Active, InCall, Early
    <2>6. CASE UpdateListener(c, lost)
      <3>1. call'[c].step \in {"settle", "error"}
        BY <2>1, <2>6, EndType DEF UpdateListener, Answer, Calls
      <3> QED
        BY <2>2, <2>6, <3>1 DEF UpdateListener, Active, InCall, Early
    <2> QED
      BY <2>3, <2>4, <2>5, <2>6
  <1>2. call[c] \in Calls /\ call'[c] \in Calls /\ Loops(4) \in Nat
    BY <1>1, Typed, LoopsAdd
  <1>3. CASE call'[c].step = "error"
    BY <1>1, <1>3, OverAdvances DEF Over
  <1>4. CASE call'[c].step # "error"
    BY <1>1, <1>2, <1>4, StepsLeftFacts DEF Advances, Early
  <1> QED
    BY <1>3, <1>4

(* Listing the pools shows how many are to be deleted.                     *)
LEMMA ListPoolsAdvances ==
    ASSUME IInv, NEW c \in Callers, ListPools(c)
    PROVE  Advances(c)
  <1>1. IInv' /\ call[c] \in Calls /\ call[c].step = "pools"
    BY Typed, ListPoolsKeeps DEF Keeps, ListPools, Active
  <1>2. call'[c] \in Calls /\ CallInv(call'[c])
    BY <1>1 DEF IInv, TypeOK, CallerInv, CallInv, Asked
  <1>3. /\ call'[c].step \in {"createPool", "members"} /\ call'[c].req = call[c].req
        /\ "gone" \notin call'[c].obsolete
        /\ Asked(call[c].req) /\ call'[c].step = "members" => "bound" \notin call'[c].obsolete
    <2>1. "gone" \notin Listed
      BY DEF Listed, ThePool
    <2> QED
      BY <2>1, ListPoolsType DEF Mine
  <1>4. Deletions(call'[c]) \in 0 .. 4 /\ Deletions(call'[c]) + 0 = Deletions(call'[c])
    BY DeletionsType
  <1>5. StepsLeft(call[c]) = Loops(4) + 3 /\ Loops(4) \in Nat
    BY <1>1, StepsLeftFacts, LoopsAdd
  <1>6. CASE call'[c].step = "createPool"
    <2>1. Asked(call'[c].req)
      BY <1>2, <1>6 DEF CallInv
    <2>2. Deletions(call'[c]) + 2 \in 2 .. 4
      BY <1>3, <2>1 DEF Deletions
    <2>3. Loops(Deletions(call'[c]) + 2) <= Loops(4) /\ Loops(Deletions(call'[c]) + 2) \in Nat
      BY <2>2, LoopsMonotone, LoopsAdd
    <2>4. StepsLeft(call'[c]) = Loops(Deletions(call'[c]) + 2) + 2
      BY <1>2, <1>6, StepsLeftFacts
    <2> QED
      BY <1>5, <2>3, <2>4 DEF Advances
  <1>7. CASE call'[c].step = "members" /\ call'[c].op = "update"
    <2>1. Asked(call'[c].req)
      BY <1>2, <1>7 DEF CallInv
    <2>2. Deletions(call'[c]) + 2 \in 2 .. 4
      BY <1>3, <1>7, <2>1 DEF Deletions
    <2>3. Loops(Deletions(call'[c]) + 2) <= Loops(4) /\ Loops(Deletions(call'[c]) + 2) \in Nat
      BY <2>2, LoopsMonotone, LoopsAdd
    <2>4. StepsLeft(call'[c]) = Loops(Deletions(call'[c]) + 2) + 1
      BY <1>2, <1>7, StepsLeftFacts
    <2> QED
      BY <1>5, <2>3, <2>4 DEF Advances
  <1>8. CASE call'[c].step = "members" /\ call'[c].op # "update"
    <2>1. Loops(Deletions(call'[c])) <= Loops(4) /\ Loops(Deletions(call'[c])) \in Nat
      BY <1>4, LoopsMonotone, LoopsAdd
    <2>2. StepsLeft(call'[c]) = Loops(Deletions(call'[c])) + 1
      BY <1>2, <1>4, <1>8, StepsLeftFacts
    <2> QED
      BY <1>5, <2>1, <2>2 DEF Advances
  <1> QED
    BY <1>3, <1>6, <1>7, <1>8

(* Creating the pool leads to the members.                                 *)
LEMMA CreatePoolAdvances ==
    ASSUME IInv, NEW c \in Callers, NEW lost \in BOOLEAN, CreatePool(c, lost)
    PROVE  Advances(c)
  <1>1. /\ IInv' /\ call[c] \in Calls /\ call[c].step = "createPool" /\ InCall(c)
        /\ CallInv(call[c])
    BY Typed, CreatePoolKeeps DEF Keeps, CreatePool, Active, InCall, IInv, CallerInv
  <1>2. call' \in [Callers -> Calls] /\ call'[c] \in Calls
    BY <1>1 DEF IInv, TypeOK
  <1>3. CASE lost = TRUE
    <2>1. call'[c].step = "error"
      BY <1>1, <1>3, Typed, EndType DEF CreatePool, Answer
    <2> QED
      BY <1>1, <1>2, <2>1, OverAdvances DEF Over
  <1>4. CASE lost = FALSE
    <2> DEFINE o == IF membersChanged({}, Desired(c)) THEN "update" ELSE "none"
    <2>1. call'[c] = [call[c] EXCEPT !.step = "members", !.pool = "bound", !.op = o]
      BY <1>4, Typed DEF CreatePool, Answer
    <2>2. o \in {"update", "none"}
      OBVIOUS
    <2> HIDE DEF o
    <2>3. /\ call'[c].step = "members" /\ call'[c].op \in {"update", "none"}
          /\ call'[c].req = call[c].req
          /\ call'[c].listener = call[c].listener /\ call'[c].obsolete = call[c].obsolete
      BY <1>1, <2>1, <2>2 DEF Calls
    <2>4. Deletions(call'[c]) = Deletions(call[c]) /\ Deletions(call[c]) \in 0 .. 4
      BY <1>1, <2>3, DeletionsType DEF Deletions, CallInv, Early
    <2>5. /\ Loops(Deletions(call[c]) + 0) <= Loops(Deletions(call[c]) + 2)
          /\ Loops(Deletions(call[c]) + 2) \in Nat /\ Loops(Deletions(call[c]) + 0) \in Nat
      BY <2>4, LoopsMonotone, LoopsAdd
    <2>6. StepsLeft(call[c]) = Loops(Deletions(call[c]) + 2) + 2
      BY <1>1, StepsLeftFacts
    <2>7. StepsLeft(call'[c]) = Loops(Deletions(call[c]) + IF call'[c].op = "update" THEN 2 ELSE 0) + 1
      BY <1>2, <2>3, <2>4, StepsLeftFacts
    <2> QED
      BY <2>5, <2>6, <2>7 DEF Advances
  <1> QED
    BY <1>3, <1>4

(* The members phase starts a loop, or the clean-up.                       *)
LEMMA MembersAdvances ==
    ASSUME IInv, NEW c \in Callers, Members(c)
    PROVE  Advances(c)
  <1>1. /\ InCall(c) /\ call[c].step = "members" /\ call[c] \in Calls
        /\ Deletions(call[c]) \in 0 .. 4 /\ Deletions(call[c]) + 0 = Deletions(call[c])
    BY Typed, DeletionsType DEF Members, Active, InCall
  <1>2. CASE call[c].op = "update"
    <2>1. call' = [call EXCEPT ![c] =
                     [call[c] EXCEPT !.step = "before", !.op = "update", !.tries = 0]]
      BY <1>2 DEF Members, Continue, Operate
    <2>2. 0 \in 0 .. Steps - 1
      BY PassesConstants
    <2>3. /\ call'[c] \in Calls /\ call'[c].step = "before" /\ call'[c].op = "update"
          /\ call'[c].tries = 0 /\ Deletions(call'[c]) = Deletions(call[c])
      BY <1>1, <1>2, <2>1, <2>2, Typed DEF Calls, Deletions
    <2>4. StepsLeft(call[c]) = Loops(Deletions(call[c]) + 2) + 1
      BY <1>1, <1>2, StepsLeftFacts
    <2>5. StepsLeft(call'[c]) = Loops(Deletions(call[c]) + 1) + 3 * (Steps - 1 - 0) + 3
      BY <2>3, StepsLeftFacts DEF Loop
    <2>6. /\ Loops(Deletions(call[c]) + 2) = Loops(Deletions(call[c]) + 1) + 3 * Steps
          /\ Loops(Deletions(call[c]) + 1) \in Nat /\ Steps \in Nat /\ Steps > 0
      <3>1. Deletions(call[c]) + 1 \in 0 .. 6 /\ (Deletions(call[c]) + 1) + 1 = Deletions(call[c]) + 2
        BY <1>1
      <3> QED
        BY <3>1, LoopsAdd
    <2> QED
      BY <2>4, <2>5, <2>6 DEF Advances
  <1>3. CASE call[c].op # "update"
    <2>1. StepsLeft(call[c]) = Loops(Deletions(call[c])) + 1 /\ Loops(Deletions(call[c])) \in Nat
      BY <1>1, <1>3, StepsLeftFacts, LoopsAdd
    <2>2. Continue(c, CleanUp(call[c]))
      BY <1>3 DEF Members
    <2> QED
      BY <1>1, <2>1, <2>2, CleanUpAdvances
  <1> QED
    BY <1>2, <1>3

(* The steps of a retry loop that goes well.                               *)
LEMMA LoopAdvances ==
    ASSUME IInv, NEW c \in Callers, call[c].step \in Loop, call' \in [Callers -> Calls],
           \/ call[c].step = "before" /\ call'[c].step = "act"
           \/ call[c].step = "act" /\ call'[c].step = "after",
           call'[c].op = call[c].op, call'[c].tries = call[c].tries,
           Deletions(call'[c]) <= Deletions(call[c])
    PROVE  Advances(c)
  <1> DEFINE u == IF call[c].op = "update" THEN 1 ELSE 0
  <1>1. call[c] \in Calls /\ call'[c] \in Calls
    BY Typed
  <1>2. /\ Deletions(call[c]) + u \in 0 .. 6 /\ Deletions(call'[c]) + u \in 0 .. 6
        /\ Deletions(call'[c]) + u <= Deletions(call[c]) + u
    BY DeletionsType
  <1>3. /\ Loops(Deletions(call'[c]) + u) <= Loops(Deletions(call[c]) + u)
        /\ Loops(Deletions(call'[c]) + u) \in Nat /\ Loops(Deletions(call[c]) + u) \in Nat
    BY <1>2, LoopsMonotone, LoopsAdd
  <1>4. 3 * (Steps - 1 - call[c].tries) \in Nat
    BY <1>1, StepsLeftFacts
  <1>5. StepsLeft(call[c]) = Loops(Deletions(call[c]) + u) + 3 * (Steps - 1 - call[c].tries)
                             + CASE call[c].step = "before" -> 3 [] call[c].step = "act" -> 2
                                 [] OTHER -> 1
    BY <1>1, StepsLeftFacts
  <1>6. call'[c].step \in Loop
    BY DEF Loop
  <1>7. StepsLeft(call'[c]) = Loops(Deletions(call'[c]) + u) + 3 * (Steps - 1 - call[c].tries)
                              + CASE call'[c].step = "before" -> 3 [] call'[c].step = "act" -> 2
                                  [] OTHER -> 1
    BY <1>1, <1>6, StepsLeftFacts
  <1> HIDE DEF u
  <1> QED
    BY <1>3, <1>4, <1>5, <1>7 DEF Advances

(* What was deleted is not to be deleted again.                            *)
LEMMA AfterDeletions ==
    ASSUME IInv, NEW c \in Callers, call[c].step = "act", NEW d \in Callers,
           NEW w, w = After(c, call[d])
    PROVE  Deletions(w) <= Deletions(call[d])
  <1>1. call[c] \in Calls /\ call[d] \in Calls /\ CallInv(call[c])
    BY Typed DEF IInv, CallerInv
  <1>2. CASE call[c].op = "deletePool"
    <2>1. call[c].pool \in PoolIDs
      BY <1>1, <1>2 DEF CallInv, Loop, Calls
    <2>2. w = WithoutPool(call[d], call[c].pool)
      BY <1>2 DEF After
    <2>3. /\ w.req = call[d].req /\ w.op = call[d].op /\ w.listener = call[d].listener
          /\ w.obsolete = {IF p = call[c].pool THEN "gone" ELSE p : p \in call[d].obsolete}
      BY <1>1, <2>1, <2>2, WithoutPoolType
    <2>4. /\ \A p \in {"bound", "left"} : p \in w.obsolete => p \in call[d].obsolete
          /\ "gone" \in w.obsolete =>
               \/ "gone" \in call[d].obsolete
               \/ call[c].pool \in {"bound", "left"} /\ call[c].pool \in call[d].obsolete
                  /\ call[c].pool \notin w.obsolete
      BY <2>1, <2>3 DEF PoolIDs
    <2> QED
      BY <2>3, <2>4 DEF Deletions
  <1>3. CASE call[c].op = "deleteListener"
    <2>1. w = WithoutListener(call[d])
      BY <1>3 DEF After
    <2>2. /\ w.req = call[d].req /\ w.op = call[d].op
          /\ w.listener = IF call[d].listener = "live" THEN "gone" ELSE call[d].listener
          /\ w.obsolete = {IF p = "bound" THEN "left" ELSE p : p \in call[d].obsolete}
      BY <1>1, <2>1, WithoutListenerType
    <2>3. /\ "bound" \notin w.obsolete
          /\ "gone" \in w.obsolete <=> "gone" \in call[d].obsolete
          /\ "left" \in w.obsolete => "left" \in call[d].obsolete \/ "bound" \in call[d].obsolete
      BY <2>2
    <2> QED
      BY <2>2, <2>3 DEF Deletions
  <1>4. CASE call[c].op \notin {"deletePool", "deleteListener"}
    <2>1. w = call[d]
      BY <1>4 DEF After
    <2> QED
      BY <2>1, DeletionsType
  <1> QED
    BY <1>2, <1>3, <1>4

(* The mutation takes one step of the pass that carries it out, and leaves *)
(* the other one no more than it had.                                      *)
LEMMA OperationAdvances ==
    ASSUME IInv, NEW c \in Callers, NEW lost \in BOOLEAN, Operation(c, lost)
    PROVE  Advances(c)
  <1>1. IInv' /\ call[c] \in Calls /\ call[c].step = "act" /\ InCall(c) /\ Carried(c)
    BY Typed, OperationKeeps DEF Keeps, Operation, Active, InCall
  <1>2. call' \in [Callers -> Calls]
    BY <1>1 DEF IInv, TypeOK
  <1>3. CASE lost = TRUE
    <2>1. call'[c].step = "error"
      BY <1>1, <1>3, EndType DEF Operation
    <2> QED
      BY <1>1, <1>2, <2>1, OverAdvances DEF Over
  <1>4. CASE lost = FALSE
    <2>1. PICK w : w = After(c, call[c])
      OBVIOUS
    <2>2. w \in Calls /\ w.op = call[c].op /\ w.tries = call[c].tries
      BY <1>1, <2>1, CarriedKeeps
    <2>3. call'[c] = [w EXCEPT !.step = "after"]
      BY <1>4, <2>1 DEF Operation
    <2>4. /\ call'[c].step = "after" /\ call'[c].op = call[c].op /\ call'[c].tries = call[c].tries
          /\ call'[c].req = w.req /\ call'[c].listener = w.listener
          /\ call'[c].obsolete = w.obsolete
      BY <2>2, <2>3 DEF Calls
    <2>5. Deletions(call'[c]) = Deletions(w)
      BY <2>2, <2>4 DEF Deletions
    <2>6. Deletions(w) <= Deletions(call[c])
      BY <1>1, <2>1, AfterDeletions
    <2> QED
      BY <1>1, <1>2, <2>4, <2>5, <2>6, LoopAdvances DEF Loop
  <1> QED
    BY <1>3, <1>4

(* After an update comes the poll, after a deletion the clean-up.          *)
LEMMA AwaitAfterAdvances ==
    ASSUME IInv, NEW c \in Callers, AwaitAfter(c)
    PROVE  Advances(c)
  <1>1. /\ InCall(c) /\ call[c].step = "after" /\ call[c] \in Calls
        /\ Deletions(call[c]) \in 0 .. 4 /\ Deletions(call[c]) + 0 = Deletions(call[c])
        /\ 3 * (Steps - 1 - call[c].tries) \in Nat
    BY Typed, DeletionsType, StepsLeftFacts DEF AwaitAfter, Active, InCall
  <1>2. CASE call[c].op = "update"
    <2>1. call' = [call EXCEPT ![c] = [call[c] EXCEPT !.step = "pollWait", !.tries = 0]]
      BY <1>2 DEF AwaitAfter, Continue
    <2>2. 0 \in 0 .. Steps - 1
      BY PassesConstants
    <2>3. /\ call'[c] \in Calls /\ call'[c].step = "pollWait" /\ call'[c].tries = 0
          /\ Deletions(call'[c]) = Deletions(call[c])
      BY <1>1, <2>1, <2>2, Typed DEF Calls, Deletions
    <2>4. StepsLeft(call[c]) = Loops(Deletions(call[c]) + 1) + 3 * (Steps - 1 - call[c].tries) + 1
      BY <1>1, <1>2, StepsLeftFacts DEF Loop
    <2>5. StepsLeft(call'[c]) = Loops(Deletions(call[c])) + 3 * (Steps - 1 - 0) + 2
      BY <2>3, StepsLeftFacts
    <2>6. /\ Loops(Deletions(call[c]) + 1) = Loops(Deletions(call[c])) + 3 * Steps
          /\ Loops(Deletions(call[c])) \in Nat /\ Steps \in Nat /\ Steps > 0
      BY <1>1, LoopsAdd
    <2> QED
      BY <1>1, <2>4, <2>5, <2>6 DEF Advances
  <1>3. CASE call[c].op # "update"
    <2>1. StepsLeft(call[c]) = Loops(Deletions(call[c])) + 3 * (Steps - 1 - call[c].tries) + 1
          /\ Loops(Deletions(call[c])) \in Nat
      BY <1>1, <1>3, StepsLeftFacts, LoopsAdd DEF Loop
    <2>2. StepsLeft(call[c]) >= Loops(Deletions(call[c])) + 1
      BY <1>1, <2>1
    <2>3. Continue(c, CleanUp(call[c]))
      BY <1>3 DEF AwaitAfter
    <2> QED
      BY <1>1, <2>2, <2>3, CleanUpAdvances
  <1> QED
    BY <1>2, <1>3

(* The poll's two steps.                                                   *)
LEMMA PollAdvances ==
    ASSUME IInv, NEW c \in Callers, PollWait(c) \/ PollGet(c)
    PROVE  Advances(c)
  <1>1. /\ InCall(c) /\ call[c].step \in Poll /\ call[c] \in Calls
        /\ Loops(Deletions(call[c])) \in Nat /\ 3 * (Steps - 1 - call[c].tries) \in Nat
    BY Typed, DeletionsType, LoopsAdd, StepsLeftFacts DEF PollWait, PollGet, Poll, InCall
  <1>2. CASE NextTry(c, "pollWait")
    BY <1>1, <1>2, NextTryAdvances
  <1>3. CASE PollWait(c) /\ Goto(c, "pollGet")
    <2>1. /\ OnlyMoves(c) /\ SameIDs(c) /\ call'[c].step = "pollGet"
          /\ call'[c].op = call[c].op /\ call'[c].tries = call[c].tries
      BY <1>3, Typed, GotoType
    <2>2. Deletions(call'[c]) = Deletions(call[c]) /\ call'[c] \in Calls
      BY <2>1 DEF SameIDs, Deletions, OnlyMoves
    <2>3. StepsLeft(call[c]) = Loops(Deletions(call[c])) + 3 * (Steps - 1 - call[c].tries) + 2
      BY <1>1, <1>3, StepsLeftFacts DEF PollWait
    <2>4. StepsLeft(call'[c]) = Loops(Deletions(call[c])) + 3 * (Steps - 1 - call[c].tries) + 1
      BY <2>1, <2>2, StepsLeftFacts
    <2> QED
      BY <1>1, <2>3, <2>4 DEF Advances
  <1>4. CASE PollGet(c) /\ Continue(c, CleanUp(call[c]))
    <2>1. StepsLeft(call[c]) = Loops(Deletions(call[c])) + 3 * (Steps - 1 - call[c].tries) + 1
      BY <1>1, <1>4, StepsLeftFacts DEF PollGet
    <2>2. StepsLeft(call[c]) >= Loops(Deletions(call[c])) + 1
      BY <1>1, <2>1
    <2> QED
      BY <1>1, <1>4, <2>2, CleanUpAdvances
  <1> QED
    BY <1>2, <1>3, <1>4 DEF PollWait, PollGet

(* Whatever a pass does, it has fewer steps left.                          *)
LEMMA OwnStepAdvances ==
    ASSUME IInv, NEW c \in Callers, PassStep(c) \/ RequestFails(c) \/ Mutation(c, TRUE)
    PROVE  Advances(c)
  <1>1. IInv'
    BY PassKeeps DEF Keeps
  <1>2. call' \in [Callers -> Calls]
    BY <1>1 DEF IInv, TypeOK
  <1>3. ASSUME InCall(c), Fail(c) \/ Panic PROVE Advances(c)
    <2>1. call'[c].step \in Over
      <3>1. CASE Fail(c)
        BY <3>1, Typed, FailType DEF Ends, Over
      <3>2. CASE Panic
        BY <3>2 DEF Panic, Idle, Over
      <3> QED
        BY <1>3, <3>1, <3>2
    <2> QED
      BY <1>2, <1>3, <2>1, OverAdvances
  <1>4. ASSUME NEW lost \in BOOLEAN, Mutation(c, lost) PROVE Advances(c)
    BY <1>4, EarlyAdvances, CreatePoolAdvances, OperationAdvances DEF Mutation
  <1>5. ASSUME ListenerRejected(c) \/ PoolRejected(c) \/ WaitFails(c) \/ OperationRejected(c)
               \/ ReloadPanics(c)
        PROVE  Advances(c)
    <2>1. InCall(c) /\ (Fail(c) \/ Panic)
      BY <1>5 DEF ListenerRejected, PoolRejected, WaitFails, OperationRejected, ReloadPanics,
                  Active, InCall
    <2> QED
      BY <1>3, <2>1
  <1>6. ASSUME OperationImmutable(c) \/ AwaitFails(c) PROVE Advances(c)
    <2>1. call[c].step \in Loop /\ NextTry(c, "before")
      BY <1>6 DEF OperationImmutable, AwaitFails, Loop
    <2> QED
      BY <2>1, NextTryAdvances
  <1>7. ASSUME AwaitBefore(c) PROVE Advances(c)
    <2>1. Goto(c, "act") /\ call[c].step = "before"
      BY <1>7 DEF AwaitBefore, Active
    <2>2. /\ OnlyMoves(c) /\ SameIDs(c) /\ call'[c].step = "act"
          /\ call'[c].op = call[c].op /\ call'[c].tries = call[c].tries
      BY <2>1, Typed, GotoType
    <2>3. Deletions(call'[c]) = Deletions(call[c]) /\ Deletions(call[c]) \in 0 .. 4
      BY <2>2, DeletionsType DEF SameIDs, Deletions
    <2> QED
      BY <1>2, <2>1, <2>2, <2>3, LoopAdvances DEF Loop
  <1>8. CASE RequestFails(c)
    <2>1. CASE call[c].step \in {"before", "after"}
      BY <1>8, <2>1, NextTryAdvances DEF RequestFails, Loop
    <2>2. CASE call[c].step \in {"pollWait", "pollGet"}
      BY <1>8, <2>2, NextTryAdvances DEF RequestFails, Poll
    <2>3. CASE call[c].step \notin {"before", "after", "pollWait", "pollGet"}
      BY <1>3, <1>8, <2>3 DEF RequestFails
    <2> QED
      BY <2>1, <2>2, <2>3
  <1>9. CASE PassStep(c)
    BY <1>4, <1>5, <1>6, <1>7, <1>9, EarlyAdvances, ListPoolsAdvances, MembersAdvances,
       AwaitAfterAdvances, PollAdvances DEF PassStep
  <1> QED
    BY <1>4, <1>8, <1>9

(* A step that is not the pass's own leaves it no more than it had.        *)
LEMMA OthersStepsLeft ==
    ASSUME IInv, [Next]_vars, NEW c \in Callers, ~Start(c),
           ~(PassStep(c) \/ RequestFails(c) \/ Mutation(c, TRUE))
    PROVE  StepsLeft(call[c])' \in 0 .. StepsLeft(call[c])
  <1>1. call[c] \in Calls /\ call'[c] \in Calls /\ StepsLeft(call[c]) \in Nat
    <2>1. call' \in [Callers -> Calls] /\ call \in [Callers -> Calls]
      BY NextKeeps DEF IInv, TypeOK
    <2> QED
      BY <2>1, StepsLeftType
  <1>2. CASE call'[c] = call[c]
    BY <1>1, <1>2
  <1>3. CASE call'[c].step \in Over
    <2>1. StepsLeft(call'[c]) = 0
      BY <1>1, <1>3, StepsLeftFacts
    <2> QED
      BY <1>1, <2>1
  <1>4. ASSUME NEW d \in Callers, d # c, NEW lost \in BOOLEAN, Operation(d, lost)
        PROVE  StepsLeft(call[c])' \in 0 .. StepsLeft(call[c])
    <2>1. call'[c] = After(d, call[c]) /\ call[d].step = "act" /\ Carried(d)
      BY <1>4 DEF Operation, Active
    <2>2. /\ call'[c].step = call[c].step /\ call'[c].op = call[c].op
          /\ call'[c].tries = call[c].tries
      BY <1>4, <2>1, CarriedKeeps
    <2>3. Deletions(call'[c]) <= Deletions(call[c])
      BY <1>4, <2>1, AfterDeletions
    <2>4. \A x \in {0, 1, 2} :
            /\ Loops(Deletions(call'[c]) + x) <= Loops(Deletions(call[c]) + x)
            /\ Loops(Deletions(call'[c]) + x) \in Nat /\ Loops(Deletions(call[c]) + x) \in Nat
      <3> SUFFICES ASSUME NEW x \in {0, 1, 2}
                   PROVE  /\ Loops(Deletions(call'[c]) + x) <= Loops(Deletions(call[c]) + x)
                          /\ Loops(Deletions(call'[c]) + x) \in Nat
                          /\ Loops(Deletions(call[c]) + x) \in Nat
        OBVIOUS
      <3>1. /\ Deletions(call'[c]) + x \in 0 .. 6 /\ Deletions(call[c]) + x \in 0 .. 6
            /\ Deletions(call'[c]) + x <= Deletions(call[c]) + x
        BY <2>3, DeletionsType
      <3> QED
        BY <3>1, LoopsMonotone, LoopsAdd
    <2>5. /\ Deletions(call[c]) + 0 = Deletions(call[c])
          /\ Deletions(call'[c]) + 0 = Deletions(call'[c])
      BY DeletionsType
    <2>6. call[c].step \in {"list", "create", "update", "settle", "reload", "pools", "createPool",
                            "members", "pollWait", "pollGet"} \cup Loop \cup Over
      BY <1>1 DEF Calls, Loop, Over
    <2>7. StepsLeft(call'[c]) <= StepsLeft(call[c]) /\ StepsLeft(call'[c]) \in Nat
      <3>1. StepsLeft(call'[c]) \in Nat
        BY <1>1, StepsLeftType
      <3>2. CASE call[c].step \in {"list", "create", "update", "settle", "reload", "pools"} \cup Over
        BY <1>1, <2>2, <3>1, <3>2, StepsLeftFacts, LoopsAdd
      <3>3. CASE call[c].step \in {"createPool", "members"}
        BY <1>1, <2>2, <2>4, <2>5, <3>1, <3>3, StepsLeftFacts
      <3>4. CASE call[c].step \in Loop
        <4>1. CASE call[c].op = "update"
          BY <1>1, <2>2, <2>4, <2>5, <3>1, <3>4, <4>1, StepsLeftFacts
        <4>2. CASE call[c].op # "update"
          BY <1>1, <2>2, <2>4, <2>5, <3>1, <3>4, <4>2, StepsLeftFacts
        <4> QED
          BY <4>1, <4>2
      <3>5. CASE call[c].step \in {"pollWait", "pollGet"}
        BY <1>1, <2>2, <2>4, <2>5, <3>1, <3>5, StepsLeftFacts
      <3> QED
        BY <2>6, <3>1, <3>2, <3>3, <3>4, <3>5
    <2> QED
      BY <1>1, <2>7
  <1>5. ASSUME NEW d \in Callers, d # c,
               PassStep(d) \/ ControllerStep(d) \/ RequestFails(d) \/ Mutation(d, TRUE)
        PROVE  \/ call'[c] = call[c] \/ call'[c].step \in Over
               \/ \E lost \in BOOLEAN : Operation(d, lost)
    <2>1. CASE Panic
      BY <2>1 DEF Panic, Idle, Over
    <2>2. ASSUME Goto(d, "act") \/ Goto(d, "reload") \/ Goto(d, "pools") \/ Goto(d, "pollGet")
                 \/ Fail(d) \/ NextTry(d, "before") \/ NextTry(d, "pollWait")
          PROVE  call'[c] = call[c]
      BY <1>5, <2>2, Typed DEF Goto, Fail, NextTry
    <2>3. ASSUME NEW ks, Continue(d, ks) PROVE call'[c] = call[c]
      BY <1>5, <2>3, Typed DEF Continue
    <2>4. ASSUME NEW k, NEW lost \in BOOLEAN, Answer(d, k, lost) PROVE call'[c] = call[c]
      BY <1>5, <2>4, Typed DEF Answer
    <2>5. ASSUME NEW lost \in BOOLEAN, Mutation(d, lost)
          PROVE  call'[c] = call[c] \/ Operation(d, lost)
      BY <2>4, <2>5 DEF Mutation, CreateListener, UpdateListener, CreatePool
    <2>6. CASE RequestFails(d)
      BY <2>1, <2>2, <2>6 DEF RequestFails
    <2>7. CASE ControllerStep(d) \/ ListListeners(d) \/ ListPools(d)
      BY <1>5, <2>7, Typed DEF ControllerStep, Start, Return, ListListeners, ListPools
    <2>8. CASE Members(d) \/ AwaitAfter(d)
      BY <2>3, <2>8 DEF Members, AwaitAfter
    <2>9. CASE PollWait(d) \/ PollGet(d)
      BY <2>2, <2>3, <2>9 DEF PollWait, PollGet
    <2>10. CASE \/ ListenerRejected(d) \/ Settled(d) \/ Reload(d) \/ ReloadPanics(d)
                \/ PoolRejected(d) \/ WaitFails(d) \/ AwaitBefore(d) \/ OperationImmutable(d)
                \/ OperationRejected(d) \/ AwaitFails(d)
      BY <2>1, <2>2, <2>10
         DEF ListenerRejected, Settled, Reload, ReloadPanics, PoolRejected, WaitFails, AwaitBefore,
             OperationImmutable, OperationRejected, AwaitFails
    <2> QED
      BY <1>5, <2>5, <2>6, <2>7, <2>8, <2>9, <2>10 DEF PassStep
  <1>6. CASE Return(c)
    BY <1>3, <1>6, Typed DEF Return, Idle, Over
  <1>7. CASE CloudSettle \/ CloudBreak \/ CloudApply \/ \E s \in Specs : Change(s)
    BY <1>2, <1>7 DEF CloudSettle, CloudBreak, CloudApply, Unasked, Change
  <1>8. CASE UNCHANGED vars
    BY <1>2, <1>8 DEF vars
  <1>9. CASE Next
    <2>1. \/ \E d \in Callers : PassStep(d) \/ ControllerStep(d) \/ RequestFails(d) \/ Mutation(d, TRUE)
          \/ CloudSettle \/ CloudBreak \/ CloudApply \/ \E s \in Specs : Change(s)
      BY <1>9 DEF Next, Ordinary, Fault
    <2> QED
      BY <1>2, <1>3, <1>4, <1>5, <1>6, <1>7, <2>1 DEF ControllerStep
  <1> QED
    BY <1>8, <1>9

(* A pass is over after at most 12 * Steps + 7 steps of its own, whatever  *)
(* answers it gets and whatever the other pass and the cloud do meanwhile: *)
(* every step leaves it fewer, and nobody else gives it more (the attempts *)
(* of runLBOperationWithRetry and waitPoolMembersApplied).                 *)
THEOREM PassesAreBounded == Spec => PassesBounded
  <1> DEFINE Own(c) == PassStep(c) \/ RequestFails(c) \/ Mutation(c, TRUE)
  <1>1. IInv /\ [Next]_vars =>
          [\A c \in Callers : ~Start(c) => /\ StepsLeft(call[c])' \in 0 .. StepsLeft(call[c])
                                           /\ Own(c) => StepsLeft(call[c])' # StepsLeft(call[c])]_vars
    <2> SUFFICES ASSUME IInv, Next, NEW c \in Callers, ~Start(c)
                 PROVE  /\ StepsLeft(call[c])' \in 0 .. StepsLeft(call[c])
                        /\ Own(c) => StepsLeft(call[c])' # StepsLeft(call[c])
      OBVIOUS
    <2>1. StepsLeft(call[c]) \in Nat
      BY Typed, StepsLeftType
    <2>2. CASE Own(c)
      <3>1. StepsLeft(call[c])' \in 0 .. StepsLeft(call[c]) - 1
        BY <2>2, OwnStepAdvances DEF Advances
      <3>2. \A n \in Nat : \A m \in 0 .. n - 1 : m \in 0 .. n /\ m # n
        OBVIOUS
      <3> HIDE DEF Own
      <3> QED
        BY <2>1, <3>1, <3>2
    <2>3. CASE ~Own(c)
      <3>1. ~(PassStep(c) \/ RequestFails(c) \/ Mutation(c, TRUE)) /\ [Next]_vars
        BY <2>3
      <3>2. StepsLeft(call[c])' \in 0 .. StepsLeft(call[c])
        BY <3>1, OthersStepsLeft
      <3> QED
        BY <2>3, <3>2
    <2> QED
      BY <2>2, <2>3
  <1>2. IInv /\ [Next]_vars => IInv'
    BY NextKeeps
  <1> QED
    BY <1>1, <1>2, InitIInv, PTL DEF Spec, PassesBounded

-----------------------------------------------------------------------------
(* Who will correct what is not right.                                     *)

(* The steps that come after the pools are listed.                         *)
Late == {"createPool", "members"} \cup Loop \cup Poll

(* The listener, and the pool, are what the Service asks for by now, and   *)
(* an update under way makes the pool so.                                  *)
ListenerRight ==
    HasListener(TheKey) /\ (TimeoutGiven(now) => listeners[TheKey].timeout = now.timeout)
PoolRight ==
    /\ HasPool(TheKey) /\ pools[TheKey].members = DesiredMembers(now, ThePort)
    /\ pools[TheKey].target = DesiredMembers(now, ThePort)
Orderly ==
    UpdatePending(TheKey) => Asked(now) /\ pools[TheKey].target = DesiredMembers(now, ThePort)

(* A call with the latest request that knows of all that is not right.     *)
ToGo(k) == k.obsolete \cup {k.pool}
Effective(k) ==
    /\ k.req = now
    /\ k.step \in {"settle", "reload", "pools"} /\ Asked(now) => ListenerRight /\ k.listener = "live"
    /\ k.step \in {"pools"} \cup Late /\ ~Asked(now) => (HasListener(TheKey) => k.listener = "live")
    /\ k.step \in Late =>
         /\ left # NoPool => "left" \in ToGo(k)
         /\ Asked(now) => ListenerRight
         /\ Asked(now) /\ k.step # "createPool" =>
              /\ k.op # "deletePool" => k.pool = "bound"
              /\ k.op # "update" => PoolRight
         /\ ~Asked(now) /\ HasPool(TheKey) => "bound" \in ToGo(k)

WillCorrect(c) == c \in due \/ call[c].step = "error" \/ (InCall(c) /\ Effective(call[c]))
LooksStill(c) == call[c].step = "error" \/ (call[c].step \in Early /\ Effective(call[c]))

(* Unless an old copy wrote, somebody will correct what is not right.      *)
LatestInv ==
    /\ \A c \in looked : LooksStill(c)
    /\ ~stale => Orderly /\ (Right \/ \E c \in Callers : WillCorrect(c))

(* What Right says.                                                        *)
LEMMA RightIs ==
    Right <=> left = NoPool /\ IF Asked(now) THEN ListenerRight /\ PoolRight
                               ELSE ~HasPool(TheKey) /\ ~HasListener(TheKey)
  BY DEF Right, ListenerRight, PoolRight, UpdatePending

(* What no step does to the cloud that an old copy did not ask for.        *)
Gentle ==
    /\ now' = now
    /\ left' # NoPool => left # NoPool
    /\ Asked(now) => (ListenerRight => ListenerRight') /\ (PoolRight => PoolRight')
    /\ ~Asked(now) => /\ HasListener(TheKey)' => HasListener(TheKey)
                      /\ HasPool(TheKey)' => HasPool(TheKey)

(* Such a step keeps what is right, and what a call knows.                 *)
LEMMA GentleKeeps ==
    ASSUME Gentle
    PROVE  /\ Right => Right'
           /\ \A d \in Callers : call'[d] = call[d] /\ Effective(call[d]) => Effective(call[d])'
  <1>1. Asked(now)' <=> Asked(now)
    BY DEF Gentle, Asked
  <1>2. Right => Right'
    <2>1. Right' <=> left' = NoPool /\ IF Asked(now)' THEN ListenerRight' /\ PoolRight'
                                       ELSE ~HasPool(TheKey)' /\ ~HasListener(TheKey)'
      BY DEF Right, ListenerRight, PoolRight, UpdatePending
    <2> QED
      BY <1>1, <2>1, RightIs DEF Gentle
  <1>3. ASSUME NEW d \in Callers, call'[d] = call[d], Effective(call[d])
        PROVE  Effective(call[d])'
    BY <1>1, <1>3 DEF Effective, Gentle, ToGo
  <1> QED
    BY <1>2, <1>3

(* Nothing changes but callers.                                            *)
LEMMA StillGentle ==
    ASSUME UNCHANGED <<cloud, now>>
    PROVE  Gentle /\ (Orderly => Orderly')
  BY DEF cloud, cloudVars, Gentle, Orderly, ListenerRight, PoolRight, UpdatePending, HasPool,
         HasListener, Asked

(* One caller moves, and another one's words are kept.                     *)
LEMMA LatestKept ==
    ASSUME LatestInv, NEW c \in Callers, call \in [Callers -> Calls],
           \A d \in Callers \ {c} :
               call'[d].step = call[d].step /\ (Effective(call[d]) => Effective(call[d])'),
           looked' \subseteq Callers, looked' \ {c} \subseteq looked, due \ {c} \subseteq due',
           c \in looked' => LooksStill(c)',
           ~stale' => Orderly',
           ~stale' => \/ Right' \/ WillCorrect(c)'
                      \/ ~stale /\ (Right => Right') /\ ~WillCorrect(c)
    PROVE  LatestInv'
  <1>1. ASSUME NEW d \in looked' PROVE LooksStill(d)'
    <2>1. CASE d = c
      BY <1>1, <2>1
    <2>2. CASE d # c
      <3>1. LooksStill(d) /\ d \in Callers \ {c}
        BY <1>1, <2>2 DEF LatestInv
      <3> QED
        BY <3>1 DEF LooksStill
    <2> QED
      BY <2>1, <2>2
  <1>2. ASSUME ~stale' PROVE Right' \/ \E d \in Callers : WillCorrect(d)'
    <2>1. CASE Right' \/ WillCorrect(c)'
      BY <2>1
    <2>2. CASE ~stale /\ (Right => Right') /\ ~WillCorrect(c)
      <3>1. Right \/ \E d \in Callers : WillCorrect(d)
        BY <2>2 DEF LatestInv
      <3>2. CASE Right
        BY <2>2, <3>2
      <3>3. ASSUME NEW d \in Callers, WillCorrect(d) PROVE WillCorrect(d)'
        <4>1. d \in Callers \ {c}
          BY <2>2, <3>3
        <4> QED
          BY <3>3, <4>1 DEF WillCorrect, InCall
      <3> QED
        BY <3>1, <3>2, <3>3
    <2> QED
      BY <1>2, <2>1, <2>2
  <1> QED
    BY <1>1, <1>2 DEF LatestInv

(* A step of a pass that only looks.                                       *)
LEMMA LookLatest ==
    ASSUME IInv, LatestInv, NEW c \in Callers, InCall(c), OnlyMoves(c), Looks,
           \/ call'[c].step = "error"
           \/ call[c].step \in Early /\ call'[c].step \in Early
              /\ (Effective(call[c]) => Effective(call[c])')
           \/ call[c].step \in Late
              /\ (Orderly /\ Effective(call[c]) => Right' \/ (InCall(c)' /\ Effective(call[c])'))
    PROVE  LatestInv'
  <1>1. /\ UNCHANGED <<cloud, now, due, stale, looked>> /\ looked \subseteq Callers
        /\ call \in [Callers -> Calls] /\ call[c].step \notin Over
    BY Typed DEF Looks, EnvOK, InCall, Over
  <1>2. Gentle /\ (Orderly => Orderly')
    BY <1>1, StillGentle
  <1>3. /\ Right => Right'
        /\ \A d \in Callers \ {c} :
             call'[d].step = call[d].step /\ (Effective(call[d]) => Effective(call[d])')
    BY <1>2, GentleKeeps DEF OnlyMoves
  <1>4. c \in looked => call[c].step \in Early /\ Effective(call[c])
    BY <1>1 DEF LatestInv, LooksStill, Over
  <1>5. c \in looked' => LooksStill(c)'
    BY <1>1, <1>4 DEF LooksStill, Early, Late, Loop, Poll
  <1>6. ~stale' => Orderly'
    BY <1>1, <1>2 DEF LatestInv
  <1>7. ASSUME ~stale', WillCorrect(c) PROVE Right' \/ WillCorrect(c)'
    <2>1. Orderly
      BY <1>1, <1>7 DEF LatestInv
    <2> QED
      BY <1>1, <1>7, <2>1 DEF WillCorrect, InCall, Early, Over
  <1> QED
    BY <1>1, <1>3, <1>5, <1>6, <1>7, LatestKept

(* The pass goes on with what it knew.                                     *)
LEMMA MoveEffective ==
    ASSUME IInv, NEW c \in Callers, UNCHANGED <<cloud, now>>, SameIDs(c), call'[c].op = call[c].op,
           \/ call[c].step \in Late \ {"createPool"} /\ call'[c].step \in Late \ {"createPool"}
           \/ call[c].step = "settle" /\ call'[c].step = "reload"
           \/ call[c].step = "reload" /\ call'[c].step = "pools",
           Effective(call[c])
    PROVE  Effective(call[c])'
  <1>1. CallInv(call[c])
    BY DEF IInv, CallerInv
  <1>2. /\ Asked(now)' <=> Asked(now)
        /\ ListenerRight' <=> ListenerRight
        /\ PoolRight' <=> PoolRight
        /\ HasPool(TheKey)' <=> HasPool(TheKey)
        /\ HasListener(TheKey)' <=> HasListener(TheKey)
    BY DEF cloud, cloudVars, ListenerRight, PoolRight, HasPool, HasListener, Asked
  <1>3. CASE call[c].step \in Late \ {"createPool"} /\ call'[c].step \in Late \ {"createPool"}
    BY <1>2, <1>3 DEF Effective, SameIDs, ToGo, cloud, Late, Loop, Poll
  <1>4. CASE call[c].step = "settle" /\ call'[c].step = "reload"
    BY <1>2, <1>4 DEF Effective, SameIDs, Late, Loop, Poll
  <1>5. CASE call[c].step = "reload" /\ call'[c].step = "pools"
    BY <1>1, <1>2, <1>5 DEF Effective, SameIDs, Late, Loop, Poll, CallInv
  <1> QED
    BY <1>3, <1>4, <1>5

(* A pass that fails runs again.                                           *)
LEMMA FailLatest ==
    ASSUME IInv, LatestInv, NEW c \in Callers, InCall(c), Fail(c), Looks
    PROVE  LatestInv'
  BY Typed, FailType, LookLatest DEF Ends

(* Another attempt, or none.                                               *)
LEMMA RetryLatest ==
    ASSUME IInv, LatestInv, NEW c \in Callers, Looks,
           \/ call[c].step \in Loop /\ NextTry(c, "before")
           \/ call[c].step \in Poll /\ NextTry(c, "pollWait")
    PROVE  LatestInv'
  <1>1. PICK step \in {"before", "pollWait"} : NextTry(c, step)
    OBVIOUS
  <1>2. /\ OnlyMoves(c)
        /\ \/ SameIDs(c) /\ call'[c].step = step /\ call'[c].op = call[c].op
           \/ Ends(c, "error")
    BY <1>1, Typed, NextTryType
  <1>3. InCall(c) /\ call[c].step \in Late \ {"createPool"}
    BY DEF InCall, Late, Loop, Poll
  <1>4. CASE Ends(c, "error")
    BY <1>2, <1>3, <1>4, LookLatest DEF Ends
  <1>5. CASE SameIDs(c) /\ call'[c].step = step /\ call'[c].op = call[c].op
    <2>1. call'[c].step \in Late \ {"createPool"} /\ InCall(c)'
      BY <1>5 DEF Late, Loop, Poll, InCall
    <2>2. Effective(call[c]) => Effective(call[c])'
      BY <1>3, <1>5, <2>1, MoveEffective DEF Looks
    <2> QED
      BY <1>2, <1>3, <2>1, <2>2, LookLatest
  <1> QED
    BY <1>2, <1>4, <1>5

(* The next step of the same work.                                         *)
LEMMA GoesOnLatest ==
    ASSUME IInv, LatestInv, NEW c \in Callers, Looks, OnlyMoves(c), SameIDs(c),
           call'[c].op = call[c].op,
           \/ call[c].step \in Late \ {"createPool"} /\ call'[c].step \in Late \ {"createPool"}
           \/ call[c].step = "settle" /\ call'[c].step = "reload"
           \/ call[c].step = "reload" /\ call'[c].step = "pools"
    PROVE  LatestInv'
  <1>1. Effective(call[c]) => Effective(call[c])'
    BY MoveEffective DEF Looks
  <1>2. InCall(c) /\ InCall(c)'
    BY DEF InCall, Late, Loop, Poll
  <1> QED
    BY <1>1, <1>2, LookLatest DEF Early

(* The clean-up leaves nothing out.                                        *)
LEMMA CleanUpLatest ==
    ASSUME IInv, LatestInv, NEW c \in Callers, Continue(c, CleanUp(call[c])), Looks,
           \/ call[c].step = "members" /\ call[c].op = "none"
           \/ call[c].step = "after" /\ call[c].op # "update"
           \/ /\ call[c].step = "pollGet" /\ ThePool(call[c].pool) # NoPool
              /\ ThePool(call[c].pool).members = Desired(c)
    PROVE  LatestInv'
  <1>1. /\ InCall(c) /\ call[c].step \in {"members", "after", "pollGet"} /\ call[c].step \in Late
        /\ CallInv(call[c]) /\ IDsInv(call[c]) /\ PoolsInv
        /\ call[c].obsolete \subseteq PoolIDs /\ call[c].pool \in PoolIDs \cup {"none"}
        /\ call[c].op \in {"none", "update", "deletePool", "deleteListener"}
        /\ UNCHANGED <<cloud, now>>
    BY Typed DEF InCall, IInv, CallerInv, Late, Loop, Poll, Looks, Calls
  <1>2. OnlyMoves(c) /\ (NextPool(c) \/ NextListener(c) \/ AllDone(c))
    BY Typed, CleanUpType
  <1> SUFFICES ASSUME Orderly, Effective(call[c])
               PROVE  Right' \/ (InCall(c)' /\ Effective(call[c])')
    BY <1>1, <1>2, LookLatest
  <1>3. /\ Asked(now)' <=> Asked(now)
        /\ ListenerRight' <=> ListenerRight
        /\ PoolRight' <=> PoolRight
        /\ HasPool(TheKey)' <=> HasPool(TheKey)
        /\ HasListener(TheKey)' <=> HasListener(TheKey)
        /\ left' = left
        /\ Right' <=> Right
    BY <1>1 DEF cloud, cloudVars, ListenerRight, PoolRight, HasPool, HasListener, Asked, Right,
                UpdatePending
  <1>4. call[c].req = now /\ (call[c].op = "deleteListener" => ~Asked(now))
    BY <1>1 DEF Effective, CallInv
  <1>5. ASSUME Asked(now) PROVE PoolRight /\ ListenerRight /\ call[c].pool # "left"
    <2>1. ListenerRight
      BY <1>1, <1>5 DEF Effective
    <2>2. CASE call[c].op # "update"
      <3>1. call[c].op \in {"none", "deletePool"}
        BY <1>1, <1>4, <1>5, <2>2
      <3>2. call[c].pool # "left"
        BY <1>1, <1>5, <3>1 DEF Effective, CallInv, Loop, Poll
      <3>3. PoolRight
        BY <1>1, <1>5, <2>2 DEF Effective
      <3> QED
        BY <2>1, <3>2, <3>3
    <2>3. CASE call[c].op = "update"
      <3>1. call[c].step = "pollGet" /\ call[c].pool = "bound"
        BY <1>1, <1>5, <2>3 DEF Effective
      <3>2. pools[TheKey].members = DesiredMembers(now, ThePort) /\ HasPool(TheKey)
        BY <1>1, <1>4, <3>1 DEF IDsInv, ThePool, Desired
      <3>3. pools[TheKey].target = DesiredMembers(now, ThePort)
        BY <3>2 DEF Orderly, UpdatePending
      <3> QED
        BY <2>1, <3>1, <3>2, <3>3 DEF PoolRight
    <2> QED
      BY <2>2, <2>3
  <1>6. ASSUME ~Asked(now)
        PROVE  /\ call[c].pool \in {"none", "gone"} /\ (HasPool(TheKey) => "bound" \in call[c].obsolete)
               /\ HasListener(TheKey) => call[c].listener = "live"
    <2>1. call[c].pool \in {"none", "gone"}
      BY <1>1, <1>4, <1>6 DEF CallInv, Loop, Poll
    <2> QED
      BY <1>1, <1>6, <2>1 DEF Effective, ToGo
  <1>7. left # NoPool => "left" \in call[c].obsolete
    BY <1>1, <1>5, <1>6 DEF Effective, ToGo
  <1>8. CASE NextPool(c)
    <2>1. /\ call'[c].step = "before" /\ call'[c].op = "deletePool" /\ call'[c].req = now'
          /\ call'[c].listener = call[c].listener
          /\ \A p \in call[c].obsolete : p \in call'[c].obsolete \cup {call'[c].pool}
      BY <1>1, <1>4, <1>8 DEF NextPool
    <2>2. Effective(call[c])'
      BY <1>3, <1>5, <1>6, <1>7, <2>1 DEF Effective, ToGo, Late, Loop, Poll
    <2> QED
      BY <2>1, <2>2 DEF InCall
  <1>9. CASE NextListener(c)
    <2>1. /\ call'[c].step = "before" /\ call'[c].op = "deleteListener" /\ call'[c].req = now'
          /\ call'[c].listener = call[c].listener /\ call'[c].obsolete = call[c].obsolete
          /\ ~Asked(now)
      BY <1>1, <1>4, <1>9 DEF NextListener, SameIDs
    <2>2. Effective(call[c])'
      BY <1>3, <1>6, <1>7, <2>1 DEF Effective, ToGo, Late, Loop, Poll
    <2> QED
      BY <2>1, <2>2 DEF InCall
  <1>10. CASE AllDone(c)
    <2>1. left = NoPool
      BY <1>7, <1>10 DEF AllDone
    <2>2. CASE Asked(now)
      BY <1>3, <1>5, <2>1, <2>2, RightIs
    <2>3. CASE ~Asked(now)
      <3>1. call[c].listener # "live"
        BY <1>1, <1>4, <1>10, <2>3 DEF AllDone, CallInv, Loop, Poll
      <3>2. ~HasListener(TheKey) /\ ~HasPool(TheKey)
        BY <1>1, <1>6, <2>3, <3>1 DEF PoolsInv
      <3> QED
        BY <1>3, <2>1, <2>3, <3>2, RightIs
    <2> QED
      BY <2>2, <2>3
  <1> QED
    BY <1>2, <1>8, <1>9, <1>10

(* The steps that only look.                                               *)
LEMMA LooksLatest ==
    ASSUME IInv, LatestInv, NEW c \in Callers,
           \/ ListenerRejected(c) \/ Settled(c) \/ Reload(c) \/ PoolRejected(c) \/ Members(c)
           \/ WaitFails(c) \/ AwaitBefore(c) \/ OperationImmutable(c) \/ OperationRejected(c)
           \/ AwaitAfter(c) \/ AwaitFails(c) \/ PollWait(c) \/ PollGet(c)
           \/ RequestFails(c) /\ call[c].step # "reload"
    PROVE  LatestInv'
  <1>1. call[c] \in Calls /\ CallInv(call[c]) /\ IDsInv(call[c]) /\ call \in [Callers -> Calls]
    BY Typed DEF IInv, CallerInv
  <1>2. CASE ListenerRejected(c) \/ PoolRejected(c) \/ WaitFails(c) \/ OperationRejected(c)
    <2>1. InCall(c) /\ Fail(c) /\ Looks
      BY <1>2 DEF ListenerRejected, PoolRejected, WaitFails, OperationRejected, Active, InCall
    <2> QED
      BY <2>1, FailLatest
  <1>3. CASE OperationImmutable(c) \/ AwaitFails(c)
    <2>1. call[c].step \in Loop /\ NextTry(c, "before") /\ Looks
      BY <1>3 DEF OperationImmutable, AwaitFails, Loop
    <2> QED
      BY <2>1, RetryLatest
  <1>4. CASE RequestFails(c) /\ call[c].step # "reload"
    <2>1. \/ call[c].step \in Loop /\ NextTry(c, "before") /\ Looks
          \/ call[c].step \in Poll /\ NextTry(c, "pollWait") /\ Looks
          \/ InCall(c) /\ Fail(c) /\ Looks
      <3>1. CASE call[c].step \in {"before", "after"}
        BY <1>4, <3>1 DEF RequestFails, Loop
      <3>2. CASE call[c].step \in {"pollWait", "pollGet"}
        BY <1>4, <3>2 DEF RequestFails, Poll
      <3>3. CASE call[c].step \notin {"before", "after", "pollWait", "pollGet"}
        BY <1>4, <3>3 DEF RequestFails
      <3> QED
        BY <3>1, <3>2, <3>3
    <2> QED
      BY <2>1, RetryLatest, FailLatest
  <1>5. ASSUME NEW step \in {"reload", "pools", "act", "pollGet"}, Goto(c, step), Looks,
               \/ call[c].step = "settle" /\ step = "reload"
               \/ call[c].step = "reload" /\ step = "pools"
               \/ call[c].step = "before" /\ step = "act"
               \/ call[c].step = "pollWait" /\ step = "pollGet"
        PROVE  LatestInv'
    <2>1. OnlyMoves(c) /\ SameIDs(c) /\ call'[c].step = step /\ call'[c].op = call[c].op
      BY <1>1, <1>5, GotoType
    <2> QED
      BY <1>5, <2>1, GoesOnLatest DEF Late, Loop, Poll
  <1>6. CASE Settled(c) \/ Reload(c) \/ AwaitBefore(c)
    BY <1>5, <1>6 DEF Settled, Reload, AwaitBefore, Active
  <1>7. CASE PollWait(c)
    BY <1>5, <1>7, RetryLatest DEF PollWait, Poll
  <1>8. CASE PollGet(c)
    <2>1. CASE call[c].pool # "gone" /\ ~membersChanged(ThePool(call[c].pool).members, Desired(c))
      <3>1. call[c].pool \in {"bound", "left"} /\ ThePool(call[c].pool) # NoPool
        BY <1>1, <1>8, <2>1 DEF PollGet, CallInv, IDsInv, Calls, PoolIDs, Poll, ThePool, HasPool
      <3>2. ThePool(call[c].pool).members = Desired(c)
        BY <2>1, <3>1, ComparesSets
      <3> QED
        BY <1>8, <2>1, <3>1, <3>2, CleanUpLatest DEF PollGet
    <2>2. CASE ~(call[c].pool # "gone" /\ ~membersChanged(ThePool(call[c].pool).members, Desired(c)))
      BY <1>8, <2>2, RetryLatest DEF PollGet, Poll
    <2> QED
      BY <2>1, <2>2
  <1>9. 0 \in 0 .. Steps - 1
    BY PassesConstants
  <1>10. CASE Members(c)
    <2>1. CASE call[c].op = "update"
      <3>1. call' = [call EXCEPT ![c] =
                       [call[c] EXCEPT !.step = "before", !.op = "update", !.tries = 0]]
        BY <1>10, <2>1 DEF Members, Continue, Operate
      <3>2. OnlyMoves(c) /\ SameIDs(c) /\ call'[c].step = "before" /\ call'[c].op = "update"
        BY <1>1, <1>9, <3>1 DEF OnlyMoves, SameIDs, Calls
      <3> QED
        BY <1>10, <2>1, <3>2, GoesOnLatest DEF Members, Active, Late, Loop, Poll
    <2>2. CASE call[c].op # "update"
      BY <1>1, <1>10, <2>2, CleanUpLatest DEF Members, CallInv, Active
    <2> QED
      BY <2>1, <2>2
  <1>11. CASE AwaitAfter(c)
    <2>1. CASE call[c].op = "update"
      <3>1. call' = [call EXCEPT ![c] = [call[c] EXCEPT !.step = "pollWait", !.tries = 0]]
        BY <1>11, <2>1 DEF AwaitAfter, Continue
      <3>2. OnlyMoves(c) /\ SameIDs(c) /\ call'[c].step = "pollWait" /\ call'[c].op = call[c].op
        BY <1>1, <1>9, <3>1 DEF OnlyMoves, SameIDs, Calls
      <3> QED
        BY <1>11, <3>2, GoesOnLatest DEF AwaitAfter, Active, Late, Loop, Poll
    <2>2. CASE call[c].op # "update"
      BY <1>11, <2>2, CleanUpLatest DEF AwaitAfter, Active
    <2> QED
      BY <2>1, <2>2
  <1> QED
    BY <1>2, <1>3, <1>4, <1>6, <1>7, <1>8, <1>10, <1>11

(* The process dies, and both callers run again.                           *)
LEMMA PanicLatest ==
    ASSUME IInv, LatestInv, Panic
    PROVE  LatestInv'
  <1>1. Orderly => Orderly'
    BY StillGentle DEF Panic
  <1>2. looked' = {} /\ stale' = stale /\ WillCorrect("worker")'
    BY DEF Panic, WillCorrect, Callers
  <1> QED
    BY <1>1, <1>2 DEF LatestInv, Callers

(* A call starts or returns.                                               *)
LEMMA ControllerLatest ==
    ASSUME IInv, LatestInv, NEW c \in Callers, ControllerStep(c)
    PROVE  LatestInv'
  <1>1. call \in [Callers -> Calls] /\ now \in Specs /\ looked \subseteq Callers
    BY Typed DEF EnvOK
  <1>2. UNCHANGED <<cloud, now, stale>> /\ \A d \in Callers \ {c} : call'[d] = call[d]
    BY <1>1 DEF ControllerStep, Start, Return
  <1>3. Gentle /\ (Orderly => Orderly')
    BY <1>2, StillGentle
  <1>4. /\ Right => Right'
        /\ \A d \in Callers \ {c} :
             call'[d].step = call[d].step /\ (Effective(call[d]) => Effective(call[d])')
    BY <1>2, <1>3, GentleKeeps
  <1>5. c \in looked => call[c].step = "error" \/ call[c].step \in Early
    BY DEF LatestInv, LooksStill
  <1>6. ~stale' => Orderly'
    BY <1>2, <1>3 DEF LatestInv
  <1>7. CASE Start(c)
    <2>1. call'[c].step = "list" /\ call'[c].req = now' /\ due' = due \ {c} /\ looked' = looked
      BY <1>1, <1>7, IdleType DEF Start
    <2>2. c \notin looked
      BY <1>5, <1>7 DEF Start, Early
    <2>3. WillCorrect(c)'
      BY <2>1 DEF WillCorrect, InCall, Effective, Late, Loop, Poll
    <2> QED
      BY <1>1, <1>4, <1>6, <2>1, <2>2, <2>3, LatestKept
  <1>8. CASE Return(c)
    <2>1. looked' = looked \ {c} /\ due \subseteq due' /\ (call[c].step = "error" => c \in due')
          /\ call[c].step \in {"ok", "error"}
      BY <1>8 DEF Return
    <2>2. WillCorrect(c) => WillCorrect(c)'
      BY <2>1 DEF WillCorrect, InCall
    <2> QED
      BY <1>1, <1>2, <1>4, <1>6, <2>1, <2>2, LatestKept
  <1> QED
    BY <1>7, <1>8 DEF ControllerStep

(* The Service or the nodes change.                                        *)
LEMMA ChangeLatest ==
    ASSUME IInv, LatestInv, NEW s \in Specs, Change(s)
    PROVE  LatestInv'
  <1>1. looked' = {} /\ now' = s /\ UNCHANGED cloud /\ s # now
    BY DEF Change
  <1>2. ~stale' => Orderly'
    BY DEF Change, Orderly, UpdatePending, HasPool, cloud, cloudVars
  <1>3. due' \cap Callers # {}
    <2>1. CASE s.nodes # now.nodes
      BY <2>1 DEF Change, Callers
    <2>2. CASE s.nodes = now.nodes
      <3>1. [s EXCEPT !.nodes = now.nodes] = s
        BY <2>2, SpecsType DEF Request
      <3> QED
        BY <1>1, <3>1 DEF Change, Callers
    <2> QED
      BY <2>1, <2>2
  <1>4. \E d \in Callers : WillCorrect(d)'
    BY <1>3 DEF WillCorrect
  <1> QED
    BY <1>1, <1>2, <1>4 DEF LatestInv

(* What the cloud does by itself.                                          *)
LEMMA CloudLatest ==
    ASSUME IInv, LatestInv, CloudSettle \/ CloudBreak \/ CloudApply
    PROVE  LatestInv'
  <1>1. /\ UNCHANGED <<now, due, call, stale, looked>>
        /\ call \in [Callers -> Calls] /\ looked \subseteq Callers
    BY Typed DEF CloudSettle, CloudBreak, CloudApply, Unasked, EnvOK
  <1>2. Gentle /\ (Orderly => Orderly')
    <2>1. CASE CloudSettle \/ CloudBreak
      BY <1>1, <2>1 DEF CloudSettle, CloudBreak, Settle, Break, Gentle, Orderly, ListenerRight,
                        PoolRight, UpdatePending, HasPool, HasListener, Asked
    <2>2. CASE ApplyToLeft
      BY <1>1, <2>2 DEF ApplyToLeft, Gentle, Orderly, ListenerRight, PoolRight, UpdatePending,
                        HasPool, HasListener, Asked
    <2>3. CASE ApplyMembers(TheKey) /\ UNCHANGED left
      <3>1. /\ UpdatePending(TheKey) /\ HasPool(TheKey) /\ pools[TheKey] \in Pool
            /\ pools'[TheKey] = [pools[TheKey] EXCEPT !.members = pools[TheKey].target]
            /\ UNCHANGED <<listeners, left>>
        BY <2>3, Typed, TheKeyType
           DEF ApplyMembers, PutPool, UpdatePending, HasPool, CloudOK, CloudTypeOK
      <3>2. pools'[TheKey].members = pools'[TheKey].target
        BY <3>1 DEF Pool
      <3>3. ~PoolRight
        BY <3>1 DEF PoolRight, UpdatePending
      <3>4. Orderly'
        BY <3>2 DEF Orderly, UpdatePending
      <3> QED
        BY <1>1, <3>1, <3>3, <3>4 DEF Gentle, ListenerRight, HasListener, Asked
    <2> QED
      BY <2>1, <2>2, <2>3 DEF CloudApply
  <1>3. /\ Right => Right'
        /\ \A d \in Callers :
             call'[d].step = call[d].step /\ (Effective(call[d]) => Effective(call[d])')
    BY <1>1, <1>2, GentleKeeps
  <1>4. PICK c \in Callers : c = "worker"
    BY DEF Callers
  <1>5. WillCorrect(c) => WillCorrect(c)'
    BY <1>1, <1>3 DEF WillCorrect, InCall
  <1>6. c \in looked' => LooksStill(c)'
    BY <1>1, <1>3 DEF LatestInv, LooksStill
  <1>7. ~stale' => ~stale /\ Orderly'
    BY <1>1, <1>2 DEF LatestInv
  <1> QED
    BY <1>1, <1>3, <1>5, <1>6, <1>7, LatestKept

(* The listeners are listed.                                               *)
LEMMA ListListenersLatest ==
    ASSUME IInv, LatestInv, NEW c \in Callers, ListListeners(c)
    PROVE  LatestInv'
  <1>1. /\ call[c] \in Calls /\ call \in [Callers -> Calls] /\ call[c].step = "list" /\ InCall(c)
        /\ UNCHANGED <<cloud, now, due, stale>> /\ looked \subseteq Callers /\ now \in Specs
        /\ looked' = IF call[c].req = now THEN looked \cup {c} ELSE looked \ {c}
    BY Typed DEF ListListeners, Active, InCall, EnvOK
  <1>2. PICK next \in {"create", "update", "reload", "pools"} :
          /\ next = "reload" => /\ HasListener(TheKey)
                                /\ ~ListenerNeedsUpdate(listeners[TheKey], call[c].req)
          /\ next = "pools" => ~Asked(call[c].req)
          /\ call' = [call EXCEPT ![c] = [call[c] EXCEPT !.step = next, !.listener =
                        IF HasListener(TheKey) THEN "live" ELSE "none"]]
    BY DEF ListListeners
  <1>3. /\ OnlyMoves(c) /\ call'[c].step = next /\ call'[c].req = call[c].req
        /\ call'[c].listener = IF HasListener(TheKey) THEN "live" ELSE "none"
    BY <1>1, <1>2, Typed DEF OnlyMoves, Calls, ListenerIDs
  <1>4. Gentle /\ (Orderly => Orderly')
    BY <1>1, StillGentle
  <1>5. /\ Right => Right'
        /\ \A d \in Callers \ {c} :
             call'[d].step = call[d].step /\ (Effective(call[d]) => Effective(call[d])')
    BY <1>3, <1>4, GentleKeeps DEF OnlyMoves
  <1>6. ASSUME call[c].req = now PROVE Effective(call[c])' /\ InCall(c)' /\ LooksStill(c)'
    <2>1. next = "reload" => ListenerRight
      BY <1>1, <1>2, <1>6, SpecialTimeouts DEF ListenerRight, ListenerNeedsUpdate, TimeoutGiven
    <2>2. (ListenerRight <=> ListenerRight') /\ (HasListener(TheKey) <=> HasListener(TheKey)')
      BY <1>1 DEF cloud, cloudVars, ListenerRight, HasListener
    <2>3. Effective(call[c])'
      BY <1>1, <1>2, <1>3, <1>6, <2>1, <2>2 DEF Effective, Late, Loop, Poll, Asked
    <2> QED
      BY <1>3, <2>3 DEF InCall, LooksStill, Early
  <1>7. ~stale' => ~stale /\ Orderly'
    BY <1>1, <1>4 DEF LatestInv
  <1>8. WillCorrect(c) => WillCorrect(c)'
    BY <1>1, <1>6 DEF WillCorrect, Effective
  <1>9. c \in looked' => LooksStill(c)'
    BY <1>1, <1>6
  <1> QED
    BY <1>1, <1>5, <1>7, <1>8, <1>9, LatestKept

(* The pools are listed, and what is not right is known.                   *)
LEMMA ListPoolsLatest ==
    ASSUME IInv, LatestInv, NEW c \in Callers, ListPools(c)
    PROVE  LatestInv'
  <1>1. /\ OnlyMoves(c) /\ call[c].step = "pools" /\ InCall(c) /\ UNCHANGED <<cloud, now, due>>
        /\ call'[c].step \in {"createPool", "members"}
    BY ListPoolsType
  <1>2. /\ call \in [Callers -> Calls] /\ looked \subseteq Callers /\ looked' = looked \ {c}
        /\ stale' = (stale /\ ~Clears(c))
    BY Typed DEF EnvOK, ListPools
  <1>3. Gentle /\ (Orderly => Orderly')
    BY <1>1, StillGentle
  <1>4. /\ Right => Right'
        /\ \A d \in Callers \ {c} :
             call'[d].step = call[d].step /\ (Effective(call[d]) => Effective(call[d])')
    BY <1>1, <1>3, GentleKeeps DEF OnlyMoves
  <1>5. ASSUME Orderly, Effective(call[c]) PROVE InCall(c)' /\ Effective(call[c])'
    <2>1. /\ Asked(now)' <=> Asked(now)
          /\ ListenerRight' <=> ListenerRight
          /\ PoolRight' <=> PoolRight
          /\ HasPool(TheKey)' <=> HasPool(TheKey)
          /\ HasListener(TheKey)' <=> HasListener(TheKey)
          /\ left' = left /\ now' = now
      BY <1>1 DEF cloud, cloudVars, ListenerRight, PoolRight, HasPool, HasListener, Asked
    <2>2. /\ call[c].req = now /\ call'[c].req = now /\ call'[c].listener = call[c].listener
          /\ left # NoPool => "left" \in call'[c].obsolete
          /\ HasPool(TheKey) /\ ~Asked(now) => "bound" \in call'[c].obsolete
      BY <1>5, ListPoolsType DEF Effective, Mine
    <2>3. ASSUME Asked(now), call'[c].step = "members"
          PROVE  call'[c].pool = "bound" /\ call'[c].op # "deletePool"
                 /\ (call'[c].op # "update" => PoolRight)
      <3>1. Mine(c) = {"bound"} /\ HasPool(TheKey)
        BY <2>2, <2>3, ListPoolsType DEF Mine
      <3>2. /\ call'[c].pool = "bound" /\ call'[c].op \in {"none", "update"}
            /\ call'[c].op # "update" => ~membersChanged(pools[TheKey].members, Desired(c))
        BY <2>2, <3>1, ListPoolsType
      <3>3. ThePool("bound") = pools[TheKey] /\ ThePool("bound") # NoPool
        BY <3>1 DEF ThePool, HasPool
      <3>4. call'[c].op # "update" => pools[TheKey].members = DesiredMembers(now, ThePort)
        BY <2>2, <3>2, <3>3, ComparesSets DEF Desired
      <3> QED
        BY <1>5, <3>1, <3>2, <3>4 DEF PoolRight, Orderly, UpdatePending
    <2>4. /\ Asked(now) => ListenerRight
          /\ ~Asked(now) => (HasListener(TheKey) => call[c].listener = "live")
      BY <1>1, <1>5 DEF Effective
    <2>5. Effective(call[c])'
      BY <1>1, <2>1, <2>2, <2>3, <2>4 DEF Effective, ToGo, Late, Loop, Poll
    <2> QED
      BY <1>1, <2>5 DEF InCall
  <1>6. ~stale => Orderly
    BY DEF LatestInv
  <1>7. Clears(c) => Orderly /\ Effective(call[c])
    BY <1>1 DEF Clears, Orderly, LatestInv, LooksStill
  <1>8. ~stale' => Orderly'
    BY <1>2, <1>3, <1>6, <1>7
  <1>9. ASSUME ~stale' 
        PROVE  \/ Right' \/ WillCorrect(c)'
               \/ ~stale /\ (Right => Right') /\ ~WillCorrect(c)
    <2>1. WillCorrect(c) => c \in due \/ Effective(call[c])
      BY <1>1 DEF WillCorrect
    <2> QED
      BY <1>1, <1>2, <1>4, <1>5, <1>6, <1>7, <1>9, <2>1 DEF WillCorrect
  <1> QED
    BY <1>1, <1>2, <1>4, <1>8, <1>9, LatestKept

(* What an old copy writes makes no promise.                               *)
LEMMA OldLatest ==
    ASSUME NEW c \in Callers, Mutates(c), Old(c)
    PROVE  LatestInv'
  BY DEF Mutates, LatestInv

(* A mutation that a copy of what there is by now asked for.               *)
LEMMA MutationLatest ==
    ASSUME IInv, LatestInv, NEW c \in Callers, InCall(c), Mutates(c), ~Old(c), OnlyMoves(c),
           Gentle, Orderly => Orderly',
           \/ call'[c].step = "error"
           \/ /\ InCall(c)' /\ (Effective(call[c]) => Effective(call[c])')
              /\ call[c].step \in Early =>
                   Effective(call[c])' /\ call'[c].step \in Early
    PROVE  LatestInv'
  <1>1. /\ UNCHANGED <<now, due, stale, looked>> /\ looked \subseteq Callers
        /\ call \in [Callers -> Calls] /\ call[c].step # "error"
    BY Typed DEF Mutates, EnvOK, InCall
  <1>2. /\ Right => Right'
        /\ \A d \in Callers \ {c} :
             call'[d].step = call[d].step /\ (Effective(call[d]) => Effective(call[d])')
    BY GentleKeeps DEF OnlyMoves
  <1>3. WillCorrect(c) => WillCorrect(c)'
    BY <1>1 DEF WillCorrect
  <1>4. c \in looked' => LooksStill(c)'
    BY <1>1 DEF LatestInv, LooksStill
  <1>5. ~stale' => ~stale /\ Orderly'
    BY <1>1 DEF LatestInv
  <1> QED
    BY <1>1, <1>2, <1>3, <1>4, <1>5, LatestKept

(* The listener is created or updated.                                     *)
LEMMA PutListenerLatest ==
    ASSUME IInv, LatestInv, NEW c \in Callers, NEW lost \in BOOLEAN,
           CreateListener(c, lost) \/ UpdateListener(c, lost)
    PROVE  LatestInv'
  <1> DEFINE a == IF call[c].step = "create" THEN buildListenerCreateRequest(call[c].req)
                  ELSE UpdatedListener(listeners[TheKey], call[c].req)
  <1>1. /\ call[c] \in Calls /\ call \in [Callers -> Calls] /\ call[c].step \in {"create", "update"}
        /\ InCall(c) /\ Mutates(c) /\ PutListener(TheKey, a) /\ UNCHANGED left
        /\ call[c].step = "update" => call[c].listener = "live" /\ HasListener(TheKey)
        /\ CallInv(call[c])
    BY Typed DEF CreateListener, UpdateListener, Active, InCall, IInv, CallerInv, IDsInv
  <1>2. CASE Old(c)
    BY <1>1, <1>2, OldLatest
  <1>3. CASE ~Old(c)
    <2>1. call[c].req = now /\ now' = now /\ Asked(now) /\ now \in Specs
      BY <1>1, <1>3, Typed DEF Old, Mutates, CallInv, EnvOK
    <2>2. a \in Attr
      <3>1. CASE call[c].step = "create"
        BY <2>1, <3>1, SpecsType, CreatedType
      <3>2. CASE call[c].step = "update"
        <4>1. listeners[TheKey] \in Attr
          BY <1>1, <3>2, Typed, TheKeyType DEF CloudOK, CloudTypeOK, HasListener
        <4> QED
          BY <2>1, <3>2, <4>1, SpecsType, UpdatedType
      <3> QED
        BY <1>1, <3>1, <3>2
    <2>3. TimeoutGiven(now) => a.timeout = now.timeout
      <3>1. CASE call[c].step = "create"
        BY <2>1, <3>1 DEF buildListenerCreateRequest
      <3>2. CASE call[c].step = "update"
        <4>1. listeners[TheKey] \in Attr
          BY <1>1, <3>2, Typed, TheKeyType DEF CloudOK, CloudTypeOK, HasListener
        <4> QED
          BY <2>1, <3>2, <4>1 DEF UpdatedListener, Attr
      <3> QED
        BY <1>1, <3>1, <3>2
    <2> HIDE DEF a
    <2>4. listeners'[TheKey] = a /\ UNCHANGED <<pools, left, now>> /\ HasListener(TheKey)'
      BY <1>1, <2>1, <2>2, Typed, TheKeyType, CloudConstants
         DEF PutListener, CloudOK, CloudTypeOK, HasListener
    <2>5. ListenerRight' /\ Asked(now)'
      BY <2>1, <2>3, <2>4 DEF ListenerRight, Asked
    <2>6. Gentle /\ (Orderly => Orderly')
      BY <2>1, <2>4, <2>5 DEF Gentle, PoolRight, Orderly, UpdatePending, HasPool, Asked
    <2>7. /\ OnlyMoves(c)
          /\ \/ call'[c].step = "error"
             \/ call'[c].step = "settle" /\ call'[c].req = now /\ call'[c].listener = "live"
      <3>1. CASE lost = TRUE
        <4>1. Fail(c)
          BY <3>1 DEF CreateListener, UpdateListener, Answer, Fail
        <4> QED
          BY <1>1, <4>1, FailType DEF Ends
      <3>2. CASE lost = FALSE
        <4>1. call' = [call EXCEPT ![c] = [call[c] EXCEPT !.step = "settle", !.listener = "live"]]
          <5>1. CASE CreateListener(c, lost)
            BY <3>2, <5>1 DEF CreateListener, Answer
          <5>2. CASE UpdateListener(c, lost)
            <6>1. /\ call' = [call EXCEPT ![c] = [call[c] EXCEPT !.step = "settle"]]
                  /\ call[c].listener = "live"
              BY <3>2, <5>2 DEF UpdateListener, Answer
            <6>2. [call[c] EXCEPT !.step = "settle"]
                    = [call[c] EXCEPT !.step = "settle", !.listener = "live"]
              BY <1>1, <6>1 DEF Calls
            <6> QED
              BY <6>1, <6>2
          <5> QED
            BY <5>1, <5>2
        <4> QED
          BY <1>1, <2>1, <4>1 DEF OnlyMoves, Calls, ListenerIDs
      <3> QED
        BY <3>1, <3>2
    <2>8. CASE call'[c].step = "error"
      BY <1>1, <1>3, <2>6, <2>7, <2>8, MutationLatest
    <2>9. CASE call'[c].step = "settle" /\ call'[c].req = now /\ call'[c].listener = "live"
      <3>1. Effective(call[c])' /\ InCall(c)' /\ call'[c].step \in Early
        BY <2>1, <2>5, <2>9 DEF Effective, InCall, Early, Late, Loop, Poll
      <3> QED
        BY <1>1, <1>3, <2>6, <2>7, <3>1, MutationLatest
    <2> QED
      BY <2>7, <2>8, <2>9
  <1> QED
    BY <1>2, <1>3

(* The missing pool is created.                                            *)
LEMMA CreatePoolLatest ==
    ASSUME IInv, LatestInv, NEW c \in Callers, NEW lost \in BOOLEAN, CreatePool(c, lost)
    PROVE  LatestInv'
  <1> DEFINE q == [members |-> {}, target |-> {}]
  <1>1. /\ call[c] \in Calls /\ call \in [Callers -> Calls] /\ call[c].step = "createPool"
        /\ InCall(c) /\ Mutates(c) /\ PutPool(TheKey, q) /\ UNCHANGED left /\ ~HasPool(TheKey)
        /\ call[c].listener = "live" /\ CallInv(call[c])
    BY Typed DEF CreatePool, Active, InCall, IInv, CallerInv, AcceptsPool
  <1>2. CASE Old(c)
    BY <1>1, <1>2, OldLatest
  <1>3. CASE ~Old(c)
    <2>1. call[c].req = now /\ now' = now /\ Asked(now) /\ now \in Specs /\ call[c].pool = "none"
      BY <1>1, <1>3, Typed DEF Old, Mutates, CallInv, EnvOK
    <2>2. pools'[TheKey] = q /\ UNCHANGED <<listeners, left, now>> /\ q.members = q.target
      BY <1>1, <2>1, Typed, TheKeyType DEF PutPool, CloudOK, CloudTypeOK
    <2> HIDE DEF q
    <2>3. Asked(now)' /\ (ListenerRight' <=> ListenerRight)
      BY <2>1, <2>2 DEF ListenerRight, HasListener, Asked
    <2>4. Gentle /\ Orderly'
      BY <1>1, <2>1, <2>2, <2>3 DEF Gentle, PoolRight, Orderly, UpdatePending
    <2>5. CASE lost = TRUE
      <3>1. Fail(c)
        BY <2>5 DEF CreatePool, Answer, Fail
      <3>2. OnlyMoves(c) /\ call'[c].step = "error"
        BY <1>1, <3>1, FailType DEF Ends
      <3> QED
        BY <1>1, <1>3, <2>4, <3>2, MutationLatest
    <2>6. CASE lost = FALSE
      <3>1. membersChanged({}, Desired(c))
        <4>1. Desired(c) # {}
          BY <2>1, DesiredType DEF Desired
        <4> QED
          BY <4>1 DEF membersChanged
      <3>2. call' = [call EXCEPT ![c] = [call[c] EXCEPT !.step = "members", !.pool = "bound",
                                                        !.op = "update"]]
        BY <2>6, <3>1 DEF CreatePool, Answer
      <3>3. /\ OnlyMoves(c) /\ call'[c].step = "members" /\ call'[c].pool = "bound"
            /\ call'[c].op = "update" /\ call'[c].req = now
            /\ call'[c].obsolete = call[c].obsolete
        BY <1>1, <2>1, <3>2 DEF OnlyMoves, Calls, PoolIDs
      <3>4. Effective(call[c]) => Effective(call[c])'
        BY <1>1, <2>1, <2>2, <2>3, <3>3 DEF Effective, ToGo, Late, Loop, Poll
      <3>5. InCall(c)' /\ call[c].step \notin Early
        BY <1>1, <3>3 DEF InCall, Early
      <3> QED
        BY <1>1, <1>3, <2>4, <3>3, <3>4, <3>5, MutationLatest
    <2> QED
      BY <2>5, <2>6
  <1> QED
    BY <1>2, <1>3

(* What an operation that the latest request asked for does to the cloud   *)
(* and to what the calls know of it.                                       *)
LEMMA CarriedLatest ==
    ASSUME IInv, NEW c \in Callers, call[c].step = "act", call[c].req = now, Carried(c), now' = now
    PROVE  /\ Right => Right'
           /\ Orderly => Orderly'
           /\ \A d \in Callers : Effective(call[d]) =>
                \A w : w = After(c, call[d]) => Effective(w)'
  <1>1. /\ CloudOK /\ call \in [Callers -> Calls] /\ CallInv(call[c]) /\ IDsInv(call[c])
        /\ now \in Specs /\ (Asked(now)' <=> Asked(now))
    BY Typed DEF IInv, CallerInv, EnvOK, Asked
  <1>2. call[c].op # "deleteListener" => call[c].pool \in PoolIDs
    BY <1>1 DEF CallInv, Loop, Calls
  <1>3. ASSUME Gentle, Orderly => Orderly', \A d \in Callers : After(c, call[d]) = call[d]
        PROVE  /\ Right => Right'
               /\ \A d \in Callers : Effective(call[d]) =>
                    \A w : w = After(c, call[d]) => Effective(w)'
    <2>1. \A d \in Callers : Effective(call[d]) => \A w : w = call[d] => Effective(w)'
      BY <1>1, <1>3 DEF Effective, Gentle, ToGo
    <2> QED
      BY <1>1, <1>3, <2>1, RightIs DEF Gentle, Right, ListenerRight, PoolRight, UpdatePending
  <1>4. CASE call[c].op = "update" /\ SetMembers(call[c].pool, Desired(c))
    <2>1. \A d \in Callers : After(c, call[d]) = call[d]
      BY <1>4 DEF After
    <2>2. Asked(now) /\ Desired(c) = DesiredMembers(now, ThePort)
      BY <1>1, <1>4 DEF CallInv, Desired
    <2>3. CASE call[c].pool = "bound" /\ PoolUpdate(TheKey, Desired(c)) /\ UNCHANGED left
      <3>1. pools[TheKey] \in Pool
        BY <1>1, <2>3, TheKeyType DEF PoolUpdate, CloudOK, CloudTypeOK, HasPool
      <3>2. pools'[TheKey] = [pools[TheKey] EXCEPT !.target = Desired(c)]
        BY <1>1, <2>3, TheKeyType DEF PoolUpdate, CloudOK, CloudTypeOK
      <3>3. /\ pools'[TheKey] \in Pool \/ Desired(c) \notin SUBSET Member
            /\ pools'[TheKey].target = Desired(c) /\ pools'[TheKey].members = pools[TheKey].members
        BY <3>1, <3>2 DEF Pool
      <3>4. pools'[TheKey] # NoPool
        BY <1>1, <2>2, <3>3, DesiredType, CloudConstants
      <3>5. Orderly' /\ (PoolRight => PoolRight') /\ (ListenerRight <=> ListenerRight')
        BY <1>1, <2>2, <2>3, <3>3, <3>4
           DEF Orderly, PoolRight, ListenerRight, HasPool, HasListener, PoolUpdate
      <3>6. Gentle
        BY <2>2, <2>3, <3>5 DEF Gentle
      <3> QED
        BY <1>3, <2>1, <3>5, <3>6
    <2>4. CASE left # NoPool /\ UNCHANGED cloudVars
      <3>1. Gentle /\ (Orderly => Orderly')
        BY <1>1, <2>4 DEF Gentle, Orderly, ListenerRight, PoolRight, UpdatePending, HasPool,
                          HasListener, cloudVars
      <3> QED
        BY <1>3, <2>1, <3>1
    <2> QED
      BY <1>4, <2>3, <2>4 DEF SetMembers
  <1>5. CASE call[c].op = "deletePool" /\ DropPool(call[c].pool)
    <2> DEFINE id == call[c].pool
    <2>1. /\ listeners' = listeners
          /\ id = "bound" => ~HasPool(TheKey)' /\ left' = left /\ HasPool(TheKey) /\ ~Asked(now)
          /\ id = "left" => pools' = pools /\ left' = NoPool /\ left # NoPool
          /\ id \in {"bound", "left"}
      <3>1. id = "bound" => ~Asked(now)
        BY <1>1, <1>5 DEF CallInv
      <3> QED
        BY <1>1, <1>2, <1>5, <3>1, DropPoolKeeps DEF DropPool
    <2>2. Orderly => Orderly'
      BY <1>1, <2>1 DEF Orderly, UpdatePending, HasPool
    <2>3. Right => Right'
      BY <1>1, <2>1, RightIs DEF Right
    <2>4. ASSUME NEW d \in Callers, Effective(call[d]), NEW w, w = After(c, call[d])
          PROVE  Effective(w)'
      <3>1. w = WithoutPool(call[d], id)
        BY <1>5, <2>4 DEF After
      <3>2. /\ w.step = call[d].step /\ w.req = call[d].req /\ w.op = call[d].op
            /\ w.listener = call[d].listener
            /\ w.pool = IF call[d].pool = id THEN "gone" ELSE call[d].pool
            /\ w.obsolete = {IF p = id THEN "gone" ELSE p : p \in call[d].obsolete}
        BY <1>1, <1>2, <1>5, <3>1, WithoutPoolType
      <3>3. \A p \in {"bound", "left"} : p # id /\ p \in ToGo(call[d]) => p \in ToGo(w)
        BY <3>2 DEF ToGo
      <3>4. (ListenerRight <=> ListenerRight') /\ (HasListener(TheKey) <=> HasListener(TheKey)')
        BY <1>1, <2>1 DEF ListenerRight, HasListener
      <3>5. CASE id = "bound"
        BY <1>1, <2>1, <2>4, <3>2, <3>3, <3>4, <3>5 DEF Effective
      <3>6. CASE id = "left"
        <4>1. (PoolRight <=> PoolRight') /\ (HasPool(TheKey) <=> HasPool(TheKey)')
          BY <1>1, <2>1, <3>6 DEF PoolRight, HasPool
        <4> QED
          BY <1>1, <2>1, <2>4, <3>2, <3>3, <3>4, <3>6, <4>1 DEF Effective
      <3> QED
        BY <2>1, <3>5, <3>6
    <2> QED
      BY <2>2, <2>3, <2>4
  <1>6. CASE call[c].op = "deleteListener" /\ call[c].listener = "live" /\ DropListener
    <2>1. /\ ~Asked(now) /\ HasListener(TheKey) /\ ~HasListener(TheKey)' /\ ~HasPool(TheKey)'
          /\ left' = IF HasPool(TheKey) THEN pools[TheKey] ELSE left
      BY <1>1, <1>6, DropListenerKeeps DEF CallInv, IDsInv
    <2>2. Orderly' /\ ~Right
      BY <2>1, RightIs DEF Orderly, UpdatePending
    <2>3. ASSUME NEW d \in Callers, Effective(call[d]), NEW w, w = After(c, call[d])
          PROVE  Effective(w)'
      <3>1. w = WithoutListener(call[d])
        BY <1>6, <2>3 DEF After
      <3>2. /\ w.step = call[d].step /\ w.req = call[d].req
            /\ w.pool = IF call[d].pool = "bound" THEN "left" ELSE call[d].pool
            /\ w.obsolete = {IF p = "bound" THEN "left" ELSE p : p \in call[d].obsolete}
        BY <1>1, <3>1, WithoutListenerType
      <3>3. "left" \in ToGo(call[d]) \/ "bound" \in ToGo(call[d]) => "left" \in ToGo(w)
        BY <3>2 DEF ToGo
      <3> QED
        BY <1>1, <2>1, <2>3, <3>2, <3>3 DEF Effective
    <2> QED
      BY <2>2, <2>3
  <1> QED
    BY <1>4, <1>5, <1>6 DEF Carried

(* The mutation itself.                                                    *)
LEMMA OperationLatest ==
    ASSUME IInv, LatestInv, NEW c \in Callers, NEW lost \in BOOLEAN, Operation(c, lost)
    PROVE  LatestInv'
  <1>1. /\ call \in [Callers -> Calls] /\ call[c].step = "act" /\ InCall(c) /\ Carried(c)
        /\ Mutates(c) /\ looked \subseteq Callers
    BY Typed DEF Operation, Active, InCall, EnvOK
  <1>2. CASE Old(c)
    BY <1>1, <1>2, OldLatest
  <1>3. CASE ~Old(c)
    <2>1. call[c].req = now /\ UNCHANGED <<now, due, stale, looked>>
      BY <1>1, <1>3, Typed DEF Old, Mutates, EnvOK
    <2>2. ASSUME NEW d \in Callers
          PROVE  \E w : /\ w = After(c, call[d]) /\ w \in Calls /\ w.step = call[d].step
                        /\ Effective(call[d]) => Effective(w)'
      BY <1>1, <2>1, CarriedLatest, CarriedKeeps
    <2>3. \A d \in Callers \ {c} :
            call'[d].step = call[d].step /\ (Effective(call[d]) => Effective(call[d])')
      <3>1. ASSUME NEW d \in Callers \ {c}
            PROVE  call'[d].step = call[d].step /\ (Effective(call[d]) => Effective(call[d])')
        <4>1. PICK w : /\ w = After(c, call[d]) /\ w \in Calls /\ w.step = call[d].step
                       /\ Effective(call[d]) => Effective(w)'
          BY <2>2
        <4>2. call'[d] = w
          BY <4>1 DEF Operation
        <4> QED
          BY <4>1, <4>2 DEF Effective
      <3> QED
        BY <3>1
    <2>4. call'[c].step = "error" \/ (InCall(c)' /\ (Effective(call[c]) => Effective(call[c])'))
      <3>1. CASE lost = TRUE
        <4>1. call'[c] = End(call[c], "error")
          BY <3>1 DEF Operation
        <4> QED
          BY <1>1, <4>1, EndType
      <3>2. CASE lost = FALSE
        <4>1. PICK w : /\ w = After(c, call[c]) /\ w \in Calls /\ w.step = call[c].step
                       /\ Effective(call[c]) => Effective(w)'
          BY <2>2
        <4>2. call'[c] = [w EXCEPT !.step = "after"]
          BY <3>2, <4>1 DEF Operation
        <4>3. /\ call'[c].step = "after" /\ call'[c].req = w.req /\ call'[c].op = w.op
              /\ call'[c].listener = w.listener /\ call'[c].pool = w.pool
              /\ call'[c].obsolete = w.obsolete
          BY <4>1, <4>2 DEF Calls
        <4>4. Effective(w)' => Effective(call[c])'
          BY <1>1, <4>1, <4>3 DEF Effective, ToGo, Late, Loop, Poll
        <4> QED
          BY <4>1, <4>3, <4>4 DEF InCall
      <3> QED
        BY <3>1, <3>2
    <2>5. (Right => Right') /\ (Orderly => Orderly')
      BY <1>1, <2>1, CarriedLatest
    <2>6. WillCorrect(c) => WillCorrect(c)'
      BY <1>1, <2>1, <2>4 DEF WillCorrect
    <2>7. c \notin looked'
      BY <1>1, <2>1 DEF LatestInv, LooksStill, Early
    <2>8. ~stale' => ~stale /\ Orderly'
      BY <2>1, <2>5 DEF LatestInv
    <2> QED
      BY <1>1, <2>1, <2>3, <2>5, <2>6, <2>7, <2>8, LatestKept
  <1> QED
    BY <1>2, <1>3

-----------------------------------------------------------------------------
(* The theorem about the state at rest.                                    *)

(* At the start nothing is wrong.                                          *)
LEMMA InitLatest == Init => LatestInv
  <1> SUFFICES ASSUME Init PROVE LatestInv
    OBVIOUS
  <1> DEFINE m == DesiredMembers(now, ThePort)
  <1>1. now \in Specs /\ Asked(now) /\ left = NoPool /\ looked = {}
    BY DEF Init
  <1>2. buildListenerCreateRequest(now) \in Attr /\ [members |-> m, target |-> m] \in Pool
    BY <1>1, SpecsType, CreatedType, DesiredType DEF Pool
  <1>3. /\ listeners[TheKey] = buildListenerCreateRequest(now) /\ HasListener(TheKey)
        /\ pools[TheKey] = [members |-> m, target |-> m] /\ HasPool(TheKey)
    BY <1>2, TheKeyType, CloudConstants DEF Init, HasListener, HasPool
  <1>4. ListenerRight /\ PoolRight /\ Orderly
    BY <1>1, <1>3 DEF ListenerRight, PoolRight, Orderly, buildListenerCreateRequest
  <1> QED
    BY <1>1, <1>4, RightIs DEF LatestInv

(* Every step keeps it.                                                    *)
LEMMA NextLatest ==
    ASSUME IInv, LatestInv, [Next]_vars
    PROVE  LatestInv'
  <1>1. ASSUME NEW c \in Callers, NEW lost \in BOOLEAN, Mutation(c, lost) PROVE LatestInv'
    BY <1>1, PutListenerLatest, CreatePoolLatest, OperationLatest DEF Mutation
  <1>2. ASSUME NEW c \in Callers, PassStep(c) PROVE LatestInv'
    BY <1>1, <1>2, ListListenersLatest, LooksLatest, PanicLatest, ListPoolsLatest
       DEF PassStep, ReloadPanics
  <1>3. ASSUME NEW c \in Callers, RequestFails(c) PROVE LatestInv'
    <2>1. call[c].step = "reload" => Panic
      BY <1>3 DEF RequestFails
    <2> QED
      BY <1>3, <2>1, LooksLatest, PanicLatest
  <1>4. CASE Ordinary
    BY <1>2, <1>4, ControllerLatest, CloudLatest, ChangeLatest DEF Ordinary
  <1>5. CASE Fault
    BY <1>1, <1>3, <1>5 DEF Fault
  <1>6. CASE UNCHANGED vars
    BY <1>6 DEF vars, cloud, cloudVars, history, LatestInv, LooksStill, Orderly, Right, WillCorrect,
                InCall, Effective, ToGo, ListenerRight, PoolRight, UpdatePending, HasPool,
                HasListener, Asked
  <1> QED
    BY <1>4, <1>5, <1>6 DEF Next

(* At rest listener and pool are right and nothing is left over, unless an *)
(* old copy of the Service had the last word: UpdateLoadBalancer beside    *)
(* EnsureLoadBalancer needs no lock for as long as both work on what there *)
(* is by now.                                                              *)
THEOREM RightUnlessStale == Spec => []WrongOnlyIfStale
  <1>1. Init => IInv /\ LatestInv
    BY InitIInv, InitLatest
  <1>2. IInv /\ LatestInv /\ [Next]_vars => IInv' /\ LatestInv'
    BY NextKeeps, NextLatest
  <1>3. LatestInv => WrongOnlyIfStale
    BY DEF LatestInv, WrongOnlyIfStale, WillCorrect, InCall, Quiet
  <1> QED
    BY <1>1, <1>2, <1>3, PTL DEF Spec
=============================================================================
