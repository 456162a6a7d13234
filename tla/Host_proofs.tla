----------------------------- MODULE Host_proofs -----------------------------
(***************************************************************************)
(* What the provider learns from its host is right, for every number of    *)
(* callers, volumes and slots, every search order and every number of      *)
(* attempts and of changes around them.                                    *)
(***************************************************************************)
EXTENDS Host, SequenceTheorems, TLAPS

(***************************************************************************)
(* The inductive invariant: where each kind of call may be, what it knows  *)
(* there, and which sources it has still to ask.                           *)
(***************************************************************************)

(* The sources are asked one after the other, the config drive in several  *)
(* steps.                                                                  *)
DriveSteps == {"read", "unmount", "remove"}

StepsOf(kind) ==
    CASE kind = "none" -> {"idle"}
      [] kind = "identity" -> DriveSteps \cup {"get", "source", "store", "got", "done"}
      [] kind = "instanceID" -> DriveSteps \cup {"get", "source", "store", "got", "done",
                                                 "local", "answer", "file"}
      [] kind = "path" -> {"serial", "get", "source", "got", "find", "done"}
      [] kind = "freshPath" -> {"fetch", "find", "done"}
      [] kind = "mountPath" -> {"serial", "probe", "done"}

AllSteps == DriveSteps \cup {"idle", "get", "source", "store", "got", "done", "local", "answer",
                             "file", "serial", "probe", "fetch", "find"}

Word == Sources \cup {"other"}

CallType ==
    [ step : AllSteps, kind : Kinds \cup {"none"}, vol : Volumes \cup {Free},
      left : Seq(Word), md : Devices \cup {NoMetadata}, slot : Slots \cup {NoSlot},
      id : FileIds \cup {HostId, NoId, BlankId, TornId}, tries : 0 .. Steps - 1, was : SUBSET Slots ]

(* The slots of volume v by the list of devices m.                         *)
SlotsOf(m, v) == {s \in Slots : m[s] = v}

(* What the locals k of a call say of the devices a that are attached and  *)
(* of the cache m.                                                         *)
CallOK(k, a, m) ==
    /\ k \in CallType
    /\ k.step \in StepsOf(k.kind)
    /\ k.vol = Free <=> k.kind \in {"none", "identity", "instanceID"}
    /\ k.kind = "path" /\ k.step = "source" => k.left \in {<<"other">>, << >>}
    /\ k.step = "store" => k.md # NoMetadata
    /\ k.step = "got" \/ (k.kind = "path" /\ k.step = "find") => m # NoMetadata
    /\ k.vol # Free => SlotsOf(a, k.vol) \subseteq k.was
    /\ k.kind = "freshPath" /\ k.step = "find" => SlotsOf(k.md, k.vol) \subseteq k.was
    /\ k.step = "done" /\ k.slot # NoSlot =>
         k.slot \in k.was \/ (k.kind = "path" /\ m # NoMetadata)

(* The sources of search order o that were within reach all along, t, are  *)
(* still to be asked.                                                      *)
SourcesOK(k, t, o) ==
    k.kind \in {"identity", "instanceID"} =>
      /\ k.step \in DriveSteps \cup {"source"} => t \cap ToSet(o) \subseteq ToSet(k.left)
      /\ k.step \in DriveSteps => k.left # << >> /\ Head(k.left) = "configDrive"
      /\ k.step \in {"unmount", "remove"} /\ k.md = NoMetadata => "configDrive" \notin t
      /\ k.step = "file" \/ (k.step = "done" /\ k.id = NoId) => t \cap ToSet(o) = {}

HostTypeOK ==
    /\ host \in Hosts /\ boot \in Devices /\ order \in Seq(Word)
    /\ attached \in Devices /\ visible \subseteq Slots
    /\ tempDir \in BOOLEAN /\ mounted \in BOOLEAN
    /\ cache \in Devices \cup {NoMetadata} /\ localId \in FileIds \cup {HostId, BlankId}
    /\ call \in [Callers -> CallType] /\ steady \in [Callers -> SUBSET Sources]

IInv ==
    /\ HostTypeOK
    /\ \A c \in Callers : CallOK(call[c], attached, cache)
    /\ \A c \in Callers : SourcesOK(call[c], steady[c], order)
    /\ MountKept

-----------------------------------------------------------------------------
(* The elements of a search order.                                         *)
LEMMA ElementOf ==
    ASSUME NEW s \in Seq(Word), NEW i \in 1 .. Len(s)
    PROVE  s[i] \in ToSet(s)
  BY DEF ToSet

(* The rest of a search order has all of it but its head.                  *)
LEMMA TailSet ==
    ASSUME NEW s \in Seq(Word), s # << >>
    PROVE  /\ Tail(s) \in Seq(Word) /\ Head(s) \in Word
           /\ ToSet(s) \subseteq ToSet(Tail(s)) \cup {Head(s)}
  <1>1. Tail(s) \in Seq(Word) /\ Head(s) \in Word
    OBVIOUS
  <1>2. ASSUME NEW i \in 1 .. Len(s) PROVE s[i] \in ToSet(Tail(s)) \cup {Head(s)}
    <2>1. CASE i = 1
      BY <2>1
    <2>2. CASE i # 1
      <3>1. i - 1 \in 1 .. Len(Tail(s)) /\ Tail(s)[i - 1] = s[i]
        BY <1>2, <2>2
      <3> QED
        BY <1>1, <3>1, ElementOf
    <2> QED
      BY <2>1, <2>2
  <1> QED
    BY <1>1, <1>2 DEF ToSet

(* Nothing is left of the empty order.                                     *)
LEMMA EmptySet == ToSet(<< >>) = {}
  BY DEF ToSet

(* The locals of a caller that is not in a call.                           *)
LEMMA IdleOK ==
    /\ Idle \in CallType
    /\ \A a, m : CallOK(Idle, a, m)
    /\ \A t, o : SourcesOK(Idle, t, o)
  <1>1. Idle \in CallType
    BY HostConstants DEF Idle, CallType, AllSteps, Word
  <1> QED
    BY <1>1 DEF Idle, CallOK, StepsOf, SourcesOK

(* What the history of the sources says: it shrinks during a call, to what *)
(* is within reach after the step.                                         *)
LEMMA WatchFacts ==
    ASSUME IInv, Watch, NEW c \in Callers
    PROVE  /\ steady' \in [Callers -> SUBSET Sources]
           /\ call[c].step # "idle" => steady'[c] \subseteq steady[c]
           /\ "metadataService" \in steady'[c] => service'
           /\ "configDrive" \in steady'[c] =>
                 drive' = "ready" /\ tempDir' /\ (mounted' => call'[c].step \in {"read", "unmount"})
  <1>1. ASSUME NEW d \in Callers
        PROVE  /\ steady'[d] \subseteq Usable(d)'
               /\ call[d].step # "idle" => steady'[d] \subseteq steady[d]
    BY DEF Watch
  <1>2. \A d \in Callers : steady'[d] \in SUBSET Sources
    BY <1>1 DEF Usable
  <1>3. steady' \in [Callers -> SUBSET Sources]
    BY <1>2 DEF Watch
  <1> QED
    BY <1>1, <1>3 DEF Usable, Sources

(* What has to be kept outside the calls.                                  *)
Frame ==
    /\ UNCHANGED <<host, boot, order, attached>>
    /\ visible' \subseteq Slots /\ tempDir' \in BOOLEAN /\ mounted' \in BOOLEAN
    /\ cache' \in Devices \cup {NoMetadata} /\ (cache # NoMetadata => cache' # NoMetadata)
    /\ localId' \in FileIds \cup {HostId, BlankId}

(* The invariant after the step, but for MountKept.                        *)
CallsOK ==
    /\ HostTypeOK
    /\ \A c \in Callers : CallOK(call[c], attached, cache)
    /\ \A c \in Callers : SourcesOK(call[c], steady[c], order)

(* A step of one caller: if its own locals are in order then all are.      *)
LEMMA CallerMoves ==
    ASSUME IInv, Watch, Frame, NEW c \in Callers, NEW new, Update(c, new),
           CallOK(new, attached, cache'), SourcesOK(new, steady'[c], order)
    PROVE  CallsOK'
  <1>1. /\ \A d \in Callers : call'[d] = IF d = c THEN new ELSE call[d]
        /\ call' \in [Callers -> CallType]
    BY DEF Update, IInv, HostTypeOK, CallOK
  <1>2. ASSUME NEW d \in Callers PROVE CallOK(call'[d], attached', cache')
    <2>1. CASE d = c
      BY <1>1, <2>1 DEF Frame
    <2>2. CASE d # c
      <3>1. call'[d] = call[d] /\ CallOK(call[d], attached, cache)
        BY <1>1, <2>2 DEF IInv
      <3> QED
        BY <3>1 DEF Frame, CallOK
    <2> QED
      BY <2>1, <2>2
  <1>3. ASSUME NEW d \in Callers PROVE SourcesOK(call'[d], steady'[d], order')
    <2>1. CASE d = c
      BY <1>1, <2>1 DEF Frame
    <2>2. CASE d # c
      <3>1. /\ call'[d] = call[d] /\ SourcesOK(call[d], steady[d], order)
            /\ CallOK(call[d], attached, cache)
        BY <1>1, <2>2 DEF IInv
      <3>2. call[d].kind \in {"identity", "instanceID"} => call[d].step # "idle"
        BY <3>1 DEF CallOK, StepsOf, DriveSteps
      <3>3. call[d].kind \in {"identity", "instanceID"} => steady'[d] \subseteq steady[d]
        BY <3>2, WatchFacts
      <3> QED
        BY <3>1, <3>3 DEF Frame, SourcesOK
    <2> QED
      BY <2>1, <2>2
  <1>4. HostTypeOK'
    BY <1>1, WatchFacts DEF Frame, IInv, HostTypeOK
  <1> QED
    BY <1>2, <1>3, <1>4 DEF CallsOK

(* A step of a caller that only looks.                                     *)
LEMMA LooksFrame == IInv /\ Looks => Frame
  BY DEF Looks, envVars, fileVars, Frame, IInv, HostTypeOK

(* What a call knows while it runs.                                        *)
LEMMA Busy ==
    ASSUME IInv, Watch, NEW c \in Callers, call[c].step # "idle"
    PROVE  /\ call[c] \in CallType /\ CallOK(call[c], attached, cache)
           /\ SourcesOK(call[c], steady[c], order) /\ steady'[c] \subseteq steady[c]
           /\ call[c].kind \in Kinds
  BY WatchFacts DEF IInv, HostTypeOK, CallOK, CallType, StepsOf

(* An answer: a slot that leads to the volume or none, an ID or none.      *)
LEMMA AnswerKeeps ==
    ASSUME IInv, Watch, Frame, NEW c \in Callers, call[c].step # "idle",
           NEW slot \in Slots \cup {NoSlot}, NEW id \in FileIds \cup {HostId, NoId, BlankId, TornId},
           Answer(c, slot, id),
           slot # NoSlot => slot \in call[c].was \/ (call[c].kind = "path" /\ cache # NoMetadata),
           call[c].kind \in {"identity", "instanceID"} /\ id = NoId =>
             steady'[c] \cap ToSet(order) = {}
    PROVE  CallsOK'
  <1> DEFINE k == call[c]
             new == [Idle EXCEPT !.step = "done", !.kind = k.kind, !.vol = k.vol, !.was = k.was,
                                 !.slot = slot, !.id = id]
  <1>1. Update(c, new)
    BY DEF Answer
  <1>2. k \in CallType /\ CallOK(k, attached, cache) /\ k.kind \in Kinds
    BY Busy
  <1>a. Idle \in CallType
    BY IdleOK
  <1>c. k.kind \in Kinds \cup {"none"} /\ k.vol \in Volumes \cup {Free} /\ k.was \in SUBSET Slots
    BY <1>2 DEF CallType
  <1>3. /\ new \in CallType /\ new.step = "done" /\ new.kind = k.kind /\ new.vol = k.vol
        /\ new.was = k.was /\ new.slot = slot /\ new.id = id
    <2> DEFINE e == [Idle EXCEPT !.step = "done", !.kind = k.kind, !.vol = k.vol]
    <2>1. e \in CallType /\ e.step = "done" /\ e.kind = k.kind /\ e.vol = k.vol
      BY <1>a, <1>c DEF CallType, AllSteps
    <2>2. new = [e EXCEPT !.was = k.was, !.slot = slot, !.id = id]
      OBVIOUS
    <2> HIDE DEF e
    <2>3. [e EXCEPT !.was = k.was, !.slot = slot, !.id = id] \in CallType
      BY <2>1, <1>c DEF CallType
    <2> HIDE DEF new
    <2> QED
      BY <2>1, <2>2, <2>3, <1>c DEF CallType
  <1> HIDE DEF new
  <1>4. CallOK(new, attached, cache')
    BY <1>2, <1>3 DEF CallOK, StepsOf, Kinds, Frame
  <1>5. SourcesOK(new, steady'[c], order)
    BY <1>3 DEF SourcesOK, DriveSteps
  <1> QED
    BY <1>1, <1>4, <1>5, CallerMoves

(* A new attempt of a device search, or its end with an error.             *)
LEMMA NextTryKeeps ==
    ASSUME IInv, Watch, Frame, NEW c \in Callers, call[c].kind \in {"path", "mountPath"},
           NextTry(c)
    PROVE  CallsOK'
  <1> DEFINE k == call[c]
             new == [k EXCEPT !.step = "serial", !.tries = k.tries + 1, !.md = NoMetadata]
  <1>0. CallOK(k, attached, cache)
    BY DEF IInv
  <1>1. k.step # "idle"
    BY <1>0 DEF CallOK, StepsOf
  <1>2. k \in CallType
    BY <1>1, Busy
  <1>3. CASE k.tries + 1 < Steps
    <2>1. Update(c, new)
      BY <1>3 DEF NextTry
    <2>2. k.tries + 1 \in 0 .. Steps - 1
      BY <1>2, <1>3, HostConstants DEF CallType
    <2>3. /\ new \in CallType /\ new.step = "serial" /\ new.kind = k.kind /\ new.vol = k.vol
          /\ new.was = k.was
      BY <1>2, <2>2 DEF CallType, AllSteps
    <2> HIDE DEF new
    <2>4. CallOK(new, attached, cache')
      BY <1>0, <2>3 DEF CallOK, StepsOf
    <2>5. SourcesOK(new, steady'[c], order)
      BY <2>3 DEF SourcesOK
    <2> QED
      BY <2>1, <2>4, <2>5, CallerMoves
  <1>4. CASE ~(k.tries + 1 < Steps)
    <2>1. Answer(c, NoSlot, NoId)
      BY <1>4 DEF NextTry, Error
    <2> QED
      BY <1>1, <2>1, AnswerKeeps
  <1> QED
    BY <1>3, <1>4

(* The locals k of a call as they become by an assignment.                 *)
Becomes(new, k, step, left, md) ==
    /\ new \in CallType /\ new.step = step /\ new.left = left /\ new.md = md
    /\ new.kind = k.kind /\ new.vol = k.vol /\ new.was = k.was

(* The assignments a call makes to its locals.                             *)
LEMMA SetStep ==
    ASSUME NEW k \in CallType, NEW step \in AllSteps
    PROVE  Becomes([k EXCEPT !.step = step], k, step, k.left, k.md)
  BY DEF Becomes, CallType

(* The next source is taken from the search order.                         *)
LEMMA SetLeft ==
    ASSUME NEW k \in CallType, NEW left \in Seq(Word)
    PROVE  Becomes([k EXCEPT !.left = left], k, k.step, left, k.md)
  BY DEF Becomes, CallType

(* A call goes on with another list of sources.                            *)
LEMMA SetStepLeft ==
    ASSUME NEW k \in CallType, NEW step \in AllSteps, NEW left \in Seq(Word)
    PROVE  Becomes([k EXCEPT !.step = step, !.left = left], k, step, left, k.md)
  BY DEF Becomes, CallType

(* A call goes on with another list of devices.                            *)
LEMMA SetStepMd ==
    ASSUME NEW k \in CallType, NEW step \in AllSteps,
           NEW md \in Devices \cup {NoMetadata}
    PROVE  Becomes([k EXCEPT !.step = step, !.md = md], k, step, k.left, md)
  BY DEF Becomes, CallType

(* A call goes on with both.                                               *)
LEMMA SetAll ==
    ASSUME NEW k \in CallType, NEW step \in AllSteps, NEW left \in Seq(Word),
           NEW md \in Devices \cup {NoMetadata}
    PROVE  Becomes([k EXCEPT !.step = step, !.md = md, !.left = left], k, step, left, md)
  BY DEF Becomes, CallType

(* The next source is asked: the one before it was out of reach.           *)
LEMMA NextSourceKeeps ==
    ASSUME IInv, Watch, Frame, NEW c \in Callers, NEW new, Update(c, new),
           call[c].step \in {"source", "remove"}, call[c].left # << >>,
           Becomes(new, call[c], "source", Tail(call[c].left), new.md),
           Head(call[c].left) \notin steady'[c]
    PROVE  CallsOK'
  <1> DEFINE k == call[c]
  <1>1. /\ k \in CallType /\ CallOK(k, attached, cache) /\ k.kind \in Kinds
        /\ SourcesOK(k, steady[c], order) /\ steady'[c] \subseteq steady[c]
    BY Busy
  <1>2. k.left \in Seq(Word)
    BY <1>1 DEF CallType
  <1>3. ToSet(k.left) \subseteq ToSet(Tail(k.left)) \cup {Head(k.left)}
    BY <1>2, TailSet
  <1>4. k.kind \in {"identity", "instanceID"} => steady'[c] \cap ToSet(order) \subseteq ToSet(Tail(k.left))
    BY <1>1, <1>3 DEF SourcesOK, DriveSteps
  <1>5. k.kind = "path" => Tail(k.left) \in {<<"other">>, << >>}
    <2>1. k.kind = "path" => k.step = "source"
      BY <1>1 DEF CallOK, StepsOf
    <2>2. k.kind = "path" => k.left = <<"other">>
      BY <1>1, <2>1 DEF CallOK
    <2>3. Tail(<<"other">>) = << >>
      OBVIOUS
    <2> QED
      BY <2>2, <2>3
  <1>6. CallOK(new, attached, cache')
    BY <1>1, <1>5 DEF CallOK, StepsOf, Kinds, Becomes
  <1>7. SourcesOK(new, steady'[c], order)
    BY <1>4 DEF SourcesOK, DriveSteps, Becomes
  <1> QED
    BY <1>6, <1>7, CallerMoves

-----------------------------------------------------------------------------
(* One lemma for each step of a caller.                                    *)

(* Call: the locals of a call that starts are in order.                    *)
LEMMA CallKeeps ==
    ASSUME IInv, Watch, NEW r \in Requests, Call(r[1], r[2], r[3])
    PROVE  CallsOK'
  <1> DEFINE c == r[1]  kind == r[2]  v == r[3]
             was == IF v = Free THEN {} ELSE {s \in Slots : attached[s] = v}
             new == [Idle EXCEPT !.step = FirstStep(kind), !.kind = kind, !.vol = v, !.was = was]
  <1>1. /\ c \in Callers /\ kind \in Kinds /\ v \in Volumes \cup {Free}
        /\ v = Free <=> kind \in {"identity", "instanceID"}
    BY HostConstants
  <1>2. Update(c, new) /\ Frame
    BY LooksFrame DEF Call
  <1>3. FirstStep(kind) \in AllSteps /\ was \in SUBSET Slots
    BY <1>1 DEF FirstStep, AllSteps, Kinds
  <1>4. Idle \in CallType
    BY IdleOK
  <1> HIDE DEF c, kind, v, was
  <1>5. /\ new \in CallType /\ new.step = FirstStep(kind) /\ new.kind = kind /\ new.vol = v
        /\ new.was = was
    BY <1>1, <1>3, <1>4 DEF CallType
  <1> HIDE DEF new
  <1>6. v # Free => SlotsOf(attached, v) \subseteq was
    BY DEF SlotsOf, was
  <1>7. /\ FirstStep(kind) \in StepsOf(kind)
        /\ FirstStep(kind) \in {"get", "local", "fetch", "serial"}
    BY <1>1 DEF FirstStep, StepsOf, Kinds
  <1>8. CallOK(new, attached, cache')
    BY <1>1, <1>5, <1>6, <1>7 DEF CallOK, Kinds
  <1>9. SourcesOK(new, steady'[c], order)
    BY <1>5, <1>7 DEF SourcesOK, DriveSteps
  <1> QED
    BY <1>1, <1>2, <1>8, <1>9, CallerMoves

(* Return: a caller that got its answer is idle again.                     *)
LEMMA ReturnKeeps ==
    ASSUME IInv, Watch, NEW c \in Callers, Return(c)
    PROVE  CallsOK'
  BY IdleOK, LooksFrame, CallerMoves DEF Return

(* Get: with a filled cache there is nothing to ask, with an empty one all *)
(* of the search order is.                                                 *)
LEMMA GetKeeps ==
    ASSUME IInv, Watch, NEW c \in Callers, Get(c)
    PROVE  CallsOK'
  <1> DEFINE k == call[c]
  <1>1. /\ k \in CallType /\ CallOK(k, attached, cache) /\ k.step = "get"
    BY Busy DEF Get, At
  <1>2. Frame /\ cache' = cache
    BY LooksFrame DEF Get, Looks
  <1>3. k.kind \in {"identity", "instanceID", "path"}
    BY <1>1 DEF CallOK, StepsOf, CallType, Kinds
  <1>4. CASE cache # NoMetadata
    <2> DEFINE new == [k EXCEPT !.step = "got"]
    <2>1. Update(c, new)
      BY <1>4 DEF Get
    <2>2. Becomes(new, k, "got", k.left, k.md)
      <3>1. "got" \in AllSteps
        BY DEF AllSteps
      <3> QED
        BY <1>1, <3>1, SetStep
    <2> HIDE DEF new
    <2>3. CallOK(new, attached, cache')
      BY <1>1, <1>2, <1>3, <1>4, <2>2 DEF CallOK, StepsOf, Becomes
    <2>4. SourcesOK(new, steady'[c], order)
      BY <2>2 DEF SourcesOK, DriveSteps, Becomes
    <2> QED
      BY <1>2, <2>1, <2>3, <2>4, CallerMoves
  <1>5. CASE cache = NoMetadata
    <2> DEFINE new == [k EXCEPT !.step = "source", !.left = SearchOrder(c)]
    <2>1. Update(c, new)
      BY <1>5 DEF Get
    <2>2. Becomes(new, k, "source", SearchOrder(c), k.md)
      <3>1. "source" \in AllSteps
        BY DEF AllSteps
      <3>2. SearchOrder(c) \in Seq(Word)
        <4>1. order \in Seq(Word) /\ "other" \in Word
          BY DEF IInv, HostTypeOK, Word
        <4> QED
          BY <4>1 DEF SearchOrder
      <3> QED
        BY <1>1, <3>1, <3>2, SetStepLeft
    <2> HIDE DEF new
    <2>3. CallOK(new, attached, cache')
      BY <1>1, <1>2, <1>3, <2>2 DEF CallOK, StepsOf, Becomes, SearchOrder
    <2>4. SourcesOK(new, steady'[c], order)
      BY <1>3, <2>2 DEF SourcesOK, DriveSteps, Becomes, SearchOrder
    <2> QED
      BY <1>2, <2>1, <2>3, <2>4, CallerMoves
  <1> QED
    BY <1>4, <1>5

(* The step of a call that asks for the next source.                       *)
LEMMA Skips ==
    ASSUME IInv, NEW c \in Callers, call[c].step = "source", call[c].left # << >>, NextSource(c)
    PROVE  /\ Update(c, [call[c] EXCEPT !.left = Tail(call[c].left)])
           /\ Becomes([call[c] EXCEPT !.left = Tail(call[c].left)], call[c], "source",
                      Tail(call[c].left), call[c].md)
           /\ call'[c].step = "source"
  <1> DEFINE k == call[c]  new == [k EXCEPT !.left = Tail(k.left)]
  <1>1. k \in CallType
    BY DEF IInv, HostTypeOK
  <1>2. k.left \in Seq(Word)
    BY <1>1 DEF CallType
  <1>3. Tail(k.left) \in Seq(Word)
    BY <1>2, TailSet
  <1>4. Becomes(new, k, "source", Tail(k.left), k.md)
    BY <1>1, <1>3, SetLeft
  <1>5. Update(c, new)
    BY DEF NextSource
  <1> HIDE DEF new
  <1>6. call'[c] = new
    BY <1>5 DEF Update, IInv, HostTypeOK
  <1> QED
    BY <1>4, <1>5, <1>6 DEF Becomes, new

(* NextSource, when the source asked was out of reach.                     *)
LEMMA NextSourceMoves ==
    ASSUME IInv, Watch, Frame, NEW c \in Callers, call[c].step = "source", call[c].left # << >>,
           NextSource(c), Head(call[c].left) \notin steady'[c]
    PROVE  CallsOK'
  <1> DEFINE new == [call[c] EXCEPT !.left = Tail(call[c].left)]
  <1>1. Update(c, new) /\ Becomes(new, call[c], "source", Tail(call[c].left), call[c].md)
    BY Skips
  <1> HIDE DEF new
  <1>2. Becomes(new, call[c], "source", Tail(call[c].left), new.md)
    BY <1>1 DEF Becomes
  <1> QED
    BY <1>1, <1>2, NextSourceKeeps

(* The sources that fail at once: a word that names no source is never     *)
(* within reach, nor is a service that is down or a drive that is missing. *)
LEMMA SkipKeeps ==
    ASSUME IInv, Watch, NEW c \in Callers,
           InvalidSource(c) \/ ServiceFails(c) \/ DriveMissing(c)
    PROVE  CallsOK'
  <1>1. Frame /\ service' = service /\ drive' = drive
    BY LooksFrame DEF InvalidSource, ServiceFails, DriveMissing, Looks, envVars
  <1>2. call[c].step = "source" /\ call[c].left # << >> /\ NextSource(c)
    BY DEF InvalidSource, ServiceFails, DriveMissing, Asks, At
  <1>3. Head(call[c].left) \notin steady'[c]
    <2>1. steady'[c] \subseteq Sources
      BY WatchFacts
    <2> QED
      BY <1>1, <2>1, WatchFacts DEF InvalidSource, ServiceFails, DriveMissing, Asks, Sources
  <1> QED
    BY <1>1, <1>2, <1>3, NextSourceMoves

(* DriveMountFails: the drive is out of reach, as it cannot be mounted or  *)
(* somebody else has it mounted, and the mount point may be removed.       *)
LEMMA DriveMountFailsKeeps ==
    ASSUME IInv, Watch, NEW c \in Callers, DriveMountFails(c)
    PROVE  CallsOK'
  <1>1. Frame
    BY DEF DriveMountFails, RemoveDir, envVars, Frame, IInv, HostTypeOK
  <1>2. /\ call[c].step = "source" /\ call[c].left # << >> /\ NextSource(c)
        /\ Head(call[c].left) = "configDrive"
    BY DEF DriveMountFails, Asks, At
  <1>3. call'[c].step = "source"
    BY <1>2, Skips
  <1>4. drive' = drive /\ mounted' = mounted /\ (tempDir' => tempDir)
    BY DEF DriveMountFails, RemoveDir, envVars
  <1>5. "configDrive" \notin steady'[c]
    BY <1>3, <1>4, WatchFacts DEF DriveMountFails, CanMount
  <1> QED
    BY <1>1, <1>2, <1>5, NextSourceMoves

(* ServiceAnswers: what the call will store is a list of devices.          *)
LEMMA ServiceAnswersKeeps ==
    ASSUME IInv, Watch, NEW c \in Callers, ServiceAnswers(c)
    PROVE  CallsOK'
  <1> DEFINE k == call[c]  new == [k EXCEPT !.step = "store", !.md = attached]
  <1>1. /\ k \in CallType /\ CallOK(k, attached, cache) /\ k.step = "source"
        /\ k.left # << >> /\ Head(k.left) = "metadataService"
    BY Busy DEF ServiceAnswers, Asks, At
  <1>2. Frame /\ Update(c, new)
    BY LooksFrame DEF ServiceAnswers
  <1>3. Becomes(new, k, "store", k.left, attached)
    <2>1. "store" \in AllSteps /\ attached \in Devices
      BY DEF AllSteps, IInv, HostTypeOK
    <2> QED
      BY <1>1, <2>1, SetStepMd
  <1> HIDE DEF new
  <1>4. attached # NoMetadata
    BY HostConstants DEF IInv, HostTypeOK
  <1>5. k.kind \in {"identity", "instanceID"}
    <2>1. k.kind \in {"identity", "instanceID", "path"}
      BY <1>1 DEF CallOK, StepsOf, CallType, Kinds
    <2>2. Head(<<"other">>) # "metadataService"
      OBVIOUS
    <2> QED
      BY <1>1, <2>1, <2>2 DEF CallOK
  <1>6. CallOK(new, attached, cache')
    BY <1>1, <1>3, <1>4, <1>5 DEF CallOK, StepsOf, Becomes
  <1>7. SourcesOK(new, steady'[c], order)
    BY <1>3 DEF SourcesOK, DriveSteps, Becomes
  <1> QED
    BY <1>2, <1>6, <1>7, CallerMoves

(* DriveMount: the drive is still the source asked.                        *)
LEMMA DriveMountKeeps ==
    ASSUME IInv, Watch, NEW c \in Callers, DriveMount(c)
    PROVE  CallsOK'
  <1> DEFINE k == call[c]  new == [k EXCEPT !.step = "read"]
  <1>1. /\ k \in CallType /\ CallOK(k, attached, cache) /\ k.step = "source"
        /\ k.left # << >> /\ Head(k.left) = "configDrive"
        /\ SourcesOK(k, steady[c], order) /\ steady'[c] \subseteq steady[c]
    BY Busy DEF DriveMount, Asks, At
  <1>2. Frame /\ Update(c, new)
    BY DEF DriveMount, Goto, envVars, Frame, IInv, HostTypeOK
  <1>3. Becomes(new, k, "read", k.left, k.md)
    <2>1. "read" \in AllSteps
      BY DEF AllSteps, DriveSteps
    <2> QED
      BY <1>1, <2>1, SetStep
  <1> HIDE DEF new
  <1>4. k.kind \in {"identity", "instanceID"}
    <2>1. k.kind \in {"identity", "instanceID", "path"}
      BY <1>1 DEF CallOK, StepsOf, CallType, Kinds
    <2>2. Head(<<"other">>) # "configDrive"
      OBVIOUS
    <2> QED
      BY <1>1, <2>1, <2>2 DEF CallOK
  <1>5. CallOK(new, attached, cache')
    BY <1>1, <1>3, <1>4 DEF CallOK, StepsOf, DriveSteps, Becomes
  <1>6. SourcesOK(new, steady'[c], order)
    BY <1>1, <1>3 DEF SourcesOK, DriveSteps, Becomes
  <1> QED
    BY <1>2, <1>5, <1>6, CallerMoves

(* DriveRead: without metadata, the drive was out of reach.                *)
LEMMA DriveReadKeeps ==
    ASSUME IInv, Watch, NEW c \in Callers, DriveRead(c)
    PROVE  CallsOK'
  <1> DEFINE k == call[c]  md == IF drive = "ready" THEN boot ELSE NoMetadata
             new == [k EXCEPT !.step = "unmount", !.md = md]
  <1>1. /\ k \in CallType /\ CallOK(k, attached, cache) /\ k.step = "read"
        /\ SourcesOK(k, steady[c], order) /\ steady'[c] \subseteq steady[c]
    BY Busy DEF DriveRead, At
  <1>2. Frame /\ Update(c, new)
    BY LooksFrame DEF DriveRead
  <1>3. md \in Devices \cup {NoMetadata}
    BY DEF IInv, HostTypeOK
  <1>4. md = NoMetadata => "configDrive" \notin steady'[c]
    <2>1. boot \in Devices
      BY DEF IInv, HostTypeOK
    <2>2. md = NoMetadata => drive # "ready"
      BY <2>1, HostConstants
    <2>3. drive' = drive
      BY DEF DriveRead, Looks, envVars
    <2> QED
      BY <2>2, <2>3, WatchFacts
  <1> HIDE DEF md
  <1>5. Becomes(new, k, "unmount", k.left, md)
    <2>1. "unmount" \in AllSteps
      BY DEF AllSteps, DriveSteps
    <2> QED
      BY <1>1, <1>3, <2>1, SetStepMd
  <1> HIDE DEF new
  <1>6. k.kind \in {"identity", "instanceID"}
    BY <1>1 DEF CallOK, StepsOf, DriveSteps, CallType, Kinds
  <1>7. CallOK(new, attached, cache')
    BY <1>1, <1>5, <1>6 DEF CallOK, StepsOf, DriveSteps, Becomes
  <1>8. SourcesOK(new, steady'[c], order)
    BY <1>1, <1>4, <1>5 DEF SourcesOK, DriveSteps, Becomes
  <1> QED
    BY <1>2, <1>7, <1>8, CallerMoves

(* DriveUnmount and DriveUnmountFails leave what was read alone.           *)
LEMMA DriveUnmountKeeps ==
    ASSUME IInv, Watch, NEW c \in Callers, DriveUnmount(c) \/ DriveUnmountFails(c)
    PROVE  CallsOK'
  <1> DEFINE k == call[c]  new == [k EXCEPT !.step = "remove"]
  <1>1. /\ k \in CallType /\ CallOK(k, attached, cache) /\ k.step = "unmount"
        /\ SourcesOK(k, steady[c], order) /\ steady'[c] \subseteq steady[c]
    BY Busy DEF DriveUnmount, DriveUnmountFails, At
  <1>2. Update(c, new)
    BY DEF DriveUnmount, DriveUnmountFails, Goto
  <1>3. Frame
    BY DEF DriveUnmount, DriveUnmountFails, envVars, fileVars, Frame, IInv, HostTypeOK
  <1>4. Becomes(new, k, "remove", k.left, k.md)
    <2>1. "remove" \in AllSteps
      BY DEF AllSteps, DriveSteps
    <2> QED
      BY <1>1, <2>1, SetStep
  <1> HIDE DEF new
  <1>5. k.kind \in {"identity", "instanceID"}
    BY <1>1 DEF CallOK, StepsOf, DriveSteps, CallType, Kinds
  <1>6. CallOK(new, attached, cache')
    BY <1>1, <1>4, <1>5 DEF CallOK, StepsOf, DriveSteps, Becomes
  <1>7. SourcesOK(new, steady'[c], order)
    BY <1>1, <1>4 DEF SourcesOK, DriveSteps, Becomes
  <1> QED
    BY <1>2, <1>3, <1>6, <1>7, CallerMoves

(* DriveRemove: what was read is stored, or the next source is asked.      *)
LEMMA DriveRemoveKeeps ==
    ASSUME IInv, Watch, NEW c \in Callers, DriveRemove(c)
    PROVE  CallsOK'
  <1> DEFINE k == call[c]
  <1>1. /\ k \in CallType /\ CallOK(k, attached, cache) /\ k.step = "remove"
        /\ SourcesOK(k, steady[c], order) /\ steady'[c] \subseteq steady[c]
    BY Busy DEF DriveRemove, At
  <1>2. Frame
    BY DEF DriveRemove, RemoveDir, envVars, Frame, IInv, HostTypeOK
  <1>3. k.kind \in {"identity", "instanceID"}
    BY <1>1 DEF CallOK, StepsOf, DriveSteps, CallType, Kinds
  <1>4. CASE k.md # NoMetadata
    <2> DEFINE new == [k EXCEPT !.step = "store"]
    <2>1. Update(c, new)
      BY <1>4 DEF DriveRemove, Goto
    <2>2. Becomes(new, k, "store", k.left, k.md)
      <3>1. "store" \in AllSteps
        BY DEF AllSteps
      <3> QED
        BY <1>1, <3>1, SetStep
    <2> HIDE DEF new
    <2>3. CallOK(new, attached, cache')
      BY <1>1, <1>3, <1>4, <2>2 DEF CallOK, StepsOf, Becomes
    <2>4. SourcesOK(new, steady'[c], order)
      BY <2>2 DEF SourcesOK, DriveSteps, Becomes
    <2> QED
      BY <1>2, <2>1, <2>3, <2>4, CallerMoves
  <1>5. CASE k.md = NoMetadata
    <2> DEFINE new == [k EXCEPT !.step = "source", !.left = Tail(k.left)]
    <2>1. Update(c, new)
      BY <1>5 DEF DriveRemove
    <2>2. k.left \in Seq(Word) /\ k.left # << >> /\ Head(k.left) = "configDrive"
      BY <1>1, <1>3 DEF CallType, SourcesOK, DriveSteps
    <2>3. "configDrive" \notin steady'[c]
      BY <1>1, <1>3, <1>5 DEF SourcesOK
    <2>4. Becomes(new, k, "source", Tail(k.left), k.md)
      <3>1. "source" \in AllSteps /\ Tail(k.left) \in Seq(Word)
        BY <2>2, TailSet DEF AllSteps
      <3> QED
        BY <1>1, <3>1, SetStepLeft
    <2> HIDE DEF new
    <2>5. Becomes(new, k, "source", Tail(k.left), new.md)
      BY <2>4 DEF Becomes
    <2> QED
      BY <1>1, <1>2, <2>1, <2>2, <2>3, <2>5, NextSourceKeeps
  <1> QED
    BY <1>4, <1>5

(* Store: the cache is filled.                                             *)
LEMMA StoreKeeps ==
    ASSUME IInv, Watch, NEW c \in Callers, Store(c)
    PROVE  CallsOK'
  <1> DEFINE k == call[c]  new == [k EXCEPT !.step = "got", !.md = NoMetadata, !.left = << >>]
  <1>1. k \in CallType /\ CallOK(k, attached, cache) /\ k.step = "store"
    BY Busy DEF Store, At
  <1>2. k.md \in Devices /\ cache' = k.md
    BY <1>1 DEF CallType, CallOK, Store
  <1>3. cache' # NoMetadata
    BY <1>2, HostConstants
  <1>4. Frame /\ Update(c, new)
    BY <1>2, <1>3 DEF Store, envVars, fileVars, Frame, IInv, HostTypeOK
  <1>5. Becomes(new, k, "got", << >>, NoMetadata)
    <2>1. "got" \in AllSteps /\ << >> \in Seq(Word)
      BY DEF AllSteps
    <2> QED
      BY <1>1, <2>1, SetAll
  <1> HIDE DEF new
  <1>6. k.kind \in {"identity", "instanceID"}
    BY <1>1 DEF CallOK, StepsOf, CallType, Kinds
  <1>7. CallOK(new, attached, cache')
    BY <1>1, <1>3, <1>5, <1>6 DEF CallOK, StepsOf, Becomes
  <1>8. SourcesOK(new, steady'[c], order)
    BY <1>5 DEF SourcesOK, DriveSteps, Becomes
  <1> QED
    BY <1>4, <1>7, <1>8, CallerMoves

(* GetFails: no source of the order is left to ask.                        *)
LEMMA GetFailsKeeps ==
    ASSUME IInv, Watch, NEW c \in Callers, GetFails(c)
    PROVE  CallsOK'
  <1> DEFINE k == call[c]
  <1>1. /\ k \in CallType /\ CallOK(k, attached, cache) /\ k.step = "source" /\ k.left = << >>
        /\ SourcesOK(k, steady[c], order) /\ steady'[c] \subseteq steady[c]
    BY Busy DEF GetFails, At
  <1>2. Frame
    BY LooksFrame DEF GetFails
  <1>3. k.kind \in {"identity", "instanceID", "path"}
    BY <1>1 DEF CallOK, StepsOf, CallType, Kinds
  <1>4. k.kind \in {"identity", "instanceID"} => steady'[c] \cap ToSet(order) = {}
    BY <1>1, EmptySet DEF SourcesOK
  <1>5. CASE k.kind = "identity"
    <2>1. Answer(c, NoSlot, NoId)
      BY <1>5 DEF GetFails, Error
    <2> QED
      BY <1>1, <1>2, <1>4, <2>1, AnswerKeeps
  <1>6. CASE k.kind = "instanceID"
    <2> DEFINE new == [k EXCEPT !.step = "file"]
    <2>1. Update(c, new)
      BY <1>6 DEF GetFails, Goto
    <2>2. Becomes(new, k, "file", k.left, k.md)
      <3>1. "file" \in AllSteps
        BY DEF AllSteps
      <3> QED
        BY <1>1, <3>1, SetStep
    <2> HIDE DEF new
    <2>3. CallOK(new, attached, cache')
      BY <1>1, <1>6, <2>2 DEF CallOK, StepsOf, Becomes
    <2>4. SourcesOK(new, steady'[c], order)
      BY <1>4, <2>2 DEF SourcesOK, DriveSteps, Becomes
    <2> QED
      BY <1>2, <2>1, <2>3, <2>4, CallerMoves
  <1>7. CASE k.kind = "path"
    <2>1. NextTry(c)
      BY <1>7 DEF GetFails
    <2> QED
      BY <1>2, <1>7, <2>1, NextTryKeeps
  <1> QED
    BY <1>3, <1>5, <1>6, <1>7

(* A call that goes on to another step, without asking for a source.       *)
LEMMA GotoKeeps ==
    ASSUME IInv, Watch, Frame, NEW c \in Callers, call[c].step # "idle",
           NEW step \in {"get", "probe", "answer"}, Goto(c, step), step \in StepsOf(call[c].kind)
    PROVE  CallsOK'
  <1> DEFINE k == call[c]  new == [k EXCEPT !.step = step]
  <1>1. k \in CallType /\ CallOK(k, attached, cache)
    BY Busy
  <1>2. Update(c, new)
    BY DEF Goto
  <1>3. Becomes(new, k, step, k.left, k.md)
    <2>1. step \in AllSteps
      BY DEF AllSteps
    <2> QED
      BY <1>1, <2>1, SetStep
  <1> HIDE DEF new
  <1>4. CallOK(new, attached, cache')
    BY <1>1, <1>3 DEF CallOK, Becomes
  <1>5. SourcesOK(new, steady'[c], order)
    BY <1>3 DEF SourcesOK, DriveSteps, Becomes
  <1> QED
    BY <1>2, <1>4, <1>5, CallerMoves

(* A search goes on with the list of devices it has read.                  *)
LEMMA FindKeeps ==
    ASSUME IInv, Watch, Frame, NEW c \in Callers, call[c].step # "idle",
           NEW md \in Devices, Update(c, [call[c] EXCEPT !.step = "find", !.md = md]),
           call[c].kind \in {"path", "freshPath"},
           call[c].kind = "path" => cache' # NoMetadata,
           call[c].kind = "freshPath" => md = attached
    PROVE  CallsOK'
  <1> DEFINE k == call[c]  new == [k EXCEPT !.step = "find", !.md = md]
  <1>1. k \in CallType /\ CallOK(k, attached, cache)
    BY Busy
  <1>2. Becomes(new, k, "find", k.left, md)
    <2>1. "find" \in AllSteps
      BY DEF AllSteps
    <2> QED
      BY <1>1, <2>1, SetStepMd
  <1>3. Update(c, new)
    OBVIOUS
  <1> HIDE DEF new
  <1>4. CallOK(new, attached, cache')
    BY <1>1, <1>2 DEF CallOK, StepsOf, Becomes
  <1>5. SourcesOK(new, steady'[c], order)
    BY <1>2 DEF SourcesOK, Becomes
  <1> QED
    BY <1>3, <1>4, <1>5, CallerMoves

(* Got: there is metadata, as the cache is never emptied.                  *)
LEMMA GotKeeps ==
    ASSUME IInv, Watch, NEW c \in Callers, Got(c)
    PROVE  CallsOK'
  <1> DEFINE k == call[c]
  <1>1. k \in CallType /\ CallOK(k, attached, cache) /\ k.step = "got" /\ k.step # "idle"
    BY Busy DEF Got, At
  <1>2. k.kind \in {"identity", "instanceID", "path"} /\ cache # NoMetadata /\ cache' = cache
    BY <1>1 DEF CallOK, StepsOf, CallType, Kinds, Got
  <1>3. localId' \in {localId, HostId}
    BY <1>2 DEF Got
  <1>4. Frame
    BY <1>2, <1>3, HostConstants DEF Got, envVars, fileVars, Frame, IInv, HostTypeOK
  <1>5. CASE k.kind = "identity"
    <2>1. Answer(c, NoSlot, HostId)
      BY <1>5 DEF Got
    <2>2. HostId # NoId
      BY HostConstants
    <2> QED
      BY <1>1, <1>4, <2>1, <2>2, AnswerKeeps
  <1>6. CASE k.kind = "instanceID"
    <2>1. Goto(c, "answer") /\ localId' = HostId
      BY <1>6 DEF Got
    <2>2. "answer" \in StepsOf(k.kind)
      BY <1>6 DEF StepsOf
    <2> QED
      BY <1>1, <1>4, <2>1, <2>2, GotoKeeps
  <1>7. CASE k.kind = "path"
    <2>1. Update(c, [k EXCEPT !.step = "find", !.md = cache])
      BY <1>7 DEF Got
    <2>2. cache \in Devices
      BY <1>2 DEF IInv, HostTypeOK
    <2> QED
      BY <1>1, <1>2, <1>4, <1>7, <2>1, <2>2, FindKeeps
  <1> QED
    BY <1>2, <1>5, <1>6, <1>7

(* LocalId and AnswerId: the answer is no error, even if it is no ID.      *)
LEMMA LocalIdKeeps ==
    ASSUME IInv, Watch, NEW c \in Callers, LocalId(c) \/ AnswerId(c)
    PROVE  CallsOK'
  <1> DEFINE k == call[c]
  <1>1. /\ k \in CallType /\ CallOK(k, attached, cache) /\ k.step \in {"local", "answer"}
        /\ k.step # "idle"
    BY Busy DEF LocalId, AnswerId, At
  <1>2. Frame /\ localId' = localId /\ localId \in FileIds \cup {HostId, BlankId}
    BY LooksFrame DEF LocalId, AnswerId, Looks, IInv, HostTypeOK
  <1>3. k.kind = "instanceID"
    BY <1>1 DEF CallOK, StepsOf, DriveSteps, CallType, Kinds
  <1>4. CASE LocalId(c)
    <2> DEFINE step == IF localId # BlankId THEN "answer" ELSE "get"
    <2>1. Goto(c, step)
      BY <1>4 DEF LocalId
    <2>2. step \in {"get", "probe", "answer"} /\ step \in StepsOf(k.kind)
      BY <1>2, <1>3 DEF StepsOf
    <2> HIDE DEF step
    <2> QED
      BY <1>1, <1>2, <2>1, <2>2, GotoKeeps
  <1>5. CASE AnswerId(c)
    <2>1. PICK id \in {localId, TornId} : Answer(c, NoSlot, id)
      BY <1>5 DEF AnswerId
    <2>2. id # NoId
      BY <1>2, HostConstants
    <2> QED
      BY <1>1, <1>2, <2>1, <2>2, AnswerKeeps
  <1> QED
    BY <1>4, <1>5

(* ReadFile: the file is read when no source was within reach.             *)
LEMMA ReadFileKeeps ==
    ASSUME IInv, Watch, NEW c \in Callers, ReadFile(c)
    PROVE  CallsOK'
  <1> DEFINE k == call[c]
  <1>1. /\ k \in CallType /\ CallOK(k, attached, cache) /\ k.step = "file" /\ k.step # "idle"
        /\ SourcesOK(k, steady[c], order) /\ steady'[c] \subseteq steady[c]
    BY Busy DEF ReadFile, At
  <1>2. k.kind = "instanceID"
    BY <1>1 DEF CallOK, StepsOf, DriveSteps, CallType, Kinds
  <1>3. host.file \in FileIds \cup {BlankId, NoId}
    BY HostConstants DEF IInv, HostTypeOK
  <1>4. CASE host.file # NoId
    <2>1. localId' = host.file /\ Goto(c, "answer")
      BY <1>4 DEF ReadFile
    <2>2. "answer" \in StepsOf(k.kind)
      BY <1>2 DEF StepsOf
    <2>3. Frame
      BY <1>3, <1>4, <2>1 DEF ReadFile, envVars, fileVars, Frame, IInv, HostTypeOK
    <2> QED
      BY <1>1, <2>1, <2>2, <2>3, GotoKeeps
  <1>5. CASE host.file = NoId
    <2>1. Answer(c, NoSlot, NoId) /\ UNCHANGED localId
      BY <1>5 DEF ReadFile, Error
    <2>2. Frame
      BY <2>1 DEF ReadFile, envVars, fileVars, Frame, IInv, HostTypeOK
    <2>3. steady'[c] \cap ToSet(order) = {}
      BY <1>1, <1>2 DEF SourcesOK
    <2> QED
      BY <1>1, <2>1, <2>2, <2>3, AnswerKeeps
  <1> QED
    BY <1>4, <1>5

(* BySerialID: a device with the volume's serial is at a slot of it.       *)
LEMMA BySerialIDKeeps ==
    ASSUME IInv, Watch, NEW c \in Callers, BySerialID(c) \/ NotBySerialID(c)
    PROVE  CallsOK'
  <1> DEFINE k == call[c]
  <1>1. k \in CallType /\ CallOK(k, attached, cache) /\ k.step = "serial" /\ k.step # "idle"
    BY Busy DEF BySerialID, NotBySerialID, At
  <1>2. Frame
    BY LooksFrame DEF BySerialID, NotBySerialID
  <1>3. k.kind \in {"path", "mountPath"} /\ k.vol # Free
    BY <1>1 DEF CallOK, StepsOf, DriveSteps, CallType, Kinds
  <1>4. CASE BySerialID(c)
    <2>1. PICK s \in Shows(k.vol) : Answer(c, s, NoId)
      BY <1>4 DEF BySerialID
    <2>2. s \in Slots /\ s \in k.was
      BY <1>1, <1>3, <2>1 DEF Shows, SlotsOf, CallOK, IInv, HostTypeOK
    <2> QED
      BY <1>1, <1>2, <1>3, <2>1, <2>2, AnswerKeeps
  <1>5. CASE NotBySerialID(c)
    <2> DEFINE step == IF k.kind = "path" THEN "get" ELSE "probe"
    <2>1. Goto(c, step)
      BY <1>5 DEF NotBySerialID
    <2>2. step \in {"get", "probe", "answer"} /\ step \in StepsOf(k.kind) /\ step # "answer"
      BY <1>3 DEF StepsOf
    <2> HIDE DEF step
    <2> QED
      BY <1>1, <1>2, <2>1, <2>2, GotoKeeps
  <1> QED
    BY <1>4, <1>5

(* Probe: one more attempt, or the end of the search.                      *)
LEMMA ProbeKeeps ==
    ASSUME IInv, Watch, NEW c \in Callers, Probe(c)
    PROVE  CallsOK'
  <1>1. Frame
    BY DEF Probe, fileVars, Frame, IInv, HostTypeOK
  <1>2. call[c].step = "probe" /\ CallOK(call[c], attached, cache) /\ call[c].kind \in Kinds
    BY Busy DEF Probe, At
  <1>3. call[c].kind = "mountPath"
    BY <1>2 DEF CallOK, StepsOf, DriveSteps, Kinds
  <1> QED
    BY <1>1, <1>3, NextTryKeeps DEF Probe

(* Fetch: the service lists what is attached.                              *)
LEMMA FetchKeeps ==
    ASSUME IInv, Watch, NEW c \in Callers, Fetch(c)
    PROVE  CallsOK'
  <1> DEFINE k == call[c]
  <1>1. k \in CallType /\ CallOK(k, attached, cache) /\ k.step = "fetch" /\ k.step # "idle"
    BY Busy DEF Fetch, At
  <1>2. Frame /\ attached \in Devices
    BY LooksFrame DEF Fetch, IInv, HostTypeOK
  <1>3. k.kind = "freshPath"
    BY <1>1 DEF CallOK, StepsOf, DriveSteps, CallType, Kinds
  <1>4. CASE service
    <2>1. Update(c, [k EXCEPT !.step = "find", !.md = attached])
      BY <1>4 DEF Fetch
    <2> QED
      BY <1>1, <1>2, <1>3, <2>1, FindKeeps
  <1>5. CASE ~service
    <2>1. Answer(c, NoSlot, NoId)
      BY <1>5 DEF Fetch, Error
    <2> QED
      BY <1>1, <1>2, <1>3, <2>1, AnswerKeeps
  <1> QED
    BY <1>4, <1>5

(* FindPath and NoPath: the slot is one of the list the call has read.     *)
LEMMA FindPathKeeps ==
    ASSUME IInv, Watch, NEW c \in Callers, FindPath(c) \/ NoPath(c)
    PROVE  CallsOK'
  <1> DEFINE k == call[c]
  <1>1. k \in CallType /\ CallOK(k, attached, cache) /\ k.step = "find" /\ k.step # "idle"
    BY Busy DEF FindPath, NoPath, At
  <1>2. Frame
    BY LooksFrame DEF FindPath, NoPath
  <1>3. k.kind \in {"path", "freshPath"}
    BY <1>1 DEF CallOK, StepsOf, DriveSteps, CallType, Kinds
  <1>4. CASE FindPath(c)
    <2>1. PICK s \in Listed(c) : Answer(c, s, NoId)
      BY <1>4 DEF FindPath
    <2>2. s \in Slots /\ (s \in k.was \/ (k.kind = "path" /\ cache # NoMetadata))
      BY <1>1, <1>3, <2>1 DEF Listed, SlotsOf, CallOK
    <2> QED
      BY <1>1, <1>2, <1>3, <2>1, <2>2, AnswerKeeps
  <1>5. CASE NoPath(c) /\ k.kind = "path"
    BY <1>2, <1>5, NextTryKeeps DEF NoPath
  <1>6. CASE NoPath(c) /\ k.kind # "path"
    <2>1. Answer(c, NoSlot, NoId)
      BY <1>6 DEF NoPath, Error
    <2> QED
      BY <1>1, <1>2, <1>3, <2>1, AnswerKeeps
  <1> QED
    BY <1>4, <1>5, <1>6

-----------------------------------------------------------------------------
(* The surroundings change: every call goes on with the same locals, but   *)
(* for the history of its volume's slots.                                  *)

(* A call remembers one more slot of its volume.                           *)
LEMMA SetWas ==
    ASSUME NEW k \in CallType, NEW was \in SUBSET Slots
    PROVE  LET new == [k EXCEPT !.was = was]
           IN  /\ new \in CallType /\ new.step = k.step /\ new.kind = k.kind /\ new.vol = k.vol
               /\ new.left = k.left /\ new.md = k.md /\ new.slot = k.slot /\ new.id = k.id
               /\ new.was = was
  BY DEF CallType

(* A change around the calls that leaves them and the devices alone.       *)
LEMMA SameCallsKeep ==
    ASSUME IInv, Watch, UNCHANGED <<host, order, boot, attached, fileVars, cache, localId, call>>,
           visible' \subseteq Slots
    PROVE  CallsOK'
  <1>1. HostTypeOK'
    <2>1. steady' \in [Callers -> SUBSET Sources]
      BY WatchFacts DEF IInv, HostTypeOK, Watch
    <2> QED
      BY <2>1 DEF IInv, HostTypeOK, fileVars
  <1>2. ASSUME NEW c \in Callers
        PROVE  CallOK(call'[c], attached', cache') /\ SourcesOK(call'[c], steady'[c], order')
    <2>1. CallOK(call[c], attached, cache) /\ SourcesOK(call[c], steady[c], order)
      BY DEF IInv
    <2>2. call[c].kind \in {"identity", "instanceID"} => steady'[c] \subseteq steady[c]
      BY <2>1, WatchFacts DEF CallOK, StepsOf, DriveSteps
    <2> QED
      BY <2>1, <2>2 DEF SourcesOK
  <1> QED
    BY <1>1, <1>2 DEF CallsOK

(* A volume is attached or detached, and the calls remember where it is.   *)
LEMMA RememberKeeps ==
    ASSUME IInv, Watch, UNCHANGED <<host, order, boot, fileVars, cache, localId>>,
           attached' \in Devices, visible' \subseteq Slots, Remember
    PROVE  CallsOK' /\ \A c \in Callers : call'[c].step = call[c].step
  <1>1. ASSUME NEW c \in Callers
        PROVE  /\ call'[c] \in CallType /\ call'[c].step = call[c].step
               /\ CallOK(call'[c], attached', cache')
               /\ SourcesOK(call'[c], steady'[c], order')
    <2> DEFINE k == call[c]  was == k.was \cup SlotsOf(attached', k.vol)
               new == [k EXCEPT !.was = was]
    <2>1. /\ k \in CallType /\ CallOK(k, attached, cache) /\ SourcesOK(k, steady[c], order)
      BY DEF IInv, HostTypeOK
    <2>2. k.kind \in {"identity", "instanceID"} => steady'[c] \subseteq steady[c]
      BY <2>1, WatchFacts DEF CallOK, StepsOf, DriveSteps
    <2>3. CASE k.vol = Free
      <3>1. call'[c] = k
        BY <2>3 DEF Remember
      <3>2. CallOK(k, attached', cache')
        BY <2>1, <2>3 DEF CallOK
      <3> QED
        BY <2>1, <2>2, <3>1, <3>2 DEF SourcesOK
    <2>4. CASE k.vol # Free
      <3>1. call'[c] = new
        BY <2>4 DEF Remember, SlotsOf
      <3>2. was \in SUBSET Slots
        BY <2>1 DEF CallType, SlotsOf
      <3>3. /\ new \in CallType /\ new.step = k.step /\ new.kind = k.kind /\ new.vol = k.vol
            /\ new.left = k.left /\ new.md = k.md /\ new.slot = k.slot /\ new.id = k.id
            /\ new.was = was
        BY <2>1, <3>2, SetWas
      <3> HIDE DEF new
      <3>4. CallOK(new, attached', cache')
        BY <2>1, <3>3 DEF CallOK
      <3>5. SourcesOK(new, steady'[c], order')
        BY <2>1, <2>2, <3>3 DEF SourcesOK
      <3> QED
        BY <3>1, <3>3, <3>4, <3>5
    <2> QED
      BY <2>3, <2>4
  <1>2. call' \in [Callers -> CallType]
    BY <1>1 DEF Remember
  <1>3. HostTypeOK'
    <2>1. steady' \in [Callers -> SUBSET Sources]
      BY WatchFacts DEF IInv, HostTypeOK, Watch
    <2> QED
      BY <1>2, <2>1 DEF IInv, HostTypeOK, fileVars
  <1> QED
    BY <1>1, <1>3 DEF CallsOK

-----------------------------------------------------------------------------
(* The config drive stays mounted under its reader.                        *)

Reading == {"read", "unmount"}

(* A call that found no metadata, and may fill the cache.                  *)
Getting == Reading \cup {"source", "remove", "store"}

(* A step that makes no new reader and leaves the mount alone.             *)
LEMMA MountStays ==
    ASSUME IInv, \A c \in Callers : call'[c].step \in Reading => call[c].step \in Reading,
           mounted => mounted', mounted /\ tempDir => tempDir'
    PROVE  MountKept'
  BY DEF IInv, MountKept, Reading

(* What a caller's step does to the locals of all.                         *)
LEMMA UpdateFacts ==
    ASSUME IInv, NEW c \in Callers, NEW new, Update(c, new)
    PROVE  call'[c] = new /\ \A d \in Callers \ {c} : call'[d] = call[d]
  BY DEF Update, IInv, HostTypeOK

(* Where an assignment to its locals takes a call.                         *)
LEMMA AnswerStep ==
    ASSUME IInv, NEW c \in Callers, NEW slot, NEW id, Answer(c, slot, id)
    PROVE  /\ call'[c].step = "done" /\ call'[c].kind = call[c].kind /\ call'[c].id = id
           /\ \A d \in Callers \ {c} : call'[d] = call[d]
  <1> DEFINE new == [Idle EXCEPT !.step = "done", !.kind = call[c].kind, !.vol = call[c].vol,
                                 !.was = call[c].was, !.slot = slot, !.id = id]
  <1>1. new.step = "done" /\ new.kind = call[c].kind /\ new.id = id
    BY DEF Idle
  <1>2. Update(c, new)
    BY DEF Answer
  <1> HIDE DEF new
  <1> QED
    BY <1>1, <1>2, UpdateFacts

(* Goto leaves the kind of the call.                                       *)
LEMMA GotoStep ==
    ASSUME IInv, NEW c \in Callers, NEW step, Goto(c, step)
    PROVE  /\ call'[c].step = step /\ call'[c].kind = call[c].kind
           /\ \A d \in Callers \ {c} : call'[d] = call[d]
  <1> DEFINE new == [call[c] EXCEPT !.step = step]
  <1>1. new.step = step /\ new.kind = call[c].kind
    BY DEF IInv, HostTypeOK, CallType
  <1>2. Update(c, new)
    BY DEF Goto
  <1> HIDE DEF new
  <1> QED
    BY <1>1, <1>2, UpdateFacts

(* NextTry starts again or ends.                                           *)
LEMMA NextTryStep ==
    ASSUME IInv, NEW c \in Callers, NextTry(c)
    PROVE  /\ call'[c].step \in {"serial", "done"} /\ call'[c].kind = call[c].kind
           /\ \A d \in Callers \ {c} : call'[d] = call[d]
  <1> DEFINE new == [call[c] EXCEPT !.step = "serial", !.tries = call[c].tries + 1, !.md = NoMetadata]
  <1>1. new.step = "serial" /\ new.kind = call[c].kind
    BY DEF IInv, HostTypeOK, CallType
  <1>2. Update(c, new) \/ Answer(c, NoSlot, NoId)
    BY DEF NextTry, Error
  <1> HIDE DEF new
  <1> QED
    BY <1>1, <1>2, UpdateFacts, AnswerStep

(* The next source: the call stays where it is.                            *)
LEMMA LeftStep ==
    ASSUME IInv, NEW c \in Callers, NEW left, Update(c, [call[c] EXCEPT !.left = left])
    PROVE  /\ call'[c].step = call[c].step /\ call'[c].kind = call[c].kind
           /\ \A d \in Callers \ {c} : call'[d] = call[d]
  <1> DEFINE new == [call[c] EXCEPT !.left = left]
  <1>1. new.step = call[c].step /\ new.kind = call[c].kind
    BY DEF IInv, HostTypeOK, CallType
  <1>2. Update(c, new)
    OBVIOUS
  <1> HIDE DEF new
  <1> QED
    BY <1>1, <1>2, UpdateFacts

(* A call goes on with another list of sources.                            *)
LEMMA SourceStep ==
    ASSUME IInv, NEW c \in Callers, NEW step, NEW left, Update(c, [call[c] EXCEPT !.step = step, !.left = left])
    PROVE  /\ call'[c].step = step /\ call'[c].kind = call[c].kind
           /\ \A d \in Callers \ {c} : call'[d] = call[d]
  <1> DEFINE new == [call[c] EXCEPT !.step = step, !.left = left]
  <1>1. new.step = step /\ new.kind = call[c].kind
    BY DEF IInv, HostTypeOK, CallType
  <1>2. Update(c, new)
    OBVIOUS
  <1> HIDE DEF new
  <1> QED
    BY <1>1, <1>2, UpdateFacts

(* A call goes on with another list of devices.                            *)
LEMMA MdStep ==
    ASSUME IInv, NEW c \in Callers, NEW step, NEW md, Update(c, [call[c] EXCEPT !.step = step, !.md = md])
    PROVE  /\ call'[c].step = step /\ call'[c].kind = call[c].kind
           /\ \A d \in Callers \ {c} : call'[d] = call[d]
  <1> DEFINE new == [call[c] EXCEPT !.step = step, !.md = md]
  <1>1. new.step = step /\ new.kind = call[c].kind
    BY DEF IInv, HostTypeOK, CallType
  <1>2. Update(c, new)
    OBVIOUS
  <1> HIDE DEF new
  <1> QED
    BY <1>1, <1>2, UpdateFacts

(* The steps of metadata.Get that leave the mount alone.                   *)
LEMMA SourceSteps ==
    ASSUME IInv, NEW c \in Callers,
           \/ Get(c) \/ InvalidSource(c) \/ ServiceAnswers(c) \/ ServiceFails(c) \/ DriveMissing(c)
           \/ DriveMountFails(c) \/ DriveRemove(c) \/ Store(c)
    PROVE  /\ (mounted => mounted') /\ (mounted /\ tempDir => tempDir')
           /\ call'[c].step \notin Reading /\ \A d \in Callers \ {c} : call'[d] = call[d]
           /\ call'[c].kind = call[c].kind /\ call'[c].step \in {"source", "store", "got"}
           /\ call'[c].step \in Getting => call[c].step \in Getting \/ cache = NoMetadata
  <1> USE DEF Reading, Getting
  <1>1. (mounted => mounted') /\ (mounted /\ tempDir => tempDir')
    <2>1. CASE DriveMountFails(c) \/ DriveRemove(c)
      <3>1. RemoveDir /\ mounted' = mounted
        BY <2>1 DEF DriveMountFails, DriveRemove
      <3> QED
        BY <3>1 DEF RemoveDir
    <2>2. CASE \/ Get(c) \/ InvalidSource(c) \/ ServiceAnswers(c) \/ ServiceFails(c)
               \/ DriveMissing(c) \/ Store(c)
      <3>1. UNCHANGED fileVars
        BY <2>2 DEF Get, InvalidSource, ServiceAnswers, ServiceFails, DriveMissing, Store, Looks
      <3> QED
        BY <3>1 DEF fileVars
    <2> QED
      BY <2>1, <2>2
  <1>2. /\ call'[c].step \notin Reading /\ \A d \in Callers \ {c} : call'[d] = call[d]
        /\ call'[c].kind = call[c].kind /\ call'[c].step \in {"source", "store", "got"}
        /\ call'[c].step \in Getting => call[c].step \in Getting \/ cache = NoMetadata
    <2>1. CASE Get(c)
      <3>1. \/ Goto(c, "got")
            \/ /\ cache = NoMetadata
               /\ Update(c, [call[c] EXCEPT !.step = "source", !.left = SearchOrder(c)])
        BY <2>1 DEF Get, Goto
      <3>2. CASE Goto(c, "got")
        BY <3>2, GotoStep
      <3>3. CASE /\ cache = NoMetadata
                 /\ Update(c, [call[c] EXCEPT !.step = "source", !.left = SearchOrder(c)])
        <4>1. /\ call'[c].step = "source" /\ call'[c].kind = call[c].kind
              /\ \A d \in Callers \ {c} : call'[d] = call[d]
          BY <3>3, SourceStep
        <4> QED
          BY <3>3, <4>1
      <3> QED
        BY <3>1, <3>2, <3>3
    <2>2. CASE InvalidSource(c) \/ ServiceFails(c) \/ DriveMissing(c) \/ DriveMountFails(c)
      <3>1. call[c].step = "source" /\ Update(c, [call[c] EXCEPT !.left = Tail(call[c].left)])
        BY <2>2 DEF InvalidSource, ServiceFails, DriveMissing, DriveMountFails, Asks, At, NextSource
      <3> QED
        BY <3>1, LeftStep
    <2>3. CASE ServiceAnswers(c)
      <3>1. Update(c, [call[c] EXCEPT !.step = "store", !.md = attached]) /\ call[c].step = "source"
        BY <2>3 DEF ServiceAnswers, Asks, At
      <3> QED
        BY <3>1, MdStep
    <2>4. CASE DriveRemove(c)
      <3>1. \/ Goto(c, "store")
            \/ Update(c, [call[c] EXCEPT !.step = "source", !.left = Tail(call[c].left)])
        BY <2>4 DEF DriveRemove
      <3>2. call[c].step = "remove"
        BY <2>4 DEF DriveRemove, At
      <3>3. CASE Goto(c, "store")
        BY <3>2, <3>3, GotoStep
      <3>4. CASE Update(c, [call[c] EXCEPT !.step = "source", !.left = Tail(call[c].left)])
        <4>1. /\ call'[c].step = "source" /\ call'[c].kind = call[c].kind
              /\ \A d \in Callers \ {c} : call'[d] = call[d]
          BY <3>4, SourceStep
        <4> QED
          BY <3>2, <4>1
      <3> QED
        BY <3>1, <3>3, <3>4
    <2>5. CASE Store(c)
      <3> DEFINE new == [call[c] EXCEPT !.step = "got", !.md = NoMetadata, !.left = << >>]
      <3>1. Update(c, new)
        BY <2>5 DEF Store
      <3>2. new.step = "got" /\ new.kind = call[c].kind
        BY DEF IInv, HostTypeOK, CallType
      <3> HIDE DEF new
      <3> QED
        BY <3>1, <3>2, UpdateFacts
    <2> QED
      BY <2>1, <2>2, <2>3, <2>4, <2>5
  <1> QED
    BY <1>1, <1>2

(* DriveMount: nobody reads what nobody has mounted, so that there is one  *)
(* reader after it.                                                        *)
LEMMA DriveMountMount ==
    ASSUME IInv, NEW c \in Callers, DriveMount(c)
    PROVE  MountKept'
  <1>1. mounted' /\ tempDir' /\ \A d \in Callers \ {c} : call'[d] = call[d]
    BY GotoStep DEF DriveMount, CanMount
  <1>2. \A d \in Callers : call[d].step \notin Reading
    BY DEF DriveMount, CanMount, IInv, MountKept, Reading
  <1> QED
    BY <1>1, <1>2 DEF MountKept, Reading

(* DriveUnmount: the reader was the only one.                              *)
LEMMA DriveUnmountMount ==
    ASSUME IInv, NEW c \in Callers, DriveUnmount(c) \/ DriveUnmountFails(c)
    PROVE  MountKept'
  <1>1. call'[c].step = "remove" /\ \A d \in Callers \ {c} : call'[d] = call[d]
    BY GotoStep DEF DriveUnmount, DriveUnmountFails
  <1>2. call[c].step \in Reading
    BY DEF DriveUnmount, DriveUnmountFails, At, Reading
  <1>3. \A d \in Callers \ {c} : call[d].step \notin Reading
    BY <1>2 DEF IInv, MountKept, Reading
  <1> QED
    BY <1>1, <1>3 DEF MountKept, Reading

(* DriveRead leaves the drive mounted.                                     *)
LEMMA DriveReadMount ==
    ASSUME IInv, NEW c \in Callers, DriveRead(c)
    PROVE  MountKept'
  <1> DEFINE new == [call[c] EXCEPT !.step = "unmount", !.md = IF drive = "ready" THEN boot ELSE NoMetadata]
  <1>1. Update(c, new) /\ call[c].step = "read"
    BY DEF DriveRead, At
  <1> HIDE DEF new
  <1>2. \A d \in Callers \ {c} : call'[d] = call[d]
    BY <1>1, UpdateFacts
  <1> QED
    BY <1>1, <1>2, MountStays DEF DriveRead, Looks, fileVars, Reading

(* The steps outside metadata.Get.                                         *)
LEMMA UseSteps ==
    ASSUME IInv, NEW c \in Callers,
           \/ GetFails(c) \/ Got(c) \/ LocalId(c) \/ AnswerId(c) \/ ReadFile(c) \/ BySerialID(c)
           \/ NotBySerialID(c) \/ Probe(c) \/ Fetch(c) \/ FindPath(c) \/ NoPath(c) \/ Return(c)
    PROVE  /\ UNCHANGED fileVars /\ call'[c].step \notin Getting
           /\ \A d \in Callers \ {c} : call'[d] = call[d]
  <1> USE DEF Reading, Getting
  <1>1. UNCHANGED fileVars
    BY DEF GetFails, Got, LocalId, AnswerId, ReadFile, BySerialID, NotBySerialID, Probe, Fetch,
           FindPath, NoPath, Return, Looks
  <1>2. call[c] \in CallType /\ call[c].step \in StepsOf(call[c].kind)
    BY DEF IInv, HostTypeOK, CallOK
  <1>3. call'[c].step \notin Getting /\ \A d \in Callers \ {c} : call'[d] = call[d]
    <2>1. CASE GetFails(c)
      <3>1. call[c].kind \in {"identity", "instanceID", "path"}
        BY <1>2, <2>1 DEF GetFails, At, StepsOf, CallType, Kinds
      <3>2. Answer(c, NoSlot, NoId) \/ Goto(c, "file") \/ NextTry(c)
        BY <2>1, <3>1 DEF GetFails, Error
      <3> QED
        BY <3>2, AnswerStep, GotoStep, NextTryStep
    <2>2. CASE Got(c)
      <3>1. call[c].kind \in {"identity", "instanceID", "path"}
        BY <1>2, <2>2 DEF Got, At, StepsOf, CallType, Kinds
      <3>2. \/ Answer(c, NoSlot, HostId) \/ Goto(c, "answer")
            \/ Update(c, [call[c] EXCEPT !.step = "find", !.md = cache])
        BY <2>2, <3>1 DEF Got
      <3>3. CASE Answer(c, NoSlot, HostId) \/ Goto(c, "answer")
        BY <3>3, AnswerStep, GotoStep
      <3>4. CASE Update(c, [call[c] EXCEPT !.step = "find", !.md = cache])
        <4>1. call'[c].step = "find" /\ \A d \in Callers \ {c} : call'[d] = call[d]
          BY <3>4, MdStep
        <4> QED
          BY <4>1
      <3> QED
        BY <3>2, <3>3, <3>4
    <2>3. CASE LocalId(c)
      BY <2>3, GotoStep DEF LocalId
    <2>4. CASE AnswerId(c)
      BY <2>4, AnswerStep DEF AnswerId
    <2>5. CASE ReadFile(c)
      <3>1. Goto(c, "answer") \/ Answer(c, NoSlot, NoId)
        BY <2>5 DEF ReadFile, Error
      <3> QED
        BY <3>1, AnswerStep, GotoStep
    <2>6. CASE BySerialID(c)
      BY <2>6, AnswerStep DEF BySerialID
    <2>7. CASE NotBySerialID(c)
      BY <2>7, GotoStep DEF NotBySerialID
    <2>8. CASE Probe(c)
      BY <2>8, NextTryStep DEF Probe
    <2>9. CASE Fetch(c)
      <3>1. \/ Answer(c, NoSlot, NoId)
            \/ Update(c, [call[c] EXCEPT !.step = "find", !.md = attached])
        BY <2>9 DEF Fetch, Error
      <3>2. CASE Answer(c, NoSlot, NoId)
        BY <3>2, AnswerStep
      <3>3. CASE Update(c, [call[c] EXCEPT !.step = "find", !.md = attached])
        <4>1. call'[c].step = "find" /\ \A d \in Callers \ {c} : call'[d] = call[d]
          BY <3>3, MdStep
        <4> QED
          BY <4>1
      <3> QED
        BY <3>1, <3>2, <3>3
    <2>10. CASE FindPath(c)
      BY <2>10, AnswerStep DEF FindPath
    <2>11. CASE NoPath(c)
      <3>1. NextTry(c) \/ Answer(c, NoSlot, NoId)
        BY <2>11 DEF NoPath, Error
      <3> QED
        BY <3>1, AnswerStep, NextTryStep
    <2>12. CASE Return(c)
      <3>1. Update(c, Idle) /\ Idle.step = "idle"
        BY <2>12 DEF Return, Idle
      <3> QED
        BY <3>1, UpdateFacts
    <2> QED
      BY <2>1, <2>2, <2>3, <2>4, <2>5, <2>6, <2>7, <2>8, <2>9, <2>10, <2>11, <2>12
  <1> QED
    BY <1>1, <1>3

(* A call that starts asks no source yet.                                  *)
LEMMA CallSteps ==
    ASSUME IInv, NEW r \in Requests, Call(r[1], r[2], r[3])
    PROVE  /\ UNCHANGED <<fileVars, cache>> /\ r[1] \in Callers
           /\ call'[r[1]].step \notin Getting \cup {"answer", "done"}
           /\ \A d \in Callers \ {r[1]} : call'[d] = call[d]
  <1> DEFINE c == r[1]  step == FirstStep(r[2])
             new == [Idle EXCEPT !.step = step, !.kind = r[2], !.vol = r[3],
                                 !.was = IF r[3] = Free THEN {} ELSE {s \in Slots : attached[s] = r[3]}]
  <1>1. c \in Callers
    BY HostConstants
  <1>2. Update(c, new) /\ UNCHANGED <<fileVars, cache>>
    BY DEF Call, Looks
  <1>3. step \notin Getting \cup {"answer", "done"}
    BY DEF FirstStep, Getting, Reading
  <1>4. new.step = step
    <2> HIDE DEF step
    <2> QED
      BY IdleOK DEF CallType
  <1> HIDE DEF new, step
  <1> QED
    BY <1>1, <1>2, <1>3, <1>4, UpdateFacts

(* The surroundings leave the steps of all calls, the mount and the cache. *)
SameSteps == UNCHANGED <<fileVars, cache>> /\ \A c \in Callers :
                 /\ call'[c].step = call[c].step /\ call'[c].kind = call[c].kind
                 /\ call'[c].id = call[c].id

(* Every change around the calls keeps them in order.                      *)
LEMMA SurroundingsKeep ==
    ASSUME IInv, Watch,
           \/ \E s \in Slots : Detach(s) \/ Notice(s) \/ \E v \in Volumes : Attach(v, s)
           \/ ServiceChanges \/ \E d \in DriveStates : DriveChanges(d)
    PROVE  CallsOK' /\ SameSteps
  <1>1. ASSUME NEW s \in Slots, Notice(s) PROVE CallsOK' /\ SameSteps
    <2>1. visible' \subseteq Slots
      BY <1>1 DEF Notice, IInv, HostTypeOK
    <2> QED
      BY <1>1, <2>1, SameCallsKeep DEF Notice, SameSteps
  <1>2. ASSUME ServiceChanges \/ \E d \in DriveStates : DriveChanges(d) PROVE CallsOK' /\ SameSteps
    <2>1. UNCHANGED <<host, order, boot, attached, visible, fileVars, cache, localId, call>>
      BY <1>2 DEF ServiceChanges, DriveChanges
    <2>2. visible' \subseteq Slots
      BY <2>1 DEF IInv, HostTypeOK
    <2> QED
      BY <2>1, <2>2, SameCallsKeep DEF SameSteps
  <1>3. ASSUME NEW s \in Slots, Detach(s) \/ \E v \in Volumes : Attach(v, s)
        PROVE  CallsOK' /\ SameSteps
    <2>1. attached' \in Devices /\ visible' \subseteq Slots
      BY <1>3 DEF Detach, Attach, Devices, IInv, HostTypeOK
    <2>2. Remember /\ UNCHANGED <<host, order, boot, fileVars, cache, localId>>
      BY <1>3 DEF Detach, Attach
    <2>3. CallsOK' /\ \A c \in Callers : call'[c].step = call[c].step
      BY <2>1, <2>2, RememberKeeps
    <2>4. ASSUME NEW c \in Callers PROVE call'[c].kind = call[c].kind /\ call'[c].id = call[c].id
      <3>1. call[c] \in CallType
        BY DEF IInv, HostTypeOK
      <3>2. CASE call[c].vol = Free
        BY <2>2, <3>2 DEF Remember
      <3>3. CASE call[c].vol # Free
        <4> DEFINE was == call[c].was \cup {t \in Slots : attached'[t] = call[c].vol}
        <4>1. call'[c] = [call[c] EXCEPT !.was = was]
          BY <2>2, <3>3 DEF Remember
        <4> HIDE DEF was
        <4> QED
          BY <3>1, <4>1 DEF CallType
      <3> QED
        BY <3>2, <3>3
    <2> QED
      BY <2>2, <2>3, <2>4 DEF SameSteps
  <1> QED
    BY <1>1, <1>2, <1>3

-----------------------------------------------------------------------------
(* The search order a provider starts with is a sequence of words.         *)
LEMMA OrdersAreSequences ==
    ASSUME NEW r \in Orders
    PROVE  ReadConfig(r) \in Seq(Word)
  <1>1. r \in Seq(Word)
    <2>1. PICK m \in 0 .. 3 : r \in [1 .. m -> Word]
      BY DEF Orders, BoundedSeq, SeqOf, Word
    <2>2. m \in Nat
      BY <2>1
    <2> QED
      BY <2>1, <2>2, SeqDef
  <1>2. "configDrive" \in Word /\ "metadataService" \in Word
    BY DEF Word, Sources
  <1> QED
    BY <1>1, <1>2 DEF ReadConfig

(* The invariant holds at the start.                                       *)
LEMMA InitOK == Init => IInv
  <1> SUFFICES ASSUME Init PROVE IInv
    OBVIOUS
  <1>1. order \in Seq(Word)
    BY OrdersAreSequences DEF Init
  <1>2. call = [c \in Callers |-> Idle]
    BY DEF Init
  <1>3. HostTypeOK
    <2>1. call \in [Callers -> CallType] /\ steady \in [Callers -> SUBSET Sources]
      BY <1>2, IdleOK DEF Init
    <2>2. boot \in Devices /\ attached \in Devices /\ visible \subseteq Slots
      BY HostConstants DEF Init
    <2> QED
      BY <1>1, <2>1, <2>2 DEF Init, HostTypeOK
  <1>4. MountKept
    <2>1. Idle.step = "idle"
      BY DEF Idle
    <2> QED
      BY <1>2, <2>1 DEF MountKept
  <1>5. \A c \in Callers : CallOK(call[c], attached, cache) /\ SourcesOK(call[c], steady[c], order)
    BY <1>2, IdleOK
  <1> QED
    BY <1>3, <1>4, <1>5 DEF IInv

(* Every step keeps the invariant.                                         *)
LEMMA NextOK == IInv /\ [Next]_vars => IInv'
  <1> SUFFICES ASSUME IInv, [Next]_vars PROVE CallsOK' /\ MountKept'
    BY DEF IInv, CallsOK
  <1>1. ASSUME Watch, NEW c \in Callers, CallerStep(c) \/ DriveUnmountFails(c)
        PROVE  CallsOK' /\ MountKept'
    <2>1. CallsOK'
      BY <1>1, GetKeeps, SkipKeeps, ServiceAnswersKeeps, DriveMountKeeps, DriveMountFailsKeeps,
         DriveReadKeeps, DriveUnmountKeeps, DriveRemoveKeeps, StoreKeeps, GetFailsKeeps, GotKeeps,
         LocalIdKeeps, ReadFileKeeps, BySerialIDKeeps, ProbeKeeps, FetchKeeps, FindPathKeeps,
         ReturnKeeps DEF CallerStep
    <2>2. CASE \/ Get(c) \/ InvalidSource(c) \/ ServiceAnswers(c) \/ ServiceFails(c) \/ DriveMissing(c)
               \/ DriveMountFails(c) \/ DriveRemove(c) \/ Store(c)
      <3>1. /\ (mounted => mounted') /\ (mounted /\ tempDir => tempDir')
            /\ call'[c].step \notin Reading /\ \A d \in Callers \ {c} : call'[d] = call[d]
        BY <2>2, SourceSteps
      <3> QED
        BY <2>1, <3>1, MountStays
    <2>3. CASE \/ GetFails(c) \/ Got(c) \/ LocalId(c) \/ AnswerId(c) \/ ReadFile(c) \/ BySerialID(c)
               \/ NotBySerialID(c) \/ Probe(c) \/ Fetch(c) \/ FindPath(c) \/ NoPath(c) \/ Return(c)
      <3>1. /\ UNCHANGED fileVars /\ call'[c].step \notin Getting
            /\ \A d \in Callers \ {c} : call'[d] = call[d]
        BY <2>3, UseSteps
      <3> QED
        BY <2>1, <3>1, MountStays DEF Getting, fileVars
    <2>4. CASE DriveMount(c) \/ DriveRead(c) \/ DriveUnmount(c) \/ DriveUnmountFails(c)
      BY <2>1, <2>4, DriveMountMount, DriveReadMount, DriveUnmountMount
    <2> QED
      BY <1>1, <2>2, <2>3, <2>4 DEF CallerStep
  <1>2. ASSUME Watch, Calls PROVE CallsOK' /\ MountKept'
    <2>1. PICK r \in Requests : Call(r[1], r[2], r[3])
      BY <1>2 DEF Calls
    <2>2. /\ UNCHANGED fileVars /\ call'[r[1]].step \notin Getting
          /\ \A d \in Callers \ {r[1]} : call'[d] = call[d]
      BY <2>1, CallSteps
    <2> QED
      BY <1>2, <2>1, <2>2, CallKeeps, MountStays DEF Getting, fileVars
  <1>3. ASSUME Watch, \/ \E s \in Slots : Detach(s) \/ Notice(s) \/ \E v \in Volumes : Attach(v, s)
                      \/ ServiceChanges \/ \E d \in DriveStates : DriveChanges(d)
        PROVE  CallsOK' /\ MountKept'
    BY <1>3, SurroundingsKeep, MountStays DEF SameSteps, fileVars
  <1>4. CASE UNCHANGED vars
    BY <1>4 DEF vars, envVars, fileVars, IInv, HostTypeOK, CallsOK, MountKept
  <1> QED
    BY <1>1, <1>2, <1>3, <1>4 DEF Next, Surroundings

-----------------------------------------------------------------------------
(* The locals of every call, the sources it has still to ask and the mount *)
(* stay in order, whatever the other callers and the surroundings do.      *)
THEOREM HostInvariant == Spec => []IInv
  BY InitOK, NextOK, PTL DEF Spec

(* Slots, IDs, the cache and the number of attempts stay in their range:   *)
(* no search makes one attempt too many.                                   *)
THEOREM TypeCorrect == Spec => []TypeOK
  <1>1. IInv => TypeOK
    BY HostConstants DEF IInv, HostTypeOK, CallType, TypeOK
  <1> QED
    BY <1>1, HostInvariant, PTL

(* A path that a device search returns led to the volume at some moment of *)
(* the call, unless the cached metadata may have been used for it          *)
(* (GetDevicePath).                                                        *)
THEOREM PathsAlwaysRight == Spec => []PathsRight
  <1>1. IInv => PathsRight
    BY DEF IInv, CallOK, PathsRight, Answered
  <1> QED
    BY <1>1, HostInvariant, PTL

(* Nobody unmounts or removes the config drive under the caller that reads *)
(* it, although the directory is not locked (getFromConfigDrive).          *)
THEOREM MountAlwaysKept == Spec => []MountKept
  <1>1. IInv => MountKept
    BY DEF IInv
  <1> QED
    BY <1>1, HostInvariant, PTL

(* How an ID is asked for or comes out empty.                              *)
Ending(c) ==
    \/ call[c].step = "answer"
    \/ Answered(c, {"instanceID"}) /\ call[c].id = BlankId

(* An empty ID is excused: the file is blank, and this caller or another   *)
(* one found no source.                                                    *)
BlankOK(c) ==
    Ending(c) /\ (call[c].step = "answer" => localId = BlankId)
      => host.file = BlankId /\ (OutOfReach(c) \/ c \in blanked)

(* Nobody touches the locals of another caller.                            *)
LEMMA OthersStay ==
    ASSUME IInv, NEW c \in Callers, CallerStep(c) \/ DriveUnmountFails(c)
    PROVE  \A d \in Callers \ {c} : call'[d] = call[d]
  <1>1. CASE DriveMount(c) \/ DriveUnmount(c) \/ DriveUnmountFails(c)
    BY <1>1, GotoStep DEF DriveMount, DriveUnmount, DriveUnmountFails
  <1>2. CASE DriveRead(c)
    <2> DEFINE md == IF drive = "ready" THEN boot ELSE NoMetadata
    <2>1. Update(c, [call[c] EXCEPT !.step = "unmount", !.md = md])
      BY <1>2 DEF DriveRead
    <2> HIDE DEF md
    <2> QED
      BY <2>1, MdStep
  <1> QED
    BY <1>1, <1>2, SourceSteps, UseSteps DEF CallerStep

(* The steps that lead to an answer of InstanceID which may be empty.      *)
LEMMA EndingSteps ==
    ASSUME IInv, NEW c \in Callers, CallerStep(c) \/ DriveUnmountFails(c), Ending(c)'
    PROVE  \/ call'[c].step = "answer" /\ localId' = HostId
           \/ LocalId(c) \/ AnswerId(c) \/ ReadFile(c)
  <1>0. call[c] \in CallType /\ call[c].step \in StepsOf(call[c].kind)
    BY DEF IInv, HostTypeOK, CallOK
  <1>1. call'[c].step \in {"answer", "done"}
    BY DEF Ending, Answered
  <1>2. ASSUME NEW slot, Answer(c, slot, NoId) PROVE FALSE
    BY <1>2, AnswerStep, HostConstants DEF Ending, Answered
  <1>3. ~(\/ Get(c) \/ InvalidSource(c) \/ ServiceAnswers(c) \/ ServiceFails(c) \/ DriveMissing(c)
          \/ DriveMountFails(c) \/ DriveRemove(c) \/ Store(c))
    BY <1>1, SourceSteps
  <1>4. ~(DriveMount(c) \/ DriveUnmount(c) \/ DriveUnmountFails(c) \/ NotBySerialID(c))
    BY <1>1, GotoStep DEF DriveMount, DriveUnmount, DriveUnmountFails, NotBySerialID
  <1>5. ~DriveRead(c)
    <2> SUFFICES ASSUME DriveRead(c) PROVE FALSE
      OBVIOUS
    <2> DEFINE md == IF drive = "ready" THEN boot ELSE NoMetadata
    <2>1. Update(c, [call[c] EXCEPT !.step = "unmount", !.md = md])
      BY DEF DriveRead
    <2> HIDE DEF md
    <2>2. call'[c].step = "unmount"
      BY <2>1, MdStep
    <2> QED
      BY <1>1, <2>2
  <1>6. ASSUME NextTry(c), call[c].kind # "instanceID" PROVE FALSE
    BY <1>6, NextTryStep DEF Ending, Answered
  <1>7. ~GetFails(c)
    <2> SUFFICES ASSUME GetFails(c) PROVE FALSE
      OBVIOUS
    <2>1. call[c].kind \in {"identity", "instanceID", "path"}
      BY <1>0 DEF GetFails, At, StepsOf, CallType, Kinds
    <2>2. \/ Answer(c, NoSlot, NoId) \/ Goto(c, "file")
          \/ call[c].kind = "path" /\ NextTry(c)
      BY <2>1 DEF GetFails, Error
    <2> QED
      BY <1>1, <1>2, <1>6, <2>2, GotoStep
  <1>8. CASE Got(c)
    <2>1. call[c].kind \in {"identity", "instanceID", "path"}
      BY <1>0, <1>8 DEF Got, At, StepsOf, CallType, Kinds
    <2>2. CASE call[c].kind = "identity"
      <3>1. Answer(c, NoSlot, HostId)
        BY <1>8, <2>2 DEF Got
      <3> QED
        BY <2>2, <3>1, AnswerStep DEF Ending, Answered
    <2>3. CASE call[c].kind = "instanceID"
      BY <1>8, <2>3, GotoStep DEF Got
    <2>4. CASE call[c].kind = "path"
      <3>1. Update(c, [call[c] EXCEPT !.step = "find", !.md = cache])
        BY <1>8, <2>4 DEF Got
      <3>2. call'[c].step = "find"
        BY <3>1, MdStep
      <3> QED
        BY <1>1, <3>2
    <2> QED
      BY <2>1, <2>2, <2>3, <2>4
  <1>9. ~(BySerialID(c) \/ FindPath(c))
    BY <1>2 DEF BySerialID, FindPath
  <1>10. ~(Probe(c) \/ NoPath(c))
    <2>1. call[c].step = "probe" => call[c].kind # "instanceID"
      BY <1>0 DEF StepsOf, DriveSteps
    <2>2. Probe(c) \/ NoPath(c) =>
            Answer(c, NoSlot, NoId) \/ (NextTry(c) /\ call[c].kind # "instanceID")
      BY <2>1 DEF Probe, NoPath, Error, At
    <2> QED
      BY <1>2, <1>6, <2>2
  <1>11. ~Fetch(c)
    <2>1. Fetch(c) => \/ Answer(c, NoSlot, NoId)
                      \/ Update(c, [call[c] EXCEPT !.step = "find", !.md = attached])
      BY DEF Fetch, Error
    <2>2. ~Update(c, [call[c] EXCEPT !.step = "find", !.md = attached])
      <3> SUFFICES ASSUME Update(c, [call[c] EXCEPT !.step = "find", !.md = attached]) PROVE FALSE
        OBVIOUS
      <3>1. call'[c].step = "find"
        BY MdStep
      <3> QED
        BY <1>1, <3>1
    <2> QED
      BY <1>2, <2>1, <2>2
  <1>12. ~Return(c)
    <2>1. Return(c) => Update(c, Idle) /\ Idle.step = "idle"
      BY DEF Return, Idle
    <2> QED
      BY <1>1, <2>1, UpdateFacts
  <1> QED
    BY <1>3, <1>4, <1>5, <1>7, <1>8, <1>9, <1>10, <1>11, <1>12 DEF CallerStep

(* The host and the search order stay as they are; an ID that is stored    *)
(* becomes empty only where the file is blank.                             *)
LEMMA LostId ==
    ASSUME IInv, Next
    PROVE  /\ UNCHANGED <<host, order>>
           /\ localId # BlankId /\ localId' = BlankId => host.file = BlankId
  <1>1. ASSUME NEW c \in Callers, CallerStep(c) \/ DriveUnmountFails(c)
        PROVE  /\ UNCHANGED <<host, order>>
               /\ localId' = localId \/ localId' = HostId \/ localId' = host.file
    <2>1. CASE Got(c) \/ ReadFile(c)
      <3>1. Got(c) => call[c].kind \in {"identity", "instanceID", "path"}
        BY DEF Got, At, IInv, CallOK, StepsOf, CallType, Kinds
      <3> QED
        BY <2>1, <3>1 DEF Got, ReadFile
    <2>2. CASE ~(Got(c) \/ ReadFile(c))
      BY <1>1, <2>2 DEF CallerStep, DriveUnmountFails, Get, InvalidSource, ServiceAnswers,
           ServiceFails, DriveMissing, DriveMount, DriveMountFails, DriveRead, DriveUnmount,
           DriveRemove, Store, GetFails, LocalId, AnswerId, BySerialID, NotBySerialID, Probe,
           Fetch, FindPath, NoPath, Return, Looks
    <2> QED
      BY <2>1, <2>2
  <1>2. ASSUME Calls \/ \E s \in Slots : Detach(s) \/ Notice(s) \/ \E v \in Volumes : Attach(v, s)
        PROVE  UNCHANGED <<host, order, localId>>
    BY <1>2 DEF Calls, Call, Looks, Detach, Notice, Attach
  <1>3. ASSUME ServiceChanges \/ \E d \in DriveStates : DriveChanges(d)
        PROVE  UNCHANGED <<host, order, localId>>
    BY <1>3 DEF ServiceChanges, DriveChanges
  <1> QED
    BY <1>1, <1>2, <1>3, HostConstants DEF Next, Surroundings

(* An empty ID stays excused, and a new one is.                            *)
LEMMA BlankStep ==
    ASSUME IInv, Next, NEW c \in Callers, BlankOK(c)
    PROVE  BlankOK(c)'
  <1> SUFFICES ASSUME Ending(c)', call'[c].step = "answer" => localId' = BlankId
               PROVE  host'.file = BlankId /\ (OutOfReach(c)' \/ c \in blanked')
    BY DEF BlankOK
  <1>1. /\ UNCHANGED <<host, order>> /\ Watch
        /\ localId # BlankId /\ localId' = BlankId => host.file = BlankId
    BY LostId DEF Next
  <1>2. call'[c].step \in {"answer", "done"}
    BY DEF Ending, Answered
  <1>3. call[c].step # "idle" /\ OutOfReach(c) => OutOfReach(c)'
    BY <1>1, WatchFacts DEF OutOfReach
  <1>4. c \in blanked \/ (localId # BlankId /\ localId' = BlankId) => c \in blanked'
    BY <1>1, <1>2 DEF Watch
  <1>5. CASE /\ call'[c].step = call[c].step /\ call'[c].kind = call[c].kind
             /\ call'[c].id = call[c].id
    <2>1. Ending(c) /\ call[c].step # "idle"
      BY <1>2, <1>5 DEF Ending, Answered
    <2>2. CASE localId # BlankId /\ localId' = BlankId
      BY <1>1, <1>4, <2>2
    <2>3. CASE ~(localId # BlankId /\ localId' = BlankId)
      <3>1. call[c].step = "answer" => localId = BlankId
        BY <1>5, <2>3
      <3> QED
        BY <1>1, <1>3, <1>4, <2>1, <3>1 DEF BlankOK
    <2> QED
      BY <2>2, <2>3
  <1>6. CASE CallerStep(c) \/ DriveUnmountFails(c)
    <2>1. CASE call'[c].step = "answer" /\ localId' = HostId
      BY <2>1, HostConstants
    <2>2. CASE LocalId(c)
      <3>1. localId' = localId /\ Goto(c, IF localId # BlankId THEN "answer" ELSE "get")
        BY <2>2 DEF LocalId, Looks
      <3>2. call'[c].step = IF localId # BlankId THEN "answer" ELSE "get"
        BY <3>1, GotoStep
      <3> QED
        BY <1>2, <3>1, <3>2
    <2>3. CASE AnswerId(c)
      <3>1. PICK id \in {localId, TornId} : Answer(c, NoSlot, id)
        BY <2>3 DEF AnswerId
      <3>2. call'[c].step = "done" /\ call'[c].id = id
        BY <3>1, AnswerStep
      <3>3. call[c].step = "answer" /\ localId = BlankId
        BY <2>3, <3>1, <3>2, HostConstants DEF AnswerId, At, Ending, Answered
      <3> QED
        BY <1>1, <1>3, <1>4, <3>3 DEF BlankOK, Ending
    <2>4. CASE ReadFile(c)
      <3>1. call[c].step = "file" /\ call[c].kind = "instanceID"
        BY <2>4 DEF ReadFile, At, IInv, CallOK, StepsOf, DriveSteps, CallType, Kinds
      <3>2. CASE host.file = NoId
        <4>1. Answer(c, NoSlot, NoId)
          BY <2>4, <3>2 DEF ReadFile, Error
        <4> QED
          BY <4>1, AnswerStep, HostConstants DEF Ending, Answered
      <3>3. CASE host.file # NoId
        <4>1. Goto(c, "answer") /\ localId' = host.file
          BY <2>4, <3>3 DEF ReadFile
        <4>2. call'[c].step = "answer"
          BY <4>1, GotoStep
        <4>3. OutOfReach(c)
          BY <3>1 DEF IInv, SourcesOK, OutOfReach
        <4> QED
          BY <1>1, <1>3, <3>1, <4>1, <4>2, <4>3
      <3> QED
        BY <3>2, <3>3
    <2> QED
      BY <1>6, <2>1, <2>2, <2>3, <2>4, EndingSteps
  <1>7. ASSUME NEW d \in Callers, d # c, CallerStep(d) \/ DriveUnmountFails(d)
        PROVE  call'[c] = call[c]
    BY <1>7, OthersStay
  <1>8. ASSUME NEW r \in Requests, Call(r[1], r[2], r[3]) PROVE r[1] # c /\ call'[c] = call[c]
    BY <1>2, <1>8, CallSteps
  <1>9. ASSUME \/ \E s \in Slots : Detach(s) \/ Notice(s) \/ \E v \in Volumes : Attach(v, s)
               \/ ServiceChanges \/ \E d \in DriveStates : DriveChanges(d)
        PROVE  /\ call'[c].step = call[c].step /\ call'[c].kind = call[c].kind
               /\ call'[c].id = call[c].id
    BY <1>1, <1>9, SurroundingsKeep DEF SameSteps
  <1> QED
    BY <1>5, <1>6, <1>7, <1>8, <1>9 DEF Next, Surroundings, Calls

(* Get fails only after each source of the order was out of reach, the     *)
(* instance-id file is only a last resort, and an empty ID comes from a    *)
(* blank file alone, read by this caller or by one that overwrote its ID   *)
(* (Get, readInstanceID, InstanceID).                                      *)
THEOREM ErrorsAlwaysJustified == Spec => []ErrorsJustified
  <1> DEFINE BlanksOK == \A c \in Callers : BlankOK(c)
  <1>1. IInv /\ BlanksOK => ErrorsJustified
    <2> SUFFICES ASSUME IInv, BlanksOK, NEW c \in Callers
                 PROVE  /\ (\/ Answered(c, {"identity", "instanceID"}) /\ call[c].id = NoId
                            \/ call[c].step = "file") => OutOfReach(c)
                        /\ Answered(c, {"instanceID"}) /\ call[c].id = BlankId
                             => host.file = BlankId /\ (OutOfReach(c) \/ c \in blanked)
      BY DEF ErrorsJustified
    <2>1. CallOK(call[c], attached, cache) /\ SourcesOK(call[c], steady[c], order) /\ BlankOK(c)
      BY DEF IInv
    <2>2. call[c].step = "file" => call[c].kind = "instanceID"
      BY <2>1 DEF CallOK, StepsOf, DriveSteps, CallType, Kinds
    <2>3. Answered(c, {"instanceID"}) /\ call[c].id = BlankId
            => host.file = BlankId /\ (OutOfReach(c) \/ c \in blanked)
      BY <2>1 DEF BlankOK, Ending, Answered
    <2>4. (\/ Answered(c, {"identity", "instanceID"}) /\ call[c].id = NoId
           \/ call[c].step = "file") => OutOfReach(c)
      BY <2>1, <2>2 DEF SourcesOK, Answered, OutOfReach
    <2> QED
      BY <2>3, <2>4
  <1>2. Init => BlanksOK
    <2>1. Idle.step = "idle"
      BY DEF Idle
    <2> QED
      BY <2>1 DEF Init, BlankOK, Ending, Answered
  <1>3. IInv /\ BlanksOK /\ [Next]_vars => BlanksOK'
    <2> SUFFICES ASSUME IInv, BlanksOK, [Next]_vars, NEW c \in Callers PROVE BlankOK(c)'
      OBVIOUS
    <2>1. CASE Next
      BY <2>1, BlankStep
    <2>2. CASE UNCHANGED vars
      BY <2>2 DEF vars, BlankOK, Ending, Answered, OutOfReach
    <2> QED
      BY <2>1, <2>2
  <1> HIDE DEF BlanksOK
  <1> QED
    BY <1>1, <1>2, <1>3, HostInvariant, PTL DEF Spec

(* Once every caller that found the cache empty is done, the cache never   *)
(* changes again, and nobody starts to fill it (Get, which does not lock). *)
THEOREM CacheStaysFinal == Spec => CacheFinal
  <1>1. IInv /\ [Next]_vars => [Final => Final' /\ cache' = cache]_vars
    <2> SUFFICES ASSUME IInv, Next, Final PROVE Final' /\ cache' = cache
      OBVIOUS
    <2>1. ASSUME cache' = cache, NEW c \in Callers,
                 \A d \in Callers \ {c} : call'[d] = call[d],
                 call'[c].step \in Getting => call[c].step \in Getting /\ call'[c].kind = call[c].kind
          PROVE  Final' /\ cache' = cache
      BY <2>1 DEF Final, Getting, Reading
    <2>2. ASSUME NEW c \in Callers, Store(c) PROVE FALSE
      <3>1. call[c].step = "store" /\ call[c].kind = "path"
        BY <2>2 DEF Store, At, Final
      <3>2. call[c].step \in StepsOf(call[c].kind)
        BY DEF IInv, CallOK
      <3> QED
        BY <3>1, <3>2 DEF StepsOf
    <2>3. ASSUME NEW c \in Callers, CallerStep(c) \/ DriveUnmountFails(c)
          PROVE  Final' /\ cache' = cache
      <3>1. CASE \/ Get(c) \/ InvalidSource(c) \/ ServiceAnswers(c) \/ ServiceFails(c)
                 \/ DriveMissing(c) \/ DriveMountFails(c) \/ DriveRemove(c)
        <4>1. cache' = cache
          BY <3>1 DEF Get, InvalidSource, ServiceAnswers, ServiceFails, DriveMissing,
                      DriveMountFails, DriveRemove, Looks
        <4>2. /\ \A d \in Callers \ {c} : call'[d] = call[d]
              /\ call'[c].kind = call[c].kind
              /\ call'[c].step \in Getting => call[c].step \in Getting \/ cache = NoMetadata
          BY <3>1, SourceSteps
        <4> QED
          BY <2>1, <4>1, <4>2 DEF Final
      <3>2. CASE \/ GetFails(c) \/ Got(c) \/ LocalId(c) \/ AnswerId(c) \/ ReadFile(c) \/ BySerialID(c)
                 \/ NotBySerialID(c) \/ Probe(c) \/ Fetch(c) \/ FindPath(c) \/ NoPath(c) \/ Return(c)
        <4>1. cache' = cache
          BY <3>2 DEF GetFails, Got, LocalId, AnswerId, ReadFile, BySerialID, NotBySerialID, Probe,
                      Fetch, FindPath, NoPath, Return, Looks
        <4>2. call'[c].step \notin Getting /\ \A d \in Callers \ {c} : call'[d] = call[d]
          BY <3>2, UseSteps
        <4> QED
          BY <2>1, <4>1, <4>2
      <3>3. CASE DriveMount(c) \/ DriveUnmount(c) \/ DriveUnmountFails(c)
        <4>1. cache' = cache /\ call[c].step \in Getting
          BY <3>3 DEF DriveMount, DriveUnmount, DriveUnmountFails, Asks, At, Getting, Reading
        <4>2. Goto(c, "read") \/ Goto(c, "remove")
          BY <3>3 DEF DriveMount, DriveUnmount, DriveUnmountFails
        <4>3. call'[c].kind = call[c].kind /\ \A d \in Callers \ {c} : call'[d] = call[d]
          BY <4>2, GotoStep
        <4> QED
          BY <2>1, <4>1, <4>3
      <3>4. CASE DriveRead(c)
        <4> DEFINE md == IF drive = "ready" THEN boot ELSE NoMetadata
        <4>1. cache' = cache /\ call[c].step \in Getting
          BY <3>4 DEF DriveRead, Looks, At, Getting, Reading
        <4>2. Update(c, [call[c] EXCEPT !.step = "unmount", !.md = md])
          BY <3>4 DEF DriveRead
        <4> HIDE DEF md
        <4>3. call'[c].kind = call[c].kind /\ \A d \in Callers \ {c} : call'[d] = call[d]
          BY <4>2, MdStep
        <4> QED
          BY <2>1, <4>1, <4>3
      <3> QED
        BY <2>2, <2>3, <3>1, <3>2, <3>3, <3>4 DEF CallerStep
    <2>4. ASSUME Calls PROVE Final' /\ cache' = cache
      <3>1. PICK r \in Requests : Call(r[1], r[2], r[3])
        BY <2>4 DEF Calls
      <3> QED
        BY <2>1, <3>1, CallSteps
    <2>5. ASSUME \/ \E s \in Slots : Detach(s) \/ Notice(s) \/ \E v \in Volumes : Attach(v, s)
                 \/ ServiceChanges \/ \E d \in DriveStates : DriveChanges(d)
          PROVE  Final' /\ cache' = cache
      <3>1. SameSteps
        BY <2>5, SurroundingsKeep DEF Next
      <3> QED
        BY <3>1 DEF SameSteps, Final
    <2> QED
      BY <2>3, <2>4, <2>5 DEF Next, Surroundings
  <1> QED
    BY <1>1, HostInvariant, PTL DEF Spec, CacheFinal
=============================================================================
