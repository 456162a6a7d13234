--------------------------- MODULE Volumes_proofs ---------------------------
(***************************************************************************)
(* What the volume operations return is true, for every number of callers, *)
(* volumes and servers, every size of a volume and every unit.             *)
(***************************************************************************)
EXTENDS Volumes, TLAPS

(***************************************************************************)
(* Rounding up.                                                            *)
(***************************************************************************)

(* A larger factor makes a larger product.                                 *)
LEMMA ProductGrows ==
    ASSUME NEW a \in Nat, NEW b \in Nat, NEW u \in Nat, a >= b
    PROVE  a * u >= b * u
  OBVIOUS

(* Rounding up gives room for the bytes that were asked for.               *)
LEMMA RoundedUp ==
    ASSUME NEW b \in Nat, NEW u \in Nat \ {0}
    PROVE  RoundUpSize(b, u) \in Nat /\ RoundUpSize(b, u) * u >= b
  <1>1. b \div u \in Nat /\ b % u \in 0 .. u - 1 /\ b = u * (b \div u) + (b % u)
    OBVIOUS
  <1>2. (b \div u + 1) * u = u * (b \div u) + u
    BY <1>1
  <1>3. (b \div u) * u = u * (b \div u)
    BY <1>1
  <1> QED
    BY <1>1, <1>2, <1>3 DEF RoundUpSize

(***************************************************************************)
(* The inductive invariant.  A volume is attached exactly when it is in    *)
(* use, and never shrinks or comes back; a call under way has the present  *)
(* attachment of its volume in its history, and what it was told is true.  *)
(***************************************************************************)

Volume == [status : {"unborn", "available", "in-use", "error", "deleted"},
           server : Servers \cup {NoServer}, size : Nat]

VolumeOK(v) ==
    /\ v \in Volume
    /\ v.status = "in-use" <=> v.server # NoServer
    /\ v.status = "unborn" => v.size = 0

Call == [step : {"get", "lookup", "act", "done"}, req : Requests,
         copy : Servers \cup {NoServer, NoVolume},
         verdict : {"none", "ok", "error", "dangling", "inUse", "attached", "detached"},
         failed : BOOLEAN]

(* What call k was told, by its history h and its volume v.                *)
ToldTrue(k, h, v) ==
    /\ k.req.op = "attach" /\ k.verdict = "ok" => k.req.server \in h
    /\ k.req.op = "attach" /\ k.verdict = "dangling" => (h \cap Servers) \ {k.req.server} # {}
    /\ k.req.op = "detach" /\ k.verdict = "ok" => h \ {k.req.server} # {}
    /\ k.req.op = "delete" /\ k.verdict = "ok" => v.status = "deleted"
    /\ k.req.op = "delete" /\ k.verdict = "inUse" => h \cap Servers # {}
    /\ k.req.op = "query" /\ k.verdict = "detached" => h \ {k.req.server} # {}
    /\ k.req.op = "query" /\ k.verdict = "attached" =>
         k.failed \/ h \cap {k.req.server, NoVolume} # {}
    /\ k.req.op = "expand" /\ k.verdict = "ok" => v.size * GIB >= k.req.bytes

(* A call under way: nothing is sent for a query, and only AttachDisk asks *)
(* for the name of the node that had the volume.                           *)
BusyOK(k, h, v) ==
    /\ k \in Call
    /\ Attachment(v) \in h
    /\ k.step = "act" => k.req.op # "query"
    /\ k.step = "lookup" => k.req.op = "attach" /\ k.copy \in h /\ k.copy # k.req.server
    /\ k.step = "done" => ToldTrue(k, h, v)

Idle == [step |-> "idle"]

CallOK(k, h, vs) == k = Idle \/ BusyOK(k, h, vs[k.req.vol])

IInv ==
    /\ vol \in [Vols -> Volume] /\ \A v \in Vols : VolumeOK(vol[v])
    /\ alive \subseteq Servers
    /\ call \in [Callers -> Call \cup {Idle}]
    /\ held \in [Callers -> SUBSET (Servers \cup {NoServer, NoVolume})]
    /\ \A c \in Callers : CallOK(call[c], held[c], vol)

-----------------------------------------------------------------------------
(* The parts of a request.                                                 *)
LEMMA RequestType ==
    ASSUME NEW r \in Requests
    PROVE  /\ r.vol \in Vols
           /\ r.op \in {"attach", "detach", "query", "delete", "expand", "create"}
           /\ r.op \in {"attach", "detach", "query"} => r.server \in Servers
           /\ r.op = "expand" => r.bytes \in Nat
           /\ r.op = "create" => r.size \in Nat
  <1>1. 1 .. GIB * MaxSize \subseteq Nat /\ 1 .. MaxSize \subseteq Nat
    BY VolumesConstants
  <1> QED
    BY <1>1 DEF Requests

(* What is attached to a volume is a server, nothing, or there is no volume.*)
LEMMA AttachmentType ==
    ASSUME NEW v \in Volume
    PROVE  Attachment(v) \in Servers \cup {NoServer, NoVolume}
  BY DEF Attachment, Volume

(* A volume may change like this: it never shrinks, and stays deleted.     *)
Grows(v, w) == VolumeOK(w) /\ w.size >= v.size /\ (v.status = "deleted" => w.status = "deleted")

(* A volume that stays as it is.                                           *)
LEMMA SameGrows ==
    ASSUME NEW v, VolumeOK(v)
    PROVE  Grows(v, v)
  BY DEF Grows, VolumeOK, Volume

(* What a call was told stays true while others change its volume.         *)
LEMMA StaysTrue ==
    ASSUME NEW k \in Call, NEW h, NEW v, NEW w, VolumeOK(v), Grows(v, w), BusyOK(k, h, v)
    PROVE  BusyOK(k, h \cup {Attachment(w)}, w)
  <1>1. k.req.op = "expand" /\ v.size * GIB >= k.req.bytes => w.size * GIB >= k.req.bytes
    <2> SUFFICES ASSUME k.req.op = "expand", v.size * GIB >= k.req.bytes
                 PROVE  w.size * GIB >= k.req.bytes
      OBVIOUS
    <2>1. v.size \in Nat /\ w.size \in Nat /\ w.size >= v.size /\ GIB \in Nat
      BY VolumesConstants DEF Grows, VolumeOK, Volume
    <2>2. w.size * GIB >= v.size * GIB
      BY <2>1, ProductGrows
    <2>3. k.req.bytes \in Nat /\ w.size * GIB \in Nat /\ v.size * GIB \in Nat
      BY <2>1, RequestType DEF Call
    <2> QED
      BY <2>2, <2>3
  <1>2. k.step = "done" => ToldTrue(k, h \cup {Attachment(w)}, w)
    BY <1>1 DEF BusyOK, ToldTrue, Grows
  <1> QED
    BY <1>2 DEF BusyOK

(* A change of the volumes: the invariant holds but for the calls that     *)
(* move on with it.                                                        *)
LEMMA ChangeKeeps ==
    ASSUME IInv, NEW new \in [Vols -> Volume], \A v \in Vols : Grows(vol[v], new[v]), Change(new)
    PROVE  /\ vol' \in [Vols -> Volume] /\ \A v \in Vols : VolumeOK(vol'[v])
           /\ held' \in [Callers -> SUBSET (Servers \cup {NoServer, NoVolume})]
           /\ \A c \in Callers : CallOK(call[c], held'[c], vol')
           /\ \A c \in Callers : call[c].step # "idle" =>
                 held'[c] = held[c] \cup {Attachment(new[call[c].req.vol])}
  <1>1. vol' = new
    BY DEF Change
  <1>2. ASSUME NEW c \in Callers PROVE call[c] = Idle \/ (call[c] \in Call /\ call[c].step # "idle")
    BY DEF IInv, Call
  <1>3. ASSUME NEW c \in Callers, call[c] \in Call, call[c].step # "idle"
        PROVE  /\ call[c].req.vol \in Vols
               /\ held'[c] = held[c] \cup {Attachment(new[call[c].req.vol])}
               /\ CallOK(call[c], held'[c], vol')
    <2>1. call[c].req.vol \in Vols
      BY <1>3, RequestType DEF Call
    <2>2. held'[c] = held[c] \cup {Attachment(new[call[c].req.vol])}
      BY <1>3 DEF Change
    <2>3. BusyOK(call[c], held[c], vol[call[c].req.vol])
      BY <1>3 DEF IInv, CallOK, Idle
    <2>4. BusyOK(call[c], held'[c], new[call[c].req.vol])
      BY <1>3, <2>1, <2>2, <2>3, StaysTrue DEF IInv
    <2> QED
      BY <1>1, <2>1, <2>2, <2>4 DEF CallOK
  <1>4. ASSUME NEW c \in Callers, call[c] = Idle
        PROVE  held'[c] = {} /\ CallOK(call[c], held'[c], vol')
    BY <1>4 DEF Change, CallOK, Idle
  <1>5. \A c \in Callers : held'[c] \in SUBSET (Servers \cup {NoServer, NoVolume})
    BY <1>2, <1>3, <1>4, AttachmentType DEF IInv
  <1>6. held' \in [Callers -> SUBSET (Servers \cup {NoServer, NoVolume})]
    BY <1>5 DEF Change
  <1> QED
    BY <1>1, <1>2, <1>3, <1>4, <1>6 DEF Grows, Idle

(* A call under way, in the invariant.                                     *)
LEMMA Busy ==
    ASSUME IInv, NEW c \in Callers, call[c].step # "idle"
    PROVE  /\ call[c] \in Call /\ call[c].req \in Requests /\ call[c].req.vol \in Vols
           /\ BusyOK(call[c], held[c], vol[call[c].req.vol])
           /\ VolumeOK(vol[call[c].req.vol])
           /\ held[c] \subseteq Servers \cup {NoServer, NoVolume}
  <1>1. call[c] \in Call
    BY DEF IInv, Idle
  <1>2. call[c].req \in Requests /\ call[c].req.vol \in Vols
    BY <1>1, RequestType DEF Call
  <1> QED
    BY <1>1, <1>2 DEF IInv, CallOK, Idle

(* Only call c changes, and it is in order.                                *)
LEMMA CallKeeps ==
    ASSUME IInv, NEW c \in Callers, NEW k, call' = [call EXCEPT ![c] = k],
           k \in Call \cup {Idle}, CallOK(k, held'[c], vol), UNCHANGED <<vol, alive>>,
           held' \in [Callers -> SUBSET (Servers \cup {NoServer, NoVolume})],
           \A d \in Callers \ {c} : held'[d] = held[d]
    PROVE  IInv'
  <1>1. \A d \in Callers : call'[d] = IF d = c THEN k ELSE call[d]
    BY DEF IInv
  <1>2. \A d \in Callers : CallOK(call'[d], held'[d], vol')
    BY <1>1 DEF IInv, CallOK
  <1> QED
    BY <1>2 DEF IInv

(* Nothing has been asked for yet.                                         *)
LEMMA InitIInv == Init => IInv
  BY DEF Init, IInv, Volume, VolumeOK, Idle, CallOK

(* A call begins: its history is the present attachment.                   *)
LEMMA StartKeeps ==
    ASSUME IInv, NEW c \in Callers, NEW r \in Requests, Start(c, r)
    PROVE  IInv'
  <1> DEFINE k == [step |-> IF r.op = "create" THEN "act" ELSE "get", req |-> r, copy |-> NoServer,
                   verdict |-> "none", failed |-> FALSE]
  <1>1. /\ call' = [call EXCEPT ![c] = k] /\ held' = [held EXCEPT ![c] = {Attachment(vol[r.vol])}]
        /\ UNCHANGED <<vol, alive>>
    BY DEF Start
  <1>2. r.vol \in Vols /\ vol[r.vol] \in Volume
    BY RequestType DEF IInv
  <1>3. k \in Call
    BY DEF Call
  <1>4. held' \in [Callers -> SUBSET (Servers \cup {NoServer, NoVolume})]
        /\ held'[c] = {Attachment(vol[r.vol])}
    BY <1>1, <1>2, AttachmentType DEF IInv
  <1>5. BusyOK(k, held'[c], vol[r.vol])
    BY <1>3, <1>4 DEF BusyOK
  <1>6. CallOK(k, held'[c], vol)
    BY <1>5 DEF CallOK
  <1>7. \A d \in Callers \ {c} : held'[d] = held[d]
    BY <1>1 DEF IInv
  <1> HIDE DEF k
  <1> QED
    BY <1>1, <1>3, <1>4, <1>6, <1>7, CallKeeps

(* A call that only reads: its history and the volumes stay.               *)
LEMMA ReadKeeps ==
    ASSUME IInv, NEW c \in Callers, NEW k \in Call, call' = [call EXCEPT ![c] = k],
           BusyOK(k, held[c], vol[k.req.vol]), UNCHANGED <<vol, alive, held>>
    PROVE  IInv'
  <1>1. CallOK(k, held'[c], vol)
    BY DEF CallOK
  <1> QED
    BY <1>1, CallKeeps DEF IInv

(* What a handler answers at once was true of the volume it read.          *)
LEMMA HandlerTrue ==
    ASSUME NEW k \in Call, NEW v, VolumeOK(v), Present(v), NEW h, Attachment(v) \in h,
           NEW d, d = Handler(k.req, v),
           NEW m \in Call, m.req = k.req, m.step = d.step, m.verdict = d.verdict,
           m.copy = Attachment(v)
    PROVE  BusyOK(m, h, v)
  <1> USE DEF Verdict, GoOn, Error
  <1>1. k.req \in Requests /\ v \in Volume /\ Attachment(v) = v.server
    BY DEF Call, VolumeOK, Attachment
  <1>2. CASE k.req.op = "attach"
    BY <1>1, <1>2, RequestType DEF BusyOK, ToldTrue, Handler, AttachDisk, Volume
  <1>3. CASE k.req.op = "detach"
    <2>1. v.status = "available" => v.server = NoServer
      BY DEF VolumeOK
    <2> QED
      BY <1>1, <1>3, <2>1, RequestType, VolumesConstants DEF BusyOK, ToldTrue, Handler, DetachDisk
  <1>4. CASE k.req.op = "expand"
    <2>1. v.size >= RoundUpSize(k.req.bytes, GIB) => v.size * GIB >= k.req.bytes
      <3> SUFFICES ASSUME v.size >= RoundUpSize(k.req.bytes, GIB)
                   PROVE  v.size * GIB >= k.req.bytes
        OBVIOUS
      <3>1. k.req.bytes \in Nat /\ v.size \in Nat /\ GIB \in Nat \ {0}
        BY <1>1, <1>4, RequestType, VolumesConstants DEF Volume
      <3>2. /\ RoundUpSize(k.req.bytes, GIB) \in Nat
            /\ RoundUpSize(k.req.bytes, GIB) * GIB >= k.req.bytes
        BY <3>1, RoundedUp
      <3>3. v.size * GIB >= RoundUpSize(k.req.bytes, GIB) * GIB
        BY <3>1, <3>2, ProductGrows
      <3>4. v.size * GIB \in Nat /\ RoundUpSize(k.req.bytes, GIB) * GIB \in Nat
        BY <3>1, <3>2
      <3> QED
        BY <3>1, <3>2, <3>3, <3>4
    <2> QED
      BY <1>1, <1>4, <2>1 DEF BusyOK, ToldTrue, Handler, ExpandVolume
  <1>5. CASE k.req.op = "delete"
    BY <1>1, <1>5 DEF BusyOK, ToldTrue, Handler, DeleteVolume, Volume
  <1>6. CASE k.req.op = "query"
    BY <1>1, <1>6 DEF BusyOK, ToldTrue, Handler, DiskIsAttached
  <1>7. CASE k.req.op = "create"
    BY <1>1, <1>7 DEF BusyOK, ToldTrue, Handler, CreatedVolume
  <1> QED
    BY <1>1, <1>2, <1>3, <1>4, <1>5, <1>6, <1>7, RequestType

(* A handler answers, or goes on.                                          *)
LEMMA HandlerType ==
    ASSUME NEW r \in Requests, NEW v
    PROVE  /\ Handler(r, v).step \in {"done", "act", "lookup"}
           /\ Handler(r, v).verdict \in {"none", "ok", "error", "inUse", "attached", "detached"}
           /\ Unread(r).step = "done" /\ Unread(r).verdict \in {"attached", "error"}
  BY RequestType
  DEF Handler, AttachDisk, DetachDisk, ExpandVolume, DeleteVolume, DiskIsAttached, CreatedVolume,
      Unread, Verdict, GoOn, Error

(* The volume is read, or cannot be.                                       *)
LEMMA GetKeeps ==
    ASSUME IInv, NEW c \in Callers, getVolume(c)
    PROVE  IInv'
  <1> DEFINE k == call[c]
             v == vol[k.req.vol]
             d == IF Present(v) THEN Handler(k.req, v) ELSE Unread(k.req)
             m == [k EXCEPT !.step = d.step, !.verdict = d.verdict, !.copy = Attachment(v)]
  <1>1. k.step = "get" /\ UNCHANGED <<vol, alive, held>>
    BY DEF getVolume
  <1>2. /\ k \in Call /\ k.req \in Requests /\ BusyOK(k, held[c], v) /\ VolumeOK(v)
    BY <1>1, Busy
  <1>3. call' = [call EXCEPT ![c] = m]
    BY DEF getVolume
  <1>4. d.step \in {"done", "act", "lookup"}
        /\ d.verdict \in {"none", "ok", "error", "inUse", "attached", "detached"}
    BY <1>2, HandlerType
  <1>5. Attachment(v) \in Servers \cup {NoServer, NoVolume} /\ Attachment(v) \in held[c]
    BY <1>2, AttachmentType DEF VolumeOK, BusyOK
  <1> HIDE DEF d
  <1>6. m \in Call /\ m.req = k.req /\ m.step = d.step /\ m.verdict = d.verdict
        /\ m.copy = Attachment(v)
    BY <1>2, <1>4, <1>5 DEF Call
  <1>7. BusyOK(m, held[c], v)
    <2>1. CASE Present(v)
      <3>1. d = Handler(k.req, v)
        BY <2>1 DEF d
      <3> QED
        BY <1>2, <1>5, <1>6, <2>1, <3>1, HandlerTrue
    <2>2. CASE ~Present(v)
      <3>1. d = Unread(k.req) /\ Attachment(v) = NoVolume
        BY <2>2 DEF d, Attachment
      <3> QED
        BY <1>5, <1>6, <3>1 DEF BusyOK, ToldTrue, Unread, Verdict, Error
    <2> QED
      BY <2>1, <2>2
  <1> HIDE DEF m
  <1> QED
    BY <1>1, <1>3, <1>6, <1>7, ReadKeeps

(* The node that had the volume is named, the request is rejected, or some *)
(* request fails.                                                          *)
LEMMA ReadStepsKeep ==
    ASSUME IInv, NEW c \in Callers, GetNodeNameByID(c) \/ ActRejected(c) \/ RequestFails(c)
    PROVE  IInv'
  <1> DEFINE k == call[c]
             v == vol[k.req.vol]
  <1>1. k.step \in {"get", "lookup", "act"} /\ UNCHANGED <<vol, alive, held>>
    BY DEF GetNodeNameByID, ActRejected, RequestFails
  <1>2. /\ k \in Call /\ k.req \in Requests /\ BusyOK(k, held[c], v) /\ VolumeOK(v)
    BY <1>1, Busy
  <1>3. CASE GetNodeNameByID(c)
    <2> DEFINE d == IF k.copy \in alive THEN Verdict("dangling") ELSE Error
               m == [k EXCEPT !.step = d.step, !.verdict = d.verdict]
    <2>1. call' = [call EXCEPT ![c] = m]
      BY <1>3 DEF GetNodeNameByID, Proceed
    <2>2. k.req.op = "attach" /\ k.copy \in held[c] /\ k.copy # k.req.server
      BY <1>2, <1>3 DEF GetNodeNameByID, BusyOK
    <2>3. d.step = "done" /\ d.verdict \in {"dangling", "error"}
          /\ (d.verdict = "dangling" => k.copy \in Servers)
      BY DEF Verdict, Error, IInv
    <2> HIDE DEF d
    <2>4. m \in Call /\ m.req = k.req /\ m.step = "done" /\ m.verdict = d.verdict
      BY <1>2, <2>3 DEF Call
    <2> HIDE DEF m
    <2>5. BusyOK(m, held[c], v)
      BY <1>2, <2>2, <2>3, <2>4 DEF BusyOK, ToldTrue
    <2> QED
      BY <1>1, <2>1, <2>4, <2>5, ReadKeeps
  <1>4. CASE ActRejected(c)
    <2> DEFINE m == [k EXCEPT !.step = "done", !.verdict = "error"]
    <2>1. call' = [call EXCEPT ![c] = m]
      BY <1>4 DEF ActRejected, Proceed, Error, Verdict
    <2>2. m \in Call /\ m.req = k.req /\ m.step = "done" /\ m.verdict = "error"
      BY <1>2 DEF Call
    <2> HIDE DEF m
    <2>3. BusyOK(m, held[c], v)
      BY <1>2, <2>2 DEF BusyOK, ToldTrue
    <2> QED
      BY <1>1, <2>1, <2>2, <2>3, ReadKeeps
  <1>5. CASE RequestFails(c)
    <2> DEFINE d == IF k.step = "get" THEN Unread(k.req) ELSE Error
               m == [k EXCEPT !.step = "done", !.verdict = d.verdict, !.failed = TRUE]
    <2>1. call' = [call EXCEPT ![c] = m]
      BY <1>5 DEF RequestFails
    <2>2. d.verdict \in {"attached", "error"}
          /\ (d.verdict = "attached" => k.req.op = "query")
      BY DEF Unread, Error, Verdict
    <2> HIDE DEF d
    <2>3. m \in Call /\ m.req = k.req /\ m.step = "done" /\ m.verdict = d.verdict /\ m.failed
      BY <1>2, <2>2 DEF Call
    <2> HIDE DEF m
    <2>4. BusyOK(m, held[c], v)
      BY <1>2, <2>2, <2>3 DEF BusyOK, ToldTrue
    <2> QED
      BY <1>1, <2>1, <2>3, <2>4, ReadKeeps
  <1> QED
    BY <1>3, <1>4, <1>5

(* The call returns, and its history ends.                                 *)
LEMMA ReturnKeeps ==
    ASSUME IInv, NEW c \in Callers, Return(c)
    PROVE  IInv'
  <1>1. /\ call' = [call EXCEPT ![c] = Idle] /\ held' = [held EXCEPT ![c] = {}]
        /\ UNCHANGED <<vol, alive>>
    BY DEF Return, Idle
  <1>2. CallOK(Idle, held'[c], vol)
    BY DEF CallOK
  <1>3. /\ held' \in [Callers -> SUBSET (Servers \cup {NoServer, NoVolume})]
        /\ \A d \in Callers \ {c} : held'[d] = held[d]
    BY <1>1 DEF IInv
  <1> QED
    BY <1>1, <1>2, <1>3, CallKeeps

(* What the cloud makes of a request: the volume grows in the sense above, *)
(* and the answer "ok" is true of it.                                      *)
LEMMA OutcomeGrows ==
    ASSUME IInv, NEW k \in Call, Accepts(k.req), k.req.op # "query", NEW w \in Outcomes(k.req)
    PROVE  /\ Grows(vol[k.req.vol], w)
           /\ \A h : \A m \in Call :
                 m.req = k.req /\ m.verdict = "ok" /\ k.req.op # "create" /\ Attachment(w) \in h
                   => ToldTrue(m, h, w)
  <1> DEFINE v == vol[k.req.vol]
  <1>1. k.req \in Requests /\ v \in Volume /\ VolumeOK(v)
    BY RequestType DEF Call, IInv
  <1>2. CASE k.req.op = "attach"
    <2>1. /\ w = [v EXCEPT !.status = "in-use", !.server = k.req.server]
          /\ v.status = "available" /\ k.req.server \in Servers
      BY <1>1, <1>2, RequestType DEF Outcomes, Accepts, IInv
    <2>2. /\ w \in Volume /\ w.status = "in-use" /\ w.server = k.req.server /\ w.size = v.size
      BY <1>1, <2>1 DEF Volume
    <2>3. Grows(v, w)
      BY <1>1, <2>1, <2>2, VolumesConstants DEF Grows, VolumeOK, Volume
    <2> QED
      BY <1>2, <2>2, <2>3 DEF ToldTrue, Attachment, Present
  <1>3. CASE k.req.op = "detach"
    <2>1. /\ w = [v EXCEPT !.status = "available", !.server = NoServer]
          /\ v.status = "in-use" /\ k.req.server \in Servers
      BY <1>1, <1>3, RequestType DEF Outcomes, Accepts
    <2>2. /\ w \in Volume /\ w.status = "available" /\ w.server = NoServer /\ w.size = v.size
      BY <1>1, <2>1 DEF Volume
    <2>3. Grows(v, w)
      BY <1>1, <2>1, <2>2 DEF Grows, VolumeOK, Volume
    <2> QED
      BY <1>3, <2>1, <2>2, <2>3, VolumesConstants DEF ToldTrue, Attachment, Present
  <1>4. CASE k.req.op = "expand"
    <2> DEFINE n == RoundUpSize(k.req.bytes, GIB)
    <2>1. n \in Nat /\ n * GIB >= k.req.bytes
      BY <1>1, <1>4, RequestType, RoundedUp, VolumesConstants
    <2>2. w = [v EXCEPT !.size = n] /\ v.status = "available" /\ n > v.size
      BY <1>4 DEF Outcomes, Accepts
    <2> HIDE DEF n
    <2>3. w \in Volume /\ w.status = v.status /\ w.server = v.server /\ w.size = n
      BY <1>1, <2>1, <2>2 DEF Volume
    <2>4. Grows(v, w)
      BY <1>1, <2>1, <2>2, <2>3 DEF Grows, VolumeOK, Volume
    <2> QED
      BY <1>4, <2>1, <2>3, <2>4 DEF ToldTrue
  <1>5. CASE k.req.op = "delete"
    <2>1. w = [v EXCEPT !.status = "deleted"] /\ Present(v) /\ v.server = NoServer
      BY <1>5 DEF Outcomes, Accepts
    <2>2. w \in Volume /\ w.status = "deleted" /\ w.server = NoServer /\ w.size = v.size
      BY <1>1, <2>1 DEF Volume
    <2>3. Grows(v, w)
      BY <1>1, <2>2 DEF Grows, VolumeOK, Volume
    <2> QED
      BY <1>5, <2>2, <2>3 DEF ToldTrue
  <1>6. CASE k.req.op = "create"
    <2>1. PICK s \in {"available", "error"} : w = [v EXCEPT !.status = s, !.size = k.req.size]
      BY <1>6 DEF Outcomes
    <2>2. v.status = "unborn" /\ v.size = 0 /\ v.server = NoServer /\ k.req.size \in Nat
      BY <1>1, <1>6, RequestType DEF Accepts, VolumeOK
    <2>3. w \in Volume /\ w.status = s /\ w.server = NoServer /\ w.size = k.req.size
      BY <1>1, <2>1, <2>2 DEF Volume
    <2>4. Grows(v, w)
      BY <2>2, <2>3 DEF Grows, VolumeOK
    <2> QED
      BY <1>6, <2>4
  <1> QED
    BY <1>1, <1>2, <1>3, <1>4, <1>5, <1>6, RequestType

(* The request is carried out, and the caller learns of it or not.         *)
LEMMA ActKeeps ==
    ASSUME IInv, NEW c \in Callers, Act(c) \/ ActLost(c)
    PROVE  IInv'
  <1> DEFINE k == call[c]
             d == IF Act(c) THEN Reached(c) ELSE Error
             m == [k EXCEPT !.step = d.step, !.verdict = d.verdict]
  <1>1. k.step = "act" /\ Accepts(k.req) /\ alive' = alive /\ call' = [call EXCEPT ![c] = m]
    BY DEF Act, ActLost, Proceed
  <1>2. PICK w \in Outcomes(k.req) : Change([vol EXCEPT ![k.req.vol] = w])
    BY DEF Act, ActLost
  <1>3. /\ k \in Call /\ k.req \in Requests /\ k.req.vol \in Vols
        /\ BusyOK(k, held[c], vol[k.req.vol])
    BY <1>1, Busy
  <1>4. k.req.op # "query"
    BY <1>1, <1>3 DEF BusyOK
  <1>5. Grows(vol[k.req.vol], w)
    BY <1>1, <1>2, <1>3, <1>4, OutcomeGrows
  <1> DEFINE new == [vol EXCEPT ![k.req.vol] = w]
  <1>6. new \in [Vols -> Volume] /\ \A v \in Vols : Grows(vol[v], new[v])
    <2>1. w \in Volume
      BY <1>5 DEF Grows, VolumeOK
    <2>2. \A v \in Vols : Grows(vol[v], vol[v])
      BY SameGrows DEF IInv
    <2> QED
      BY <1>3, <1>5, <2>1, <2>2 DEF IInv
  <1>7. new[k.req.vol] = w /\ vol' = new
    BY <1>2, <1>3 DEF IInv, Change
  <1> HIDE DEF new
  <1>8. /\ vol' \in [Vols -> Volume] /\ \A v \in Vols : VolumeOK(vol'[v])
        /\ held' \in [Callers -> SUBSET (Servers \cup {NoServer, NoVolume})]
        /\ \A b \in Callers : CallOK(call[b], held'[b], vol')
        /\ held'[c] = held[c] \cup {Attachment(w)}
    BY <1>1, <1>2, <1>6, <1>7, ChangeKeeps DEF new
  <1>9. \/ d.step = "done" /\ d.verdict = "ok" /\ k.req.op # "create"
        \/ d.step = "done" /\ d.verdict = "error"
        \/ d.step = "get" /\ d.verdict = "none"
    BY DEF Reached, Error, Verdict, GoOn
  <1> HIDE DEF d
  <1>10. m \in Call /\ m.req = k.req /\ m.step = d.step /\ m.verdict = d.verdict
    BY <1>3, <1>9 DEF Call
  <1> HIDE DEF m
  <1>11. m.step = "done" => ToldTrue(m, held'[c], w)
    <2>1. CASE d.verdict = "ok"
      BY <1>1, <1>2, <1>3, <1>4, <1>8, <1>9, <1>10, <2>1, OutcomeGrows
    <2>2. CASE d.verdict # "ok"
      BY <1>9, <1>10, <2>2 DEF ToldTrue
    <2> QED
      BY <2>1, <2>2
  <1>12. CallOK(m, held'[c], vol')
    BY <1>7, <1>8, <1>9, <1>10, <1>11 DEF CallOK, BusyOK
  <1>13. \A b \in Callers : call'[b] = IF b = c THEN m ELSE call[b]
    BY <1>1 DEF IInv
  <1>14. call' \in [Callers -> Call \cup {Idle}]
    BY <1>1, <1>10 DEF IInv
  <1> QED
    BY <1>1, <1>8, <1>12, <1>13, <1>14 DEF IInv

(* A volume fails, or a server is destroyed.                               *)
LEMMA CloudKeeps ==
    ASSUME IInv, (\E v \in Vols : Break(v)) \/ (\E s \in Servers : Destroy(s))
    PROVE  IInv'
  <1>0. \A v \in Vols : vol[v] \in Volume /\ VolumeOK(vol[v]) /\ Grows(vol[v], vol[v])
    BY SameGrows DEF IInv
  <1>1. ASSUME NEW new \in [Vols -> Volume], \A v \in Vols : Grows(vol[v], new[v]), Change(new),
               call' = call, alive' \subseteq alive
        PROVE  IInv'
    BY <1>1, ChangeKeeps DEF IInv
  <1>2. ASSUME NEW v \in Vols, Break(v) PROVE IInv'
    <2> DEFINE w == [vol[v] EXCEPT !.status = "error"]
               new == [vol EXCEPT ![v] = w]
    <2>1. /\ w \in Volume /\ w.status = "error" /\ w.server = vol[v].server
          /\ w.size = vol[v].size /\ vol[v].status = "available"
      BY <1>0, <1>2 DEF Volume, Break
    <2>2. Grows(vol[v], w)
      BY <1>0, <2>1 DEF Grows, VolumeOK, Volume
    <2>3. Change(new) /\ call' = call /\ alive' = alive
      BY <1>2 DEF Break
    <2> HIDE DEF w
    <2>4. new \in [Vols -> Volume] /\ \A u \in Vols : Grows(vol[u], new[u])
      BY <1>0, <2>1, <2>2 DEF IInv
    <2> HIDE DEF new
    <2> QED
      BY <1>1, <2>3, <2>4
  <1>3. ASSUME NEW s \in Servers, Destroy(s) PROVE IInv'
    <2> DEFINE free(v) == [vol[v] EXCEPT !.status = "available", !.server = NoServer]
               new == [v \in Vols |-> IF vol[v].server = s THEN free(v) ELSE vol[v]]
    <2>1. ASSUME NEW v \in Vols, vol[v].server = s PROVE free(v) \in Volume /\ Grows(vol[v], free(v))
      <3>1. /\ free(v) \in Volume /\ free(v).status = "available" /\ free(v).server = NoServer
            /\ free(v).size = vol[v].size
        BY <1>0 DEF Volume
      <3>2. vol[v].status = "in-use"
        BY <1>0, <2>1, VolumesConstants DEF VolumeOK
      <3> QED
        BY <1>0, <3>1, <3>2 DEF Grows, VolumeOK, Volume
    <2>2. Change(new) /\ call' = call /\ alive' \subseteq alive
      BY <1>3 DEF Destroy
    <2> HIDE DEF free
    <2>3. new \in [Vols -> Volume] /\ \A u \in Vols : Grows(vol[u], new[u])
      BY <1>0, <2>1
    <2> HIDE DEF new
    <2> QED
      BY <1>1, <2>2, <2>3
  <1> QED
    BY <1>2, <1>3

(* The invariant holds in every reachable state.                           *)
THEOREM VolumesInvariant == Spec => []IInv
  <1>1. IInv /\ UNCHANGED vars => IInv'
    BY DEF IInv, vars, CallOK, BusyOK, ToldTrue
  <1>2. IInv /\ [Next]_vars => IInv'
    BY <1>1, StartKeeps, GetKeeps, ReadStepsKeep, ActKeeps, ReturnKeeps, CloudKeeps DEF Next
  <1> QED
    BY InitIInv, <1>2, PTL DEF Spec

(* Whatever the other callers do between the two requests of an operation  *)
(* (AttachDisk, DetachDisk, DeleteVolume, DisksAreAttached), and however   *)
(* many of them there are, what it returns was true during the call.       *)
THEOREM VerdictsAlwaysTrue == Spec => []VerdictsTrue
  <1>1. IInv => VerdictsTrue
    <2> SUFFICES ASSUME IInv, NEW c \in Callers, call[c].step = "done"
                 PROVE  ToldTrue(call[c], held[c], vol[call[c].req.vol])
      BY DEF VerdictsTrue, Told, ToldTrue
    <2> QED
      BY Busy DEF BusyOK
  <1> QED
    BY <1>1, VolumesInvariant, PTL

(* A successful ExpandVolume leaves room for the bytes asked for, for every*)
(* unit and every size.                                                    *)
THEOREM ExpandedAlwaysEnough == Spec => []ExpandedEnough
  <1>1. IInv => ExpandedEnough
    <2> SUFFICES ASSUME IInv, NEW c \in Callers, call[c].step = "done"
                 PROVE  ToldTrue(call[c], held[c], vol[call[c].req.vol])
      BY DEF ExpandedEnough, Told, ToldTrue
    <2> QED
      BY Busy DEF BusyOK
  <1> QED
    BY <1>1, VolumesInvariant, PTL
=============================================================================
