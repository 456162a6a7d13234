------------------------------- MODULE Volumes -------------------------------
(***************************************************************************)
(* The volume operations of the provider.  Every operation first reads the *)
(* volume (getVolume) and decides on that copy; what it decides to send is *)
(* a second request.  Several callers work on the same volumes at a time   *)
(* and nothing is locked between the two requests, so the copy may be old  *)
(* when it is used.  A request may fail, and a failed request may or may   *)
(* not have been carried out.                                              *)
(*                                                                         *)
(* The cloud is external: it attaches and extends only an available        *)
(* volume, detaches a volume only from the server that has it, deletes     *)
(* only a volume without attachments, and detaches the volumes of a server *)
(* that is destroyed.                                                      *)
(***************************************************************************)
EXTENDS Integers

CONSTANTS
    Vols,       \* volume IDs, never used twice
    Servers,    \* instance IDs
    Callers,    \* concurrent callers of the provider
    NoServer,   \* the volume has no attachments
    NoVolume,   \* there is no such volume
    GIB,        \* bytes in a GiB (small here)
    MaxSize     \* bound: size of a volume in GiB

ASSUME VolumesConstants ==
    /\ GIB \in Nat \ {0} /\ MaxSize \in Nat \ {0}
    /\ NoServer \notin Servers /\ NoVolume \notin Servers /\ NoServer # NoVolume

VARIABLES
    vol,    \* the cloud's volumes
    alive,  \* the servers that exist
    call,   \* what each caller is doing: its request, its copy of the attachment, its verdict
    held    \* history: the attachments of the volume since the call began

vars == <<vol, alive, call, held>>

Requests ==
    [op : {"attach", "detach", "query"}, vol : Vols, server : Servers]
      \cup [op : {"delete"}, vol : Vols]
      \cup [op : {"expand"}, vol : Vols, bytes : 1 .. GIB * MaxSize]
      \cup [op : {"create"}, vol : Vols, size : 1 .. MaxSize]

-----------------------------------------------------------------------------
(* What the handlers decide on the copy v of the volume: a verdict, or to  *)
(* go on to another request.                                               *)

Verdict(kind) == [step |-> "done", verdict |-> kind]
GoOn(step) == [step |-> step, verdict |-> "none"]
Error == Verdict("error")

(* Fault: the size is rounded down.                                        *)
RoundDownSize(bytes, unit) == bytes \div unit

RoundUpSize(bytes, unit) == bytes \div unit + (IF bytes % unit > 0 THEN 1 ELSE 0)

(* Fault: any attachment is taken for the one asked for.                   *)
AttachAnywhere(req, v) == IF v.server # NoServer THEN Verdict("ok") ELSE GoOn("act")

AttachDisk(req, v) ==
    IF v.server = NoServer THEN GoOn("act")
    ELSE IF v.server = req.server THEN Verdict("ok")
    ELSE GoOn("lookup")

DetachDisk(req, v) ==
    IF v.status = "available" THEN Verdict("ok")
    ELSE IF v.status # "in-use" \/ v.server # req.server THEN Error
    ELSE GoOn("act")

ExpandVolume(req, v) ==
    IF v.size >= RoundUpSize(req.bytes, GIB) THEN Verdict("ok")
    ELSE IF v.status # "available" THEN Error
    ELSE GoOn("act")

DeleteVolume(req, v) == IF v.server # NoServer THEN Verdict("inUse") ELSE GoOn("act")

DiskIsAttached(req, v) == Verdict(IF v.server = req.server THEN "attached" ELSE "detached")

(* The volume just created is read back.                                   *)
CreatedVolume(req, v) == IF v.status = "available" THEN Verdict("ok") ELSE Error

Handler(req, v) ==
    CASE req.op = "attach" -> AttachDisk(req, v)
      [] req.op = "detach" -> DetachDisk(req, v)
      [] req.op = "expand" -> ExpandVolume(req, v)
      [] req.op = "delete" -> DeleteVolume(req, v)
      [] req.op = "query"  -> DiskIsAttached(req, v)
      [] req.op = "create" -> CreatedVolume(req, v)

(* The volume cannot be read, whatever the reason: getVolume does not keep *)
(* the cause of its error, so DisksAreAttached takes every volume it could *)
(* not read for attached.                                                  *)
Unread(req) == IF req.op = "query" THEN Verdict("attached") ELSE Error

-----------------------------------------------------------------------------
(* The cloud.                                                              *)

Present(v) == v.status \in {"available", "in-use", "error"}
Attachment(v) == IF Present(v) THEN v.server ELSE NoVolume
InCall(c, v) == call[c].step # "idle" /\ call[c].req.vol = v

(* A change of volumes, seen by every call under way.                      *)
Change(new) ==
    /\ vol' = new
    /\ held' = [c \in Callers |->
         IF call[c].step = "idle" THEN {} ELSE held[c] \cup {Attachment(new[call[c].req.vol])}]

Accepts(req) ==
    CASE req.op = "attach" -> vol[req.vol].status = "available" /\ req.server \in alive
      [] req.op = "detach" -> vol[req.vol].status = "in-use" /\ vol[req.vol].server = req.server
      [] req.op = "expand" -> vol[req.vol].status = "available"
                                /\ RoundUpSize(req.bytes, GIB) > vol[req.vol].size
      [] req.op = "delete" -> Present(vol[req.vol]) /\ vol[req.vol].server = NoServer
      [] req.op = "create" -> vol[req.vol].status = "unborn"

(* A created volume may be in error from the start.                        *)
Outcomes(req) ==
    LET v == vol[req.vol]
    IN  CASE req.op = "attach" -> {[v EXCEPT !.status = "in-use", !.server = req.server]}
          [] req.op = "detach" -> {[v EXCEPT !.status = "available", !.server = NoServer]}
          [] req.op = "expand" -> {[v EXCEPT !.size = RoundUpSize(req.bytes, GIB)]}
          [] req.op = "delete" -> {[v EXCEPT !.status = "deleted"]}
          [] req.op = "create" -> {[v EXCEPT !.status = s, !.size = req.size] : s \in {"available", "error"}}

Break(v) ==
    /\ vol[v].status = "available"
    /\ Change([vol EXCEPT ![v].status = "error"])
    /\ UNCHANGED <<alive, call>>

Destroy(s) ==
    /\ s \in alive
    /\ alive' = alive \ {s}
    /\ Change([v \in Vols |-> IF vol[v].server = s
                              THEN [vol[v] EXCEPT !.status = "available", !.server = NoServer]
                              ELSE vol[v]])
    /\ UNCHANGED call

-----------------------------------------------------------------------------
(* The callers.                                                            *)

Init ==
    /\ vol = [v \in Vols |-> [status |-> "unborn", server |-> NoServer, size |-> 0]]
    /\ alive = Servers
    /\ call = [c \in Callers |-> [step |-> "idle"]]
    /\ held = [c \in Callers |-> {}]

Proceed(c, d) ==
    call' = [call EXCEPT ![c].step = d.step, ![c].verdict = d.verdict]

(* A volume is asked for by its ID once it has been created.               *)
Start(c, req) ==
    /\ call[c].step = "idle"
    /\ (req.op = "create") = (vol[req.vol].status = "unborn")
    /\ \A d \in Callers : ~(req.op = "create" /\ InCall(d, req.vol))
    /\ call' = [call EXCEPT ![c] = [step |-> IF req.op = "create" THEN "act" ELSE "get",
                                    req |-> req, copy |-> NoServer,
                                    verdict |-> "none", failed |-> FALSE]]
    /\ held' = [held EXCEPT ![c] = {Attachment(vol[req.vol])}]
    /\ UNCHANGED <<vol, alive>>

(* getVolume, and what the handler makes of it.                            *)
getVolume(c) ==
    /\ call[c].step = "get"
    /\ LET req == call[c].req
           d == IF Present(vol[req.vol]) THEN Handler(req, vol[req.vol]) ELSE Unread(req)
       IN  call' = [call EXCEPT ![c].step = d.step, ![c].verdict = d.verdict,
                                ![c].copy = Attachment(vol[req.vol])]
    /\ UNCHANGED <<vol, alive, held>>

(* AttachDisk names the node that had the volume, unless it is gone by now.*)
GetNodeNameByID(c) ==
    /\ call[c].step = "lookup"
    /\ Proceed(c, IF call[c].copy \in alive THEN Verdict("dangling") ELSE Error)
    /\ UNCHANGED <<vol, alive, held>>

(* The second request.  A create goes on to read the volume back.          *)
Reached(c) == IF call[c].req.op = "create" THEN GoOn("get") ELSE Verdict("ok")

Act(c) ==
    /\ call[c].step = "act" /\ Accepts(call[c].req)
    /\ \E new \in Outcomes(call[c].req) : Change([vol EXCEPT ![call[c].req.vol] = new])
    /\ Proceed(c, Reached(c))
    /\ UNCHANGED alive

ActRejected(c) ==
    /\ call[c].step = "act" /\ ~Accepts(call[c].req)
    /\ Proceed(c, Error)
    /\ UNCHANGED <<vol, alive, held>>

(* The request was carried out, but the caller is told that it failed.     *)
ActLost(c) ==
    /\ call[c].step = "act" /\ Accepts(call[c].req)
    /\ \E new \in Outcomes(call[c].req) : Change([vol EXCEPT ![call[c].req.vol] = new])
    /\ Proceed(c, Error)
    /\ UNCHANGED alive

RequestFails(c) ==
    /\ call[c].step \in {"get", "lookup", "act"}
    /\ LET d == IF call[c].step = "get" THEN Unread(call[c].req) ELSE Error
       IN  call' = [call EXCEPT ![c].step = "done", ![c].verdict = d.verdict, ![c].failed = TRUE]
    /\ UNCHANGED <<vol, alive, held>>

Return(c) ==
    /\ call[c].step = "done"
    /\ call' = [call EXCEPT ![c] = [step |-> "idle"]]
    /\ held' = [held EXCEPT ![c] = {}]
    /\ UNCHANGED <<vol, alive>>

Next ==
    \/ \E c \in Callers, req \in Requests : Start(c, req)
    \/ \E c \in Callers : getVolume(c) \/ GetNodeNameByID(c) \/ Act(c) \/ ActRejected(c)
                            \/ ActLost(c) \/ RequestFails(c) \/ Return(c)
    \/ \E v \in Vols : Break(v)
    \/ \E s \in Servers : Destroy(s)

Spec == Init /\ [][Next]_vars

-----------------------------------------------------------------------------
(* Properties.                                                             *)

Told(c, op, kind) == call[c].step = "done" /\ call[c].req.op = op /\ call[c].verdict = kind

(* Whatever the other callers do meanwhile, what a call returns was true   *)
(* at some moment of the call: after a successful AttachDisk the volume    *)
(* has been on that instance, a successful DetachDisk has seen it off that *)
(* instance, a successful DeleteVolume leaves no volume, and "in use" and  *)
(* "attached to a different instance" are about an attachment that was     *)
(* there.  DisksAreAttached is right too, except that a volume it could    *)
(* not read, or that is gone, is reported attached.                        *)
VerdictsTrue ==
    \A c \in Callers :
        /\ Told(c, "attach", "ok") => call[c].req.server \in held[c]
        /\ Told(c, "attach", "dangling") => (held[c] \cap Servers) \ {call[c].req.server} # {}
        /\ Told(c, "detach", "ok") => held[c] \ {call[c].req.server} # {}
        /\ Told(c, "delete", "ok") => vol[call[c].req.vol].status = "deleted"
        /\ Told(c, "delete", "inUse") => held[c] \cap Servers # {}
        /\ Told(c, "query", "detached") => held[c] \ {call[c].req.server} # {}
        /\ Told(c, "query", "attached") =>
             call[c].failed \/ held[c] \cap {call[c].req.server, NoVolume} # {}

(* After a successful ExpandVolume the volume has room for the bytes that  *)
(* were asked for, also when another call has extended it meanwhile.       *)
ExpandedEnough ==
    \A c \in Callers :
        Told(c, "expand", "ok") => vol[call[c].req.vol].size * GIB >= call[c].req.bytes

=============================================================================
