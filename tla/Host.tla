-------------------------------- MODULE Host --------------------------------
(***************************************************************************)
(* What the provider learns from the host it runs on: who the host is      *)
(* (metadata.Get and its process-wide cache, readInstanceID), and where an *)
(* attached volume shows up (the three GetDevicePath).                     *)
(*                                                                         *)
(* Callers run side by side, and neither the cache nor the directory the   *)
(* config drive is mounted on is locked.  Volumes come and go, the metadata*)
(* service goes down and comes back, and the config drive, whose content   *)
(* is that of the boot, may be absent or unreadable for a while.  A path   *)
(* is modelled by the slot (bus and address) it leads to.                  *)
(***************************************************************************)
EXTENDS Naturals, SequencesExt

CONSTANTS
    Callers,    \* goroutines that ask
    Volumes,    \* volumes that can be attached to this host
    Slots,      \* bus addresses
    Free,       \* nothing is attached there
    HostId,     \* the UUID of this host
    FileIds,    \* the IDs cloud-init may have left in its instance-id file
    NoId,       \* no file, or an error instead of an ID
    BlankId,    \* the empty string (in the file "iid-datasource-none", too)
    TornId,     \* an ID read while another caller is storing one: neither of the two
    NoMetadata, \* the nil *Metadata
    NoSlot,     \* no path
    Hosts,      \* hosts: the file, serials set by the hypervisor, temporary directory in use
    Boots,      \* the devices a host may have been booted with
    Requests,   \* bound: who asks what: caller, kind of call, volume (or Free)
    Steps,      \* attempts to find a device
    MaxEvents   \* bound: changes of the host and its surroundings

Sources == {"configDrive", "metadataService"}

(* A search order as it may be written: elements, trimmed.                 *)
Orders == BoundedSeq(Sources \cup {"other"}, 3)

Devices == [Slots -> Volumes \cup {Free}]

(* Who asks: for the host itself, or for the path of a volume.             *)
Kinds == {"identity", "instanceID", "path", "freshPath", "mountPath"}

ASSUME HostConstants ==
    /\ Steps \in Nat \ {0} /\ MaxEvents \in Nat
    /\ Free \notin Volumes /\ NoSlot \notin Slots
    /\ NoMetadata \notin Devices
    /\ HostId # NoId /\ BlankId \notin {HostId, NoId} /\ TornId \notin {HostId, NoId, BlankId}
    /\ NoId \notin FileIds /\ BlankId \notin FileIds /\ TornId \notin FileIds
    /\ Hosts \subseteq [file : FileIds \cup {BlankId, NoId}, serials : BOOLEAN, tempUsed : BOOLEAN]
    /\ Boots \subseteq Devices
    /\ Requests \subseteq Callers \X Kinds \X (Volumes \cup {Free})
    /\ \A r \in Requests : r[3] = Free <=> r[2] \in {"identity", "instanceID"}

VARIABLES
    host,     \* fixed at the start: one of Hosts
    order,    \* fixed at the start: the configured search order
    attached, \* what the cloud has attached, by slot
    visible,  \* the slots whose device the kernel shows
    service,  \* the metadata service answers with valid metadata
    drive,    \* the config drive: see DriveStates
    boot,     \* the devices the config drive lists
    tempDir,  \* os.TempDir() exists
    mounted,  \* the config drive is mounted on it
    cache,    \* metadataCache: the devices listed, or NoMetadata
    localId,  \* ec.localInstanceID
    call,     \* what each caller is doing
    steady,   \* history: the sources each caller could have used all along
    blanked,  \* history: the callers during whose call a stored ID was lost
    events    \* changes so far

envVars == <<attached, visible, service, drive, events>>
fileVars == <<tempDir, mounted>>
vars == <<host, order, boot, envVars, fileVars, cache, localId, call, steady, blanked>>

(* Mounting fails, or the drive has no valid meta_data.json.               *)
DriveStates == {"absent", "unmountable", "invalid", "ready"}

(* A caller's locals; `was' is history: the slots that the volume has had  *)
(* during the call.                                                        *)
Idle == [ step |-> "idle", kind |-> "none", vol |-> Free, left |-> << >>, md |-> NoMetadata,
          slot |-> NoSlot, id |-> NoId, tries |-> 0, was |-> {} ]

-----------------------------------------------------------------------------
(* ReadConfig and checkEdgecenterOpts: which orders a provider starts with.*)

ReadConfig(o) == IF o = << >> THEN <<"configDrive", "metadataService">> ELSE o

checkMetadataSearchOrder(o) == Len(o) \in 1 .. 2 /\ ToSet(o) \subseteq Sources

Init ==
    /\ host \in Hosts /\ boot \in Boots
    /\ order \in {o \in {ReadConfig(r) : r \in Orders} : checkMetadataSearchOrder(o)}
    /\ attached = boot /\ visible = {s \in Slots : boot[s] # Free}
    /\ service = FALSE /\ drive = "absent" /\ events = 0
    /\ tempDir = TRUE /\ mounted = FALSE
    /\ cache = NoMetadata /\ localId = BlankId
    /\ call = [c \in Callers |-> Idle]
    /\ steady = [c \in Callers |-> {}] /\ blanked = {}

-----------------------------------------------------------------------------
(* The host and its surroundings.                                          *)

Event == events < MaxEvents /\ events' = events + 1

(* History: a call remembers every slot its volume has had.                *)
Remember == call' = [c \in Callers |->
    IF call[c].vol = Free THEN call[c]
    ELSE [call[c] EXCEPT !.was = @ \cup {s \in Slots : attached'[s] = call[c].vol}]]

Attach(v, s) ==
    /\ Event
    /\ \A t \in Slots : attached[t] # v
    /\ attached[s] = Free
    /\ attached' = [attached EXCEPT ![s] = v]
    /\ Remember
    /\ UNCHANGED <<host, order, boot, visible, service, drive, fileVars, cache, localId>>

Detach(s) ==
    /\ Event
    /\ attached[s] # Free
    /\ attached' = [attached EXCEPT ![s] = Free] /\ visible' = visible \ {s}
    /\ Remember
    /\ UNCHANGED <<host, order, boot, service, drive, fileVars, cache, localId>>

(* The kernel notices a new device by itself, or not.                      *)
Notice(s) ==
    /\ attached[s] # Free /\ s \notin visible
    /\ visible' = visible \cup {s}
    /\ UNCHANGED <<host, order, boot, attached, service, drive, events, fileVars, cache, localId, call>>

ServiceChanges ==
    /\ Event
    /\ service' = ~service
    /\ UNCHANGED <<host, order, boot, attached, visible, drive, fileVars, cache, localId, call>>

DriveChanges(d) ==
    /\ Event
    /\ d # drive /\ drive' = d
    /\ UNCHANGED <<host, order, boot, attached, visible, service, fileVars, cache, localId, call>>

-----------------------------------------------------------------------------
(* Calls.                                                                  *)

Update(c, new) == call' = [call EXCEPT ![c] = new]
Looks == UNCHANGED <<host, order, boot, envVars, fileVars, cache, localId>>

(* The call returns: a slot, an ID, or (both missing) an error.            *)
Answer(c, slot, id) ==
    Update(c, [Idle EXCEPT !.step = "done", !.kind = call[c].kind, !.vol = call[c].vol,
                           !.was = call[c].was, !.slot = slot, !.id = id])
Error(c) == Answer(c, NoSlot, NoId)

(* Fault: one attempt too many.                                            *)
NextTryLate(c) ==
    IF call[c].tries < Steps
    THEN Update(c, [call[c] EXCEPT !.step = "serial", !.tries = @ + 1, !.md = NoMetadata])
    ELSE Error(c)

(* One more attempt of a device search, or the end of it.                  *)
NextTry(c) ==
    IF call[c].tries + 1 < Steps
    THEN Update(c, [call[c] EXCEPT !.step = "serial", !.tries = @ + 1, !.md = NoMetadata])
    ELSE Error(c)

FirstStep(kind) ==
    CASE kind = "identity" -> "get"          \* GetZone, CurrentNodeName
      [] kind = "instanceID" -> "local"      \* Edgecenter.InstanceID
      [] kind = "freshPath" -> "fetch"       \* metadata.GetDevicePath
      [] OTHER -> "serial"                   \* Edgecenter.GetDevicePath, Mount.GetDevicePath

Call(c, kind, v) ==
    /\ call[c].step = "idle"
    /\ Update(c, [Idle EXCEPT !.step = FirstStep(kind), !.kind = kind, !.vol = v,
                              !.was = IF v = Free THEN {} ELSE {s \in Slots : attached[s] = v}])
    /\ Looks

Return(c) == call[c].step = "done" /\ Update(c, Idle) /\ Looks

-----------------------------------------------------------------------------
(* metadata.Get.  The device search hands it a version where the search    *)
(* order is expected.                                                      *)

Goto(c, step) == Update(c, [call[c] EXCEPT !.step = step])
At(c, step) == call[c].step = step
Asks(c, source) == At(c, "source") /\ call[c].left # << >> /\ Head(call[c].left) = source
NextSource(c) == Update(c, [call[c] EXCEPT !.left = Tail(@)])

SearchOrder(c) == IF call[c].kind = "path" THEN <<"other">> ELSE order

(* Fault: the cache is not looked at.                                      *)
GetUncached(c) ==
    /\ At(c, "get")
    /\ Update(c, [call[c] EXCEPT !.step = "source", !.left = SearchOrder(c)])
    /\ Looks

Get(c) ==
    /\ At(c, "get")
    /\ Update(c, IF cache # NoMetadata THEN [call[c] EXCEPT !.step = "got"]
                 ELSE [call[c] EXCEPT !.step = "source", !.left = SearchOrder(c)])
    /\ Looks

InvalidSource(c) == Asks(c, "other") /\ NextSource(c) /\ Looks

(* getFromMetadataService.                                                 *)
ServiceAnswers(c) ==
    /\ Asks(c, "metadataService") /\ service
    /\ Update(c, [call[c] EXCEPT !.step = "store", !.md = attached])
    /\ Looks

(* Fault: the first source that fails is the last one asked.               *)
GiveUp(c) ==
    /\ Asks(c, "metadataService") /\ ~service
    /\ Update(c, [call[c] EXCEPT !.left = << >>])
    /\ Looks

ServiceFails(c) == Asks(c, "metadataService") /\ ~service /\ NextSource(c) /\ Looks

(* getFromConfigDrive: mount, read, and the deferred unmount and removal   *)
(* of the directory, which only succeeds on an empty one.                  *)
DriveMissing(c) == Asks(c, "configDrive") /\ drive = "absent" /\ NextSource(c) /\ Looks

CanMount == drive \in {"invalid", "ready"} /\ tempDir /\ ~mounted

DriveMount(c) ==
    /\ Asks(c, "configDrive") /\ CanMount
    /\ mounted' = TRUE /\ Goto(c, "read")
    /\ UNCHANGED <<host, order, boot, envVars, tempDir, cache, localId>>

RemoveDir == tempDir' = (tempDir /\ (mounted \/ host.tempUsed))

(* Fault: the unmount is deferred before the mount is checked.             *)
DriveMountUndone(c) ==
    /\ Asks(c, "configDrive") /\ drive # "absent" /\ ~CanMount
    /\ mounted' = FALSE /\ RemoveDir /\ NextSource(c)
    /\ UNCHANGED <<host, order, boot, envVars, cache, localId>>

DriveMountFails(c) ==
    /\ Asks(c, "configDrive") /\ drive # "absent" /\ ~CanMount
    /\ RemoveDir /\ NextSource(c)
    /\ UNCHANGED <<host, order, boot, envVars, mounted, cache, localId>>

DriveRead(c) ==
    /\ At(c, "read")
    /\ Update(c, [call[c] EXCEPT !.step = "unmount", !.md = IF drive = "ready" THEN boot ELSE NoMetadata])
    /\ Looks

(* The error of an unmount is ignored.                                     *)
DriveUnmount(c) ==
    /\ At(c, "unmount")
    /\ mounted' = FALSE /\ Goto(c, "remove")
    /\ UNCHANGED <<host, order, boot, envVars, tempDir, cache, localId>>

DriveUnmountFails(c) ==
    /\ At(c, "unmount") /\ Event
    /\ Goto(c, "remove")
    /\ UNCHANGED <<host, order, boot, attached, visible, service, drive, fileVars, cache, localId>>

DriveRemove(c) ==
    /\ At(c, "remove")
    /\ RemoveDir
    /\ IF call[c].md # NoMetadata THEN Goto(c, "store")
       ELSE Update(c, [call[c] EXCEPT !.step = "source", !.left = Tail(@)])
    /\ UNCHANGED <<host, order, boot, envVars, mounted, cache, localId>>

(* Fault: the answer is not kept.                                          *)
StoreNothing(c) ==
    /\ At(c, "store")
    /\ Update(c, [call[c] EXCEPT !.step = "got", !.md = NoMetadata, !.left = << >>])
    /\ Looks

Store(c) ==
    /\ At(c, "store")
    /\ cache' = call[c].md
    /\ Update(c, [call[c] EXCEPT !.step = "got", !.md = NoMetadata, !.left = << >>])
    /\ UNCHANGED <<host, order, boot, envVars, fileVars, localId>>

GetFails(c) ==
    /\ At(c, "source") /\ call[c].left = << >>
    /\ CASE call[c].kind = "identity" -> Error(c)
         [] call[c].kind = "instanceID" -> Goto(c, "file")
         [] call[c].kind = "path" -> NextTry(c)
    /\ Looks

-----------------------------------------------------------------------------
(* What the callers do with it.                                            *)

(* Get returns the cache as it is by then.                                 *)
Got(c) ==
    /\ At(c, "got")
    /\ CASE call[c].kind = "identity" -> Answer(c, NoSlot, HostId) /\ UNCHANGED localId
         [] call[c].kind = "instanceID" -> Goto(c, "answer") /\ localId' = HostId
         [] call[c].kind = "path" ->
              Update(c, [call[c] EXCEPT !.step = "find", !.md = cache]) /\ UNCHANGED localId
    /\ UNCHANGED <<host, order, boot, envVars, fileVars, cache>>

(* Edgecenter.InstanceID, which also returns what is stored by then.  The  *)
(* string is not locked: while another caller stores one, the length of    *)
(* the one may be read with the text of the other.                         *)
LocalId(c) == At(c, "local") /\ Goto(c, IF localId # BlankId THEN "answer" ELSE "get") /\ Looks

Stores(d) ==
    CASE call[d].kind = "instanceID" /\ At(d, "got") -> HostId
      [] call[d].kind = "instanceID" /\ At(d, "file") -> host.file
      [] OTHER -> NoId

Torn(c) == \E d \in Callers \ {c} : Stores(d) \notin {NoId, localId}

AnswerId(c) ==
    /\ At(c, "answer")
    /\ \/ Answer(c, NoSlot, localId)
       \/ Torn(c) /\ Answer(c, NoSlot, TornId)
    /\ Looks

(* readInstanceID, without metadata: a blank file ends without an ID and   *)
(* without an error, and InstanceID stores that, over any ID that another  *)
(* caller has stored meanwhile.                                            *)
ReadFile(c) ==
    /\ At(c, "file")
    /\ IF host.file = NoId
       THEN Error(c) /\ UNCHANGED localId
       ELSE Goto(c, "answer") /\ localId' = host.file
    /\ UNCHANGED <<host, order, boot, envVars, fileVars, cache>>

-----------------------------------------------------------------------------
(* The device searches.                                                    *)

Shows(v) == {s \in visible : attached[s] = v}

BySerialID(c) ==
    /\ At(c, "serial")
    /\ host.serials /\ \E s \in Shows(call[c].vol) : Answer(c, s, NoId)
    /\ Looks

NotBySerialID(c) ==
    /\ At(c, "serial") /\ (host.serials => Shows(call[c].vol) = {})
    /\ Goto(c, IF call[c].kind = "path" THEN "get" ELSE "probe")
    /\ Looks

(* probeVolume rescans the buses; an error is logged and ignored.          *)
Probe(c) ==
    /\ At(c, "probe")
    /\ visible' \in {visible, {s \in Slots : attached[s] # Free}}
    /\ NextTry(c)
    /\ UNCHANGED <<host, order, boot, attached, service, drive, events, fileVars, cache, localId>>

(* Fault: the cache is preferred to the service.                           *)
FetchCached(c) ==
    /\ At(c, "fetch")
    /\ CASE cache # NoMetadata -> Update(c, [call[c] EXCEPT !.step = "find", !.md = cache])
         [] cache = NoMetadata /\ service -> Update(c, [call[c] EXCEPT !.step = "find", !.md = attached])
         [] OTHER -> Error(c)
    /\ Looks

(* metadata.GetDevicePath always asks the service.                         *)
Fetch(c) ==
    /\ At(c, "fetch")
    /\ IF service THEN Update(c, [call[c] EXCEPT !.step = "find", !.md = attached]) ELSE Error(c)
    /\ Looks

(* The device with the volume's serial, and the one path with its address. *)
Listed(c) == {s \in Slots : call[c].md[s] = call[c].vol}

FindPath(c) ==
    /\ At(c, "find")
    /\ \E s \in Listed(c) \cap visible : Answer(c, s, NoId)
    /\ Looks

NoPath(c) ==
    /\ At(c, "find") /\ Listed(c) \cap visible = {}
    /\ IF call[c].kind = "path" THEN NextTry(c) ELSE Error(c)
    /\ Looks

-----------------------------------------------------------------------------
CallerStep(c) ==
    \/ Get(c) \/ InvalidSource(c) \/ ServiceAnswers(c) \/ ServiceFails(c)
    \/ DriveMissing(c) \/ DriveMount(c) \/ DriveMountFails(c) \/ DriveRead(c)
    \/ DriveUnmount(c) \/ DriveRemove(c) \/ Store(c) \/ GetFails(c) \/ Got(c)
    \/ LocalId(c) \/ AnswerId(c) \/ ReadFile(c)
    \/ BySerialID(c) \/ NotBySerialID(c) \/ Probe(c) \/ Fetch(c) \/ FindPath(c) \/ NoPath(c)
    \/ Return(c)

Surroundings ==
    \/ \E s \in Slots : Detach(s) \/ Notice(s) \/ \E v \in Volumes : Attach(v, s)
    \/ ServiceChanges \/ \E d \in DriveStates : DriveChanges(d)
    \/ \E c \in Callers : DriveUnmountFails(c)

Calls == \E r \in Requests : Call(r[1], r[2], r[3])

(* What c could use: the drive too, unless someone else has it mounted.    *)
Usable(c) ==
    {x \in Sources : IF x = "metadataService" THEN service
                     ELSE drive = "ready" /\ tempDir /\ (mounted => call[c].step \in {"read", "unmount"})}

Watch ==
    /\ steady' = [c \in Callers |-> IF call'[c].step = "idle" \/ call'[c].vol # Free THEN {}
                                    ELSE IF call[c].step = "idle" THEN Usable(c)'
                                    ELSE steady[c] \cap Usable(c)']
    /\ blanked' = {c \in Callers : /\ call'[c].step # "idle"
                                   /\ c \in blanked \/ (localId # BlankId /\ localId' = BlankId)}

Next == ((\E c \in Callers : CallerStep(c)) \/ Calls \/ Surroundings) /\ Watch

Spec == Init /\ [][Next]_vars

FairSpec == Spec /\ \A c \in Callers : WF_vars(CallerStep(c) /\ Watch)

-----------------------------------------------------------------------------
(* Properties.                                                             *)

TypeOK ==
    /\ attached \in Devices /\ visible \subseteq Slots
    /\ cache \in Devices \cup {NoMetadata} /\ localId \in FileIds \cup {HostId, BlankId}
    /\ \A c \in Callers : call[c].slot \in Slots \cup {NoSlot} /\ call[c].tries < Steps

Answered(c, kinds) == call[c].step = "done" /\ call[c].kind \in kinds

(* A path that metadata.GetDevicePath or Mount.GetDevicePath returns led   *)
(* to the volume at some moment of the call, and so does one of            *)
(* Edgecenter.GetDevicePath as long as nobody has filled the cache.        *)
PathsRight ==
    \A c \in Callers :
        Answered(c, {"path", "freshPath", "mountPath"}) /\ call[c].slot # NoSlot =>
            \/ call[c].slot \in call[c].was
            \/ call[c].kind = "path" /\ cache # NoMetadata

(* A caller that reads the config drive has it mounted, although others    *)
(* mount and unmount on, and remove, the same directory                    *)
(* (getFromConfigDrive).                                                   *)
MountKept ==
    \A c \in Callers : call[c].step \in {"read", "unmount"} =>
        /\ mounted /\ tempDir
        /\ \A d \in Callers \ {c} : call[d].step \notin {"read", "unmount"}

(* Get fails, or InstanceID falls back on the file, only when every source *)
(* of the search order was out of reach at some moment of the call; for    *)
(* the config drive, because another caller had mounted it.  InstanceID    *)
(* returns an empty ID without an error only where the file is blank, and  *)
(* then for the same reason or because, during the call, another caller    *)
(* with that reason has overwritten the stored ID (InstanceID,             *)
(* readInstanceID).                                                        *)
OutOfReach(c) == steady[c] \cap ToSet(order) = {}
ErrorsJustified ==
    \A c \in Callers :
        /\ (Answered(c, {"identity", "instanceID"}) /\ call[c].id = NoId) \/ call[c].step = "file"
              => OutOfReach(c)
        /\ Answered(c, {"instanceID"}) /\ call[c].id = BlankId
              => host.file = BlankId /\ (OutOfReach(c) \/ c \in blanked)

(* The cache is filled at most once by each caller that found it empty:    *)
(* when all of those are done, it is final (Get, which does not lock).     *)
Final == cache # NoMetadata /\ \A c \in Callers :
           call[c].step \in {"source", "read", "unmount", "remove", "store"} => call[c].kind = "path"
CacheFinal == [][Final => Final' /\ cache' = cache]_vars

Available ==
    \/ "metadataService" \in ToSet(order) /\ service
    \/ /\ "configDrive" \in ToSet(order) /\ drive = "ready" /\ tempDir
       /\ mounted => \E c \in Callers : call[c].step \in {"read", "unmount"}

IdentityCall == \E r \in Requests : r[2] = "identity" /\ Call(r[1], r[2], r[3])

(* A source that stays within reach is found, if callers keep asking,      *)
(* whatever failed before: no failure is cached.  The config drive is out  *)
(* of reach for good once a caller has removed the directory, which an     *)
(* attempt does that fails on an empty one.                                *)
EventuallyIdentified ==
    <>[]Available /\ []<><<IdentityCall>>_vars => <>(cache # NoMetadata)

-----------------------------------------------------------------------------
(* What the repository's documentation says, where the code differs.       *)

(* volumes.go:418: "We're avoiding using cached metadata (or the           *)
(* configdrive), relying on the metadata service", and so (volumes.go:458) *)
(* "GetDevicePath returns the path of an attached block storage volume,    *)
(* specified by its id".                                                   *)
DevicePathRight ==
    \A c \in Callers :
        Answered(c, {"path"}) /\ call[c].slot # NoSlot => call[c].slot \in call[c].was
=============================================================================
