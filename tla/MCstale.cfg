CONSTANTS
    c1 = c1
    c2 = c2
    v1 = v1
    OtherId = OtherId
    Callers = {c1, c2}
    Volumes = {v1, v2}
    Slots = {a1}
    Free = Free
    HostId = HostId
    FileIds = {OtherId}
    NoId = NoId
    BlankId = BlankId
    TornId = TornId
    NoMetadata = NoMetadata
    NoSlot = NoSlot
    Hosts <- MCHosts
    Boots <- MCBoots
    Requests <- MCRequests
    Steps = 2
    MaxEvents = 3
SPECIFICATION Spec
INVARIANTS DevicePathRight
