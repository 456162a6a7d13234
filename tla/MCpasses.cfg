CONSTANTS
    n1 = n1
    n2 = n2
    a1 = a1
    a2 = a2
    s1 = s1
    Nodes = {n1, n2}
    Addrs = {a1, a2}
    NoAddr = NoAddr
    InternalIP <- MCInternalIP
    ExternalIP <- MCExternalIP
    PortNums = {80, 81}
    NodePorts = {1}
    Secrets = {}
    NoSecret = NoSecret
    Timeouts = {10, 20}
    Unset = Unset
    Malformed = Malformed
    ApiTimeout = 10
    Subnets = {s1}
    NoSubnet = NoSubnet
    UseOctavia = TRUE
    FipAddrs = {}
    Vip = Vip
    NoListener = NoListener
    NoPool = NoPool
    MayBreak = TRUE
    MayLose = FALSE
    Specs <- MCSpecs
    ThePort <- MCPort
    Steps = 2
    MaxChanges = 2
SPECIFICATION FairSpec
INVARIANTS TypeOK WrongOnlyIfStale
PROPERTIES KeepsContract PassesBounded PassesEnd EventuallyQuiet OneLeft
CHECK_DEADLOCK FALSE
