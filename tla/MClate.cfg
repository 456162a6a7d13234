CONSTANTS
    n1 = n1
    n2 = n2
    n3 = n3
    a1 = a1
    a2 = a2
    s1 = s1
    sec1 = sec1
    sec2 = sec2
    f1 = f1
    f2 = f2
    Nodes = {n1, n2}
    Addrs = {a1, a2}
    NoAddr = NoAddr
    InternalIP <- MCInternalIP
    ExternalIP <- MCExternalIP
    PortNums = {80}
    NodePorts = {1}
    Secrets = {sec1, sec2}
    NoSecret = NoSecret
    Timeouts = {10, 20}
    Unset = Unset
    Malformed = Malformed
    ApiTimeout = Unset
    Subnets = {s1}
    NoSubnet = NoSubnet
    UseOctavia = TRUE
    FipAddrs = {}
    Vip = Vip
    NoListener = NoListener
    NoPool = NoPool
    MayBreak = FALSE
    MayLose = FALSE
    Specs <- MCNodeSpecs
    Edits <- AllEdits
    Eligible = {}
    NoPort = NoPort
    NoKey = NoKey
SPECIFICATION Spec
INVARIANTS SettledMembers
