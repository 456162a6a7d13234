CONSTANTS
    n1 = n1
    n2 = n2
    n3 = n3
    a1 = a1
    a2 = a2
    s1 = s1
    sec1 = sec1
    sec2 = sec2
    f1 = f1
    f2 = f2
    Nodes = {n1, n2}
    Addrs = {a1, a2}
    NoAddr = NoAddr
    InternalIP <- MCInternalIP
    ExternalIP <- MCExternalIP
    PortNums = {80, 81}
    NodePorts = {0, 1, 2}
    Secrets = {sec1, sec2}
    NoSecret = NoSecret
    Timeouts = {10, 20}
    Unset = Unset
    Malformed = Malformed
    ApiTimeout = 10
    Subnets = {s1}
    NoSubnet = NoSubnet
    UseOctavia = TRUE
    FipAddrs = {}
    Vip = Vip
    NoListener = NoListener
    NoPool = NoPool
    MayBreak = FALSE
    MayLose = FALSE
    Specs <- MCServeSpecs
    Edits <- MCServeEdits
    Eligible = {n2}
    NoPort = NoPort
    NoKey = NoKey
SPECIFICATION Spec
INVARIANTS SettledServed MembersServed NoOrphanPool TeardownOrder
PROPERTIES WantedKept RepeatHarmless
