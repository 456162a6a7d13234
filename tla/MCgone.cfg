CONSTANTS
    n1 = n1
    n2 = n2
    i1 = i1
    i2 = i2
    i3 = i3
    ip1 = ip1
    ip2 = ip2
    ip3 = ip3
    ip6 = ip6
    cg = cg
    Names = {n1}
    Cluster = {n1}
    Ids = {i1}
    NoProvider = NoProvider
    BadProvider = BadProvider
    NoNode = NoNode
    NameOf <- MCNameOf
    Flavored = {i1}
    HostName <- MCNoHosts
    NoHost = NoHost
    LastNetwork = 1
    PublicNetworkName = 0
    InternalNetworkName = 0
    IPv6SupportDisabled = FALSE
    Addrs = {ip1, ip2, ip3, ip6, cg}
    Shared = {cg}
    IPv6 = {ip6}
    Interfaces = {}
    Plugs = {}
    MaxPorts = 1
    Registrations = {NoProvider}
SPECIFICATION FairSpec
CHECK_DEADLOCK FALSE
PROPERTIES GoneNodeRemoved
