CONSTANTS
    n1 = n1
    n2 = n2
    i1 = i1
    i2 = i2
    i3 = i3
    ip1 = ip1
    ip2 = ip2
    ip3 = ip3
    ip6 = ip6
    cg = cg
    Names = {n1, n2}
    Cluster = {n1}
    Ids = {i1, i2, i3}
    NoProvider = NoProvider
    BadProvider = BadProvider
    NoNode = NoNode
    NameOf <- MCNameOf
    Flavored = {i1, i3}
    HostName <- MCHosts
    NoHost = NoHost
    LastNetwork = 3
    PublicNetworkName = 3
    InternalNetworkName = 2
    IPv6SupportDisabled = TRUE
    Addrs = {ip1, ip2, ip3, ip6, cg}
    Shared = {cg}
    IPv6 = {ip6}
    Interfaces <- MCInterfaces
    Plugs <- MCPlugs
    MaxPorts = 2
    Registrations = {NoProvider, BadProvider}
SPECIFICATION FairSpec
CHECK_DEADLOCK FALSE
INVARIANTS TypeOK AddressesRight OwnInstance
PROPERTIES RemovedOnlyWhenGone EventuallyCurrent EventuallyTainted NewNodeRemoved
