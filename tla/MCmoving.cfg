CONSTANTS
    sA = sA
    sB = sB
    sC = sC
    net1 = net1
    f1 = f1
    f2 = f2
    n1 = n1
    n2 = n2
    n3 = n3
    p1 = p1
    p2 = p2
    Subnets = {sA, sB, sC}
    Nets = {net1}
    FloatingNets = {f1, f2}
    Empty = Empty
    Unset = Unset
    Classes <- MCClasses
    ExternalNets = {f2}
    Nodes = {n1, n2}
    SubnetOf <- MCSubnetOf
    NodePorts = {p1, p2}
    NoVip = NoVip
    NoOptions = NoOptions
    Configs <- MCBareConfig
    Services <- MCPortServices
    Edits <- MCPortEdits
SPECIFICATION Spec
INVARIANTS RulesAdmitLoadBalancer
