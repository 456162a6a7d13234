CONSTANTS
    Vols = {v1}
    Servers = {s1, s2}
    Callers = {c1, c2}
    NoServer = NoServer
    NoVolume = NoVolume
    GIB = 2
    MaxSize = 3
SPECIFICATION Spec
INVARIANTS VerdictsTrue ExpandedEnough
