\* One job, two miners, two configs and a request; one launch and two updates.
SPECIFICATION ConvergingSpec
CONSTANTS
    m1 = m1
    m2 = m2
    j1 = j1
    c1 = c1
    c2 = c2
    r1 = r1
    i1 = i1
    u1 = u1
    u2 = u2
    v0 = v0
    v1 = v1
    v2 = v2
    Miners = {m1, m2}
    Jobs = {j1}
    Configs = {c1, c2}
    Requests = {r1}
    RaceLimit = 3
    NoMiner = NoMiner
    NoConfig = NoConfig
    NoJob = NoJob
    NoTarget = NoTarget
    NoRow = NoRow
PROPERTIES
    EveryInstanceSettles
    FleetConverges
CHECK_DEADLOCK FALSE
