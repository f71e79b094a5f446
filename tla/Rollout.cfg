\* Two updates of any kind, two launches, each by its own miner.
SPECIFICATION Spec
CONSTANTS
    m1 = m1
    m2 = m2
    i1 = i1
    i2 = i2
    i3 = i3
    u1 = u1
    u2 = u2
    v0 = v0
    v1 = v1
    v2 = v2
    Miners = {m1, m2}
    Launches = {i1, i2}
    Hotkey <- MCHotkey
    Updates = {u1, u2}
    NewVersion <- MCNewVersion
    FirstVersion = v0
    Target = 2
    NoTarget = NoTarget
    NoRow = NoRow
INVARIANTS
    TypeOK
    RowNamesVersion
PROPERTIES
    CurrentKeptUnless
CHECK_DEADLOCK FALSE
