SPECIFICATION Spec
CONSTANTS
    Registry = {r1, r2}
    Config = {c1, c2}
    Decisions = {d1, d2}
    Invalid = invalid
    Policy = {v1, v2}
    Counts = {production, other}
    Production = production
    seed = seed
    reviewed = reviewed
    Pack = {seed, reviewed}
    Plain = {seed}
    None = none
    Proc = {p1}
    PackOrder <- Order
    MaxCommands = 2
    MaxEdits = 1
    MaxStops = 0
INVARIANT RebuildRepairs
CHECK_DEADLOCK FALSE
