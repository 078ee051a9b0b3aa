SPECIFICATION Spec
CONSTANTS
    e1 = e1
    e2 = e2
    e3 = e3
    old = old
    new = new
    Execs = {e1, e2, e3}
    BatchExecs = {e3}
    Tokens = {old, new}
    NoToken = NoToken
    None = None
    Faults = TRUE
SYMMETRY Symmetry
INVARIANTS
    ConnectionShared
    ProbeShared
CHECK_DEADLOCK FALSE
