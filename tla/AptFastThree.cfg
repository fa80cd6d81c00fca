\* Three runs, no signals.
CONSTANTS
    r1 = r1
    r2 = r2
    r3 = r3
    Runs = {r1, r2, r3}
    root = root
    Users = {root}
    Root = root
    None = None
    Options = {"install"}
    Signals = {}
SPECIFICATION Spec
INVARIANTS MutualExclusion
CHECK_DEADLOCK FALSE
