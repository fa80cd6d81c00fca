\* Two runs of any kind, with INT/TERM and SIGKILL at any point.
CONSTANTS
    r1 = r1
    r2 = r2
    Runs = {r1, r2}
    root = root
    ann = ann
    Users = {root, ann}
    Root = root
    None = None
    Options = {"install", "clean", "download", "source", "other"}
    Signals = {"INT", "KILL"}
SPECIFICATION FairSpec
INVARIANTS LockAccounted NoDebris
PROPERTIES EveryRunEnds
CHECK_DEADLOCK FALSE
