\* Two runs, one of which may be interrupted.
CONSTANTS
    r1 = r1
    r2 = r2
    Runs = {r1, r2}
    root = root
    Users = {root}
    Root = root
    None = None
    Options = {"install"}
    Signals = {"INT"}
SPECIFICATION Spec
PROPERTIES OnlyHolderTouchesList
CHECK_DEADLOCK FALSE
