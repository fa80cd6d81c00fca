\* Root's run and a user's, no signals.
CONSTANTS
    r1 = r1
    r2 = r2
    Runs = {r1, r2}
    root = root
    ann = ann
    Users = {root, ann}
    Root = root
    None = None
    Options = {"download"}
    Signals = {}
SPECIFICATION FairSpec
PROPERTIES DiesOnFailure
CHECK_DEADLOCK FALSE
