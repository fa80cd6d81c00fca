\* Two runs of any kind and of any two users, no signals: what the lock does give.
CONSTANTS
    r1 = r1
    r2 = r2
    Runs = {r1, r2}
    root = root
    ann = ann
    bob = bob
    Users = {root, ann, bob}
    Root = root
    None = None
    Options = {"install", "clean", "download", "source", "other"}
    Signals = {}
SPECIFICATION FairSpec
INVARIANTS TypeOK DownloadsOwnList DeclineIsFinal
PROPERTIES OnlyHolderTouchesList IsSession
CHECK_DEADLOCK FALSE
