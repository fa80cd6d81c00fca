\* One lminstall and two upgrade-apps, which share the log.
CONSTANTS
    i1 = i1
    u1 = u1
    u2 = u2
    Installs = {i1}
    Upgrades = {u1, u2}
    Nobody = nobody
SPECIFICATION FairSpec
INVARIANTS TypeOK LocksAccounted
PROPERTIES DebKept StatusHonest EveryRunEnds
