\* Two texts, three user actions that reach a setter, every timing of the
\* page, the timers, the flush and the daemon.
CONSTANTS
    blank = blank
    host = host
    Text = {blank, host}
    Blank = blank
    MaxTimers = 4
    MaxEdits = 3
SPECIFICATION FairSpec
INVARIANTS TypeOK StaleIsPending SameMeansSame
PROPERTIES DaemonCatchesUp
