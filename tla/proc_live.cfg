\* Three tasks that suspend without bound.  With QueuedRuns for QueuedRunsAlone
\* TLC finds two of them that wake each other for ever.
SPECIFICATION FairSpec
CONSTANTS
    Procs = {p1}
    Main = p1
    Ext = {}
    Tasks = {t1, t2, t3}
    None = None
    GlobalEvery = 2
    MaxSuspends = 4
    Wrap = 4
PROPERTY QueuedRunsAlone
\* PROPERTY QueuedRuns
CHECK_DEADLOCK FALSE
