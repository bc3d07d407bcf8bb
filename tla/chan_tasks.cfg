\* Suspensions are not bounded: m_suspendid wraps.
SPECIFICATION ChanSpec
CONSTANTS
    Procs = {p1, p2}
    Main = p1
    Ext = {}
    Tasks = {t1, t2, t3}
    None = None
    GlobalEvery = 2
    MaxSuspends = 4
    Wrap = 4
    BufLens = {0, 1}
    MaxSends = 1
INVARIANTS EntriesCurrent LockHeldRunning
PROPERTIES ImplementsChannel WokenResumes ReaderAndItemMeet QueuedRunsAlone
CONSTRAINTS UntilAstray WithoutSpare
CHECK_DEADLOCK FALSE
