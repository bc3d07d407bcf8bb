\* One processor and an external waker.  The code has none of these properties;
\* leave one of them in.
SPECIFICATION FairSpec
CONSTANTS
    Procs = {p1}
    Main = p1
    Ext = {x1}
    Tasks = {t1, t2}
    None = None
    GlobalEvery = 2
    MaxSuspends = 1
    Wrap = 16
PROPERTY WokenRuns
\* INVARIANT WaitsForSomebody
\* PROPERTY GlobalRuns
\* PROPERTY StartReturns
CHECK_DEADLOCK FALSE
