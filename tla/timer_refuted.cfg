\* The code has none of these properties; leave one of them in.
SPECIFICATION Spec
CONSTANTS
    Timers = {t1, t2}
    Delays <- UpTo18
    Near = 4
    Slots = 2
    Levels = 2
    MaxEntries = 1
    MaxJiffies = 24
INVARIANT OnTime
\* INVARIANT StoppedNeverFires
\* INVARIANT FreedWereStopped
CONSTRAINT Second
CHECK_DEADLOCK FALSE
