\* One timer with any delay, or two with early ones that have the same entry in turn.
SPECIFICATION Spec
CONSTANTS
    Timers = {t1, t2}
    Delays <- UpTo34
    Near = 4
    Slots = 2
    Levels = 3
    MaxEntries = 1
    MaxJiffies = 44
INVARIANTS NeverEarly OneTurnLate InOneSlot CanceledNeverFires
SYMMETRY Alike
CONSTRAINT Second
CHECK_DEADLOCK FALSE
