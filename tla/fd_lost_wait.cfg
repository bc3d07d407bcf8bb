SPECIFICATION Spec
CONSTANTS
    Tasks = {t1}
    Modes = {"private"}
    Fds = {f1}
    MaxContexts = 1
    None = None
INVARIANT SleeperRegistered
CHECK_DEADLOCK FALSE
