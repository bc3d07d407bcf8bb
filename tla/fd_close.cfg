SPECIFICATION Spec
CONSTANTS
    Tasks = {t1}
    Modes = {"private"}
    Fds = {f1}
    MaxContexts = 1
    None = None
INVARIANT NoDeletedContext
CHECK_DEADLOCK FALSE
