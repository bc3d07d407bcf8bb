\* The code has none of these properties; leave one of them in.
SPECIFICATION Spec
CONSTANTS
    Thieves = {s1}
    Tasks = {t1, t2, t3}
    Junk = Junk
    InitCap = 2
    MaxIndex = 5
INVARIANT NoTaskLost
\* INVARIANT OnlyTasksTaken
\* INVARIANT NoFreedRead
