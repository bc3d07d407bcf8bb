\* Two thieves; an array of 2 grows at the second task unless it was taken
\* first, and the indices go round the array it becomes.
SPECIFICATION Spec
CONSTANTS
    Thieves = {s1, s2}
    Tasks = {t1, t2, t3}
    Junk = Junk
    InitCap = 2
    MaxIndex = 5
CONSTRAINT UntilFreedRead
SYMMETRY Symmetry
INVARIANTS TypeOK TakenOnce NeverHeldAndQueued ClaimIsSafe NoJunkTaken BottomFollowsTop
PROPERTY ImplementsDeque
