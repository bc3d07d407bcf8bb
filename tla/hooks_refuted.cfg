\* CallsAsAsked fails for a program with one of the habits dup, typed, clear, getset, or
\* early and early_accept together; the other properties fail for every program.
\* Leave one of them in.
SPECIFICATION FairSpec
CONSTANTS
    Numbers = {f1, f2}
    Files = {h1, h2}
    Polls = 3
    Habits = {"dup"}
    Closed = Closed
INVARIANT CallsAsAsked
\* INVARIANT ConnectTells
\* PROPERTY TimedReadEnds
CHECK_DEADLOCK FALSE
