\* Stacks of two pages, and tasks that ask for less or more.
SPECIFICATION StackSpec
CONSTANTS
    Tasks = {t1, t2, t3, t4}
    Page = 2
    Default = 4
    Sizes = {3, 4, 7}
SYMMETRY Symmetry
INVARIANTS StacksApart FreedWhereAllocated
