\* One call of co_setstacksize.
SPECIFICATION StackSpec
CONSTANTS
    Tasks = {t1}
    Page = 2
    Default = 4
    Sizes = {7}
INVARIANT SizeIsSet
