SPECIFICATION Spec
CONSTANTS
    BufLen = 16
    BufStarts = {3}
    HDR = 2
    ALIGN = 2
    SizeMax = 31
    Requests = {1, 4, 6, 31}
    Verify = {"alloc", "free"}
INVARIANTS HeapSound NothingLost
PROPERTIES MisuseIsCaught CrashOnlyWhenFull IsAllocator
CHECK_DEADLOCK FALSE
