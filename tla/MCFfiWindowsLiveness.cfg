CONSTANTS
    Threads = {t1}
    Ptrs = {p1}
    NULL = NULL
    OS = "windows"
    MaxEpoch = 0
    UnicodeInputs = {65, 1114112}
    AsciiInputs = {31, 33, 65}
    KeyInputs = {"A", "Break"}
    CCharInputs <- MCCCharInputs
SPECIFICATION FairSpec
PROPERTY EventualHandle
