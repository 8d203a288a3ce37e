CONSTANTS
    Threads = {t1, t2}
    OS = "windows"
    Keys = {"A", "Shift", "Command"}
    Buttons = {"Left", "Back"}
    PartialClick = TRUE
SPECIFICATION Spec
INVARIANT HostViewMatchesOS
