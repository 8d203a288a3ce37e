CONSTANTS
    Targets = {"windows", "macos"}
    AsciiInputs <- MCAsciiInputs
SPECIFICATION Spec
INVARIANT KeyTablesAgree
