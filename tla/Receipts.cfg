SPECIFICATION Spec
CONSTANTS
    Receipts = {r1, r2, r3}
    Hourly = hourly
    Handlers = {h1}
    HangUps = 2
    MaxBatch = 3
INVARIANTS
    NoReceiptTwice
    ReportMatchesFile
    KeptUnlessCutShort
CHECK_DEADLOCK FALSE
