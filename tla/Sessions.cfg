SPECIFICATION FairSpec
CONSTANTS
    a = a
    b = b
    IP = {a, b}
    Window = 0
    MaxTail = 3
    MaxLines = 3
    Comes <- FirstA
    MaxTime = 2
    MaxFaults = 2
INVARIANTS TypeOK CountedOnce NothingSkipped ReportsWindow
PROPERTIES ReadInTheEnd
