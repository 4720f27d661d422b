SPECIFICATION ReadingSpec
CONSTANTS
    r1 = r1
    r2 = r2
    Readers = {r1}
    Cap = 2
    TailMax = 3
    MaxLines = 4
PROPERTY StreamsEnd
CHECK_DEADLOCK FALSE
