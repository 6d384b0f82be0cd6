SPECIFICATION CaptureFairSpec
CONSTANTS
    a = a
    b = b
    Letters = {a, b}
    Blank = Blank
    LineEnd = LineEnd
    Junk = Junk
    LineCapacity = 2
    StreamLimit = 5
INVARIANTS
    CaptureTypeOK
PROPERTIES
    CaptureDelivers
