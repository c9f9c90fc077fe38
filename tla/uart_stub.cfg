SPECIFICATION Spec
CONSTANTS
    x = x
    y = y
    Message <- Messages
    NULL = NULL
    UpBanner = UpBanner
    DownBanner = DownBanner
    Timestamp = Timestamp
    LineEnd = LineEnd
    MaxPrinted = 4
INVARIANTS
    TrafficIsFramed
PROPERTIES
    DownIsReported
    SentIsOut
    
