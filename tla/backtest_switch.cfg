CONSTANTS
    x1 = x1
    x2 = x2
    Instruments = {x1, x2}
    OrderBooks <- Books
    Quotes <- SomeQuotes
    RateNum = 1
    RateDen = 2
    LastTime = 5
    MaxDelay = 1
    MaxEvents = 5
    None = None
SPECIFICATION Spec
PROPERTIES
    SwitchedPositionStartsAtFillPrice
\* A run ends when its events are processed.
CHECK_DEADLOCK FALSE
