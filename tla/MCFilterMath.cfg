CONSTANTS
    WordHalf = 8
    SecondMs = 3
    Fails = Fails
    NoSpan = NoSpan
    Unit = 5
    Epsilon = 1
    Times <- AllTimes
    Frequencies <- AllFrequencies
    Settings <- AllSettings
    Coordinates <- WireCoordinates
    Widths = {1, 2, 3, 7}
    Errors <- RoundingErrors
SPECIFICATION MathSpec
INVARIANTS
    TicksAreExact
    TimeoutIsExact
    BlendIsShown
    SubregionFits
CHECK_DEADLOCK FALSE
