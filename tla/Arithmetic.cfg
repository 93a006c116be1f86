\* Every pair of delays; counters that wrap at 4 and start near it, two calls;
\* every body of up to four bytes, of which three are read.
SPECIFICATION Arithmetic
CONSTANTS
    Second = 3
    Delays = {0, 1, 2, 3, 7}
    MaxFailures = 5
    Width = 4
    Starts = {0, 2}
    Collectors = {"old", "new"}
    MaxTicks = 3
    MaxReadings = 4
    MaxResponseBody = 3
    Bodies <- MCBodies
INVARIANTS DelayInBounds Exponential PanicsOnlyOnZero UsageIsTrue ResponseFaithful
CHECK_DEADLOCK FALSE
