CONSTANTS
    None = None
    NaN = NaN
    Misshapen = Misshapen
    Text = Text
    One = 60
    Underflow = 2
    ReasonCodes = {"SEVERE_WEATHER", "NO_DAYLIGHT", "FLAT_SEA", "COLD_WATER"}
    Loads <- MCLoads
    Responses <- MCResponses
    Recordings <- MCRecordings
    Bindings <- MCBindings
    Horizons = {2, 16, 17}
    Now = 23
    Profile <- MCProfile
SPECIFICATION Spec
CHECK_DEADLOCK FALSE
INVARIANTS
    SourceNeverThrows
