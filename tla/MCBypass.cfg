\* A quote that was paid is prepared again, or its payment asked for again under its own key, and
\* denied because it is paid; every call is answered.
CONSTANTS
    good = good
    vague = vague
    wrong = wrong
    Catalogued = {good, vague, wrong}
    Entry <- MCEntry
    Ghost = Ghost
    Budget = 2
    Wanted = 1
    MaxQuantity = 1
    Lines <- MCLines
    Selections <- MCSelections
    NoSelection <- MCNoSelection
    Priors <- MCPriors
    MaxQuotes = 2
    MaxPayments = 2
SPECIFICATION MeasurementSpec
CONSTRAINT EveryCallAnswered
INVARIANT BypassIsUnreachable
CHECK_DEADLOCK FALSE
