CONSTANTS
    c1 = c1
    c2 = c2
    Calendar = {c1, c2}
    Omitted = Omitted
    Interval = 1
    RetryCap = 3
    StaleAfter = 2
    MaxAhead = 1
    Skews <- MCSkews
    MaxTransit = 1
    MaxRequests = 2
    MaxFailures = 2
    Recovery = 6
SPECIFICATION Spec
INVARIANTS
    TypeOK
    AvailableIsRecent
    RevokedStaysHidden
    RemindersRecover
    CalendarsRecover
PROPERTIES
    ReadErrorHidesNothing
    NoOlderReading
SYMMETRY CalendarSymmetry
