CONSTANTS
    MaxClients = 3
    MaxEvents = 3
    Count = 2
SPECIFICATION FairSpec
INVARIANTS
    TypeOK
    InOrderOnce
    MissedByDepartures
PROPERTIES
    EventsConsumed
    ShutdownEnds
