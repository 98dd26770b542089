CONSTANTS
    MaxClients = 2
    MaxEvents = 3
    Count = 2
SPECIFICATION Spec
INVARIANT ReachesAllConnected
