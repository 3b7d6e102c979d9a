SPECIFICATION FairSpec
CONSTANTS
    Drains = {d1, d2}
    Clients <- BothClients
    MaxPublications = 2
    BatchSize = 2
    MaxFaults = 1
INVARIANTS
    TypeOK
    DeliveredIsAccepted
    ClaimedOnce
PROPERTIES
    EveryPublicationSettled
CHECK_DEADLOCK FALSE
