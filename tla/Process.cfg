SPECIFICATION FairSpec
CONSTANTS
    MaxFaults = 4
CHECK_DEADLOCK FALSE
INVARIANTS TypeOK ServingIsComplete
PROPERTIES EventuallyServes SignalIsObeyed
