SPECIFICATION FairSpec
CONSTANTS
    Events = {trade, bad}
    NoEvent = none
    Malformed = {bad}
    Intents = {inApp, discord}
    Workers = {w1, w2}
    Tokens <- MCTokens
    BatchSize = 2
    MaxAttempts = 2
    MaxFaults = 2
    MaxRequeues = 1
INVARIANTS
    TypeOK
    OneOwner
    RoutedOnce
    DeadLetterJustified
PROPERTIES
    ImplementsAtLeastOnce
    EventsFinish
CHECK_DEADLOCK FALSE
