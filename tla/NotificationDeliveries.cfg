SPECIFICATION FairSpec
CONSTANTS
    inApp = inApp
    email = email
    discord = discord
    bad = bad
    InApp = {inApp}
    Email = {email, bad}
    Discord = {discord}
    NoDelivery = none
    Invalid = {bad}
    Routes <- MCRoutes
    Mandatory = {email, bad}
    Workers = {w1, w2}
    Scans = {s1, s2}
    Tokens <- MCTokens
    BatchSize = 2
    MaxAttempts = 2
    DiscordMaxAttempts = 2
    MaxFaults = 2
    MaxRequeues = 1
INVARIANTS
    TypeOK
    EffectsOnce
    DeliveredWasDelivered
    RepeatsNeedFaults
    GivenUpJustified
PROPERTIES
    ClosedForGood
    DeliveriesFinish
CHECK_DEADLOCK FALSE
