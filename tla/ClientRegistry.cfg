CONSTANTS
    x = x
    y = y
    s1 = s1
    None = None
    Ids <- TwoIds
    Secrets <- OneSecret
    Seed <- SeedNone
    Logins <- OneLogin
    MaxVersion = 2
    MaxNotify = 2
    MaxFailures = 2
SPECIFICATION FairSpec
INVARIANTS TypeOK NoLostUpdate InvalidNeedsSnapshot
PROPERTIES NeverStepsBack EventuallyInStep
