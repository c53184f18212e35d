SPECIFICATION FairSpec
CONSTANTS
    f = f
    Feeds = {f}
    MaxOpen = 5
    MaxAttempts = 2
    MaxJobs = 2
    MaxBoots = 2
INVARIANTS
    HandedWithUrl
    SecretEndsWithRequest
PROPERTIES
    LostOnlyByRestart
    EndsFolded
CHECK_DEADLOCK FALSE
