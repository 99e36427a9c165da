SPECIFICATION FairSpec
CONSTANTS
    long = long
    short = short
    NoFile = NoFile
    TorrentFile <- Files
    SizeOf <- Sizes
    MaxAttempts = 2
    MaxCleanups = 1
    MaxPosts = 2
    MaxVersions = 2
    MaxRestarts = 1
INVARIANTS StagedExact CleanupAuthorized
PROPERTIES TransferSettles IntentSettles CleanupConverges
