SPECIFICATION FairSpec
CONSTANTS
    long = long
    short = short
    NoFile = NoFile
    TorrentFile <- Files
    SizeOf <- Sizes
    MaxAttempts = 2
    MaxCleanups = 2
    MaxPosts = 2
    MaxVersions = 1
    MaxRestarts = 2
PROPERTIES IntentSettles CleanupConverges
