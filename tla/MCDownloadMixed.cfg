SPECIFICATION Spec
CONSTANTS
    long = long
    short = short
    NoFile = NoFile
    TorrentFile <- Files
    SizeOf <- Sizes
    MaxAttempts = 2
    MaxCleanups = 2
    MaxPosts = 2
    MaxVersions = 1
    MaxRestarts = 0
INVARIANT StagedBytesAreTheFiles
