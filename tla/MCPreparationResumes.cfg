CONSTANTS
    Hash = {h1, h2}
    TorBox = torbox
    RealDebrid = realdebrid
    Undefined = undefined
    MaxConcurrentTotal = 2
    MaxConcurrentPerProvider = 2
    MaxAttempts = 2
    MaxRows = 3
    MaxCrashes = 1
SPECIFICATION Spec
PROPERTY ResumesPolling
