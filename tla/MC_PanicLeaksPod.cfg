CONSTANTS
    BackoffLimit = 1
    MaxStreamErrors = 0
    MaxResyncs = 0
    ApiFaults = {}
    BareImagePull = TRUE
    MaxHcAttempts = 1
    MaxHttpCalls = 1
SPECIFICATION Spec
INVARIANTS
    NoOrphanWhenDaemonsDone
