CONSTANTS
    BackoffLimit = 1
    MaxStreamErrors = 2
    MaxResyncs = 1
    ApiFaults = {}
    BareImagePull = FALSE
    MaxHcAttempts = 1
    MaxHttpCalls = 2
SPECIFICATION Spec
INVARIANTS
    TypeOK
    WaitReportsFirstVerdict
    WaitMemoised
    GcSignalOrder
    NoOrphanWhenDaemonsDone
