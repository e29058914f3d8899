CONSTANTS
    BackoffLimit = 1
    MaxStreamErrors = 0
    MaxResyncs = 0
    ApiFaults = {}
    BareImagePull = TRUE
    MaxHcAttempts = 1
    MaxHttpCalls = 2
SPECIFICATION Spec
PROPERTIES
    WaitReturns
    ManagerEventuallyReaped
    LeaseRefinement
    PodEventuallyDeleted
    RefreshReturns
