CONSTANTS
    BackoffLimit = 1
    MaxStreamErrors = 0
    MaxResyncs = 1
    ApiFaults = {}
    BareImagePull = FALSE
    MaxHcAttempts = 1
    MaxHttpCalls = 1
SPECIFICATION Spec
PROPERTIES
    NoWatcherDeleteAfterOk
