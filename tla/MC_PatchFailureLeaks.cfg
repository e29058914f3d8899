CONSTANTS
    BackoffLimit = 1
    MaxStreamErrors = 0
    MaxResyncs = 0
    ApiFaults = {"patch"}
    BareImagePull = FALSE
    MaxHcAttempts = 1
    MaxHttpCalls = 1
SPECIFICATION Spec
PROPERTIES
    PodEventuallyDeleted
