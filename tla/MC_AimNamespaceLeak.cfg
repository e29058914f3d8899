CONSTANTS
    CtrFaults = {}
    TarballImages = {2}
    MaxRemoveAttempts = 2
SPECIFICATION Spec
PROPERTIES
    NamespaceEventuallyDestroyed
