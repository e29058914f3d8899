CONSTANTS
    CtrFaults = {"import", "tag", "login", "push", "rmi"}
    TarballImages = {0, 1}
    MaxRemoveAttempts = 3
SPECIFICATION Spec
PROPERTIES
    NamespaceEventuallyDestroyed
