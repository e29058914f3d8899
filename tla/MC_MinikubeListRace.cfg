CONSTANTS
    c1 = c1
    c2 = c2
    c3 = c3
    t1 = t1
    t2 = t2
    x1 = x1
    x2 = x2
    NoImage = NoImage
    ErrBody = ErrBody
    Backends = {"minikube"}
    Clients = {c1, c2}
    Tags = {t1, t2}
    Contents = {x1}
    RegistryFaults = FALSE
SPECIFICATION Spec
SYMMETRY Symmetry
INVARIANTS
    ListedImagesReal
