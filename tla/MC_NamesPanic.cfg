CONSTANTS
    RunLengths = {53}
    TailLength = 1
SPECIFICATION Spec
INVARIANTS
    SubdomainValid
