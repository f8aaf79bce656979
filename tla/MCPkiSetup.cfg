CONSTANTS
    operators = operators
    ClusterScope = ClusterScope
    Callers = {c1, c2}
    Administrators = {c1}
    Namespaces = {operators}
    IssuedLeaves <- MCIssuedLeaves
    MaxRetries = 2
    MaxRoots = 2
SPECIFICATION Spec
INVARIANTS
    TypeOK
    SignedByTheRoot
    CleanedStaysClean
PROPERTIES
    ReportedIsTrusted
    EveryCommandEnds
