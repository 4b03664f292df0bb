\* Every family of requests: one client, two clients and a reset, a process
\* that restarts, PostgreSQL.
SPECIFICATION Spec
CONSTANTS
    Clients = {c1, c2}
    Casts <- ServedCasts
    Longer <- MCLonger
    Alike <- MCAlike
    Objects <- MCObjects
INVARIANTS
    TypeOK
    DeletionReachesTheSubtree
    NoOrphans
    GetAnswersItsChildren
    AddressesDiffer
    DeploymentRecordsItsOutcome
PROPERTIES
    OnlyTheSubtreeGoes
    AddressesStay
    ImplementsResourceTree
SYMMETRY Symmetry
