\* Does deleting a resource group remove all child resources?
SPECIFICATION Spec
CONSTANTS
    Clients = {c1}
    Casts <- LeavingCasts
    Longer <- MCLonger
    Alike <- MCAlike
    Objects <- MCObjects
INVARIANTS
    NothingIsLeftOfAGroup
