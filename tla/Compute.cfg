SPECIFICATION ComputeSpec
CONSTANTS
    c1 = c1
    c2 = c2
    v1 = v1
    v2 = v2
    s1 = s1
    s2 = s2
    s3 = s3
    g1 = g1
    i1 = i1
    k1 = k1
    k2 = k2
    n1 = n1
    n2 = n2
    Clients = {c1, c2}
    VMs = {v1, v2}
    Services = {s1, s2, s3}
    Groups = {g1}
    Identities = {i1}
    GroupOf <- MCGroupOf
    HostOf <- MCHostOf
    PortsOf <- MCPortsOf
    ContainerGroups = {k1, k2}
    RgOf <- MCRgOf
    ContainerOf <- MCContainerOf
    AciPorts = {0, 1}
    Ports = {1}
    Names <- MCNames
    Networks = {v1, v2}
    Tags <- MCTags
    Casts <- AllCasts
    MaxCreates = 2
    MaxPrincipals = 2
    MaxPuts = 3
INVARIANTS
    ComputeTypeOK
    RecordedVMWorks
    NothingLeftOver
    SecretsLeadHome
    SiblingsShareNoPort
    TokensNameLivingIdentities
    PutFindsTheNameFree
    GroupHasItsContainer
    OnlyResourceGroupsAbandon
PROPERTIES
    ImplementsMachines
    PrincipalsAreStable
SYMMETRY Symmetry
