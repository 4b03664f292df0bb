SPECIFICATION Spec
CONSTANTS
    c1 = c1
    c2 = c2
    k1 = k1
    k2 = k2
    k3 = k3
    g1 = g1
    g2 = g2
    Clients = {c1, c2}
    Clusters = {k1, k2, k3}
    Groups = {g1, g2}
    GroupOf <- MCGroupOf
    Ports = {1, 2, 3}
    Casts <- Stale
    MaxFaults = 1
    MaxResets = 1
    MaxStops = 2
CHECK_DEADLOCK FALSE
INVARIANTS
    SurvivorKeepsItsPort
