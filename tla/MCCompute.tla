------------------------------ MODULE MCCompute ------------------------------
(* Instances of ContainerInstance, with the virtual machines, for TLC.     *)
EXTENDS ContainerInstance, TLC

CONSTANTS c1, c2, v1, v2, s1, s2, s3, g1, i1, k1, k2, n1, n2

MCGroupOf == (v1 :> g1 @@ v2 :> g1 @@ i1 :> g1)
MCHostOf == (s1 :> v1 @@ s2 :> v1 @@ s3 :> v2)
MCPortsOf == (s1 :> {1} @@ s2 :> {0, 1} @@ s3 :> {1})
MCNames == {v1, v2, s1, s2, s3, n1, n2}
MCTags == 0 .. 3
MCRgOf == (k1 :> g1 @@ k2 :> g1)
MCContainerOf == (k1 :> n1 @@ k2 :> n2)

Nobody == [clients |-> {}, deployers |-> {}, services |-> {}, docker |-> {TRUE}, serialised |-> TRUE,
           unstartable |-> FALSE, creates |-> 0, principals |-> 0, exits |-> 0, restarts |-> 0, puts |-> 0]

(* One client and everything that can go wrong around it.                  *)
OneClient == {[Nobody EXCEPT !.clients = {c}, !.services = {s1, s2, s3}, !.creates = 2, !.exits = 1] : c \in Clients}
Restarts == {[Nobody EXCEPT !.clients = {c}, !.services = {s1}, !.docker = BOOLEAN, !.creates = 2, !.principals = 1,
                            !.restarts = 1, !.unstartable = TRUE] : c \in Clients}
(* Two clients: of VMs and services; of identities and tokens.             *)
TwoClients == {[Nobody EXCEPT !.clients = Clients, !.services = {s1, s3}, !.creates = 2]}
Attested == {[Nobody EXCEPT !.clients = Clients, !.docker = {FALSE}, !.creates = 1, !.principals = 2]}
(* Container groups, next to one client's VM.                              *)
Deployers == {[Nobody EXCEPT !.clients = {c}, !.deployers = Clients, !.puts = 2] : c \in Clients}
Deployer == {[Nobody EXCEPT !.clients = {c}, !.deployers = {c}, !.docker = BOOLEAN, !.puts = 3, !.restarts = 1] : c \in Clients}
Together == {[Nobody EXCEPT !.clients = {c}, !.deployers = Clients \ {c}, !.services = {s1}, !.creates = 1,
                            !.puts = 2] : c \in Clients}
(* Two clients who do not wait for each other.                             *)
Overlapping == {[Nobody EXCEPT !.clients = Clients, !.serialised = FALSE, !.creates = 1]}

AllCasts == OneClient \cup Restarts \cup TwoClients \cup Attested \cup Deployers \cup Deployer \cup Together \cup Overlapping
Symmetry == Permutations(Clients)
=============================================================================
