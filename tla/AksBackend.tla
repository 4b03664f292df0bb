------------------------------ MODULE AksBackend ------------------------------
(***************************************************************************)
(* internal/services/aks in real mode: one k3s container per cluster.      *)
(*                                                                         *)
(* A request is a goroutine that takes several steps, and other requests   *)
(* run between any two of them: the handlers read and write the store      *)
(* without holding anything, and only k3sBackend.Create holds the          *)
(* backend's mutex.  A container is known by its name, a hash of the       *)
(* cluster's subscription, group and name: whoever runs docker rm with     *)
(* that name removes whichever container has it at that moment.            *)
(*                                                                         *)
(* Docker may fail any command (a "fault"), the process may be killed at   *)
(* any moment or shut down by a signal, and starts again with the records  *)
(* of the last checkpoint (FileBackend) or, without persistence, none.     *)
(***************************************************************************)
EXTENDS Naturals

CONSTANTS Clients,      \* concurrent requests
          Clusters,     \* clusters, each in one resource group
          Groups,       \* resource groups
          GroupOf,      \* the resource group of a cluster
          Ports,        \* host ports the kernel may hand out
          Casts,        \* who takes part in a behaviour, and what may happen
          MaxFaults,    \* bound on the number of docker commands that fail
          MaxResets,    \* bound on the number of calls of the reset endpoint
          MaxStops      \* bound on the number of times the process ends

ASSUME GroupOfAssumption == GroupOf \in [Clusters -> Groups]
ASSUME ClientsAssumption == "free" \notin Clients
ASSUME PortsAssumption == Ports \subseteq Nat \ {0}
ASSUME DisjointAssumption == Clusters \cap Groups = {}
ASSUME BoundsAssumption == {MaxFaults, MaxResets, MaxStops} \subseteq Nat

(* A cast: the clients, the clusters they put, the host ports that are     *)
(* free, whether the store is a FileBackend, and bounds on the docker      *)
(* commands that fail, the calls of the reset endpoint and the times the   *)
(* process ends.                                                           *)
ASSUME CastsAssumption ==
    \A k \in Casts : /\ k.clients \subseteq Clients /\ k.clusters \subseteq Clusters
                     /\ k.ports \subseteq Ports /\ k.persistent \in BOOLEAN
                     /\ k.faults \in 0 .. MaxFaults /\ k.resets \in 0 .. MaxResets
                     /\ k.stops \in 0 .. MaxStops

VARIABLES cast,
          groups,     \* the resource groups that exist
          record,     \* the stored handle of a cluster: its host port, or NoRecord
          container,  \* the container with the cluster's name, as docker knows it
          mu,         \* the client in k3sBackend.Create, or "free"
          pc,         \* where each client is ("idle": no request)
          target,     \* the cluster or group its request is about
          held,       \* the port it allocated, or read from a record
          sweep,      \* the clusters whose containers it has still to remove
          disk,       \* the records in the state file
          phase,      \* the phase of the process
          doomed,     \* the clusters Shutdown has still to tear down
          faults, resets, stops

clientVars == <<mu, pc, target, held, sweep>>
bounds == <<faults, resets, stops>>
vars == <<cast, groups, record, container, clientVars, disk, phase, doomed, bounds>>

NoRecord == 0
NoContainer == [state |-> "none", port |-> 0]
Idle == "idle"
Points == {Idle, "create", "run", "wait", "store", "remove", "drop", "list", "sweep", "exec"}
Creating == {"run", "wait"}

TypeOK == /\ cast \in Casts
          /\ groups \subseteq Groups
          /\ record \in [Clusters -> Ports \cup {NoRecord}]
          /\ container \in [Clusters -> [state : {"none", "created", "booting", "ready"}, port : Ports \cup {0}]]
          /\ mu \in Clients \cup {"free"}
          /\ pc \in [Clients -> Points]
          /\ target \in [Clients -> Clusters \cup Groups \cup {"none"}]
          /\ held \in [Clients -> Ports \cup {0}]
          /\ sweep \in [Clients -> SUBSET Clusters]
          /\ disk \in [groups : SUBSET Groups, record : [Clusters -> Ports \cup {NoRecord}]]
          /\ phase \in {"up", "saved", "teardown", "draining", "down"}
          /\ doomed \in SUBSET Clusters
          /\ faults \in 0 .. MaxFaults
          /\ resets \in 0 .. MaxResets
          /\ stops \in 0 .. MaxStops

NoRequests == /\ mu = "free"
              /\ pc = [c \in Clients |-> Idle]
              /\ target = [c \in Clients |-> "none"]
              /\ held = [c \in Clients |-> 0]
              /\ sweep = [c \in Clients |-> {}]

Init == /\ cast \in Casts
        /\ groups = {}
        /\ record = [k \in Clusters |-> NoRecord]
        /\ container = [k \in Clusters |-> NoContainer]
        /\ NoRequests
        /\ disk = [groups |-> {}, record |-> [k \in Clusters |-> NoRecord]]
        /\ phase = "up"
        /\ doomed = {}
        /\ faults = 0 /\ resets = 0 /\ stops = 0

Alive == phase # "down"
Exists(k) == record[k] # NoRecord
Running(k) == container[k].state \in {"booting", "ready"}
Present(k) == container[k].state # "none"

(* The listeners accept requests until the servers shut down; a request    *)
(* that has begun goes on until the process is gone.                       *)
Accepting == phase \in {"up", "saved", "teardown"}

-----------------------------------------------------------------------------
(* docker                                                                  *)

Fault == /\ faults < cast.faults
         /\ faults' = faults + 1
         /\ UNCHANGED <<resets, stops>>

(* docker rm -f; every caller goes on whether it worked or not.            *)
Remove(k) == \/ /\ container' = [container EXCEPT ![k] = NoContainer]
                /\ UNCHANGED bounds
             \/ /\ Fault
                /\ Present(k)
                /\ UNCHANGED container

UsedPorts == {container[k].port : k \in {j \in Clusters : Running(j)}}

-----------------------------------------------------------------------------
(* Requests                                                                *)

At(c, here) == Alive /\ pc[c] = here
Goto(c, there) == pc' = [pc EXCEPT ![c] = there]

Begin(c, what, there) == /\ Accepting
                         /\ c \in cast.clients
                         /\ pc[c] = Idle
                         /\ target' = [target EXCEPT ![c] = what]
                         /\ Goto(c, there)

Reply(c) == /\ Goto(c, Idle)
            /\ target' = [target EXCEPT ![c] = "none"]
            /\ held' = [held EXCEPT ![c] = 0]
            /\ sweep' = [sweep EXCEPT ![c] = {}]

(* PUT of a resource group; a group that exists is updated.                *)
PutGroup(g) == /\ Accepting
               /\ \E k \in cast.clusters : GroupOf[k] = g
               /\ groups' = groups \cup {g}
               /\ UNCHANGED <<cast, record, container, clientVars, disk, phase, doomed, bounds>>

(* PUT of a cluster.  It does not look at the resource group.              *)
PutCluster(c, k) == /\ k \in cast.clusters
                    /\ Begin(c, k, "create")
                    /\ UNCHANGED <<cast, groups, record, container, mu, held, sweep, disk, phase, doomed, bounds>>

(* Mutant: Create does not take the mutex.                                 *)
BugCreateUnlocked(c) == /\ At(c, "create")
                        /\ mu' = c
                        /\ Remove(target[c])
                        /\ Goto(c, "run")
                        /\ UNCHANGED <<cast, groups, record, target, held, sweep, disk, phase, doomed>>

(* k3sBackend.Create: Lock, then docker rm -f of a former container.       *)
CreateBegins(c) == /\ At(c, "create")
                   /\ mu = "free"
                   /\ mu' = c
                   /\ Remove(target[c])
                   /\ Goto(c, "run")
                   /\ UNCHANGED <<cast, groups, record, target, held, sweep, disk, phase, doomed>>

(* freePort and docker run, which refuses a name that is taken.            *)
CreateRuns(c) == /\ At(c, "run")
                 /\ ~Present(target[c])
                 /\ \E p \in cast.ports \ UsedPorts :
                      /\ container' = [container EXCEPT ![target[c]] = [state |-> "booting", port |-> p]]
                      /\ held' = [held EXCEPT ![c] = p]
                 /\ Goto(c, "wait")
                 /\ UNCHANGED <<cast, groups, record, mu, target, sweep, disk, phase, doomed, bounds>>

(* Mutant: no Unlock.                                                      *)
BugNoUnlock(c) == UNCHANGED mu

(* Create returns and its deferred Unlock runs.                            *)
Unlock(c) == mu' = "free"

(* freePort or docker run fails: the name is taken, no port is left, or    *)
(* something else went wrong, and then a container that never ran may be   *)
(* left.  The handler answers 500 and writes nothing.                      *)
CreateRunFails(c) ==
    /\ At(c, "run")
    /\ \/ Present(target[c]) /\ UNCHANGED <<container, bounds>>
       \/ ~Present(target[c]) /\ cast.ports \subseteq UsedPorts /\ UNCHANGED <<container, bounds>>
       \/ /\ Fault
          /\ ~Present(target[c])
          /\ container' \in {container, [container EXCEPT ![target[c]] = [state |-> "created", port |-> 0]]}
    /\ Unlock(c)
    /\ Reply(c)
    /\ UNCHANGED <<cast, groups, record, disk, phase, doomed>>

(* waitForK3s asks the container with this name until it is ready.         *)
CreateReady(c) == /\ At(c, "wait")
                  /\ Running(target[c])
                  /\ container' = [container EXCEPT ![target[c]].state = "ready"]
                  /\ Unlock(c)
                  /\ Goto(c, "store")
                  /\ UNCHANGED <<cast, groups, record, target, held, sweep, disk, phase, doomed, bounds>>

(* waitForK3s gives up: the container is gone, or did not become ready.    *)
(* What is left of it is removed.                                          *)
CreateTimesOut(c) ==
    /\ At(c, "wait")
    /\ \/ ~Running(target[c]) /\ UNCHANGED <<container, bounds>>
       \/ /\ Fault
          /\ Running(target[c])
          /\ container' = [container EXCEPT ![target[c]] = NoContainer]
    /\ Unlock(c)
    /\ Reply(c)
    /\ UNCHANGED <<cast, groups, record, disk, phase, doomed>>

(* Mutants: the handle holds the API server's port inside the container;   *)
(* the handle of an existing cluster is not replaced.                      *)
BugStoreGuestPort(c) == /\ At(c, "store")
                        /\ record' = [record EXCEPT ![target[c]] = 6443]
                        /\ Reply(c)
                        /\ UNCHANGED <<cast, groups, container, mu, disk, phase, doomed, bounds>>

BugKeepOldHandle(c) == /\ At(c, "store")
                       /\ record' = IF Exists(target[c]) THEN record
                                    ELSE [record EXCEPT ![target[c]] = held[c]]
                       /\ Reply(c)
                       /\ UNCHANGED <<cast, groups, container, mu, disk, phase, doomed, bounds>>

PutStores(c) == /\ At(c, "store")
                /\ record' = [record EXCEPT ![target[c]] = held[c]]
                /\ Reply(c)
                /\ UNCHANGED <<cast, groups, container, mu, disk, phase, doomed, bounds>>

(* DELETE of a cluster: read the record, docker rm, delete the record.     *)
DeleteCluster(c, k) == /\ Exists(k)
                       /\ Begin(c, k, "remove")
                       /\ UNCHANGED <<cast, groups, record, container, mu, held, sweep, disk, phase, doomed, bounds>>

DeleteRemoves(c) == /\ At(c, "remove")
                    /\ Remove(target[c])
                    /\ Goto(c, "drop")
                    /\ UNCHANGED <<cast, groups, record, mu, target, held, sweep, disk, phase, doomed>>

DeleteDrops(c) == /\ At(c, "drop")
                  /\ record' = [record EXCEPT ![target[c]] = NoRecord]
                  /\ Reply(c)
                  /\ UNCHANGED <<cast, groups, container, mu, disk, phase, doomed, bounds>>

(* DELETE of a resource group: the group's record goes first; then         *)
(* CleanupClustersInRG lists the clusters and removes their containers,    *)
(* and DeleteByPrefix removes their records.                               *)
DeleteGroup(c, g) == /\ g \in groups
                     /\ Begin(c, g, "list")
                     /\ groups' = groups \ {g}
                     /\ UNCHANGED <<cast, record, container, mu, held, sweep, disk, phase, doomed, bounds>>

(* Mutant: the records are gone before the containers are listed.          *)
BugCleanupTooLate(c) == /\ At(c, "list")
                        /\ record' = [k \in Clusters |-> IF GroupOf[k] = target[c] THEN NoRecord ELSE record[k]]
                        /\ sweep' = [sweep EXCEPT ![c] = {k \in Clusters : record'[k] # NoRecord /\ GroupOf[k] = target[c]}]
                        /\ Goto(c, "sweep")
                        /\ UNCHANGED <<cast, groups, container, mu, target, held, disk, phase, doomed, bounds>>

CleanupLists(c) == /\ At(c, "list")
                   /\ sweep' = [sweep EXCEPT ![c] = {k \in Clusters : Exists(k) /\ GroupOf[k] = target[c]}]
                   /\ Goto(c, "sweep")
                   /\ UNCHANGED <<cast, groups, record, container, mu, target, held, disk, phase, doomed, bounds>>

CleanupRemoves(c, k) == /\ At(c, "sweep")
                        /\ k \in sweep[c]
                        /\ Remove(k)
                        /\ sweep' = [sweep EXCEPT ![c] = @ \ {k}]
                        /\ UNCHANGED <<cast, groups, record, mu, pc, target, held, disk, phase, doomed>>

CascadeDrops(c) == /\ At(c, "sweep")
                   /\ sweep[c] = {}
                   /\ record' = [k \in Clusters |-> IF GroupOf[k] = target[c] THEN NoRecord ELSE record[k]]
                   /\ Reply(c)
                   /\ UNCHANGED <<cast, groups, container, mu, disk, phase, doomed, bounds>>

(* POST listClusterAdminCredential: read the handle, then docker exec.     *)
ListCredential(c, k) == /\ Exists(k)
                        /\ Begin(c, k, "exec")
                        /\ held' = [held EXCEPT ![c] = record[k]]
                        /\ UNCHANGED <<cast, groups, record, container, mu, sweep, disk, phase, doomed, bounds>>

(* The answer is a kubeconfig for the port in the handle, ...              *)
CredentialGiven(c) == /\ At(c, "exec")
                      /\ container[target[c]].state = "ready"
                      /\ Reply(c)
                      /\ UNCHANGED <<cast, groups, record, container, mu, disk, phase, doomed, bounds>>

(* ... or 500, "k3s container is unreachable".                             *)
CredentialFails(c) == /\ At(c, "exec")
                      /\ container[target[c]].state # "ready"
                      /\ Reply(c)
                      /\ UNCHANGED <<cast, groups, record, container, mu, disk, phase, doomed, bounds>>

(* POST /_miniblue/reset: the store is emptied, nothing else.  *)
Reset == /\ Accepting
         /\ resets < cast.resets
         /\ resets' = resets + 1
         /\ record' = [k \in Clusters |-> NoRecord]
         /\ groups' = {}
         /\ UNCHANGED <<cast, container, clientVars, disk, phase, doomed, faults, stops>>

RequestStep(c) == \/ CreateBegins(c) \/ CreateRuns(c) \/ CreateRunFails(c)
                  \/ CreateReady(c) \/ CreateTimesOut(c) \/ PutStores(c)
                  \/ DeleteRemoves(c) \/ DeleteDrops(c)
                  \/ CleanupLists(c) \/ (\E k \in Clusters : CleanupRemoves(c, k)) \/ CascadeDrops(c)
                  \/ CredentialGiven(c) \/ CredentialFails(c)

NewRequest(c) == \/ \E k \in Clusters : PutCluster(c, k) \/ DeleteCluster(c, k) \/ ListCredential(c, k)
                 \/ \E g \in Groups : DeleteGroup(c, g)

-----------------------------------------------------------------------------
(* The process                                                             *)

Checkpoint == [groups |-> groups, record |-> record]

AutoSave == /\ Alive
            /\ cast.persistent
            /\ disk' = Checkpoint
            /\ UNCHANGED <<cast, groups, record, container, clientVars, phase, doomed, bounds>>

(* The signal: main saves, and only then tears the clusters down.          *)
Signal == /\ phase = "up"
          /\ stops < cast.stops
          /\ disk' = IF cast.persistent THEN Checkpoint ELSE disk
          /\ phase' = "saved"
          /\ UNCHANGED <<cast, groups, record, container, clientVars, doomed, bounds>>

ShutdownLists == /\ phase = "saved"
                 /\ doomed' = {k \in Clusters : Exists(k)}
                 /\ phase' = "teardown"
                 /\ UNCHANGED <<cast, groups, record, container, clientVars, disk, bounds>>

ShutdownRemoves(k) == /\ phase = "teardown"
                      /\ k \in doomed
                      /\ Remove(k)
                      /\ doomed' = doomed \ {k}
                      /\ UNCHANGED <<cast, groups, record, clientVars, disk, phase>>

(* Shutdown returns: every goroutine it started is done, or, a fault, its  *)
(* context timed out.  httpServer.Shutdown then takes no new requests.     *)
ShutdownReturns == /\ phase = "teardown"
                   /\ \/ doomed = {} /\ UNCHANGED bounds
                      \/ doomed # {} /\ Fault
                   /\ phase' = "draining"
                   /\ UNCHANGED <<cast, groups, record, container, clientVars, disk, doomed>>

(* The process is gone, with whatever its goroutines had in hand.  Docker  *)
(* containers and the state file stay.                                     *)
Gone == /\ stops < cast.stops
        /\ stops' = stops + 1
        /\ phase' = "down"
        /\ doomed' = {}
        /\ mu' = "free"
        /\ pc' = [c \in Clients |-> Idle]
        /\ target' = [c \in Clients |-> "none"]
        /\ held' = [c \in Clients |-> 0]
        /\ sweep' = [c \in Clients |-> {}]
        /\ UNCHANGED <<cast, groups, record, container, disk, resets>>

(* httpServer.Shutdown waits for the requests in progress, but, a fault,   *)
(* not longer than its context allows.                                     *)
Exit == /\ phase = "draining"
        /\ \/ (\A c \in Clients : pc[c] = Idle) /\ UNCHANGED faults
           \/ (\E c \in Clients : pc[c] # Idle) /\ faults < cast.faults /\ faults' = faults + 1
        /\ Gone

Kill == Alive /\ Gone /\ UNCHANGED faults

(* NewHandler, before the listeners are open: load the records, and        *)
(* reapOrphans.  A fault: docker ps fails and nothing is reaped.           *)
Reaped(records) == [k \in Clusters |-> IF records[k] = NoRecord THEN NoContainer ELSE container[k]]

Restart == /\ phase = "down"
           /\ phase' = "up"
           /\ groups' = disk.groups
           /\ record' = disk.record
           /\ \/ container' = Reaped(disk.record) /\ UNCHANGED bounds
              \/ UNCHANGED container /\ Fault
           /\ UNCHANGED <<cast, clientVars, disk, doomed>>

Next == \/ \E c \in Clients : NewRequest(c) \/ RequestStep(c)
        \/ \E g \in Groups : PutGroup(g)
        \/ Reset
        \/ AutoSave \/ Signal \/ ShutdownLists \/ (\E k \in Clusters : ShutdownRemoves(k))
        \/ ShutdownReturns \/ Exit \/ Kill \/ Restart

Spec == Init /\ [][Next]_vars

(* A goroutine that can run does run, every docker command returns, and    *)
(* main goes through its shutdown.  sync.Mutex hands the lock to a         *)
(* goroutine that has waited long enough: strong fairness of the Lock.     *)
Fairness == /\ \A c \in Clients : WF_vars(RequestStep(c)) /\ SF_vars(CreateBegins(c))
            /\ WF_vars(ShutdownLists)
            /\ WF_vars(\E k \in Clusters : ShutdownRemoves(k))
            /\ WF_vars(ShutdownReturns)
            /\ WF_vars(Exit)

FairSpec == Spec /\ Fairness

-----------------------------------------------------------------------------
Quiet == phase = "up" /\ \A c \in Clients : pc[c] = Idle

(* One client, and nothing goes wrong but the process itself.              *)
Alone == (\E c \in Clients : cast.clients = {c}) /\ cast.faults = 0 /\ cast.resets = 0

(* The comment on k3sBackend.mu, "serializes Create so freePort + docker   *)
(* run cannot race": the container that Create waits for is the one it     *)
(* started, with the port of its handle, unless somebody removed it.       *)
CreateOwnsItsContainer ==
    \A c \in Clients :
        pc[c] = "wait" /\ Running(target[c]) => container[target[c]].port = held[c]

(* docs/services/kubernetes-service.md: miniblue "tracks every k3s         *)
(* container it spawns and cleans them up".  Once no request is running,   *)
(* every container belongs to a recorded cluster.                          *)
NoLeakedContainer == Alone /\ Quiet => \A k \in Clusters : Present(k) => Exists(k)

(* NewHandler's log line, "kubectl will work against created clusters":    *)
(* once no request is running, a recorded cluster has a ready container,   *)
(* on the port its record says.                                            *)
RecordedClusterWorks ==
    Alone /\ ~cast.persistent /\ Quiet => \A k \in Clusters : Exists(k) =>
               container[k] = [state |-> "ready", port |-> record[k]]

(* docs/services/kubernetes-service.md, PERSISTENCE=1: a container that    *)
(* survived the restart of a persisted cluster is preserved "and the same  *)
(* kubeconfig keeps working because the host port is part of the persisted *)
(* backend handle".                                                        *)
SurvivorKeepsItsPort ==
    Quiet => \A k \in Clusters : Exists(k) /\ container[k].state = "ready" =>
               container[k].port = record[k]

(* Every request is answered: no request waits forever for Create's mutex. *)
RequestsFinish == \A c \in Clients : pc[c] # Idle ~> pc[c] = Idle
=============================================================================
