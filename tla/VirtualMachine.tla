--------------------------- MODULE VirtualMachine ---------------------------
(***************************************************************************)
(* internal/services/vm over docker, and the tokens of                     *)
(* internal/services/identity that a VM's workloads ask for.               *)
(*                                                                         *)
(* A VM is a record, an entry of the secret index, a container and a       *)
(* network; a service on it is a record and a container.  Handlers read a  *)
(* record, run docker commands, and store what they read: other requests   *)
(* run in between.  The stored record is a Go map that Get hands out       *)
(* itself; every creation builds a new one with a new secret, so a record  *)
(* is known by the number of its secret.  Its powerState is refreshed from *)
(* docker before every use and is not kept here.                           *)
(*                                                                         *)
(* Serialised clients send no request about a VM while one that writes it  *)
(* is in progress; requests about different VMs, and tokens, overlap.      *)
(***************************************************************************)
EXTENDS Docker, FiniteSets

CONSTANTS Clients,      \* concurrent requests
          VMs, Services, Groups, Identities,
          GroupOf,      \* the resource group of a VM or an identity
          HostOf,       \* the VM of a service
          PortsOf,      \* the ports a deployment of a service may ask for
          Casts,        \* who takes part in a behaviour, and what may happen
          MaxCreates,   \* bound on the number of VM records built
          MaxPrincipals \* bound on the number of principals made up

ASSUME PlacesAssumption == /\ GroupOf \in [VMs \cup Identities -> Groups]
                           /\ HostOf \in [Services -> VMs]
                           /\ PortsOf \in [Services -> SUBSET (Ports \cup {NoPort})]
ASSUME DockerNamesAssumption == /\ VMs \cap Services = {} /\ VMs \cap Identities = {}
                                /\ VMs \cup Services \subseteq Names
                                /\ VMs \subseteq Networks
ASSUME SecretsAssumption == 0 .. MaxCreates \subseteq Tags
ASSUME BoundsAssumption == {MaxCreates, MaxPrincipals} \subseteq Nat
ASSUME NothingAssumption == "none" \notin VMs \cup Services \cup Groups \cup Identities

(* A cast: the clients, the services they deploy, whether they keep        *)
(* requests about one thing apart; whether docker is there when the        *)
(* process starts and has images it creates and cannot start; and bounds   *)
(* on the records and principals made up, the services that end by         *)
(* themselves, and the times the process starts again.                     *)
ASSUME CastsAssumption ==
    \A k \in Casts : /\ k.clients \subseteq Clients /\ k.services \subseteq Services
                     /\ k.serialised \in BOOLEAN /\ k.docker \subseteq BOOLEAN
                     /\ k.unstartable \in BOOLEAN
                     /\ k.creates \in 0 .. MaxCreates /\ k.principals \in 0 .. MaxPrincipals
                     /\ k.exits \in Nat /\ k.restarts \in Nat

VARIABLES cast,
          groups,      \* the resource groups that exist
          record,      \* the record stored for a VM, by its secret, or 0
          index,       \* vmidsecret: the VM a secret leads to, or "none"
          assigned,    \* the identities in a record, each with its principal, or 0
          service,     \* the record stored for a service: its port, or Absent
          identities,  \* the managed identities, each with its principal, or 0
          tokens,      \* the tokens on record: a VM and an identity
          req,         \* the request each client has in progress
          created, principals, exits, restarts

store == <<groups, record, index, assigned, service, identities, tokens>>
docker == <<container, network>>
fixed == <<cast, dockerAvail>>
bounds == <<created, principals, exits, restarts>>
vars == <<store, docker, fixed, req, bounds>>

None == "none"
Absent == [port |-> NoPort, there |-> FALSE]
Deployed(p) == [port |-> p, there |-> TRUE]
Secrets == 1 .. MaxCreates
Principals == 0 .. MaxPrincipals
NoIdentities == [i \in Identities |-> 0]
Hosted(v) == {s \in Services : HostOf[s] = v}
InGroup(g) == {x \in VMs \cup Identities : GroupOf[x] = g}

TokenPoints == {"tokenVM", "tokenIdentity", "tokenSet"}
Points == {"idle", "resolve", "network", "stale", "run", "unnet", "store", "index", "writeback",
           "delList", "delServices", "delNet", "delSweep", "delSecret", "delKey",
           "rgContainers", "rgList", "rgNext", "rgServices", "rgIdentities",
           "powerList", "decide", "stopServices", "startVM", "startServices",
           "inspect", "siblings", "own", "unplace", "launch", "unrecord", "record",
           "svcWriteback", "svcRemove", "svcDrop", "svcVM", "idGet", "idSet"} \cup TokenPoints

(* A request: where it is and what it holds.  `held` is the record it read *)
(* or built; `cascade` the VMs a group's DELETE listed; `seen` the         *)
(* identities a token request could have found.                            *)
Request == [at : Points, vm : VMs \cup {None}, svc : Services \cup {None}, group : Groups \cup {None},
            who : Identities \cup {None}, principal : Principals,
            action : {None, "start", "powerOff", "restart"},
            held : 0 .. MaxCreates, port : Ports \cup {NoPort}, block : BOOLEAN,
            ids : [Identities -> Principals], todo : SUBSET (Identities \cup Services),
            listed : SUBSET Services, cascade : [VMs -> 0 .. MaxCreates],
            seen : SUBSET Identities]

NoCascade == [v \in VMs |-> 0]
NoRequest == [at |-> "idle", vm |-> None, svc |-> None, group |-> None, who |-> None, principal |-> 0,
              action |-> None, held |-> 0, port |-> NoPort, block |-> FALSE, ids |-> NoIdentities,
              todo |-> {}, listed |-> {}, cascade |-> NoCascade, seen |-> {}]

TypeOK == /\ DockerTypeOK
          /\ cast \in Casts
          /\ groups \subseteq Groups
          /\ record \in [VMs -> 0 .. MaxCreates]
          /\ index \in [Secrets -> VMs \cup {None}]
          /\ assigned \in [Secrets -> [Identities -> Principals]]
          /\ service \in [Services -> [port : Ports \cup {NoPort}, there : BOOLEAN]]
          /\ identities \in [Identities -> Principals]
          /\ tokens \subseteq VMs \X Identities
          /\ req \in [Clients -> Request]
          /\ created \in 0 .. MaxCreates
          /\ principals \in Principals
          /\ exits \in Nat /\ restarts \in Nat

NoRecords == [v \in VMs |-> 0]
NoSecrets == [s \in Secrets |-> None]
NoAssignments == [s \in Secrets |-> NoIdentities]
NoServices == [s \in Services |-> Absent]

Init == /\ cast \in Casts
        /\ groups = {} /\ identities = NoIdentities /\ tokens = {}
        /\ record = NoRecords
        /\ index = NoSecrets
        /\ assigned = NoAssignments
        /\ service = NoServices
        /\ DockerInit
        /\ dockerAvail \in cast.docker
        /\ req = [c \in Clients |-> NoRequest]
        /\ created = 0 /\ principals = 0 /\ exits = 0 /\ restarts = 0

Exists(v) == record[v] # 0
ServiceRecords(v) == {s \in Hosted(v) : service[s].there}

-----------------------------------------------------------------------------
(* Requests                                                                *)

At(c, point) == req[c].at = point
Become(c, r) == req' = [req EXCEPT ![c] = r]
Goto(c, point) == Become(c, [req[c] EXCEPT !.at = point])
Finish(c) == Become(c, NoRequest)

(* The VMs, and the identity, a request may write.                         *)
Scope(r) == IF r.at \in TokenPoints THEN {}
            ELSE IF r.group # None THEN InGroup(r.group)
            ELSE {r.vm, r.who} \ {None}

Free(things) == cast.serialised => \A d \in Clients : Scope(req[d]) \cap things = {}

Begin(c, r) == /\ At(c, "idle")
               /\ c \in cast.clients
               /\ Free(Scope(r))
               /\ Become(c, r)

VMRequest(v, point) == [NoRequest EXCEPT !.vm = v, !.at = point, !.held = record[v]]
ServiceRequest(s, point) == [VMRequest(HostOf[s], point) EXCEPT !.svc = s]

(* PUT and DELETE of a group's record; what follows is below.              *)
PutGroup(g) == /\ groups' = groups \cup {g}
               /\ UNCHANGED <<record, index, assigned, service, identities, tokens, docker, fixed, req, bounds>>

(* PUT of an identity keeps the principal it finds, or makes one up.       *)
Alive == {i \in Identities : identities[i] # 0}
Watching == [c \in Clients |-> IF req[c].at \in TokenPoints
                               THEN [req[c] EXCEPT !.seen = @ \cup Alive'] ELSE req[c]]

PutIdentity(c, i) == /\ GroupOf[i] \in groups
                     /\ Begin(c, [NoRequest EXCEPT !.at = "idGet", !.who = i])
                     /\ UNCHANGED <<store, docker, fixed, bounds>>

(* Mutant: an update makes up a principal too.                             *)
BugPrincipalReplaced(c) ==
    /\ At(c, "idGet")
    /\ identities[req[c].who] # 0
    /\ principals < cast.principals
    /\ principals' = principals + 1
    /\ Become(c, [req[c] EXCEPT !.at = "idSet", !.principal = principals + 1])
    /\ UNCHANGED <<store, docker, fixed, created, exits, restarts>>

IdentityKeepsItsPrincipal(c) ==
    /\ At(c, "idGet")
    /\ identities[req[c].who] # 0
    /\ Become(c, [req[c] EXCEPT !.at = "idSet", !.principal = identities[req[c].who]])
    /\ UNCHANGED <<store, docker, fixed, bounds>>

IdentityGetsAPrincipal(c) ==
    /\ At(c, "idGet")
    /\ identities[req[c].who] = 0
    /\ principals < cast.principals
    /\ principals' = principals + 1
    /\ Become(c, [req[c] EXCEPT !.at = "idSet", !.principal = principals + 1])
    /\ UNCHANGED <<store, docker, fixed, created, exits, restarts>>

IdentitySet(c) == /\ At(c, "idSet")
                  /\ identities' = [identities EXCEPT ![req[c].who] = req[c].principal]
                  /\ req' = [Watching EXCEPT ![c] = NoRequest]
                  /\ UNCHANGED <<groups, record, index, assigned, service, tokens, docker, fixed, bounds>>

(* DELETE of an identity.  VMs keep a dangling reference.                  *)
DeleteIdentity(i) == /\ identities[i] # 0
                     /\ Free({i})
                     /\ identities' = [identities EXCEPT ![i] = 0]
                     /\ UNCHANGED <<groups, record, index, assigned, service, tokens, docker, fixed, req, bounds>>

-----------------------------------------------------------------------------
(* PUT of a VM.  Each identity it names is looked up; then the VM is.      *)

PutVM(c, v, block, named) ==
    /\ GroupOf[v] \in groups
    /\ Exists(v) \/ created < cast.creates
    /\ Begin(c, [NoRequest EXCEPT !.at = "resolve", !.vm = v, !.block = block, !.todo = named])
    /\ UNCHANGED <<store, docker, fixed, bounds>>

ResolveIdentity(c, i) == /\ At(c, "resolve")
                         /\ i \in req[c].todo
                         /\ identities[i] # 0
                         /\ Become(c, [req[c] EXCEPT !.todo = @ \ {i}, !.ids[i] = identities[i]])
                         /\ UNCHANGED <<store, docker, fixed, bounds>>

ResolveFails(c) == /\ At(c, "resolve")
                   /\ \E i \in req[c].todo : identities[i] = 0
                   /\ Finish(c)
                   /\ UNCHANGED <<store, docker, fixed, bounds>>

(* Mutant: the identity block is stored as it came, not as it was resolved.*)
BugUnresolved(c) == LET old == record[req[c].vm]
                    IN  /\ At(c, "resolve")
                        /\ old # 0
                        /\ assigned' = IF req[c].block THEN [assigned EXCEPT ![old] = [i \in req[c].todo |-> 0]] ELSE assigned
                        /\ Become(c, [req[c] EXCEPT !.at = "writeback", !.held = old])
                        /\ UNCHANGED <<groups, record, index, service, identities, tokens, docker, fixed, bounds>>

(* A VM that exists is updated in place; its container stays.              *)
UpdateVM(c) == LET old == record[req[c].vm]
               IN  /\ At(c, "resolve")
                   /\ req[c].todo = {}
                   /\ old # 0
                   /\ assigned' = IF req[c].block THEN [assigned EXCEPT ![old] = req[c].ids] ELSE assigned
                   /\ Become(c, [req[c] EXCEPT !.at = "writeback", !.held = old])
                   /\ UNCHANGED <<groups, record, index, service, identities, tokens, docker, fixed, bounds>>

BuildVM(c) == /\ At(c, "resolve")
              /\ req[c].todo = {}
              /\ ~Exists(req[c].vm)
              /\ created < cast.creates
              /\ created' = created + 1
              /\ assigned' = [assigned EXCEPT ![created + 1] = req[c].ids]
              /\ Become(c, [req[c] EXCEPT !.at = IF dockerAvail THEN "network" ELSE "store", !.held = created + 1])
              /\ UNCHANGED <<groups, record, index, service, identities, tokens, docker, fixed, principals, exits, restarts>>

CreateNetwork(c) == /\ At(c, "network")
                    /\ NetworkCreate(req[c].vm)
                    /\ Goto(c, "stale")
                    /\ UNCHANGED <<store, container, fixed, bounds>>

CreateNetworkFails(c) == /\ At(c, "network")
                         /\ req[c].vm \notin network
                         /\ Finish(c)
                         /\ UNCHANGED <<store, docker, fixed, bounds>>

RemoveStale(c) == /\ At(c, "stale")
                  /\ Remove(req[c].vm)
                  /\ Goto(c, "run")
                  /\ UNCHANGED <<store, network, fixed, bounds>>

RunVM(c) == /\ At(c, "run")
            /\ Run(req[c].vm, NoPort, req[c].vm, req[c].held)
            /\ Goto(c, "store")
            /\ UNCHANGED <<store, network, fixed, bounds>>

RunVMFails(c) == /\ At(c, "run")
                 /\ \/ RunRefused(req[c].vm)
                    \/ RunBreaks(req[c].vm, NoPort, req[c].vm, req[c].held, cast.unstartable)
                 /\ Goto(c, "unnet")
                 /\ UNCHANGED <<store, network, fixed, bounds>>

RemoveNetwork(c) == /\ At(c, "unnet")
                    /\ NetworkRemove(req[c].vm)
                    /\ Finish(c)
                    /\ UNCHANGED <<store, container, fixed, bounds>>

StoreVM(c) == /\ At(c, "store")
              /\ record' = [record EXCEPT ![req[c].vm] = req[c].held]
              /\ Goto(c, "index")
              /\ UNCHANGED <<groups, index, assigned, service, identities, tokens, docker, fixed, bounds>>

IndexSecret(c) == /\ At(c, "index")
                  /\ index' = [index EXCEPT ![req[c].held] = req[c].vm]
                  /\ Finish(c)
                  /\ UNCHANGED <<groups, record, assigned, service, identities, tokens, docker, fixed, bounds>>

(* GET refreshes the record and stores it again; so do the power actions,  *)
(* updates and the changes of services at their end.                       *)
GetVM(c, v) == /\ Exists(v)
               /\ Begin(c, VMRequest(v, "writeback"))
               /\ UNCHANGED <<store, docker, fixed, bounds>>

WriteBack(c) == /\ At(c, "writeback")
                /\ record' = [record EXCEPT ![req[c].vm] = req[c].held]
                /\ Finish(c)
                /\ UNCHANGED <<groups, index, assigned, service, identities, tokens, docker, fixed, bounds>>

-----------------------------------------------------------------------------
(* DELETE of a VM, and of a group: CleanupVMsInRG does to each VM listed   *)
(* what DeleteVM does to its own, but for the records.                     *)

DeleteVM(c, v) == /\ Exists(v)
                  /\ Begin(c, VMRequest(v, IF dockerAvail THEN "delList" ELSE "delSweep"))
                  /\ UNCHANGED <<store, docker, fixed, bounds>>

(* Mutant: the services are swept before their containers are looked for.  *)
BugNothingListed(c) == /\ At(c, "delList")
                       /\ Goto(c, "delServices")
                       /\ UNCHANGED <<store, docker, fixed, bounds>>

DeleteLists(c) == /\ At(c, "delList")
                  /\ Become(c, [req[c] EXCEPT !.at = "delServices", !.todo = ServiceRecords(req[c].vm)])
                  /\ UNCHANGED <<store, docker, fixed, bounds>>

DeleteRemoves(c, s) == /\ At(c, "delServices")
                       /\ s \in req[c].todo
                       /\ Remove(s)
                       /\ Become(c, [req[c] EXCEPT !.todo = @ \ {s}])
                       /\ UNCHANGED <<store, network, fixed, bounds>>

DeleteRemovesVM(c) == /\ At(c, "delServices")
                      /\ req[c].todo = {}
                      /\ Remove(req[c].vm)
                      /\ Goto(c, "delNet")
                      /\ UNCHANGED <<store, network, fixed, bounds>>

DeleteRemovesNetwork(c) == /\ At(c, "delNet")
                           /\ NetworkRemove(req[c].vm)
                           /\ Goto(c, IF req[c].group = None THEN "delSweep" ELSE "rgNext")
                           /\ UNCHANGED <<store, container, fixed, bounds>>

DeleteSweeps(c) == /\ At(c, "delSweep")
                   /\ service' = [s \in Services |-> IF HostOf[s] = req[c].vm THEN Absent ELSE service[s]]
                   /\ Goto(c, "delSecret")
                   /\ UNCHANGED <<groups, record, index, assigned, identities, tokens, docker, fixed, bounds>>

(* Mutant: the entry of the index stays.                                   *)
BugSecretStays(c) == /\ At(c, "delSecret")
                     /\ Goto(c, "delKey")
                     /\ UNCHANGED <<store, docker, fixed, bounds>>

DeleteForgetsSecret(c) == /\ At(c, "delSecret")
                          /\ index' = [index EXCEPT ![req[c].held] = None]
                          /\ Goto(c, "delKey")
                          /\ UNCHANGED <<groups, record, assigned, service, identities, tokens, docker, fixed, bounds>>

DeleteDrops(c) == /\ At(c, "delKey")
                  /\ record' = [record EXCEPT ![req[c].vm] = 0]
                  /\ Finish(c)
                  /\ UNCHANGED <<groups, index, assigned, service, identities, tokens, docker, fixed, bounds>>

DeleteGroup(c, g) == /\ g \in groups
                     /\ Begin(c, [NoRequest EXCEPT !.at = "rgContainers", !.group = g])
                     /\ groups' = groups \ {g}
                     /\ UNCHANGED <<record, index, assigned, service, identities, tokens, docker, fixed, bounds>>

(* The container groups go before the VMs are looked for.                  *)
CascadeDropsContainers(c) == /\ At(c, "rgContainers")
                             /\ Goto(c, "rgList")
                             /\ UNCHANGED <<store, docker, fixed, bounds>>

CleanupLists(c) == /\ At(c, "rgList")
                   /\ Become(c, [req[c] EXCEPT !.at = "rgNext",
                                  !.cascade = [v \in VMs |-> IF GroupOf[v] = req[c].group THEN record[v] ELSE 0]])
                   /\ UNCHANGED <<store, docker, fixed, bounds>>

(* The next VM of the list: its secret first.                              *)
CleanupForgetsSecret(c, v) ==
    /\ At(c, "rgNext")
    /\ req[c].cascade[v] # 0
    /\ index' = [index EXCEPT ![req[c].cascade[v]] = None]
    /\ Become(c, [req[c] EXCEPT !.at = IF dockerAvail THEN "delList" ELSE "rgNext", !.vm = v, !.cascade[v] = 0])
    /\ UNCHANGED <<groups, record, assigned, service, identities, tokens, docker, fixed, bounds>>

CascadeDropsVMs(c) == /\ At(c, "rgNext")
                      /\ req[c].cascade = NoCascade
                      /\ record' = [v \in VMs |-> IF GroupOf[v] = req[c].group THEN 0 ELSE record[v]]
                      /\ Goto(c, "rgServices")
                      /\ UNCHANGED <<groups, index, assigned, service, identities, tokens, docker, fixed, bounds>>

CascadeDropsServices(c) ==
    /\ At(c, "rgServices")
    /\ service' = [s \in Services |-> IF GroupOf[HostOf[s]] = req[c].group THEN Absent ELSE service[s]]
    /\ Goto(c, "rgIdentities")
    /\ UNCHANGED <<groups, record, index, assigned, identities, tokens, docker, fixed, bounds>>

CascadeDropsIdentities(c) ==
    /\ At(c, "rgIdentities")
    /\ identities' = [i \in Identities |-> IF GroupOf[i] = req[c].group THEN 0 ELSE identities[i]]
    /\ Finish(c)
    /\ UNCHANGED <<groups, record, index, assigned, service, tokens, docker, fixed, bounds>>

-----------------------------------------------------------------------------
(* Power actions: 409 without docker.                                      *)

PowerAction(c, v, action) == /\ dockerAvail
                             /\ Exists(v)
                             /\ Begin(c, [VMRequest(v, "powerList") EXCEPT !.action = action])
                             /\ UNCHANGED <<store, docker, fixed, bounds>>

PowerLists(c) == /\ At(c, "powerList")
                 /\ Become(c, [req[c] EXCEPT !.at = "decide", !.listed = ServiceRecords(req[c].vm),
                                             !.todo = ServiceRecords(req[c].vm)])
                 /\ UNCHANGED <<store, docker, fixed, bounds>>

PowerDecides(c) == LET r == req[c] IN
    /\ At(c, "decide")
    /\ Goto(c, CASE r.action = "start"    -> IF Running(r.vm) THEN "writeback" ELSE "startVM"
                 [] r.action = "powerOff" -> IF Running(r.vm) THEN "stopServices" ELSE "writeback"
                 [] r.action = "restart"  -> "stopServices")
    /\ UNCHANGED <<store, docker, fixed, bounds>>

StopService(c, s) == /\ At(c, "stopServices")
                     /\ s \in req[c].todo
                     /\ Stop(s)
                     /\ Become(c, [req[c] EXCEPT !.todo = @ \ {s}])
                     /\ UNCHANGED <<store, network, fixed, bounds>>

(* Mutant: the VM is stopped without its services.                         *)
BugServicesGoOn(c) == /\ At(c, "stopServices")
                      /\ Stop(req[c].vm)
                      /\ Goto(c, IF req[c].action = "restart" THEN "startVM" ELSE "writeback")
                      /\ UNCHANGED <<store, network, fixed, bounds>>

(* A restart goes on if the VM cannot be stopped, powerOff is answered 409.*)
StopVM(c) == LET r == req[c] IN
    /\ At(c, "stopServices")
    /\ r.todo = {}
    /\ Stop(r.vm)
    /\ \/ r.action = "restart" /\ Goto(c, "startVM")
       \/ r.action = "powerOff" /\ Present(r.vm) /\ Goto(c, "writeback")
       \/ r.action = "powerOff" /\ ~Present(r.vm) /\ Finish(c)
    /\ UNCHANGED <<store, network, fixed, bounds>>

StartVM(c) == LET r == req[c] IN
    /\ At(c, "startVM")
    /\ \/ /\ Startable(r.vm)
          /\ Start(r.vm)
          /\ Become(c, [r EXCEPT !.at = "startServices", !.todo = r.listed])
       \/ /\ ~Startable(r.vm)
          /\ Finish(c)
          /\ UNCHANGED container
    /\ UNCHANGED <<store, network, fixed, bounds>>

(* A service that does not start is passed over.                           *)
StartService(c, s) == /\ At(c, "startServices")
                      /\ s \in req[c].todo
                      /\ IF Startable(s) THEN Start(s) ELSE UNCHANGED container
                      /\ Become(c, [req[c] EXCEPT !.todo = @ \ {s}])
                      /\ UNCHANGED <<store, network, fixed, bounds>>

PowerDone(c) == /\ At(c, "startServices")
                /\ req[c].todo = {}
                /\ Goto(c, "writeback")
                /\ UNCHANGED <<store, docker, fixed, bounds>>

-----------------------------------------------------------------------------
(* Services.  A deployment needs docker and a running VM, and no sibling   *)
(* with its port on record.                                                *)

DeployService(c, s, p) == /\ dockerAvail
                          /\ s \in cast.services
                          /\ Exists(HostOf[s])
                          /\ Begin(c, [ServiceRequest(s, "inspect") EXCEPT !.port = p])
                          /\ UNCHANGED <<store, docker, fixed, bounds>>

DeployInspects(c) == /\ At(c, "inspect")
                     /\ IF Running(req[c].vm) THEN Goto(c, "siblings") ELSE Finish(c)
                     /\ UNCHANGED <<store, docker, fixed, bounds>>

(* Mutant: only the ports that docker has in use are compared.             *)
BugRunningConflict(s, p) ==
    p # NoPort /\ \E t \in ServiceRecords(HostOf[s]) \ {s} : service[t].port = p /\ Running(t)

PortConflict(s, p) == p # NoPort /\ \E t \in ServiceRecords(HostOf[s]) \ {s} : service[t].port = p

DeployComparesPorts(c) == /\ At(c, "siblings")
                          /\ IF PortConflict(req[c].svc, req[c].port) THEN Finish(c) ELSE Goto(c, "own")
                          /\ UNCHANGED <<store, docker, fixed, bounds>>

DeployLooksItselfUp(c) == /\ At(c, "own")
                          /\ Goto(c, IF service[req[c].svc].there THEN "unplace" ELSE "launch")
                          /\ UNCHANGED <<store, docker, fixed, bounds>>

DeployReplaces(c) == /\ At(c, "unplace")
                     /\ Remove(req[c].svc)
                     /\ Goto(c, "launch")
                     /\ UNCHANGED <<store, network, fixed, bounds>>

DeployRuns(c) == LET r == req[c] IN
    /\ At(c, "launch")
    /\ Run(r.svc, r.port, r.vm, r.held)
    /\ Goto(c, "record")
    /\ UNCHANGED <<store, network, fixed, bounds>>

DeployRunFails(c) == LET r == req[c] IN
    /\ At(c, "launch")
    /\ RunRefused(r.svc) \/ RunBreaks(r.svc, r.port, r.vm, r.held, cast.unstartable)
    /\ Goto(c, "unrecord")
    /\ UNCHANGED <<store, network, fixed, bounds>>

(* Mutant: the record of the service that was replaced stays.              *)
BugRecordStays(c) == /\ At(c, "unrecord")
                     /\ Finish(c)
                     /\ UNCHANGED <<store, docker, fixed, bounds>>

DeployForgets(c) == /\ At(c, "unrecord")
                    /\ service' = [service EXCEPT ![req[c].svc] = Absent]
                    /\ Finish(c)
                    /\ UNCHANGED <<groups, record, index, assigned, identities, tokens, docker, fixed, bounds>>

(* The service's record, then, at "writeback", the VM's with a log entry.  *)
DeployRecords(c) == /\ At(c, "record")
                    /\ service' = [service EXCEPT ![req[c].svc] = Deployed(req[c].port)]
                    /\ Goto(c, "writeback")
                    /\ UNCHANGED <<groups, record, index, assigned, identities, tokens, docker, fixed, bounds>>

GetService(c, s) == /\ service[s].there
                    /\ Begin(c, [ServiceRequest(s, "svcWriteback") EXCEPT !.port = service[s].port])
                    /\ UNCHANGED <<store, docker, fixed, bounds>>

ServiceWritesBack(c) == /\ At(c, "svcWriteback")
                        /\ service' = [service EXCEPT ![req[c].svc] = Deployed(req[c].port)]
                        /\ Finish(c)
                        /\ UNCHANGED <<groups, record, index, assigned, identities, tokens, docker, fixed, bounds>>

DeleteService(c, s) == /\ service[s].there
                       /\ Begin(c, ServiceRequest(s, IF dockerAvail THEN "svcRemove" ELSE "svcDrop"))
                       /\ UNCHANGED <<store, docker, fixed, bounds>>

ServiceRemoved(c) == /\ At(c, "svcRemove")
                     /\ Remove(req[c].svc)
                     /\ Goto(c, "svcDrop")
                     /\ UNCHANGED <<store, network, fixed, bounds>>

ServiceDropped(c) == /\ At(c, "svcDrop")
                     /\ service' = [service EXCEPT ![req[c].svc] = Absent]
                     /\ Goto(c, "svcVM")
                     /\ UNCHANGED <<groups, record, index, assigned, identities, tokens, docker, fixed, bounds>>

ServiceNoted(c) == LET v == req[c].vm IN
    /\ At(c, "svcVM")
    /\ IF Exists(v) THEN Become(c, [req[c] EXCEPT !.at = "writeback", !.held = record[v]]) ELSE Finish(c)
    /\ UNCHANGED <<store, docker, fixed, bounds>>

-----------------------------------------------------------------------------
(* Tokens: from the secret in the request's header to the VM, from the VM  *)
(* to an identity assigned to it, which must exist.                        *)

GetToken(c, secret) ==
    /\ index[secret] # None
    /\ Begin(c, [NoRequest EXCEPT !.at = "tokenVM", !.vm = index[secret], !.seen = Alive])
    /\ UNCHANGED <<store, docker, fixed, bounds>>

Assignments(old) == {i \in Identities : old # 0 /\ assigned[old][i] # 0}

(* The request may select one of several; without a selector there must be *)
(* one.                                                                    *)
TokenReadsVM(c) == LET old == record[req[c].vm] IN
    /\ At(c, "tokenVM")
    /\ \/ \E i \in Assignments(old) :
             Become(c, [req[c] EXCEPT !.at = "tokenIdentity", !.who = i])
       \/ /\ Cardinality(Assignments(old)) # 1
          /\ Finish(c)
    /\ UNCHANGED <<store, docker, fixed, bounds>>

(* Mutant: the record's assignment is enough.                              *)
BugIdentityUnchecked(c) == /\ At(c, "tokenIdentity")
                           /\ Goto(c, "tokenSet")
                           /\ UNCHANGED <<store, docker, fixed, bounds>>

TokenChecksIdentity(c) == /\ At(c, "tokenIdentity")
                          /\ IF identities[req[c].who] # 0 THEN Goto(c, "tokenSet") ELSE Finish(c)
                          /\ UNCHANGED <<store, docker, fixed, bounds>>

TokenStored(c) == /\ At(c, "tokenSet")
                  /\ tokens' = tokens \cup {<<req[c].vm, req[c].who>>}
                  /\ Finish(c)
                  /\ UNCHANGED <<groups, record, index, assigned, service, identities, docker, fixed, bounds>>

(* Introspection drops a token whose time is over.                         *)
IntrospectExpired(t) == /\ t \in tokens
                        /\ tokens' = tokens \ {t}
                        /\ UNCHANGED <<groups, record, index, assigned, service, identities, docker, fixed, req, bounds>>

-----------------------------------------------------------------------------
ServiceExits(s) == /\ exits < cast.exits
                   /\ exits' = exits + 1
                   /\ Exits(s)
                   /\ UNCHANGED <<store, network, fixed, req, created, principals, restarts>>

(* The process ends and starts again without persistence: containers and   *)
(* networks stay.                                                          *)
Restart == /\ restarts < cast.restarts
           /\ restarts' = restarts + 1
           /\ groups' = {} /\ identities' = NoIdentities /\ tokens' = {}
           /\ record' = NoRecords
           /\ index' = NoSecrets
           /\ assigned' = NoAssignments
           /\ service' = NoServices
           /\ dockerAvail' \in cast.docker
           /\ req' = [c \in Clients |-> NoRequest]
           /\ UNCHANGED <<docker, cast, created, principals, exits>>

(* Others use the docker daemon too, under other names, and attach nothing *)
(* to the networks of VMs.                                                 *)
Elsewhere == /\ \E n \in Names \ (VMs \cup Services), other \in Container :
                  /\ other.net \in {Bridge, container[n].net}
                  /\ container' = [container EXCEPT ![n] = other]
             /\ UNCHANGED <<store, network, fixed, req, bounds>>

Putting(c) == \/ \E v \in VMs, named \in SUBSET Identities : PutVM(c, v, TRUE, named)
              \/ \E v \in VMs : PutVM(c, v, FALSE, {}) \/ GetVM(c, v)
              \/ (\E i \in Identities : ResolveIdentity(c, i)) \/ ResolveFails(c)
              \/ UpdateVM(c) \/ BuildVM(c)
              \/ CreateNetwork(c) \/ CreateNetworkFails(c) \/ RemoveStale(c)
              \/ RunVM(c) \/ RunVMFails(c) \/ RemoveNetwork(c)
              \/ StoreVM(c) \/ IndexSecret(c) \/ WriteBack(c)

Deleting(c) == \/ (\E v \in VMs : DeleteVM(c, v)) \/ (\E g \in Groups : DeleteGroup(c, g))
               \/ DeleteLists(c) \/ (\E s \in Services : DeleteRemoves(c, s))
               \/ DeleteRemovesVM(c) \/ DeleteRemovesNetwork(c)
               \/ DeleteSweeps(c) \/ DeleteForgetsSecret(c) \/ DeleteDrops(c)
               \/ CleanupLists(c) \/ (\E v \in VMs : CleanupForgetsSecret(c, v))
               \/ CascadeDropsVMs(c) \/ CascadeDropsServices(c) \/ CascadeDropsIdentities(c)

Powering(c) == \/ \E v \in VMs, action \in {"start", "powerOff", "restart"} : PowerAction(c, v, action)
               \/ PowerLists(c) \/ PowerDecides(c)
               \/ (\E s \in Services : StopService(c, s) \/ StartService(c, s))
               \/ StopVM(c) \/ StartVM(c) \/ PowerDone(c)

Deploying(c) == \/ \E s \in Services : GetService(c, s) \/ DeleteService(c, s) \/ \E p \in PortsOf[s] : DeployService(c, s, p)
                \/ DeployInspects(c) \/ DeployComparesPorts(c) \/ DeployLooksItselfUp(c) \/ DeployReplaces(c)
                \/ DeployRuns(c) \/ DeployRunFails(c) \/ DeployForgets(c) \/ DeployRecords(c)
                \/ ServiceWritesBack(c) \/ ServiceRemoved(c) \/ ServiceDropped(c) \/ ServiceNoted(c)

Attesting(c) == \/ \E i \in Identities : PutIdentity(c, i)
                \/ IdentityKeepsItsPrincipal(c) \/ IdentityGetsAPrincipal(c) \/ IdentitySet(c)
                \/ \E secret \in Secrets : GetToken(c, secret)
                \/ TokenReadsVM(c) \/ TokenChecksIdentity(c) \/ TokenStored(c)

Machining == \/ \E c \in Clients : Putting(c) \/ Deleting(c) \/ Powering(c) \/ Deploying(c) \/ Attesting(c)
             \/ \E g \in Groups : PutGroup(g)
             \/ \E i \in Identities : DeleteIdentity(i)
             \/ \E t \in tokens : IntrospectExpired(t)
             \/ \E s \in Services : ServiceExits(s)

Next == \/ Machining
        \/ \E c \in Clients : CascadeDropsContainers(c)
        \/ Restart
        \/ Elsewhere

Spec == Init /\ [][Next]_vars

-----------------------------------------------------------------------------
Quiet(v) == \A c \in Clients : v \notin Scope(req[c])

(* "Each VM is backed by a Docker container" that knows the VM's secret    *)
(* (handler.go), and docs/services/virtual-machines.md: a workload in the  *)
(* VM or its services obtains tokens with it.  Holds after a restart too.  *)
RecordedVMWorks ==
    cast.serialised /\ dockerAvail => \A v \in VMs : Quiet(v) /\ Exists(v) =>
        /\ Present(v) /\ v \in network
        /\ container[v].tag = record[v]
        /\ index[record[v]] = v
        /\ GroupOf[v] \in groups
        /\ \A s \in ServiceRecords(v) : /\ Present(s)
                                       /\ container[s].port = service[s].port
                                       /\ container[s].tag = record[v]

(* "DELETE: delete a VM, its services and network", and "fail fast and     *)
(* leave nothing behind" (handler.go): in the first life of the process,   *)
(* docker has nothing that is not on record, but for containers it created *)
(* and could not start.                                                    *)
NeverStarted(n) == container[n].state \in {"none", "created"}
NothingLeftOver ==
    cast.serialised /\ restarts = 0 => \A v \in VMs : Quiet(v) =>
        /\ ~Exists(v) => NeverStarted(v) /\ v \notin network /\ ServiceRecords(v) = {}
        /\ \A s \in Hosted(v) : service[s].there \/ NeverStarted(s)

(* At every moment, also between two steps of a handler, a secret that is  *)
(* found in the index is the secret of the VM it leads to: GetToken does   *)
(* not compare them again.                                                 *)
SecretsLeadHome == cast.serialised => \A s \in Secrets : index[s] # None => record[index[s]] = s

(* "Port is already exposed by service": no two services on record for one *)
(* VM have one port, also when one of them has ended and docker would      *)
(* allow it.                                                               *)
SiblingsShareNoPort ==
    cast.serialised => \A s, t \in Services : s # t /\ HostOf[s] = HostOf[t] /\ service[s].there /\ service[t].there
                            => service[s].port # service[t].port \/ service[s].port = NoPort

(* "The identity must still exist: assignments can dangle after deletion"  *)
(* (GetToken): no token names an identity that was gone all the time the   *)
(* request ran.                                                            *)
TokensNameLivingIdentities == \A c \in Clients : At(c, "tokenSet") => req[c].who \in req[c].seen

(* "principalId/clientId are stable across updates"                        *)
(* (CreateOrUpdateIdentity): they change only with a deletion.             *)
PrincipalsAreStable ==
    [][cast.serialised => \A i \in Identities : identities[i] = 0 \/ identities'[i] \in {0, identities[i]}]_vars

(* What clients see of a VM, and of a service, if they keep their requests *)
(* about one VM apart.                                                     *)
IsMachine(v) == cast.serialised /\ Exists(v) /\ (dockerAvail => Present(v))
IsOn(v) == cast.serialised /\ Exists(v) /\ (dockerAvail => Running(v))
IsDeployed(s) == cast.serialised /\ service[s].there /\ Present(s)
IsServing(s) == cast.serialised /\ service[s].there /\ Running(s)

Promise == INSTANCE Machines
             WITH machines <- {v \in VMs : IsMachine(v)}, on <- {v \in VMs : IsOn(v)},
                  deployed <- {s \in Services : IsDeployed(s)}, serving <- {s \in Services : IsServing(s)}

(* To clients that keep their requests about one VM apart, a VM is one     *)
(* thing (all handlers of the package together).                           *)
ImplementsMachines == Promise!Spec

(* docs/services/virtual-machines.md: "Re-deploying the same service name  *)
(* replaces the existing container": docker run finds the name free.       *)
RedeployFindsTheNameFree == \A c \in Clients : At(c, "launch") => ~Present(req[c].svc)
=============================================================================
