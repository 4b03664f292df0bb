# miniblue: a formal model

miniblue answers the Azure APIs from one Go process. Every service is a set of HTTP
handlers over one key-value store; some services also run docker containers. Requests
are goroutines: apart from the locks inside the store and one mutex in the AKS backend,
nothing orders them. This directory holds TLA+ models of the parts in which that
matters, TLC instances of them, and TLAPS proofs about them.

## Inventory

| Component | State it keeps | Operations | Interacts with |
|---|---|---|---|
| `store` memory map (`internal/store/memory.go`) | a map behind an `RWMutex` | Set, Get, Delete, DeleteByPrefix, lists, Reset, Snapshot | every service; the file backend |
| `store` file backend (`file.go`) | `state.json`, its `.tmp`, the mutex of `Save` | load, Save, StartAutoSave and its stop function | `main`, the memory map |
| `store` PostgreSQL backend | rows of an external table | one SQL statement per operation; prefixes are `LIKE` patterns | every service |
| life cycle (`cmd/miniblue/main.go`) | phase of the process | start, signal, final save, service shutdown, drain, exit | file backend, AKS |
| server (`internal/server`) | router | reset, health, logging | the store |
| AKS (`services/aks`) | cluster records with a backend handle; k3s containers; the mutex of `Create` | PUT, DELETE, list credentials, cascade, shutdown, reaping at start | docker, store, resource groups, `main` |
| Service Bus (`services/servicebus`) | queue, topic, message, namespace records; the counter `msgId` | create, delete, send, publish, receive, ARM routes | store |
| resource groups | group records | PUT, PATCH, DELETE with a cascade over a list of prefixes | store, AKS, VM |
| virtual machines (`services/vm`) | VM and service records, the index of identity secrets, containers, networks | PUT, GET, DELETE, power actions, services, logs, run command, cascade | docker, store, resource groups, identity |
| container instances (`services/aci`) | group records, one container per group | PUT, GET (which writes), DELETE | docker, store, resource groups |
| managed identity | identities, each with its principal; issued tokens | PUT, DELETE, token, introspection | store, the VMs' index of secrets |
| network, NSG, DNS, load balancer, gateways, public addresses, databases, Cosmos, Redis, storage accounts, App Configuration, registries | parent and child records; the lists of subnets and rules inside the stored Go maps; `ipCounter` of the public addresses | check the parent, set, delete, delete by prefix; two GETs that write | store, resource groups, external engines |
| storage queues, blobs, tables, key vault, sites, container apps, Event Grid | records; `msgId` of the storage queues | create, change in place, delete | store |
| deployments | deployment records | apply the resources of a template one by one, record the outcome | every resource, through the router |
| `azlocal`, health check, `pkg/minibluetest`, `azerr`, `storageauth` | none that lasts | clients, formatting, header checks | the server |

What is hard in this code:

* **Interleaving.** A handler makes several store calls, and between any two of them any
  other request runs: check then set, read then write back, delete then sweep, list then
  get. Only single store calls are atomic.
* **Snapshots.** The saver copies the map while requests change it, and two goroutines save.
* **Docker.** A container lives outside the store and the process. It is created before its
  record and removed before it, under a name that anybody may remove, and commands fail:
  before there is a container, or after, leaving one.
* **Restarts.** The process ends at any moment and starts from the last file, with fresh
  counters and with the containers of its former life.
* **Unprotected counters**: `msgId` of Service Bus and of the storage queues.
* **Shared Go maps.** `Get` of the memory map hands out the stored value itself: handlers
  that assign to a field change the record of every other request, without a lock.
* **Prefixes.** Children are found by the beginning of their key. A prefix without its
  final colon, or a kind that is missing from the list of a cascade, goes too far or leaves
  something behind.

What makes each component correct: the file always holds a whole past state, never goes
back, and covers everything written before the signal; a container and its record exist
together and agree; a Service Bus queue is a FIFO queue that keeps what it accepted and
nothing longer than the queue; a child is under a parent, a DELETE that succeeded leaves
nothing below its record and touches nothing beside it; an address belongs to one public
IP; a deployment is recorded with what became of its resources; a VM that is on record has
its container, its network and its services', and docker has nothing of a VM that is not;
a secret leads to the VM it was made for, and a token names an identity that existed.

## The modules

| Module | What it models |
|---|---|
| `MemoryBackend` | the map, its lock, each store operation as one atomic step; `DeleteByPrefix` key by key under the write lock; the history of the map's states |
| `Checkpoint` | abstract: a history of states, and a stable copy that is always one of them and only moves forward |
| `FileBackend` | EXTENDS `MemoryBackend`: `load`, `Save` statement by statement for the two savers, the ticker goroutine, `main`'s shutdown, kill and restart. Implements `Checkpoint` |
| `FileBackend_proofs` | inductive invariant, safety properties and refinement, proved |
| `SharedRecord` | EXTENDS `FileBackend`: a VM's record, a Go map that requests change in place while `Save` encodes it field by field after the read lock is released |
| `SharedRecord_proofs` | that it implements `FileBackend`, and its own two properties, proved |
| `AksBackend` | clusters, their records and containers; PUT, DELETE, credentials, group cascade, reset, checkpoints, shutdown, kill, restart with reaping |
| `AksBackend_proofs` | type correctness and the exclusion of `Create`; for one client, that no container leaks and that recorded clusters work; proved |
| `MessageQueue` | abstract: FIFO queues whose messages live until the queue is deleted or cleared |
| `ServiceBus` | queues, topics, messages, namespaces, the counter's load and store, the key order, `ListKeysByPrefix` over both backends, checkpoints and restarts; the storage queues, whose handler is the same but for receiving and clearing. Implements `MessageQueue` for one client with the plain map |
| `ServiceBus_proofs` | type correctness, numbering, receives, and that messages are kept and nothing is left over, proved |
| `StoreCalls` | the calls a handler makes to the store, and a request as a sequence of them; the shapes most handlers have |
| `ArmHandlers` | each handler of the services with plain records, as its calls: over a hundred of them, in 25 packages |
| `ArmServer` | clients whose requests run call by call over one store, in memory, saved to a file or in PostgreSQL, with the lists in shared objects, addresses, deployments, resets and restarts |
| `ResourceTree` | abstract: records appear one at a time under their parent and go with all that is below. `ArmServer` implements it for one client |
| `ArmServer_proofs` | type correctness, that deletions are thorough and well aimed, that addresses differ and stay, for one client also that records form a tree, that GETs answer their children and that deployments record their outcome; proved for any clients and casts of requests as the theorems ask, and for those of every handler, with any names |
| `Docker` | the docker daemon as the handlers know it: containers by name, host ports, networks; commands that fail before and after there is a container |
| `Machines` | abstract: machines that are there or not and on or off, those of a resource group going together, and services that serve only on machines that are on |
| `VirtualMachine` | EXTENDS `Docker`: PUT, GET, DELETE, power actions and services of VMs, the index of secrets, identities, tokens, introspection, the cascade of a resource group, services that end by themselves, restarts. Implements `Machines` for clients that keep requests about one VM apart |
| `ContainerInstance` | EXTENDS `VirtualMachine`: container groups next to VMs, over the same docker and under the same resource groups |
| `VirtualMachine_proofs`, `VirtualMachineSafety_proofs` | type correctness; tokens, principals and ports; where secrets lead; what docker has of VMs; the refinement of `Machines` |
| `ContainerInstance_proofs` | type correctness, the three properties of container groups, and that `ContainerInstance` implements `VirtualMachine`, proved |
| `MC*` | the constants of the TLC instances |

**State.** `data` is the map; a value is the number of the state that wrote it, so two
states are equal only if no write separates them. `history` records the states between
two operations and exists for the properties only; so do `due`, `window` and `runs` in
`ServiceBus`. `tmp` and `disk` are the two files, each whole or torn. In `AksBackend`
`record` is the stored handle (its host port), `container` is docker's view of the
cluster's container name, `pc`, `target`, `held` and `sweep` are the local variables of a
request. In `SharedRecord` a number that `Set` stored stands for a Go map (`object`), the value of
a map's field is the number of the update that assigned it (`fields`), `noted` is the update
that stored a number, `edit` the update in progress, `left` and `encoded` what a saver has
still to encode and has encoded; `tmpVM` and `diskVM` are the VM's record in the two files.
`json.Marshal` visits the fields of the outer map in any order and the map below `properties`
after them. In `ServiceBus` keys are ordered triples (kind, name, number), ordered as the
strings are.

In `ArmServer` `store` maps the keys that are present to their records; a key is a kind and
the sequence of names after it. Go maps handed out by `Get` are objects of `heap`, for the
two kinds (`vnet`, `nsg`) whose list of children is assigned to in place; an object nothing
refers to is collected when an answer goes out. `counter` is `ipCounter`. `request`, `pc`,
`status`, `held` and `listed` are a request in progress: which call is next, whether one
failed, the record `Get` returned, the keys `ListByPrefix` returned and, once it is encoded,
the answer. `cast` is chosen once and says which requests a behaviour serves, how many at a
time, over which backend, and how many addresses, resets and restarts there may be. A record
of a kind that is stored as a Go struct (`AssertedKinds`: resource groups, containers, blobs,
secrets) is `decoded` when JSON has taken the struct from it that its handlers assert: all of them
after a restart, every one over PostgreSQL. A registry is stored as a map from the start, and a
list that asserts a struct finds none (`IsStruct`). Over PostgreSQL `Get` answers a copy in an
object of its own, and a prefix is what `LIKE` takes for one: `Alike` has the pairs of names an
underscore confuses. `window` exists for the properties only: which keys were in the store at every moment of the request
and which at some moment.

In `VirtualMachine` the stored record of a VM is a Go map that requests change in place; every
creation builds a new one with a new secret, so `record[v]` is the number of that secret,
`index` is `vmidsecret:`, and `assigned` holds the identities of each record by its secret,
wherever the record is stored by now. `service` is the record of a service, its port; a
container's `tag` is the secret it was started with. `req` is a request in progress: what it
holds, which VMs its cascade listed (`cascade`), what it has still to do (`todo`); `seen` exists
for the property about tokens only. In `ContainerInstance` a record is known by the number of
the PUT that made it, `work` is a request in progress, and `abandoned`, the names whose records
went with a resource group, exists for a property only. A `cast`, chosen once, says who takes
part in a behaviour and what may happen in it, so that one run asks about several casts.

**Actions.** One action per store call, docker command or lock operation of a handler,
named after the handler and the step. A step is as large as the code makes atomic and no
larger: `h.msgId++` is two. Local computation, validation of bodies and formatting of
answers are folded into the step before them.

`ArmHandlers` is data: a handler is `Request(method, kind, path, calls)`, and `ArmServer` has
one action for each kind of call (`DoGet`, `DoSet`, `DoDeleteByPrefix`, ...). An early return
is a call that fails (`GiveUp`); a branch that is left out is a call with `skip`; what is done
after a failure all the same (the record of a deployment) starts at `cleanup`. A deployment
is the calls of its resources, then its own.

## Runs

| Run | What it shows | Bounds, and why they are enough |
|---|---|---|
| `file_backend` | type, `DiskHoldsAPastState`, `DiskNeverGoesBack`, `FinalSaveCoversTheSignal`, refinement of `Checkpoint`; `FileHasAnsweredUpdates`, `LogIsNotAhead`; under fairness every state is saved in the end and a signalled process ends | cast 1: two keys, which make a mixture possible, three states, which let a sweep follow writes of both, one failing save, one restart. Cast 2: one VM, created, updated once and created or deleted again, one restart, so that a Go map that was loaded is changed too |
| `aks` | type, `NoLeakedContainer`, `RecordedClusterWorks`, `CreateOwnsItsContainer`; every request is answered | one client: three clusters in two groups, so that a cascade must spare one; two clusters and two stops; a state file and two stops. Two clients of one cluster, two ports and one failing command: with a state file or a reset, and one stop |
| `service_bus` | FIFO refinement, messages kept, nothing left over, numbering across restarts; every receive is right at some moment while it ran | cast `Sequential`: one client, two queues and a topic that share the counter, four messages, both backends, a restart. Cast `OneSenderOfTwo`: a sender against a client that creates, deletes, receives and administers, three messages, a reset. Both again for storage queues (`StorageQueues`), without topics, namespaces and receives, with clearing |
| `arm` | type, `NoOrphans`, `OnlyTheSubtreeGoes`, `GetAnswersItsChildren`, `AddressesStay`, `AddressesDiffer`, `DeploymentRecordsItsOutcome`, `DeletionReachesTheSubtree`, refinement of `ResourceTree` | one client and 18 families of requests that together use every handler, with names `a` and `ab`, of which one begins with the other, and four addresses. Two clients (interchangeable) and a reset at any moment: five families with a parent, its children, a second parent and the group; a group's sweeps are restricted to the kinds the family stores, the others find nothing. A restart with a state file: records whose type is asserted, addresses, a network. PostgreSQL: the same records, two groups that `LIKE` does not tell apart, security groups, and two clients whose `Get`s are copies |
| `compute` | type, `RecordedVMWorks`, `NothingLeftOver`, `SecretsLeadHome`, `SiblingsShareNoPort`, `TokensNameLivingIdentities`, `PrincipalsAreStable`, `PutFindsTheNameFree`, `GroupHasItsContainer`, `OnlyResourceGroupsAbandon`, refinement of `Machines` | eight casts, below |
| `shared_record`, `aks_stale`, `service_bus_race`, `service_bus_file`, `arm_group`, `arm_restart`, `compute_redeploy` | disagreements between the documentation and the code, below | the smallest instance that shows them |

The casts of `compute` share two VMs, three services of which two are on one VM and two ask
for one host port, one identity, two container groups, and one resource group over all of them:
`OneClient` (everything about VMs, a service that ends by itself), `Restarts` (a restart with
and without docker, images that do not start), `TwoClients` (of VMs and services, so that two
VMs compete for the port), `Attested` (two clients of identities and tokens), `Deployers` and
`Deployer` (container groups, with two clients or a restart), `Together` (a container group
against a VM's service on one port) and `Overlapping` (two clients that do not wait for each
other, for what holds then too). Two of each thing are enough for one to be in the way of
another, and two creations (three PUTs) for a name to be used again after a failure. Symmetry of
the clients is sound there: no property singles one out, and the properties are safety.

Except for `Overlapping`, clients are *serialised*: no request about a VM is sent while one that
writes it is in progress (requests about other VMs, tokens and container groups overlap). The
code does not serialise them. Two overlapping requests about one VM can leave a
container without a record or a secret without a VM, since handlers store what they
read before their docker commands; the hazards in `PROJECT.json` that say so are why the
properties have this condition, and they promise nothing beyond it.

`CHECK_DEADLOCK FALSE` stands in the store and AKS configurations because a process may
end for good there, and the bounded versions run out; Service Bus clients can always
receive or create, and ARM requests can always be answered, so their runs check for
deadlock. A cast of `ArmServer` bounds the addresses given, the resets and the restarts: a request
that would take one address more is not sent. Four objects are more than the store and the
requests of two clients can refer to at a time in these families; a run that needed another would
stop there and be reported. A restart there is between requests, and its file is what the final
`Save` wrote: what a failed save or a kill does to the file is `FileBackend`'s subject.

### Fairness

`FileBackend` and `SharedRecord`: goroutines that can run do run (an encoding goes on too), the ticker keeps firing, and a `select`
whose two cases stay ready picks each in the end (strong fairness of `AutoSaveStops`: Go
picks at random). `AksBackend`: requests in progress continue, docker commands return,
`main` goes through its shutdown, and a goroutine that waits for a `sync.Mutex` gets it
(strong fairness of `CreateBegins`: after a millisecond of waiting Go's mutex hands itself
over). No fairness is assumed for new requests, signals, failures, kills or restarts.

### Disagreements found

* `shared_record`: `Snapshot` copies references to the stored Go maps and `Save` encodes what
  they refer to after the lock is released, so the file may have some fields of an update and
  not others. The changelog says of that snapshot that `Save` no longer reads inconsistent state.
* `aks_stale`: after a PUT replaced a container and the process was killed before the
  next save, the restored record has the old port although the container survived.
* `service_bus_race`: two senders read the same counter and one message overwrites the other.
* `service_bus_file`: with file persistence `ReceiveMessage` answers the first record of
  the whole store.
* `arm_group`: `resourcegroups/handler.go` sweeps a list of prefixes. Pools, probes and
  rules of load balancers, deployments, container apps, jobs and environments, service
  plans, slots and the settings of sites are not on it and outlive the group, of which the
  architecture page says that all child resources go.
* `arm_restart`: the deployment guide says that the JSON file survives restarts. What `load` reads
  are Go maps, no longer the structs that were stored. PATCH of a resource group and GET of a blob
  panic on them; the lists of secrets and of containers leave them out. Over PostgreSQL the same is so from the first request on.
* `compute_redeploy`: a service whose docker run failed after it created the container (its
  port is in use) loses its record and keeps its container; PUT removes a container only when
  there is a record, so that no later PUT "replaces the existing container".

Properties that the same causes break elsewhere are checked where they do hold, and the
hazard list in `PROJECT.json` says where they do not: `NoLeakedContainer` for one client
without failing commands and resets, `RecordedClusterWorks` for such a client without a
state file, the Service Bus promises for the plain map (`PlainMap...`), and of these
`PlainMapLeavesNothingOver` and the FIFO queue `Undisturbed`, since the DELETE of a
namespace leaves the messages of its queues, and a send in progress puts its message into a
store that was reset; `NoOrphans`, `GetAnswersItsChildren` and the resource tree for one
client, since a parent may go between a child's check and its set. The resource tree is for the
map in memory and in a file: over PostgreSQL `DeleteByPrefix` does not escape the underscores of
the prefix (`CountByPrefix` does), so that the DELETE of a group `g_h` also sweeps the records of
`gxh`; `OnlyTheSubtreeGoes` allows that much and no more. `AddressesDiffer` is about one process,
because `ipCounter` starts at zero again beside restored addresses; `AddressesStay` holds over a
restart. `GetAnswersItsChildren`
is for one client for another reason too: GET of a VNet assigns the list it read to the
shared stored map and encodes that map, so overlapping GETs answer each other's lists.

## Proofs

All theorems hold for every value of the constants that satisfies the named assumptions.

* `FileBackend_proofs`. `IInv` is the conjunction of `TypeOK`, `MemInv` (what the write
  lock protects and what the history says of the map), `LockInv` (a saver is between
  `SaveLock` and its return exactly when it holds `mu`; readers are the copying savers),
  `SnapInv` (a saver's partial copy agrees with the state it is numbered with on every key
  already copied, and the map has not moved since while it copies), `DiskHoldsAPastState`
  and `SignalInv`. None of the properties is inductive by itself: that `state.json` is whole
  needs that the renamed file is the renaming saver's own copy, which needs `mu`; that it
  does not go back needs that a snapshot is taken after `mu` is obtained, so its number is
  at least that of the file. The refinement maps a rename to the abstract save and every other step
  to an abstract change or a stutter.
* `AksBackend_proofs`. `IInv` is `TypeOK`, `MutexInv` (the client in `run` or `wait` is the
  holder of `Create`'s mutex), `TargetInv`, `DownInv` (a process that is down has no requests) and
  `CreateOwnsItsContainer`: only the holder runs a container, so between docker run and the
  end of the wait the container can only disappear, never be another one. For one client,
  `NothingLeaks` adds `Clean`: a container that is there belongs to a record or to the request
  that is about to write one, and a request that drops a record has removed its container. That
  is also true of what a restart reaps. `ClustersWork` adds `Sound` (the container of a record
  is ready on its port unless the request in progress has taken it apart) and `Forgetful`
  (without a state file a restart brings no record back); its assumption `EnoughPorts`, that there
  are as many ports as clusters, leaves `Create` a port by a count of those in use.
* `SharedRecord_proofs`. `SharedImplementsFileBackend` is `SharedSpec => Spec`: the field
  assignments and encodings are stutters of `FileBackend`, whose theorems carry over. The two
  properties speak of the file alone and need what stands behind it: each Go map, partial
  encoding and written file `Covers` the update its number was stored by and is `Ordered`
  (nothing in the outer map is newer than `properties`), a fresh number is in no map, copy or file
  (`NumberInv`), and only the holder of `mu` has anything in `.tmp`.

* `ArmServer_proofs`. The requests are a constant, so the theorems have hypotheses about
  them. `WellFormed`: skips and `cleanup` stay inside the request, and a list is assigned
  only after a `Get` of a record that has one. `Thorough`: for every record a DELETE
  promises to take along, one of its calls is a sweep that no skip leaves out. `WellAimed`:
  every key a call deletes is the target, below it, or of the account it is named after; names that
  `LIKE` confuses are only allowed for over PostgreSQL.
  `TypeCorrect` rests on `ObjectInv`: a record got from, or stored under, a kind with a list
  is an object, without which assigning to it would leave the type of `heap`.
  `DeletionIsThorough` rests on `SweepInv`: a promised record that has been in the store
  since the request began will still be swept by a call at or after `pc`. The property
  itself only speaks of finished requests, so it is not inductive; that other clients
  interleave does not matter because a record they delete, or write again, leaves the window
  first. `DeletionIsAimed` needs that only DELETE requests delete.
  `AddressesNeverShared` and `AddressesAlwaysStay` ask for `WellAddressed`: a public IP is stored by
  the third of three calls (look, choose, store) that nothing jumps into. For the first, `ClaimInv` says that
  every address in the store, or in the hands of a request on its way there, has been given and
  is claimed by one public IP; the property speaks of the store alone. For the second, with one request
  at a time (which needs the set of clients to be finite, to count those that run), what the look has
  found is still the record (`Kept`).
  The properties about one client at a time have invariants of their own; for each, a reset, which is the
  request of another client, does not come between two calls (`resets = 0` where `atOnce = 1`).
  `NoneOrphaned` and `RecordsFormATree` ask for `AllTended`: a child is stored only after a call that
  found or stored its parent, with no deletion and no jump in between (`AsksParents`), and what a
  deletion leaves without its parent a sweep that follows takes, with only sweeps before it
  (`SweepsChildren`). `TreeInv`: a parent that has been asked for is there (`Grown`), and an orphan
  in the store is one that the request in progress is about to sweep (`OrphanSwept`), which a
  `NoOrphans` about idle servers says nothing of. A sweep then removes only orphans, a deletion only one
  record with what is below it, and everything else leaves the tree or adds a leaf: the refinement.
  `DeploymentsAreRecorded` (`OutcomeInv`): while nothing has failed, each call on the way behind `pc` has
  put its record, and none was one the router does not know; once something has, `pc` is in the part
  that records. `GetsAnswerTheirChildren` (`AnswerInv`): what one client sees does not change while it
  reads, and the list is first `listed`, then in the stored object, then `listed` again. A list that
  asserts a struct is of a kind in `AssertedKinds` (`ListsTyped`), so that all it leaves out is decoded.

  The second half of the module shows all of these hypotheses of the handlers, so that the theorems
  `Handlers...` ask no more than `AllHandled`: every request is one of the operators of
  `ArmHandlers`, each of which is named in `Handler`, with any names at all. `Sound` is what is shown of each.
  For most it follows from a look at every call (`Simple`); the PUTs of children ask for the parent first
  (`Adopts`); the deletions, unfolded one by one, sweep afterwards (`SweptLater`, for `DeleteGroup` its
  list `GroupSweeps`); `updateVNetSubnets` jumps over its own last calls only (`EndsRelisting`). `Deploy` takes a
  template of any length: `Composable` is what survives when calls are put one after the other, with
  jumps counted from the call they start at and parents asked for within a request, and
  a least prefix of the template for which it failed would have a smaller one (`ChainComposes`), which is the
  induction, over numbers and without an operator as its parameter.
  `HandlersAnswer` finds the GETs among them (`GetVNet`, `GetNSG`, `DownloadBlob`, `listContainersXML`,
  `ListSecrets`) and that each lists the children of its own record.
  What is left as a hypothesis for one client at a time is `ResetsApart`, and that `Clients` is finite.
  The casts of run `arm` with several requests at a time take a shorter list of kinds for the DELETE of a group
  (`Sweeping`), to which the theorems about requests in general apply. The proof corrected a
  property: over PostgreSQL the DELETE of a namespace sweeps, by `LIKE`, the queues of a namespace with a
  name alike, which `OnlyTheSubtreeGoes` now says (`LikeSameName`).

* `VirtualMachine_proofs` proves type correctness, action by action. The others use it.
* `VirtualMachineSafety_proofs`. `NoTokenForTheDeleted`: `Watched`, a request about tokens has
  seen every identity it may still store a token for. `PrincipalsStay`: a request that writes a
  principal holds the one on record, if there is one; that nobody changes it in between needs
  that requests about one identity are apart (`Apart`), which in turn needs that a group's
  DELETE in progress keeps everything of its group to itself (`Grouped`). `PortsNeverShared`:
  `Ported`, a deployment between its comparison of ports and its record has compared them with
  every record its VM's services still have. `SecretsLeadHome` is about every moment of every handler, and
  its invariant `Secret` has a part for each way a request holds a secret: an index entry
  leads to a VM whose record has that secret (`Leads`), secrets of two VMs differ (`Distinct`), and
  a secret that is built or about to be indexed is nobody else's (`Rivals`, `Claim`, `Building`).
  `RecordedVMsAlwaysWork` and `NothingIsLeftOver` speak of VMs that no request is about, and what they
  say of docker is false at almost every point in between. `Shape` is the invariant: `Rest` of a VM
  nobody is about, and of a VM that a request is about the `Phase` of that request, which says for each
  point what is still, or already, in docker: all that is on record but for what the request is about to
  remove (`Backed`), and nothing that is not on record but for what it is about to record or to take away
  (`Recorded`, `Removed`). A deletion is right only because networks are taken away when empty, so
  `Netted` is needed too: nothing but a VM's own container and those of its services is on its network.
  Each handler has one lemma (`PuttingMeets`, `DeployingMeets`, `PoweringMeets`, `DeletingMeets`): a step
  goes on, ends or begins, and only touches what it is about (`Local`), so that `ShapeAfter` has the other
  VMs where they were. TLC has checked `Shaped` and `Netted` as invariants of the instance of `compute`.
  That other containers attach to no VM's network is what `Elsewhere` says of the rest of the daemon's
  users: `aci` and `aks` do not, and what users do by hand is not modelled.
  `HandlersImplementMachines` needs more than `Shape`, which says what docker has but not what of it a
  request knows: `ReadyFor`, for each VM a request is about. While a service is being deployed its VM runs;
  what a request that stops or removes services has still to visit contains all that run, or are there;
  and a VM whose record is about to go has neither container nor services left. Each handler has a lemma
  again (`PuttingRenders`, `PoweringRenders`, `DeployingRenders`, `DeletingRenders`): its step leaves the
  VM as `ReadyFor` asks and is one of `Machines`, or none. `PreparedAfter` says that `ReadyFor` of other requests
  stays, since all a step does to their VMs is to let services end (`Slackens`). The machines of a group disappear
  in one step, the sweep of the group's records, so `Delete` of `Machines` takes a set. In casts that are not
  serialised the mapping is empty, and the theorem says nothing. TLC has checked `Prepared` as an
  invariant of the instance of `compute`.
* `ServiceBus_proofs`. That the counter stays in its type needs a count (`CountInv`): it has not passed
  the messages sent, less the requests at the increment. Numbering rests on `OrderInv`. `r` is what had
  been sent when the present life began; messages after `r` have numbers below what the sender
  holds (`Fine`), and a smaller number with a later message has a restart in between (`Tidy`); a
  restart makes the present `sends` the new `r`. A receive is right because the key it picked cannot be
  filled again (`PickedAt`: its number is spent), and a mailbox is only ever emptied as a whole, so that a
  message that has gone means that the queue was empty at some moment. For one client `KeptAt` and
  `OwedAt` say what a send and a sweep in progress may still owe. `QueuesAreFIFO` is the refinement of
  `MessageQueue`. `InOrder` reads a mailbox by the ranks of its numbers, so that its three lemmas need no induction:
  a mailbox that gets its highest number is the sequence before with the message appended
  (`LastIsAppended`, whose number is highest by `OrderInv`), the key `First` picks is its head
  (`LeastIsFirst`), and a place that is free in between would be below a least element (`EveryPlaceIsTaken`).
  `SoleAt` adds that what is due is of a queue there is, and that a key is first until it is got. A created queue
  is empty by `OwedAt`; a deletion takes effect with the queue's record, its sweep shows in no queue.
* `ContainerInstance_proofs`. `PutsFindNamesFree` and, for containers whose names are not shared
  (`OwnNames`: the name has no resource group in it, so two groups of one name in two resource
  groups do share it), `GroupsHaveTheirContainers` and `NobodyElseAbandons`. The invariant `Tidy` says
  what is true of one container at each step of the one request that may change it; its parts
  are proved to survive the steps of everybody else once, since docker commands of VMs only touch
  the names of VMs and services. `MachinesAmongContainers` is `ComputeSpec => Spec`, which carries the
  theorems about VMs over to both together.

Model-checked only: liveness (`EveryStateIsSaved`, `ShutdownEnds`, `RequestsFinish`), which
needs fairness. No invariant and no refinement of a passing run is only model-checked.

## Not modelled

Formatting and parsing of bodies, routing, TLS and certificates, logging, metrics, the
`azlocal` client, header authentication: no state another step reads. A database that fails under the PostgreSQL
backend, whose operations then answer as if there were nothing. Cluster reads and the stub
backend of AKS, and the reads of the other services that change nothing: they touch nothing
another step sees. The handler of `services/functions` is never registered. What database
engines outside hold. Receiving from a storage queue answers one list of all messages in no order, and
changes nothing.

Of `vm` and `aci`: reading logs and running commands in containers changes nothing another step
sees. The reset endpoint is not an action of `VirtualMachine`: it forgets every record and
leaves containers and networks, as the restart without persistence does. A restart with
persistence is not either: what comes back are the records of the file. The docker probe is one
value for both services, although container instances also need the docker socket, and its
answer is kept from the first request on. The instance has no two container groups of one name in
two resource groups. Two principals are told apart by number, so an identity that is made again
gets a new one.

Some observations are not properties of a run: prefixes without a final colon also list the
settings and plans of longer names; after a restart `DeleteServer` of PostgreSQL servers no longer
knows the type of its databases and drops none of them in the engine outside; the content of a blob is
not in the file; deleting a site leaves its `func:` key; the check of a registry's name asserts a
`Registry` while PUT stores the map it answers (`acr/handler.go:123` and `:210`), so that it sees no
registry, restored or not, and every name is available.

## Plan

1. Failures of the database under the PostgreSQL backend, which the services take for absence.
