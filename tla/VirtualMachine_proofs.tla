------------------------ MODULE VirtualMachine_proofs ------------------------
(***************************************************************************)
(* What holds of VirtualMachine for any number of clients, machines,       *)
(* services, groups and identities, any casts and any bounds, with proofs  *)
(* checked by TLAPS.                                                       *)
(***************************************************************************)
EXTENDS VirtualMachine, TLAPS

StoreType == /\ groups \subseteq Groups
             /\ record \in [VMs -> 0 .. MaxCreates]
             /\ index \in [Secrets -> VMs \cup {None}]
             /\ assigned \in [Secrets -> [Identities -> Principals]]
             /\ service \in [Services -> [port : Ports \cup {NoPort}, there : BOOLEAN]]
             /\ identities \in [Identities -> Principals]
             /\ tokens \subseteq VMs \X Identities
BoundsType == created \in 0 .. MaxCreates /\ principals \in Principals /\ exits \in Nat /\ restarts \in Nat

(* A request at a point that uses one of its fields has a value in it.     *)
ServicePoints == {"inspect", "siblings", "own", "unplace", "launch", "unrecord", "record",
                  "svcWriteback", "svcRemove", "svcDrop", "svcVM"}
MachinePoints == {"resolve", "network", "stale", "run", "unnet", "store", "index", "writeback",
             "delList", "delServices", "delNet", "delSweep", "delSecret", "delKey",
             "stopServices", "startVM", "startServices"}
PowerPoints == {"powerList", "decide"}
VMPoints == MachinePoints \cup PowerPoints \cup TokenPoints \cup ServicePoints
GroupPoints == {"rgContainers", "rgList", "rgNext", "rgServices", "rgIdentities"}
IdentityPoints == {"idGet", "idSet", "tokenIdentity", "tokenSet"}

Sound(r) == /\ r.at \in VMPoints => r.vm \in VMs
            /\ r.at \in ServicePoints => r.svc \in Services /\ r.vm = HostOf[r.svc]
            /\ r.at \in PowerPoints => r.action # None
            /\ r.at \in GroupPoints => r.group \in Groups
            /\ r.at \in IdentityPoints => r.who \in Identities

SoundRequest == {r \in Request : Sound(r)}
RequestsType == req \in [Clients -> SoundRequest]

(* The inductive form of type correctness.                                 *)
Typed == StoreType /\ DockerTypeOK /\ cast \in Casts /\ RequestsType /\ BoundsType

LEMMA TypedIsTypeOK == Typed => TypeOK
BY DEF Typed, TypeOK, StoreType, BoundsType, RequestsType, SoundRequest

-----------------------------------------------------------------------------
(* Requests                                                                *)

LEMMA PointMoves ==
  ASSUME NEW r \in SoundRequest, NEW p \in Points, Sound([r EXCEPT !.at = p])
  PROVE  [r EXCEPT !.at = p] \in SoundRequest
BY DEF Request, SoundRequest

LEMMA Nothing == NoRequest \in SoundRequest
<1>1. 0 \in Principals /\ 0 \in 0 .. MaxCreates /\ NoIdentities \in [Identities -> Principals]
  BY BoundsAssumption DEF Principals, NoIdentities
<1>2. NoRequest \in Request
  BY <1>1 DEF NoRequest, Request, Points, NoCascade
<1> QED
  BY <1>2 DEF NoRequest, SoundRequest, Sound, MachinePoints, PowerPoints, VMPoints, ServicePoints, GroupPoints, IdentityPoints, TokenPoints

LEMMA Becomes ==
  ASSUME RequestsType, NEW c \in Clients, NEW r \in SoundRequest, Become(c, r)
  PROVE  RequestsType'
BY DEF RequestsType, Become

LEMMA Finishes ==
  ASSUME RequestsType, NEW c \in Clients, Finish(c)
  PROVE  RequestsType'
BY Nothing, Becomes DEF RequestsType, Finish

LEMMA Begins ==
  ASSUME RequestsType, NEW c \in Clients, NEW r \in SoundRequest, Begin(c, r)
  PROVE  RequestsType'
BY Becomes DEF Begin

(* From a point about a VM to another; the same of services and groups.    *)
LEMMA Moves ==
  ASSUME RequestsType, NEW c \in Clients, NEW p \in Points, Goto(c, p),
         \/ p \in MachinePoints /\ req[c].at \in VMPoints
         \/ p \in ServicePoints /\ req[c].at \in ServicePoints
         \/ p \in GroupPoints /\ req[c].group # None
         \/ p \in {"tokenSet"} /\ req[c].at \in {"tokenIdentity"}
  PROVE  RequestsType'
<1>1. req[c] \in SoundRequest
  BY DEF RequestsType
<1>2. Sound([req[c] EXCEPT !.at = p])
  BY <1>1 DEF Sound, SoundRequest, Request, MachinePoints, PowerPoints, VMPoints, ServicePoints, GroupPoints, IdentityPoints, TokenPoints
<1> QED
  BY <1>1, <1>2, PointMoves, Becomes DEF Goto

(* What a request is made of.                                              *)
LEMMA Fields ==
  ASSUME NEW r \in Request
  PROVE  /\ r.at \in Points /\ r.vm \in VMs \cup {None} /\ r.svc \in Services \cup {None}
         /\ r.group \in Groups \cup {None} /\ r.who \in Identities \cup {None}
         /\ r.principal \in Principals /\ r.held \in 0 .. MaxCreates /\ r.port \in Ports \cup {NoPort}
         /\ r.ids \in [Identities -> Principals] /\ r.todo \subseteq Identities \cup Services
         /\ r.listed \subseteq Services /\ r.cascade \in [VMs -> 0 .. MaxCreates]
         /\ r.seen \subseteq Identities
BY DEF Request

LEMMA AboutVM ==
  ASSUME NoRequest \in Request, NEW v \in VMs, NEW p \in Points, record[v] \in 0 .. MaxCreates
  PROVE  VMRequest(v, p) \in Request /\ VMRequest(v, p).vm = v /\ VMRequest(v, p).at = p
BY DEF VMRequest, Request

LEMMA VMRequests ==
  ASSUME StoreType, NEW v \in VMs, NEW p \in MachinePoints
  PROVE  VMRequest(v, p) \in SoundRequest
<1>0. NoRequest \in Request /\ record[v] \in 0 .. MaxCreates
  BY Nothing DEF SoundRequest, StoreType
<1>p. p \in Points
  BY DEF MachinePoints, PowerPoints, VMPoints, Points, ServicePoints, TokenPoints
<1>1. VMRequest(v, p) \in Request
  BY <1>0, <1>p, AboutVM
<1> QED
  BY <1>1 DEF VMRequest, SoundRequest, Sound, MachinePoints, PowerPoints, VMPoints, ServicePoints, GroupPoints, IdentityPoints, TokenPoints, Request, NoRequest

LEMMA ServiceRequests ==
  ASSUME StoreType, NEW s \in Services, NEW p \in ServicePoints, NEW port \in Ports \cup {NoPort}
  PROVE  ServiceRequest(s, p) \in SoundRequest /\ [ServiceRequest(s, p) EXCEPT !.port = port] \in SoundRequest
<1>1. HostOf[s] \in VMs
  BY PlacesAssumption
<1>h. NoRequest \in Request /\ record[HostOf[s]] \in 0 .. MaxCreates
  BY <1>1, Nothing DEF SoundRequest, StoreType
<1>p. p \in Points
  BY DEF ServicePoints, Points
<1>2. VMRequest(HostOf[s], p) \in Request /\ VMRequest(HostOf[s], p).vm = HostOf[s] /\ VMRequest(HostOf[s], p).at = p
  BY <1>h, <1>p, <1>1, AboutVM
<1> DEFINE base == VMRequest(HostOf[s], p)
           r == [base EXCEPT !.svc = s]
           q == [r EXCEPT !.port = port]
<1>b. ServiceRequest(s, p) = r
  BY DEF ServiceRequest
<1> HIDE DEF base
<1>c. r \in Request /\ r.vm = HostOf[s] /\ r.svc = s /\ r.at = p
  BY <1>2 DEF Request, base
<1> HIDE DEF r
<1>d. q \in Request /\ q.vm = r.vm /\ q.svc = r.svc /\ q.at = r.at
  BY <1>c DEF Request
<1> HIDE DEF q
<1>3. /\ ServiceRequest(s, p) \in Request /\ [ServiceRequest(s, p) EXCEPT !.port = port] \in Request
      /\ ServiceRequest(s, p).vm = HostOf[s] /\ ServiceRequest(s, p).svc = s /\ ServiceRequest(s, p).at = p
      /\ [ServiceRequest(s, p) EXCEPT !.port = port].vm = HostOf[s] /\ [ServiceRequest(s, p) EXCEPT !.port = port].svc = s
      /\ [ServiceRequest(s, p) EXCEPT !.port = port].at = p
  BY <1>b, <1>c, <1>d DEF q
<1>4. p \notin GroupPoints /\ p \notin IdentityPoints /\ p \notin PowerPoints
  BY DEF ServicePoints, GroupPoints, IdentityPoints, PowerPoints
<1> QED
  BY <1>1, <1>3, <1>4 DEF SoundRequest, Sound

-----------------------------------------------------------------------------
(* Type correctness.  What a step leaves alone keeps its type.             *)

LEMMA StoreStays == ASSUME StoreType, UNCHANGED store PROVE StoreType'
BY DEF StoreType, store

LEMMA DockerStays == ASSUME DockerTypeOK, UNCHANGED <<docker, dockerAvail>> PROVE DockerTypeOK'
BY DEF DockerTypeOK, docker

LEMMA BoundsStay == ASSUME BoundsType, UNCHANGED bounds PROVE BoundsType'
BY DEF BoundsType, bounds

(* A step that changes only requests; and one that changes docker too.     *)
LEMMA OnlyRequests ==
  ASSUME Typed, RequestsType', UNCHANGED <<store, docker, fixed, bounds>>
  PROVE  Typed'
BY StoreStays, DockerStays, BoundsStay DEF Typed, fixed

LEMMA OnlyDocker ==
  ASSUME Typed, RequestsType', DockerTypeOK', UNCHANGED <<store, fixed, bounds>>
  PROVE  Typed'
BY StoreStays, BoundsStay DEF Typed, fixed

LEMMA OnlyStore ==
  ASSUME Typed, RequestsType', StoreType', UNCHANGED <<docker, fixed, bounds>>
  PROVE  Typed'
BY DockerStays, BoundsStay DEF Typed, fixed

(* The docker commands.                                                    *)
LEMMA ContainerType ==
  ASSUME NEW st \in States, NEW p \in Ports \cup {NoPort}, NEW net \in Networks \cup {Bridge}, NEW tag \in Tags
  PROVE  [state |-> st, port |-> p, net |-> net, tag |-> tag] \in Container
BY DEF Container

LEMMA CommandTypes ==
  ASSUME DockerTypeOK, NEW n, UNCHANGED <<network, dockerAvail>>,
         \/ Remove(n) \/ RemoveStopped(n) \/ Stop(n) \/ Start(n) \/ Exits(n) \/ RunRefused(n)
         \/ \E p \in Ports \cup {NoPort}, net \in Networks \cup {Bridge}, tag \in Tags :
                Run(n, p, net, tag) \/ \E broken \in BOOLEAN : RunBreaks(n, p, net, tag, broken)
  PROVE  DockerTypeOK'
<1> USE DEF DockerTypeOK
<1>0. NoContainer \in Container
  BY TagsAssumption DEF NoContainer, Container, States, NoTag
<1>1. CASE Remove(n) \/ RemoveStopped(n)
  BY <1>0, <1>1 DEF Remove, RemoveStopped
<1>2. CASE Stop(n) \/ Start(n) \/ Exits(n)
  BY <1>2 DEF Stop, Start, Exits, Container, States
<1>3. CASE RunRefused(n)
  BY <1>3 DEF RunRefused
<1>4. ASSUME NEW p \in Ports \cup {NoPort}, NEW net \in Networks \cup {Bridge}, NEW tag \in Tags,
             Run(n, p, net, tag) \/ \E broken \in BOOLEAN : RunBreaks(n, p, net, tag, broken)
      PROVE  DockerTypeOK'
  BY <1>4, ContainerType DEF Run, RunBreaks, States
<1> QED
  BY <1>1, <1>2, <1>3, <1>4

LEMMA NetworkTypes ==
  ASSUME DockerTypeOK, NEW net \in Networks, NetworkCreate(net) \/ NetworkRemove(net), UNCHANGED <<container, dockerAvail>>
  PROVE  DockerTypeOK'
BY DEF DockerTypeOK, NetworkCreate, NetworkRemove

(* Where a request is, and what it is about then.                          *)
LEMMA About ==
  ASSUME RequestsType, NEW c \in Clients
  PROVE  /\ req[c] \in SoundRequest /\ req[c] \in Request
         /\ req[c].held \in 0 .. MaxCreates /\ req[c].held \in Tags
         /\ req[c].at \in VMPoints => req[c].vm \in VMs /\ req[c].vm \in Names /\ req[c].vm \in Networks
         /\ req[c].at \in ServicePoints => /\ req[c].svc \in Services /\ req[c].svc \in Names
                                           /\ req[c].vm = HostOf[req[c].svc]
         /\ req[c].at \in PowerPoints => req[c].action \in {"start", "powerOff", "restart"}
         /\ req[c].at \in GroupPoints => req[c].group \in Groups
<1>1. req[c] \in SoundRequest /\ req[c] \in Request
  BY DEF RequestsType, SoundRequest
<1>2. req[c].held \in 0 .. MaxCreates
  BY <1>1, Fields
<1>3. req[c].action \in {None, "start", "powerOff", "restart"}
  BY <1>1 DEF Request
<1> QED
  BY <1>1, <1>2, <1>3, DockerNamesAssumption, SecretsAssumption DEF SoundRequest, Sound

LEMMA AtMachine == ASSUME NEW r \in Request, r.at \in MachinePoints, r.vm \in VMs PROVE r \in SoundRequest
BY DEF SoundRequest, Sound, MachinePoints, PowerPoints, VMPoints, ServicePoints, GroupPoints, IdentityPoints, TokenPoints

LEMMA AtPower ==
  ASSUME NEW r \in Request, r.at \in PowerPoints, r.vm \in VMs, r.action # None
  PROVE  r \in SoundRequest
BY DEF SoundRequest, Sound, MachinePoints, PowerPoints, VMPoints, ServicePoints, GroupPoints, IdentityPoints, TokenPoints

LEMMA AtService ==
  ASSUME NEW r \in Request, r.at \in ServicePoints, r.svc \in Services, r.vm = HostOf[r.svc]
  PROVE  r \in SoundRequest
BY PlacesAssumption DEF SoundRequest, Sound, MachinePoints, PowerPoints, VMPoints, ServicePoints, GroupPoints, IdentityPoints, TokenPoints

LEMMA AtGroup == ASSUME NEW r \in Request, r.at \in GroupPoints, r.group \in Groups PROVE r \in SoundRequest
BY DEF SoundRequest, Sound, MachinePoints, PowerPoints, VMPoints, ServicePoints, GroupPoints, IdentityPoints, TokenPoints

(* A machine's request that goes on holding the value h of its record.     *)
LEMMA HoldsOn ==
  ASSUME NEW r \in Request, r.vm \in VMs, NEW p \in MachinePoints, NEW h \in 0 .. MaxCreates
  PROVE  [r EXCEPT !.at = p, !.held = h] \in SoundRequest
<1> DEFINE n == [r EXCEPT !.at = p, !.held = h]
<1>p. p \in Points
  BY DEF MachinePoints, PowerPoints, VMPoints, Points, ServicePoints, TokenPoints
<1>1. n \in Request
  BY <1>p DEF Request
<1>2. n.at = p /\ n.vm = r.vm
  BY DEF Request
<1> HIDE DEF n
<1>3. n \in SoundRequest
  BY <1>1, <1>2, AtMachine
<1> QED
  BY <1>3 DEF n

(* A clean-up that goes on with the machine v, which it no longer has.      *)
LEMMA CascadesOn ==
  ASSUME NEW r \in Request, NEW v \in VMs, NEW p \in MachinePoints \cup GroupPoints,
         p \in GroupPoints => r.group \in Groups
  PROVE  [r EXCEPT !.at = p, !.vm = v, !.cascade[v] = 0] \in SoundRequest
<1> DEFINE n == [r EXCEPT !.at = p, !.vm = v, !.cascade[v] = 0]
<1>p. p \in Points
  BY DEF MachinePoints, PowerPoints, VMPoints, Points, ServicePoints, TokenPoints, GroupPoints
<1>1. 0 \in 0 .. MaxCreates
  BY BoundsAssumption
<1>2. n \in Request
  BY <1>1, <1>p DEF Request
<1>3. n.at = p /\ n.vm = v /\ n.group = r.group
  BY DEF Request
<1> HIDE DEF n
<1>4. n \in SoundRequest
  BY <1>2, <1>3, AtMachine, AtGroup
<1> QED
  BY <1>4 DEF n

-----------------------------------------------------------------------------
(* The handlers.                                                           *)

LEMMA PuttingType == ASSUME Typed, NEW c \in Clients, Putting(c) PROVE Typed'
<1> USE DEF Typed, At
<1>f. req[c] \in SoundRequest /\ req[c] \in Request
  BY DEF RequestsType, SoundRequest
<1>n. NoRequest \in Request
  BY Nothing DEF SoundRequest
<1>s. \A r \in Request : r.at \in {"resolve", "network", "stale", "run", "unnet", "store", "index", "writeback"} /\ r.vm \in VMs => r \in SoundRequest
  BY DEF SoundRequest, Sound, MachinePoints, PowerPoints, VMPoints, ServicePoints, GroupPoints, IdentityPoints, TokenPoints
<1>w. {"writeback", "network", "store"} \subseteq MachinePoints
  BY DEF MachinePoints
<1>1. ASSUME NEW v \in VMs, NEW block \in BOOLEAN, NEW named \in SUBSET Identities, PutVM(c, v, block, named)
      PROVE  Typed'
  <2>1. [NoRequest EXCEPT !.at = "resolve", !.vm = v, !.block = block, !.todo = named] \in Request
    BY <1>n DEF Request, Points
  <2>2. [NoRequest EXCEPT !.at = "resolve", !.vm = v, !.block = block, !.todo = named] \in SoundRequest
    BY <1>n, <2>1, <1>s DEF Request
  <2> QED
    BY <1>1, <2>2, Begins, OnlyRequests DEF PutVM
<1>2. ASSUME NEW v \in VMs, GetVM(c, v) PROVE Typed'
  <2>1. "writeback" \in MachinePoints
    BY DEF MachinePoints, PowerPoints, VMPoints, ServicePoints, TokenPoints
  <2> QED
    BY <1>2, <2>1, VMRequests, Begins, OnlyRequests DEF GetVM
<1>3. ASSUME NEW i \in Identities, ResolveIdentity(c, i) PROVE Typed'
  <2>1. identities[i] \in Principals
    BY DEF StoreType
  <2>2. [req[c] EXCEPT !.todo = @ \ {i}, !.ids[i] = identities[i]] \in SoundRequest
    BY <1>f, <2>1 DEF Request, SoundRequest, Sound
  <2> QED
    BY <1>3, <2>2, Becomes, OnlyRequests DEF ResolveIdentity
<1>4. CASE ResolveFails(c)
  BY <1>4, Finishes, OnlyRequests DEF ResolveFails
<1>5. CASE UpdateVM(c)
  <2>1. req[c].vm \in VMs /\ req[c].ids \in [Identities -> Principals]
    BY <1>f, <1>5, Fields DEF UpdateVM, SoundRequest, Sound, MachinePoints, PowerPoints, VMPoints
  <2>2. record[req[c].vm] \in 0 .. MaxCreates
    BY <2>1 DEF StoreType
  <2>3. [req[c] EXCEPT !.at = "writeback", !.held = record[req[c].vm]] \in SoundRequest
    BY <1>f, <1>w, <2>1, <2>2, HoldsOn
  <2>4. StoreType'
    BY <1>5, <2>1 DEF UpdateVM, StoreType
  <2> QED
    BY <1>5, <2>3, <2>4, Becomes, OnlyStore DEF UpdateVM
<1>6. CASE BuildVM(c)
  <2>1. req[c].vm \in VMs /\ req[c].ids \in [Identities -> Principals]
    BY <1>f, <1>6, Fields DEF BuildVM, SoundRequest, Sound, MachinePoints, PowerPoints, VMPoints
  <2>2. cast.creates \in 0 .. MaxCreates
    BY CastsAssumption
  <2>3. created + 1 \in 0 .. MaxCreates
    BY <1>6, <2>2, BoundsAssumption DEF BuildVM, BoundsType
  <2>4. /\ [req[c] EXCEPT !.at = "network", !.held = created + 1] \in SoundRequest
        /\ [req[c] EXCEPT !.at = "store", !.held = created + 1] \in SoundRequest
    BY <1>f, <1>w, <2>1, <2>3, HoldsOn
  <2>5. RequestsType'
    BY <1>6, <2>4, Becomes DEF BuildVM
  <2>6. StoreType'
    BY <1>6, <2>1 DEF BuildVM, StoreType
  <2>7. BoundsType'
    BY <1>6, <2>3 DEF BuildVM, BoundsType
  <2> QED
    BY <1>6, <2>5, <2>6, <2>7, DockerStays DEF BuildVM, fixed
<1>p. {"network", "stale", "run", "unnet", "store", "index"} \subseteq MachinePoints \cap Points
  BY DEF MachinePoints, PowerPoints, VMPoints, ServicePoints, TokenPoints, Points
<1>v. req[c].at \in {"network", "stale", "run", "unnet", "store", "index", "writeback"} =>
         req[c].at \in VMPoints /\ req[c].vm \in VMs /\ req[c].vm \in Names /\ req[c].vm \in Networks /\ req[c].held \in Tags
                /\ req[c].held \in 0 .. MaxCreates
  BY <1>f, Fields, DockerNamesAssumption, SecretsAssumption DEF SoundRequest, Sound, MachinePoints, PowerPoints, VMPoints
<1>7. CASE CreateNetwork(c) \/ RemoveNetwork(c)
  <2>1. RequestsType'
    BY <1>7, <1>v, <1>p, Moves, Finishes DEF CreateNetwork, RemoveNetwork
  <2>2. DockerTypeOK'
    BY <1>7, <1>v, NetworkTypes DEF CreateNetwork, RemoveNetwork, fixed
  <2> QED
    BY <1>7, <2>1, <2>2, OnlyDocker DEF CreateNetwork, RemoveNetwork
<1>8. CASE CreateNetworkFails(c)
  BY <1>8, Finishes, OnlyRequests DEF CreateNetworkFails
<1>9. CASE RemoveStale(c) \/ RunVM(c) \/ RunVMFails(c)
  <2>1. RequestsType'
    BY <1>9, <1>v, <1>p, Moves DEF RemoveStale, RunVM, RunVMFails
  <2>2. NoPort \in Ports \cup {NoPort} /\ cast.unstartable \in BOOLEAN
    BY CastsAssumption
  <2>3. DockerTypeOK'
    BY <1>9, <1>v, <2>2, CommandTypes DEF RemoveStale, RunVM, RunVMFails, fixed
  <2> QED
    BY <1>9, <2>1, <2>3, OnlyDocker DEF RemoveStale, RunVM, RunVMFails
<1>10. CASE StoreVM(c) \/ IndexSecret(c) \/ WriteBack(c)
  <2>1. RequestsType'
    BY <1>10, <1>v, <1>p, Moves, Finishes DEF StoreVM, IndexSecret, WriteBack
  <2>2. StoreType'
    BY <1>10, <1>v DEF StoreVM, IndexSecret, WriteBack, StoreType
  <2> QED
    BY <1>10, <2>1, <2>2, OnlyStore DEF StoreVM, IndexSecret, WriteBack
<1> HIDE DEF Typed, At
<1>11. ASSUME \E v \in VMs, named \in SUBSET Identities : PutVM(c, v, TRUE, named) PROVE Typed'
  BY <1>11, <1>1
<1>12. ASSUME \E v \in VMs : PutVM(c, v, FALSE, {}) \/ GetVM(c, v) PROVE Typed'
  <2>1. FALSE \in BOOLEAN /\ {} \in SUBSET Identities
    OBVIOUS
  <2>2. PICK v \in VMs : PutVM(c, v, FALSE, {}) \/ GetVM(c, v)
    BY <1>12
  <2>3. CASE PutVM(c, v, FALSE, {})
    BY <2>1, <2>3, <1>1
  <2> QED
    BY <2>2, <2>3, <1>2
<1>13. ASSUME \E i \in Identities : ResolveIdentity(c, i) PROVE Typed'
  BY <1>13, <1>3
<1> QED
  BY <1>4, <1>5, <1>6, <1>7, <1>8, <1>9, <1>10, <1>11, <1>12, <1>13 DEF Putting

LEMMA DeletingType == ASSUME Typed, NEW c \in Clients, Deleting(c) PROVE Typed'
<1> USE DEF Typed, At
<1>r. req[c] \in SoundRequest /\ req[c] \in Request
  BY About
<1>m. /\ {"delList", "delServices", "delNet", "delSweep", "delSecret", "delKey"} \subseteq MachinePoints \cap VMPoints
      /\ {"delList", "delServices", "delNet", "delSweep", "delSecret", "delKey"} \subseteq Points
      /\ {"rgContainers", "rgList", "rgNext", "rgServices", "rgIdentities"} \subseteq GroupPoints \cap Points
      /\ MachinePoints \subseteq Points /\ GroupPoints \cap VMPoints = {}
  BY DEF MachinePoints, PowerPoints, VMPoints, GroupPoints, Points, TokenPoints, ServicePoints
<1>1. ASSUME NEW v \in VMs, DeleteVM(c, v) PROVE Typed'
  BY <1>1, <1>m, VMRequests, Begins, OnlyRequests DEF DeleteVM
<1>2. ASSUME NEW g \in Groups, DeleteGroup(c, g) PROVE Typed'
  <2>1. NoRequest \in Request
    BY Nothing DEF SoundRequest
  <2>2. [NoRequest EXCEPT !.at = "rgContainers", !.group = g] \in Request
    BY <2>1, <1>m DEF Request
  <2>3. [NoRequest EXCEPT !.at = "rgContainers", !.group = g] \in SoundRequest
    BY <2>1, <2>2, <1>m, AtGroup DEF Request
  <2>4. StoreType'
    BY <1>2 DEF DeleteGroup, StoreType
  <2> QED
    BY <1>2, <2>3, <2>4, Begins, OnlyStore DEF DeleteGroup
<1>3. CASE DeleteLists(c)
  <2>1. ServiceRecords(req[c].vm) \subseteq Services
    BY DEF ServiceRecords, Hosted
  <2>2. req[c].vm \in VMs
    BY <1>3, <1>m, About DEF DeleteLists
  <2>3. [req[c] EXCEPT !.at = "delServices", !.todo = ServiceRecords(req[c].vm)] \in Request
    BY <1>r, <1>m, <2>1 DEF Request
  <2>4. [req[c] EXCEPT !.at = "delServices", !.todo = ServiceRecords(req[c].vm)] \in SoundRequest
    BY <1>r, <1>m, <2>2, <2>3, AtMachine DEF Request
  <2> QED
    BY <1>3, <2>4, Becomes, OnlyRequests DEF DeleteLists
<1>4. ASSUME NEW s \in Services, DeleteRemoves(c, s) PROVE Typed'
  <2>1. [req[c] EXCEPT !.todo = @ \ {s}] \in SoundRequest
    BY <1>r DEF SoundRequest, Request, Sound
  <2>2. DockerTypeOK'
    BY <1>4, CommandTypes DEF DeleteRemoves, fixed
  <2>3. RequestsType'
    BY <1>4, <2>1, Becomes DEF DeleteRemoves
  <2> QED
    BY <1>4, <2>2, <2>3, OnlyDocker DEF DeleteRemoves
<1>5. CASE DeleteRemovesVM(c)
  <2>1. DockerTypeOK'
    BY <1>5, CommandTypes DEF DeleteRemovesVM, fixed
  <2>2. RequestsType'
    BY <1>5, <1>m, Moves DEF DeleteRemovesVM
  <2> QED
    BY <1>5, <2>1, <2>2, OnlyDocker DEF DeleteRemovesVM
<1>6. CASE DeleteRemovesNetwork(c)
  <2>1. DockerTypeOK'
    BY <1>6, <1>m, About, NetworkTypes DEF DeleteRemovesNetwork, fixed
  <2>2. RequestsType'
    BY <1>6, <1>m, Moves DEF DeleteRemovesNetwork
  <2> QED
    BY <1>6, <2>1, <2>2, OnlyDocker DEF DeleteRemovesNetwork
<1>7. CASE DeleteSweeps(c) \/ DeleteForgetsSecret(c) \/ DeleteDrops(c)
  <2>1. RequestsType'
    BY <1>7, <1>m, Moves, Finishes DEF DeleteSweeps, DeleteForgetsSecret, DeleteDrops
  <2>2. 0 \in 0 .. MaxCreates /\ Absent \in [port : Ports \cup {NoPort}, there : BOOLEAN]
    BY BoundsAssumption DEF Absent
  <2>3. StoreType'
    BY <1>7, <2>2 DEF DeleteSweeps, DeleteForgetsSecret, DeleteDrops, StoreType
  <2> QED
    BY <1>7, <2>1, <2>3, OnlyStore DEF DeleteSweeps, DeleteForgetsSecret, DeleteDrops
<1>g. req[c].at \in GroupPoints => req[c].group \in Groups /\ req[c].group # None
  BY About, NothingAssumption DEF None
<1>8. CASE CleanupLists(c)
  <2>1. [v \in VMs |-> IF GroupOf[v] = req[c].group THEN record[v] ELSE 0] \in [VMs -> 0 .. MaxCreates]
    BY BoundsAssumption DEF StoreType
  <2> DEFINE next == [req[c] EXCEPT !.at = "rgNext", !.cascade = [v \in VMs |-> IF GroupOf[v] = req[c].group THEN record[v] ELSE 0]]
  <2>2. next \in Request
    BY <1>r, <1>m, <2>1 DEF Request
  <2>3. next \in SoundRequest
    BY <1>r, <1>m, <1>g, <2>2, <1>8, AtGroup DEF Request, CleanupLists
  <2> QED
    BY <1>8, <2>3, Becomes, OnlyRequests DEF CleanupLists
<1>9. ASSUME NEW v \in VMs, CleanupForgetsSecret(c, v) PROVE Typed'
  <2>1. 0 \in 0 .. MaxCreates
    BY BoundsAssumption
  <2> DEFINE next(p) == [req[c] EXCEPT !.at = p, !.vm = v, !.cascade[v] = 0]
  <2>2. req[c].group \in Groups
    BY <1>g, <1>9 DEF CleanupForgetsSecret, GroupPoints
  <2>3. "delList" \in MachinePoints /\ "rgNext" \in GroupPoints
    BY DEF MachinePoints, GroupPoints
  <2>4. next("delList") \in SoundRequest /\ next("rgNext") \in SoundRequest
    BY <1>r, <2>2, <2>3, CascadesOn
  <2>5. RequestsType'
    BY <1>9, <2>4, Becomes DEF CleanupForgetsSecret
  <2>6. StoreType'
    BY <1>9 DEF CleanupForgetsSecret, StoreType
  <2> QED
    BY <1>9, <2>5, <2>6, OnlyStore DEF CleanupForgetsSecret
<1>10. CASE CascadeDropsVMs(c) \/ CascadeDropsServices(c) \/ CascadeDropsIdentities(c)
  <2>1. RequestsType'
    BY <1>10, <1>m, <1>g, Moves, Finishes DEF CascadeDropsVMs, CascadeDropsServices, CascadeDropsIdentities
  <2>2. 0 \in 0 .. MaxCreates /\ 0 \in Principals /\ Absent \in [port : Ports \cup {NoPort}, there : BOOLEAN]
    BY BoundsAssumption DEF Absent, Principals
  <2>3. StoreType'
    BY <1>10, <2>2 DEF CascadeDropsVMs, CascadeDropsServices, CascadeDropsIdentities, StoreType
  <2> QED
    BY <1>10, <2>1, <2>3, OnlyStore DEF CascadeDropsVMs, CascadeDropsServices, CascadeDropsIdentities
<1> HIDE DEF Typed, At
<1>11. ASSUME \E v \in VMs : DeleteVM(c, v) PROVE Typed'
  BY <1>11, <1>1
<1>12. ASSUME \E g \in Groups : DeleteGroup(c, g) PROVE Typed'
  BY <1>12, <1>2
<1>13. ASSUME \E s \in Services : DeleteRemoves(c, s) PROVE Typed'
  BY <1>13, <1>4
<1>14. ASSUME \E v \in VMs : CleanupForgetsSecret(c, v) PROVE Typed'
  BY <1>14, <1>9
<1> QED
  BY <1>3, <1>5, <1>6, <1>7, <1>8, <1>10, <1>11, <1>12, <1>13, <1>14 DEF Deleting

LEMMA DroppingContainersType == ASSUME Typed, NEW c \in Clients, CascadeDropsContainers(c) PROVE Typed'
<1>1. "rgList" \in GroupPoints /\ "rgList" \in Points /\ "rgContainers" \in GroupPoints
  BY DEF GroupPoints, Points
<1>2. req[c].group # None
  BY <1>1, About, NothingAssumption DEF CascadeDropsContainers, At, Typed, None
<1>3. RequestsType'
  BY <1>1, <1>2, Moves DEF CascadeDropsContainers, Typed
<1> QED
  BY <1>3, OnlyRequests DEF CascadeDropsContainers

LEMMA PoweringType == ASSUME Typed, NEW c \in Clients, Powering(c) PROVE Typed'
<1> USE DEF Typed, At
<1>r. req[c] \in SoundRequest /\ req[c] \in Request
  BY About
<1>m. /\ {"stopServices", "startVM", "startServices", "writeback"} \subseteq MachinePoints \cap VMPoints
      /\ {"powerList", "decide"} \subseteq PowerPoints \cap VMPoints
      /\ {"powerList", "decide", "stopServices", "startVM", "startServices", "writeback"} \subseteq Points
  BY DEF MachinePoints, PowerPoints, VMPoints, Points
<1>1. ASSUME NEW v \in VMs, NEW action \in {"start", "powerOff", "restart"}, PowerAction(c, v, action) PROVE Typed'
  <2> DEFINE next == [VMRequest(v, "powerList") EXCEPT !.action = action]
  <2>1. NoRequest \in Request /\ record[v] \in 0 .. MaxCreates
    BY Nothing DEF SoundRequest, StoreType
  <2>2. next \in Request
    BY <2>1, <1>m DEF Request, VMRequest
  <2>3. next.at = "powerList" /\ next.vm = v /\ next.action # None
    BY <2>1 DEF Request, VMRequest, None
  <2>4. next \in SoundRequest
    BY <2>2, <2>3, <1>m, AtPower
  <2> QED
    BY <1>1, <2>4, Begins, OnlyRequests DEF PowerAction
<1>2. CASE PowerLists(c)
  <2>1. ServiceRecords(req[c].vm) \subseteq Services
    BY DEF ServiceRecords, Hosted
  <2>2. req[c].vm \in VMs /\ req[c].action # None
    BY <1>2, <1>m, About DEF PowerLists, None
  <2> DEFINE next == [req[c] EXCEPT !.at = "decide", !.listed = ServiceRecords(req[c].vm), !.todo = ServiceRecords(req[c].vm)]
  <2>3. next \in Request
    BY <1>r, <1>m, <2>1 DEF Request
  <2>4. next \in SoundRequest
    BY <1>r, <1>m, <2>2, <2>3, AtPower DEF Request
  <2> QED
    BY <1>2, <2>4, Becomes, OnlyRequests DEF PowerLists
<1>3. CASE PowerDone(c)
  BY <1>3, <1>m, Moves, OnlyRequests DEF PowerDone
<1>4. CASE PowerDecides(c)
  <2>1. req[c].action \in {"start", "powerOff", "restart"}
    BY <1>4, <1>m, About DEF PowerDecides
  <2>2. PICK p \in {"writeback", "startVM", "stopServices"} : Goto(c, p)
    BY <1>4, <2>1 DEF PowerDecides
  <2> QED
    BY <1>4, <2>2, <1>m, Moves, OnlyRequests DEF PowerDecides
<1>5. ASSUME NEW s \in Services, StopService(c, s) \/ StartService(c, s) PROVE Typed'
  <2>1. [req[c] EXCEPT !.todo = @ \ {s}] \in SoundRequest
    BY <1>r DEF SoundRequest, Request, Sound
  <2>2. RequestsType'
    BY <1>5, <2>1, Becomes DEF StopService, StartService
  <2>3. DockerTypeOK'
    BY <1>5, CommandTypes, DockerStays DEF StopService, StartService, fixed, docker
  <2> QED
    BY <1>5, <2>2, <2>3, OnlyDocker DEF StopService, StartService
<1>6. CASE StopVM(c)
  <2>1. DockerTypeOK'
    BY <1>6, CommandTypes DEF StopVM, fixed
  <2>2. RequestsType'
    BY <1>6, <1>m, Moves, Finishes DEF StopVM
  <2> QED
    BY <1>6, <2>1, <2>2, OnlyDocker DEF StopVM
<1>7. CASE StartVM(c)
  <2>1. DockerTypeOK'
    BY <1>7, CommandTypes, DockerStays DEF StartVM, fixed, docker
  <2> DEFINE next == [req[c] EXCEPT !.at = "startServices", !.todo = req[c].listed]
  <2>2. req[c].listed \subseteq Services /\ req[c].vm \in VMs
    BY <1>r, <1>7, <1>m, Fields, About DEF StartVM
  <2>3. next \in Request
    BY <1>r, <1>m, <2>2 DEF Request
  <2>4. next \in SoundRequest
    BY <1>r, <1>m, <2>2, <2>3, AtMachine DEF Request
  <2>5. RequestsType'
    BY <1>7, <2>4, Becomes, Finishes DEF StartVM
  <2> QED
    BY <1>7, <2>1, <2>5, OnlyDocker DEF StartVM
<1> HIDE DEF Typed, At
<1>8. ASSUME \E v \in VMs, action \in {"start", "powerOff", "restart"} : PowerAction(c, v, action) PROVE Typed'
  BY <1>8, <1>1
<1>9. ASSUME \E s \in Services : StopService(c, s) \/ StartService(c, s) PROVE Typed'
  BY <1>9, <1>5
<1> QED
  BY <1>2, <1>3, <1>4, <1>6, <1>7, <1>8, <1>9 DEF Powering

LEMMA DeployingType == ASSUME Typed, NEW c \in Clients, Deploying(c) PROVE Typed'
<1> USE DEF Typed, At
<1>r. req[c] \in SoundRequest /\ req[c] \in Request
  BY About
<1>m. /\ ServicePoints \subseteq Points /\ ServicePoints \subseteq VMPoints
      /\ {"inspect", "siblings", "own", "unplace", "launch", "unrecord", "record",
          "svcWriteback", "svcRemove", "svcDrop", "svcVM"} \subseteq ServicePoints
      /\ "writeback" \in MachinePoints /\ "writeback" \in Points
  BY DEF MachinePoints, VMPoints, Points, ServicePoints
<1>p. req[c].port \in Ports \cup {NoPort}
  BY <1>r, Fields
<1>1. ASSUME NEW s \in Services, NEW p \in PortsOf[s], DeployService(c, s, p) PROVE Typed'
  <2>1. p \in Ports \cup {NoPort}
    BY PlacesAssumption
  <2> QED
    BY <1>1, <2>1, <1>m, ServiceRequests, Begins, OnlyRequests DEF DeployService
<1>2. ASSUME NEW s \in Services, GetService(c, s) \/ DeleteService(c, s) PROVE Typed'
  <2>1. service[s].port \in Ports \cup {NoPort}
    BY DEF StoreType
  <2> QED
    BY <1>2, <2>1, <1>m, ServiceRequests, Begins, OnlyRequests DEF GetService, DeleteService
<1>3. CASE DeployInspects(c) \/ DeployComparesPorts(c) \/ DeployLooksItselfUp(c)
  BY <1>3, <1>m, Moves, Finishes, OnlyRequests DEF DeployInspects, DeployComparesPorts, DeployLooksItselfUp
<1>4. CASE DeployReplaces(c) \/ ServiceRemoved(c) \/ DeployRuns(c) \/ DeployRunFails(c)
  <2>1. RequestsType'
    BY <1>4, <1>m, Moves DEF DeployReplaces, ServiceRemoved, DeployRuns, DeployRunFails
  <2>2. req[c].vm \in Networks /\ req[c].held \in Tags
    BY <1>4, <1>m, About DEF DeployReplaces, ServiceRemoved, DeployRuns, DeployRunFails
  <2>3. cast.unstartable \in BOOLEAN
    BY CastsAssumption
  <2>4. DockerTypeOK'
    BY <1>4, <1>p, <2>2, <2>3, CommandTypes DEF DeployReplaces, ServiceRemoved, DeployRuns, DeployRunFails, fixed
  <2> QED
    BY <1>4, <2>1, <2>4, OnlyDocker DEF DeployReplaces, ServiceRemoved, DeployRuns, DeployRunFails
<1>5. CASE DeployForgets(c) \/ DeployRecords(c) \/ ServiceWritesBack(c) \/ ServiceDropped(c)
  <2>1. RequestsType'
    BY <1>5, <1>m, Moves, Finishes DEF DeployForgets, DeployRecords, ServiceWritesBack, ServiceDropped
  <2>2. {Absent, Deployed(req[c].port)} \subseteq [port : Ports \cup {NoPort}, there : BOOLEAN]
    BY <1>p DEF Absent, Deployed
  <2>3. StoreType'
    BY <1>5, <2>2 DEF DeployForgets, DeployRecords, ServiceWritesBack, ServiceDropped, StoreType
  <2> QED
    BY <1>5, <2>1, <2>3, OnlyStore DEF DeployForgets, DeployRecords, ServiceWritesBack, ServiceDropped
<1>6. CASE ServiceNoted(c)
  <2>1. req[c].vm \in VMs
    BY <1>6, <1>m, About DEF ServiceNoted
  <2>2. record[req[c].vm] \in 0 .. MaxCreates
    BY <2>1 DEF StoreType
  <2> DEFINE next == [req[c] EXCEPT !.at = "writeback", !.held = record[req[c].vm]]
  <2>3. next \in Request
    BY <1>r, <1>m, <2>2 DEF Request
  <2>4. next \in SoundRequest
    BY <1>r, <1>m, <2>1, <2>3, AtMachine DEF Request
  <2> QED
    BY <1>6, <2>4, Becomes, Finishes, OnlyRequests DEF ServiceNoted
<1> HIDE DEF Typed, At
<1>7. ASSUME NEW s \in Services, \E p \in PortsOf[s] : DeployService(c, s, p) PROVE Typed'
  BY <1>7, <1>1
<1>8. ASSUME \E s \in Services : GetService(c, s) \/ DeleteService(c, s) \/ \E p \in PortsOf[s] : DeployService(c, s, p) PROVE Typed'
  BY <1>8, <1>2, <1>7
<1> QED
  BY <1>3, <1>4, <1>5, <1>6, <1>8 DEF Deploying

(* Token requests see which identities live; nothing else of them changes. *)
LEMMA WatchingType ==
  ASSUME Typed, NEW c \in Clients, req' = [Watching EXCEPT ![c] = NoRequest]
  PROVE  RequestsType'
<1>1. Alive' \subseteq Identities
  BY DEF Alive
<1>2. ASSUME NEW d \in Clients PROVE Watching[d] \in SoundRequest
  <2>1. req[d] \in SoundRequest /\ req[d] \in Request
    BY About DEF Typed
  <2>2. [req[d] EXCEPT !.seen = @ \cup Alive'] \in SoundRequest
    BY <1>1, <2>1 DEF SoundRequest, Request, Sound
  <2> QED
    BY <2>1, <2>2 DEF Watching
<1>3. DOMAIN Watching = Clients /\ Watching = [d \in Clients |-> Watching[d]]
  BY DEF Watching
<1> QED
  BY <1>2, <1>3, Nothing DEF RequestsType

LEMMA AttestingType == ASSUME Typed, NEW c \in Clients, Attesting(c) PROVE Typed'
<1> USE DEF Typed, At
<1>r. req[c] \in SoundRequest /\ req[c] \in Request
  BY About
<1>n. NoRequest \in Request
  BY Nothing DEF SoundRequest
<1>s. \A r \in Request : r.at \in {"idGet", "idSet"} /\ r.who \in Identities => r \in SoundRequest
  BY DEF SoundRequest, Sound, MachinePoints, PowerPoints, VMPoints, ServicePoints, GroupPoints, IdentityPoints, TokenPoints
<1>t. \A r \in Request : r.at \in TokenPoints /\ r.vm \in VMs /\ (r.at \in IdentityPoints => r.who \in Identities) => r \in SoundRequest
  BY DEF SoundRequest, Sound, MachinePoints, PowerPoints, VMPoints, ServicePoints, GroupPoints, IdentityPoints, TokenPoints
<1>m. {"idGet", "idSet", "tokenVM", "tokenIdentity", "tokenSet"} \subseteq Points
  BY DEF Points, TokenPoints
<1>w. req[c].at \in {"idGet", "idSet", "tokenIdentity", "tokenSet"} => req[c].who \in Identities
  BY <1>r DEF SoundRequest, Sound, IdentityPoints
<1>v. req[c].at \in TokenPoints => req[c].vm \in VMs
  BY About DEF VMPoints
<1>1. ASSUME NEW i \in Identities, PutIdentity(c, i) PROVE Typed'
  <2> DEFINE next == [NoRequest EXCEPT !.at = "idGet", !.who = i]
  <2>1. next \in Request
    BY <1>n, <1>m DEF Request
  <2>2. next \in SoundRequest
    BY <1>n, <2>1, <1>s DEF Request
  <2> QED
    BY <1>1, <2>2, Begins, OnlyRequests DEF PutIdentity
<1>2. ASSUME NEW p \in Principals, NEW r, r = [req[c] EXCEPT !.at = "idSet", !.principal = p], At(c, "idGet"), Become(c, r)
      PROVE  RequestsType'
  <2>1. r \in Request
    BY <1>2, <1>r, <1>m DEF Request
  <2>2. r \in SoundRequest
    BY <1>2, <1>r, <2>1, <1>s, <1>w DEF Request
  <2> QED
    BY <1>2, <2>2, Becomes
<1>3. CASE IdentityKeepsItsPrincipal(c)
  <2>1. identities[req[c].who] \in Principals
    BY <1>3, <1>w DEF IdentityKeepsItsPrincipal, StoreType
  <2> QED
    BY <1>3, <2>1, <1>2, OnlyRequests DEF IdentityKeepsItsPrincipal
<1>4. CASE IdentityGetsAPrincipal(c)
  <2>1. cast.principals \in 0 .. MaxPrincipals
    BY CastsAssumption
  <2>2. principals + 1 \in Principals
    BY <1>4, <2>1, BoundsAssumption DEF IdentityGetsAPrincipal, BoundsType, Principals
  <2>3. RequestsType'
    BY <1>4, <2>2, <1>2 DEF IdentityGetsAPrincipal
  <2>4. BoundsType'
    BY <1>4, <2>2 DEF IdentityGetsAPrincipal, BoundsType
  <2> QED
    BY <1>4, <2>3, <2>4, StoreStays, DockerStays DEF IdentityGetsAPrincipal, fixed
<1>5. CASE IdentitySet(c)
  <2>1. req[c].principal \in Principals /\ req[c].who \in Identities
    BY <1>5, <1>r, <1>w, Fields DEF IdentitySet
  <2>2. StoreType'
    BY <1>5, <2>1 DEF IdentitySet, StoreType
  <2>3. RequestsType'
    BY <1>5, WatchingType DEF IdentitySet
  <2> QED
    BY <1>5, <2>2, <2>3, OnlyStore DEF IdentitySet
<1>6. ASSUME NEW secret \in Secrets, GetToken(c, secret) PROVE Typed'
  <2> DEFINE next == [NoRequest EXCEPT !.at = "tokenVM", !.vm = index[secret], !.seen = Alive]
  <2>1. index[secret] \in VMs /\ Alive \subseteq Identities
    BY <1>6 DEF GetToken, StoreType, Alive
  <2>2. next \in Request
    BY <1>n, <1>m, <2>1 DEF Request
  <2>3. next.at = "tokenVM" /\ next.vm \in VMs
    BY <1>n, <2>1 DEF Request
  <2>4. next \in SoundRequest
    BY <2>2, <2>3, <1>t DEF TokenPoints, IdentityPoints
  <2> QED
    BY <1>6, <2>4, Begins, OnlyRequests DEF GetToken
<1>7. CASE TokenReadsVM(c)
  <2>1. ASSUME NEW i \in Identities PROVE [req[c] EXCEPT !.at = "tokenIdentity", !.who = i] \in SoundRequest
    <3>1. [req[c] EXCEPT !.at = "tokenIdentity", !.who = i] \in Request
      BY <1>r, <1>m DEF Request
    <3>2. req[c].vm \in VMs
      BY <1>7, <1>v DEF TokenReadsVM, TokenPoints
    <3>3. /\ [req[c] EXCEPT !.at = "tokenIdentity", !.who = i].at \in TokenPoints
          /\ [req[c] EXCEPT !.at = "tokenIdentity", !.who = i].vm \in VMs
          /\ [req[c] EXCEPT !.at = "tokenIdentity", !.who = i].who \in Identities
      BY <1>r, <3>2 DEF Request, TokenPoints
    <3> QED
      BY <3>1, <3>3, <1>t
  <2>2. RequestsType'
    BY <1>7, <2>1, Becomes, Finishes DEF TokenReadsVM, Assignments
  <2> QED
    BY <1>7, <2>2, OnlyRequests DEF TokenReadsVM
<1>8. CASE TokenChecksIdentity(c)
  BY <1>8, <1>m, Moves, Finishes, OnlyRequests DEF TokenChecksIdentity
<1>9. CASE TokenStored(c)
  <2>1. req[c].vm \in VMs /\ req[c].who \in Identities
    BY <1>9, <1>v, <1>w DEF TokenStored, TokenPoints
  <2>2. StoreType'
    BY <1>9, <2>1 DEF TokenStored, StoreType
  <2> QED
    BY <1>9, <2>2, Finishes, OnlyStore DEF TokenStored
<1> HIDE DEF Typed, At
<1>10. ASSUME \E i \in Identities : PutIdentity(c, i) PROVE Typed'
  BY <1>10, <1>1
<1>11. ASSUME \E secret \in Secrets : GetToken(c, secret) PROVE Typed'
  BY <1>11, <1>6
<1> QED
  BY <1>3, <1>4, <1>5, <1>7, <1>8, <1>9, <1>10, <1>11 DEF Attesting

LEMMA InitialType == Init => Typed
<1> SUFFICES ASSUME Init PROVE Typed
  OBVIOUS
<1>1. 0 \in Principals /\ 0 \in 0 .. MaxCreates /\ 0 \in Nat
  BY BoundsAssumption DEF Principals
<1>2. NoIdentities \in [Identities -> Principals] /\ Absent \in [port : Ports \cup {NoPort}, there : BOOLEAN]
  BY <1>1 DEF NoIdentities, Absent
<1>3. StoreType /\ BoundsType
  BY <1>1, <1>2 DEF Init, StoreType, BoundsType, NoRecords, NoSecrets, NoAssignments, NoServices
<1>4. cast.docker \subseteq BOOLEAN
  BY CastsAssumption DEF Init
<1>5. NoContainer \in Container
  BY TagsAssumption DEF NoContainer, Container, States, NoTag
<1>6. DockerTypeOK
  BY <1>4, <1>5 DEF Init, DockerInit, DockerTypeOK
<1>7. RequestsType
  BY Nothing DEF Init, RequestsType
<1> QED
  BY <1>3, <1>6, <1>7 DEF Init, Typed

LEMMA RestartingType == ASSUME Typed, Restart PROVE Typed'
<1>1. 0 \in Principals /\ 0 \in 0 .. MaxCreates
  BY BoundsAssumption DEF Principals
<1>2. NoIdentities \in [Identities -> Principals] /\ Absent \in [port : Ports \cup {NoPort}, there : BOOLEAN]
  BY <1>1 DEF NoIdentities, Absent
<1>3. StoreType'
  BY <1>1, <1>2 DEF Restart, StoreType, NoRecords, NoSecrets, NoAssignments, NoServices
<1>4. BoundsType'
  BY DEF Restart, BoundsType, Typed
<1>5. cast.docker \subseteq BOOLEAN
  BY CastsAssumption DEF Typed
<1>6. DockerTypeOK'
  BY <1>5 DEF Restart, DockerTypeOK, docker, Typed
<1>7. RequestsType'
  BY Nothing DEF Restart, RequestsType
<1> QED
  BY <1>3, <1>4, <1>6, <1>7 DEF Restart, Typed

LEMMA AsideType ==
  ASSUME Typed,
         \/ Elsewhere
         \/ \E s \in Services : ServiceExits(s)
         \/ \E g \in Groups : PutGroup(g)
         \/ \E i \in Identities : DeleteIdentity(i)
         \/ \E t \in tokens : IntrospectExpired(t)
  PROVE  Typed'
<1> USE DEF Typed
<1>0. UNCHANGED req => RequestsType'
  BY DEF RequestsType
<1>1. CASE Elsewhere
  <2>1. DockerTypeOK'
    BY <1>1 DEF Elsewhere, DockerTypeOK, fixed
  <2> QED
    BY <1>0, <1>1, <2>1, OnlyDocker DEF Elsewhere
<1>2. ASSUME NEW s \in Services, ServiceExits(s) PROVE Typed'
  <2>1. DockerTypeOK'
    BY <1>2, CommandTypes DEF ServiceExits, fixed
  <2>2. BoundsType'
    BY <1>2 DEF ServiceExits, BoundsType
  <2> QED
    BY <1>0, <1>2, <2>1, <2>2, StoreStays DEF ServiceExits, fixed
<1>3. ASSUME NEW g \in Groups, PutGroup(g) PROVE Typed'
  <2>1. StoreType'
    BY <1>3 DEF PutGroup, StoreType
  <2> QED
    BY <1>0, <1>3, <2>1, OnlyStore DEF PutGroup
<1>4. ASSUME NEW i \in Identities, DeleteIdentity(i) PROVE Typed'
  <2>1. 0 \in Principals
    BY BoundsAssumption DEF Principals
  <2>2. StoreType'
    BY <1>4, <2>1 DEF DeleteIdentity, StoreType
  <2> QED
    BY <1>0, <1>4, <2>2, OnlyStore DEF DeleteIdentity
<1>5. ASSUME NEW t \in tokens, IntrospectExpired(t) PROVE Typed'
  <2>1. StoreType'
    BY <1>5 DEF IntrospectExpired, StoreType
  <2> QED
    BY <1>0, <1>5, <2>1, OnlyStore DEF IntrospectExpired
<1> HIDE DEF Typed
<1> QED
  BY <1>1, <1>2, <1>3, <1>4, <1>5

LEMMA SteppingType == ASSUME Typed, [Next]_vars PROVE Typed'
<1>1. CASE UNCHANGED vars
  <2>1. RequestsType'
    BY <1>1 DEF vars, RequestsType, Typed
  <2> QED
    BY <1>1, <2>1, OnlyRequests DEF vars
<1>2. CASE Machining
  BY <1>2, PuttingType, DeletingType, PoweringType, DeployingType, AttestingType, AsideType DEF Machining
<1> QED
  BY <1>1, <1>2, DroppingContainersType, RestartingType, AsideType DEF Next

LEMMA AlwaysTyped == Spec => []Typed
BY InitialType, SteppingType, PTL DEF Spec

(* Every variable, and every request in every handler, keeps its type, also*)
(* over docker commands that fail and a restart of the process.            *)
THEOREM MachinesKeepTheirTypes == Spec => []TypeOK
BY AlwaysTyped, TypedIsTypeOK, PTL

-----------------------------------------------------------------------------
(* What the handlers have in common: one request moves on, identities may  *)
(* go, and a request is about what it was about before.                    *)

OneMoves(c) == req' = [req EXCEPT ![c] = req'[c]]
Begun(c) == req[c].at = "idle" /\ Free(Scope(req'[c]))
Continued(c) == /\ req[c].at \notin TokenPoints \cup {"idle"}
                /\ \/ req'[c] = NoRequest
                   \/ /\ req'[c].group = req[c].group /\ req'[c].who = req[c].who
                      /\ req'[c].group = None => req'[c].vm = req[c].vm
(* Of a resource group is a request that deletes it.                       *)
Ungrouped(r) == r.at \notin GroupPoints \cup {"delList", "delServices", "delNet"} => r.group = None
Framed(c) == /\ OneMoves(c)
             /\ req'[c].at \notin TokenPoints \cup {"idGet", "idSet"}
             /\ \A i \in Identities : identities'[i] \in {0, identities[i]}
             /\ cast' = cast
             /\ Ungrouped(req[c]) => Ungrouped(req'[c])
             /\ Begun(c) \/ Continued(c)

(* Services may go, and the request is not about to store one.             *)
Keepers == {"own", "unplace", "launch", "record", "svcWriteback"}
Withdraws(c) == /\ req'[c].at \notin Keepers
                /\ \A s \in Services : service'[s] \in {Absent, service[s]}

LEMMA Became == ASSUME Typed, NEW c \in Clients, NEW r, Become(c, r) PROVE OneMoves(c) /\ req'[c] = r
BY DEF Typed, RequestsType, Become, OneMoves

LEMMA Gone ==
  ASSUME Typed, NEW c \in Clients, NEW p, Goto(c, p)
  PROVE  /\ OneMoves(c) /\ req'[c].at = p
         /\ req'[c].vm = req[c].vm /\ req'[c].svc = req[c].svc /\ req'[c].group = req[c].group
         /\ req'[c].who = req[c].who /\ req'[c].held = req[c].held /\ req'[c].port = req[c].port
         /\ req'[c].cascade = req[c].cascade /\ req'[c].todo = req[c].todo /\ req'[c].listed = req[c].listed
<1>1. req[c] \in Request
  BY About DEF Typed
<1> QED
  BY <1>1, Became DEF Goto, Request

LEMMA Ended == ASSUME Typed, NEW c \in Clients, Finish(c) PROVE OneMoves(c) /\ req'[c] = NoRequest /\ req'[c].at = "idle" /\ req'[c].group = None
BY Became DEF Finish, NoRequest

LEMMA Began == ASSUME Typed, NEW c \in Clients, NEW r, Begin(c, r) PROVE OneMoves(c) /\ Begun(c) /\ req'[c] = r
BY Became DEF Begin, Begun, At

LEMMA Starts ==
  /\ \A v \in VMs, p \in Points : /\ VMRequest(v, p).at = p /\ VMRequest(v, p).group = None
                                  /\ \A a : /\ [VMRequest(v, p) EXCEPT !.action = a].at = p
                                            /\ [VMRequest(v, p) EXCEPT !.action = a].group = None
  /\ \A s \in Services, p \in Points : /\ ServiceRequest(s, p).at = p /\ ServiceRequest(s, p).group = None
                                       /\ \A x : /\ [ServiceRequest(s, p) EXCEPT !.port = x].at = p
                                                 /\ [ServiceRequest(s, p) EXCEPT !.port = x].group = None
BY DEF VMRequest, ServiceRequest, NoRequest

LEMMA PuttingFrame == ASSUME Typed, NEW c \in Clients, Putting(c) PROVE Framed(c) /\ Withdraws(c)
<1>r. req[c] \in Request /\ identities \in [Identities -> Principals] /\ service \in [Services -> [port : Ports \cup {NoPort}, there : BOOLEAN]]
  BY About DEF Typed, StoreType
<1>q. req \in [Clients -> Request]
  BY DEF Typed, RequestsType, SoundRequest
<1> USE DEF Framed, Withdraws, Keepers, Ungrouped, GroupPoints, Continued, At, TokenPoints, store, fixed
<1>1. ASSUME NEW v \in VMs, NEW block, NEW named, PutVM(c, v, block, named) PROVE Framed(c) /\ Withdraws(c)
  BY <1>1, <1>r, <1>q, Starts DEF PutVM, Begin, Become, OneMoves, Begun, Points, NoRequest
<1>2. ASSUME NEW v \in VMs, GetVM(c, v) PROVE Framed(c) /\ Withdraws(c)
  BY <1>2, <1>r, <1>q, Starts DEF GetVM, Begin, Become, OneMoves, Begun, Points, NoRequest
<1>3. ASSUME NEW i \in Identities, ResolveIdentity(c, i) PROVE Framed(c) /\ Withdraws(c)
  BY <1>3, <1>r, <1>q, Ended DEF ResolveIdentity, Become, OneMoves, Request
<1>4. ASSUME ResolveFails(c) PROVE Framed(c) /\ Withdraws(c)
  BY <1>4, <1>r, Gone, Ended DEF ResolveFails
<1>5. ASSUME UpdateVM(c) PROVE Framed(c) /\ Withdraws(c)
  BY <1>5, <1>r, <1>q, Ended DEF UpdateVM, Become, OneMoves, Request
<1>6. ASSUME BuildVM(c) PROVE Framed(c) /\ Withdraws(c)
  BY <1>6, <1>r, <1>q, Ended DEF BuildVM, Become, OneMoves, Request
<1>7. ASSUME CreateNetwork(c) PROVE Framed(c) /\ Withdraws(c)
  BY <1>7, <1>r, Gone, Ended DEF CreateNetwork
<1>8. ASSUME CreateNetworkFails(c) PROVE Framed(c) /\ Withdraws(c)
  BY <1>8, <1>r, Gone, Ended DEF CreateNetworkFails
<1>9. ASSUME RemoveStale(c) PROVE Framed(c) /\ Withdraws(c)
  BY <1>9, <1>r, Gone, Ended DEF RemoveStale
<1>10. ASSUME RunVM(c) PROVE Framed(c) /\ Withdraws(c)
  BY <1>10, <1>r, Gone, Ended DEF RunVM
<1>11. ASSUME RunVMFails(c) PROVE Framed(c) /\ Withdraws(c)
  BY <1>11, <1>r, Gone, Ended DEF RunVMFails
<1>12. ASSUME RemoveNetwork(c) PROVE Framed(c) /\ Withdraws(c)
  BY <1>12, <1>r, Gone, Ended DEF RemoveNetwork
<1>13. ASSUME StoreVM(c) PROVE Framed(c) /\ Withdraws(c)
  BY <1>13, <1>r, Gone, Ended DEF StoreVM
<1>14. ASSUME IndexSecret(c) PROVE Framed(c) /\ Withdraws(c)
  BY <1>14, <1>r, Gone, Ended DEF IndexSecret
<1>15. ASSUME WriteBack(c) PROVE Framed(c) /\ Withdraws(c)
  BY <1>15, <1>r, Gone, Ended DEF WriteBack
<1> HIDE DEF Framed, Withdraws, Keepers, Ungrouped, GroupPoints, Continued, At, TokenPoints, store, fixed
<1> QED
  BY <1>1, <1>2, <1>3, <1>4, <1>5, <1>6, <1>7, <1>8, <1>9, <1>10, <1>11, <1>12, <1>13, <1>14, <1>15 DEF Putting

LEMMA DeletingFrame == ASSUME Typed, NEW c \in Clients, Deleting(c) PROVE Framed(c) /\ Withdraws(c)
<1>r. req[c] \in Request /\ identities \in [Identities -> Principals] /\ service \in [Services -> [port : Ports \cup {NoPort}, there : BOOLEAN]]
  BY About DEF Typed, StoreType
<1>q. req \in [Clients -> Request]
  BY DEF Typed, RequestsType, SoundRequest
<1> USE DEF Framed, Withdraws, Keepers, Ungrouped, GroupPoints, Continued, At, TokenPoints, store, fixed
<1>1. ASSUME NEW v \in VMs, DeleteVM(c, v) PROVE Framed(c) /\ Withdraws(c)
  BY <1>1, <1>r, <1>q, Starts DEF DeleteVM, Begin, Become, OneMoves, Begun, Points, NoRequest
<1>2. ASSUME NEW g \in Groups, DeleteGroup(c, g) PROVE Framed(c) /\ Withdraws(c)
  BY <1>2, <1>r, <1>q, Starts DEF DeleteGroup, Begin, Become, OneMoves, Begun, Points, NoRequest
<1>3. ASSUME DeleteLists(c) PROVE Framed(c) /\ Withdraws(c)
  BY <1>3, <1>r, <1>q, Ended DEF DeleteLists, Become, OneMoves, Request
<1>4. ASSUME NEW s \in Services, DeleteRemoves(c, s) PROVE Framed(c) /\ Withdraws(c)
  BY <1>4, <1>r, <1>q, Ended DEF DeleteRemoves, Become, OneMoves, Request
<1>5. ASSUME DeleteRemovesVM(c) PROVE Framed(c) /\ Withdraws(c)
  BY <1>5, <1>r, Gone, Ended DEF DeleteRemovesVM
<1>6. ASSUME DeleteRemovesNetwork(c) PROVE Framed(c) /\ Withdraws(c)
  BY <1>6, <1>r, Gone, Ended DEF DeleteRemovesNetwork
<1>7. ASSUME DeleteSweeps(c) PROVE Framed(c) /\ Withdraws(c)
  BY <1>7, <1>r, Gone, Ended DEF DeleteSweeps
<1>8. ASSUME DeleteForgetsSecret(c) PROVE Framed(c) /\ Withdraws(c)
  BY <1>8, <1>r, Gone, Ended DEF DeleteForgetsSecret
<1>9. ASSUME DeleteDrops(c) PROVE Framed(c) /\ Withdraws(c)
  BY <1>9, <1>r, Gone, Ended DEF DeleteDrops
<1>10. ASSUME CleanupLists(c) PROVE Framed(c) /\ Withdraws(c)
  BY <1>10, <1>r, <1>q, Ended DEF CleanupLists, Become, OneMoves, Request
<1>11. ASSUME NEW v \in VMs, CleanupForgetsSecret(c, v) PROVE Framed(c) /\ Withdraws(c)
  <2> DEFINE next == [req[c] EXCEPT !.at = IF dockerAvail THEN "delList" ELSE "rgNext", !.vm = v, !.cascade[v] = 0]
  <2>1. OneMoves(c) /\ req'[c] = next
    BY <1>11, Became DEF CleanupForgetsSecret
  <2>2. /\ next.at \in {"delList", "rgNext"} /\ next.group = req[c].group /\ next.who = req[c].who
        /\ next.group # None
    <3>1. "rgNext" \in GroupPoints
      BY DEF GroupPoints
    <3>2. req[c].group # None
      BY <1>11, <3>1, About, NothingAssumption DEF CleanupForgetsSecret, At, Typed, None
    <3> QED
      BY <1>r, <3>2 DEF Request
  <2> HIDE DEF next
  <2> QED
    BY <1>11, <1>r, <2>1, <2>2 DEF CleanupForgetsSecret
<1>12. ASSUME CascadeDropsVMs(c) PROVE Framed(c) /\ Withdraws(c)
  BY <1>12, <1>r, Gone, Ended DEF CascadeDropsVMs
<1>13. ASSUME CascadeDropsServices(c) PROVE Framed(c) /\ Withdraws(c)
  BY <1>13, <1>r, Gone, Ended DEF CascadeDropsServices
<1>14. ASSUME CascadeDropsIdentities(c) PROVE Framed(c) /\ Withdraws(c)
  BY <1>14, <1>r, Gone, Ended DEF CascadeDropsIdentities
<1> HIDE DEF Framed, Withdraws, Keepers, Ungrouped, GroupPoints, Continued, At, TokenPoints, store, fixed
<1> QED
  BY <1>1, <1>2, <1>3, <1>4, <1>5, <1>6, <1>7, <1>8, <1>9, <1>10, <1>11, <1>12, <1>13, <1>14 DEF Deleting

LEMMA PoweringFrame == ASSUME Typed, NEW c \in Clients, Powering(c) PROVE Framed(c) /\ Withdraws(c)
<1>r. req[c] \in Request /\ identities \in [Identities -> Principals] /\ service \in [Services -> [port : Ports \cup {NoPort}, there : BOOLEAN]]
  BY About DEF Typed, StoreType
<1>q. req \in [Clients -> Request]
  BY DEF Typed, RequestsType, SoundRequest
<1> USE DEF Framed, Withdraws, Keepers, Ungrouped, GroupPoints, Continued, At, TokenPoints, store, fixed
<1>1. ASSUME NEW v \in VMs, NEW action, PowerAction(c, v, action) PROVE Framed(c) /\ Withdraws(c)
  BY <1>1, <1>r, <1>q, Starts DEF PowerAction, Begin, Become, OneMoves, Begun, Points, NoRequest
<1>2. ASSUME PowerLists(c) PROVE Framed(c) /\ Withdraws(c)
  BY <1>2, <1>r, <1>q, Ended DEF PowerLists, Become, OneMoves, Request
<1>3. ASSUME PowerDecides(c) PROVE Framed(c) /\ Withdraws(c)
  <2>1. "decide" \in PowerPoints
    BY DEF PowerPoints
  <2>2. req[c].action \in {"start", "powerOff", "restart"}
    BY <1>3, <2>1, About DEF PowerDecides, At, Typed
  <2>3. PICK p \in {"writeback", "startVM", "stopServices"} : Goto(c, p)
    BY <1>3, <2>2 DEF PowerDecides
  <2> QED
    BY <1>3, <2>3, <1>r, Gone DEF PowerDecides
<1>4. ASSUME NEW s \in Services, StopService(c, s) PROVE Framed(c) /\ Withdraws(c)
  BY <1>4, <1>r, <1>q, Ended DEF StopService, Become, OneMoves, Request
<1>5. ASSUME NEW s \in Services, StartService(c, s) PROVE Framed(c) /\ Withdraws(c)
  BY <1>5, <1>r, <1>q, Ended DEF StartService, Become, OneMoves, Request
<1>6. ASSUME StopVM(c) PROVE Framed(c) /\ Withdraws(c)
  BY <1>6, <1>r, Gone, Ended DEF StopVM
<1>7. ASSUME StartVM(c) PROVE Framed(c) /\ Withdraws(c)
  <2>1. CASE Startable(req[c].vm)
    <3>1. Become(c, [req[c] EXCEPT !.at = "startServices", !.todo = req[c].listed])
      BY <1>7, <2>1 DEF StartVM
    <3>2. OneMoves(c) /\ req'[c] = [req[c] EXCEPT !.at = "startServices", !.todo = req[c].listed]
      BY <3>1, Became
    <3>3. /\ [req[c] EXCEPT !.at = "startServices", !.todo = req[c].listed].at \notin TokenPoints \cup {"idGet", "idSet"}
          /\ [req[c] EXCEPT !.at = "startServices", !.todo = req[c].listed].group = req[c].group /\ [req[c] EXCEPT !.at = "startServices", !.todo = req[c].listed].who = req[c].who
          /\ req[c].group = None => [req[c] EXCEPT !.at = "startServices", !.todo = req[c].listed].vm = req[c].vm
      BY <1>r, <1>7 DEF Request, TokenPoints, StartVM
    <3> QED
      BY <1>7, <1>r, <3>2, <3>3 DEF StartVM
  <2>2. CASE ~Startable(req[c].vm)
    BY <1>7, <2>2, <1>r, Ended DEF StartVM
  <2> QED
    BY <2>1, <2>2
<1>8. ASSUME PowerDone(c) PROVE Framed(c) /\ Withdraws(c)
  BY <1>8, <1>r, Gone, Ended DEF PowerDone
<1> HIDE DEF Framed, Withdraws, Keepers, Ungrouped, GroupPoints, Continued, At, TokenPoints, store, fixed
<1> QED
  BY <1>1, <1>2, <1>3, <1>4, <1>5, <1>6, <1>7, <1>8 DEF Powering

LEMMA DeployingFrame == ASSUME Typed, NEW c \in Clients, Deploying(c) PROVE Framed(c)
<1>r. req[c] \in Request /\ identities \in [Identities -> Principals] /\ service \in [Services -> [port : Ports \cup {NoPort}, there : BOOLEAN]]
  BY About DEF Typed, StoreType
<1>q. req \in [Clients -> Request]
  BY DEF Typed, RequestsType, SoundRequest
<1> USE DEF Framed, Ungrouped, GroupPoints, Continued, At, TokenPoints, store, fixed
<1>1. ASSUME NEW s \in Services, GetService(c, s) PROVE Framed(c)
  BY <1>1, <1>r, <1>q, Starts DEF GetService, Begin, Become, OneMoves, Begun, Points, NoRequest
<1>2. ASSUME NEW s \in Services, DeleteService(c, s) PROVE Framed(c)
  BY <1>2, <1>r, <1>q, Starts DEF DeleteService, Begin, Become, OneMoves, Begun, Points, NoRequest
<1>3. ASSUME NEW s \in Services, NEW p \in PortsOf[s], DeployService(c, s, p) PROVE Framed(c)
  BY <1>3, <1>r, <1>q, Starts DEF DeployService, Begin, Become, OneMoves, Begun, Points, NoRequest
<1>4. ASSUME DeployInspects(c) PROVE Framed(c)
  BY <1>4, <1>r, Gone, Ended DEF DeployInspects
<1>5. ASSUME DeployComparesPorts(c) PROVE Framed(c)
  BY <1>5, <1>r, Gone, Ended DEF DeployComparesPorts
<1>6. ASSUME DeployLooksItselfUp(c) PROVE Framed(c)
  BY <1>6, <1>r, Gone, Ended DEF DeployLooksItselfUp
<1>7. ASSUME DeployReplaces(c) PROVE Framed(c)
  BY <1>7, <1>r, Gone, Ended DEF DeployReplaces
<1>8. ASSUME DeployRuns(c) PROVE Framed(c)
  BY <1>8, <1>r, Gone, Ended DEF DeployRuns
<1>9. ASSUME DeployRunFails(c) PROVE Framed(c)
  BY <1>9, <1>r, Gone, Ended DEF DeployRunFails
<1>10. ASSUME DeployForgets(c) PROVE Framed(c)
  BY <1>10, <1>r, Gone, Ended DEF DeployForgets
<1>11. ASSUME DeployRecords(c) PROVE Framed(c)
  BY <1>11, <1>r, Gone, Ended DEF DeployRecords
<1>12. ASSUME ServiceWritesBack(c) PROVE Framed(c)
  BY <1>12, <1>r, Gone, Ended DEF ServiceWritesBack
<1>13. ASSUME ServiceRemoved(c) PROVE Framed(c)
  BY <1>13, <1>r, Gone, Ended DEF ServiceRemoved
<1>14. ASSUME ServiceDropped(c) PROVE Framed(c)
  BY <1>14, <1>r, Gone, Ended DEF ServiceDropped
<1>15. ASSUME ServiceNoted(c) PROVE Framed(c)
  <2>1. CASE Exists(req[c].vm)
    <3>1. Become(c, [req[c] EXCEPT !.at = "writeback", !.held = record[req[c].vm]])
      BY <1>15, <2>1 DEF ServiceNoted
    <3>2. OneMoves(c) /\ req'[c] = [req[c] EXCEPT !.at = "writeback", !.held = record[req[c].vm]]
      BY <3>1, Became
    <3>3. /\ [req[c] EXCEPT !.at = "writeback", !.held = record[req[c].vm]].at \notin TokenPoints \cup {"idGet", "idSet"}
          /\ [req[c] EXCEPT !.at = "writeback", !.held = record[req[c].vm]].group = req[c].group /\ [req[c] EXCEPT !.at = "writeback", !.held = record[req[c].vm]].who = req[c].who
          /\ req[c].group = None => [req[c] EXCEPT !.at = "writeback", !.held = record[req[c].vm]].vm = req[c].vm
      BY <1>r, <1>15 DEF Request, TokenPoints, ServiceNoted
    <3> QED
      BY <1>15, <1>r, <3>2, <3>3 DEF ServiceNoted
  <2>2. CASE ~Exists(req[c].vm)
    BY <1>15, <2>2, <1>r, Ended DEF ServiceNoted
  <2> QED
    BY <2>1, <2>2
<1> HIDE DEF Framed, Ungrouped, GroupPoints, Continued, At, TokenPoints, store, fixed
<1> QED
  BY <1>1, <1>2, <1>3, <1>4, <1>5, <1>6, <1>7, <1>8, <1>9, <1>10, <1>11, <1>12, <1>13, <1>14, <1>15 DEF Deploying

=============================================================================
