----------------------- MODULE ContainerInstance_proofs -----------------------
(***************************************************************************)
(* Container groups next to virtual machines: neither disturbs the other,  *)
(* for any numbers of both, with proofs checked by TLAPS.                  *)
(***************************************************************************)
EXTENDS ContainerInstance, VirtualMachineSafety_proofs

AciType == /\ group \in [ContainerGroups -> GroupRecord]
           /\ work \in [Clients -> Work]
           /\ abandoned \subseteq Names
           /\ puts \in 0 .. MaxPuts
(* A request that has begun is about a container group.                    *)
AboutGroups == \A c \in Clients : work[c].at # "idle" => work[c].group \in ContainerGroups
AciTyped == AciType /\ AboutGroups

(* A container group's request changes the container of its group only, as *)
(* another user of docker may; what virtual machines keep it leaves alone. *)
OneContainer(c) == \/ UNCHANGED container
                   \/ /\ work[c].at # "idle"
                      /\ \E other \in Container : /\ other.net \in {Bridge, container[ContainerName(c)].net}
                                                 /\ container' = [container EXCEPT ![ContainerName(c)] = other]

LEMMA Nowhere == NoWork \in Work /\ NoGroup \in GroupRecord
BY PutsAssumption DEF NoWork, Work, NoGroup, GroupRecord, Activities

LEMMA WorkFields ==
  ASSUME NEW w \in Work
  PROVE  /\ w.group \in ContainerGroups \cup {None} /\ w.record \in GroupRecord /\ w.port \in Ports \cup {NoPort}
         /\ w.last \in BOOLEAN /\ w.record.put \in 0 .. MaxPuts /\ w.record.id \in BOOLEAN
BY DEF Work, GroupRecord

LEMMA WorkMoves ==
  ASSUME NEW w \in Work, NEW p \in {"idle", "stop", "remove", "launch", "set", "inspect", "patch"}
  PROVE  [w EXCEPT !.at = p] \in Work /\ [w EXCEPT !.at = p].at = p /\ [w EXCEPT !.at = p].group = w.group
BY DEF Work

LEMMA RecordMoves ==
  ASSUME NEW w \in Work, NEW p \in {"set", "patch"}, NEW st \in Activities
  PROVE  /\ [w EXCEPT !.at = p, !.record.id = TRUE] \in Work /\ [w EXCEPT !.at = p, !.record.id = TRUE].group = w.group
         /\ [w EXCEPT !.at = p, !.record.state = st] \in Work /\ [w EXCEPT !.at = p, !.record.state = st].group = w.group
BY DEF Work, GroupRecord

(* What a request becomes, and the rest of the tables.                     *)
LEMMA Did ==
  ASSUME AciTyped, NEW c \in Clients, NEW w \in Work, Do(c, w),
         w.at # "idle" => w.group \in ContainerGroups,
         group' \in [ContainerGroups -> GroupRecord], abandoned' \subseteq Names, puts' \in 0 .. MaxPuts
  PROVE  AciTyped'
BY DEF AciTyped, AciType, AboutGroups, Do

LEMMA ContainingType == ASSUME Typed, AciTyped, NEW c \in Clients, Containing(c) PROVE AciTyped'
<1> USE DEF Doing
<1>q. /\ work[c] \in Work /\ group \in [ContainerGroups -> GroupRecord] /\ abandoned \subseteq Names /\ puts \in 0 .. MaxPuts
      /\ work[c].at # "idle" => work[c].group \in ContainerGroups
      /\ MaxPuts \in Nat /\ cast \in Casts
  BY PutsAssumption DEF AciTyped, AciType, AboutGroups, Typed
<1>n. NoWork \in Work /\ NoWork.at = "idle" /\ NoGroup \in GroupRecord
  BY Nowhere DEF NoWork
<1>1. ASSUME NEW k \in ContainerGroups, NEW p \in AciPorts, PutContainerGroup(c, k, p) PROVE AciTyped'
  <2>1. PICK point \in {"stop", "set"} :
           Do(c, [NoWork EXCEPT !.at = point, !.group = k, !.port = p,
                                !.record = [put |-> puts + 1, id |-> FALSE, state |-> "Running"]])
    BY <1>1 DEF PutContainerGroup, BeginWork
  <2> DEFINE w == [NoWork EXCEPT !.at = point, !.group = k, !.port = p,
                                 !.record = [put |-> puts + 1, id |-> FALSE, state |-> "Running"]]
  <2>2. puts' = puts + 1 /\ group' = group /\ abandoned' = abandoned /\ puts < cast.puts
    BY <1>1 DEF PutContainerGroup
  <2>3. puts + 1 \in 0 .. MaxPuts
    BY <1>q, <2>2, PutsCastAssumption
  <2>4. w \in Work /\ w.group = k
    BY <2>3, ContainerGroupsAssumption DEF NoWork, Work, GroupRecord, Activities
  <2>5. Do(c, w)
    BY <2>1
  <2> HIDE DEF w
  <2> QED
    BY <1>q, <2>2, <2>3, <2>4, <2>5, Did
<1>2. ASSUME NEW k \in ContainerGroups, GetContainerGroup(c, k) PROVE AciTyped'
  <2> DEFINE w == [NoWork EXCEPT !.at = "inspect", !.group = k, !.record = group[k]]
  <2>1. Do(c, w) /\ UNCHANGED <<group, abandoned, puts>>
    BY <1>2 DEF GetContainerGroup
  <2>2. w \in Work /\ w.group = k
    BY <1>q, <1>n DEF NoWork, Work
  <2> HIDE DEF w
  <2> QED
    BY <1>q, <2>1, <2>2, Did
<1>3. ASSUME NEW k \in ContainerGroups, DeleteContainerGroup(c, k) PROVE AciTyped'
  <2> DEFINE w == [NoWork EXCEPT !.at = "stop", !.group = k, !.last = TRUE]
  <2>1. (Do(c, w) \/ Do(c, NoWork)) /\ group' = [group EXCEPT ![k] = NoGroup] /\ UNCHANGED <<abandoned, puts>>
    BY <1>3 DEF DeleteContainerGroup, BeginWork
  <2>2. w \in Work /\ w.group = k
    BY <1>n DEF NoWork, Work
  <2>3. group' \in [ContainerGroups -> GroupRecord]
    BY <1>q, <1>n, <2>1
  <2> HIDE DEF w
  <2> QED
    BY <1>q, <1>n, <2>1, <2>2, <2>3, Did
<1>4. ASSUME UNCHANGED <<group, abandoned, puts>>,
             \/ Done(c)
             \/ /\ work[c].at # "idle"
                /\ \E p \in {"stop", "remove", "launch", "set", "inspect", "patch"} : DoNext(c, p)
             \/ /\ work[c].at # "idle"
                /\ \E p \in {"set", "patch"}, st \in Activities :
                      \/ Do(c, [work[c] EXCEPT !.at = p, !.record.id = TRUE])
                      \/ Do(c, [work[c] EXCEPT !.at = p, !.record.state = st])
      PROVE  AciTyped'
  <2>1. CASE Done(c)
    BY <1>q, <1>n, <1>4, <2>1, Did DEF Done
  <2>2. ASSUME work[c].at # "idle", NEW p \in {"stop", "remove", "launch", "set", "inspect", "patch"}, DoNext(c, p) PROVE AciTyped'
    <3> DEFINE w == [work[c] EXCEPT !.at = p]
    <3>0. Do(c, w)
      BY <2>2 DEF DoNext
    <3>1. w \in Work /\ w.group = work[c].group
      BY <1>q DEF Work
    <3> HIDE DEF w
    <3> QED
      BY <1>q, <1>4, <2>2, <3>0, <3>1, Did
  <2>3. ASSUME work[c].at # "idle", NEW p \in {"set", "patch"}, NEW st \in Activities,
               \/ Do(c, [work[c] EXCEPT !.at = p, !.record.id = TRUE])
               \/ Do(c, [work[c] EXCEPT !.at = p, !.record.state = st])
        PROVE  AciTyped'
    <3> DEFINE identified == [work[c] EXCEPT !.at = p, !.record.id = TRUE]
               moved == [work[c] EXCEPT !.at = p, !.record.state = st]
    <3>1. /\ identified \in Work /\ identified.group = work[c].group
          /\ moved \in Work /\ moved.group = work[c].group
      BY <1>q, RecordMoves
    <3>2. Do(c, identified) \/ Do(c, moved)
      BY <2>3
    <3> HIDE DEF identified, moved
    <3> QED
      BY <1>q, <1>4, <2>3, <3>1, <3>2, Did
  <2> QED
    BY <1>4, <2>1, <2>2, <2>3
<1>5. CASE ContainerStops(c) \/ ContainerRemoved(c)
  BY <1>4, <1>5 DEF ContainerStops, ContainerRemoved
<1>6. CASE ContainerRuns(c) \/ ContainerRunFails(c) \/ GroupInspected(c)
  <2>1. /\ UNCHANGED <<group, abandoned, puts>> /\ work[c].at # "idle"
        /\ \E p \in {"set", "patch"}, st \in Activities :
              \/ Do(c, [work[c] EXCEPT !.at = p, !.record.id = TRUE])
              \/ Do(c, [work[c] EXCEPT !.at = p, !.record.state = st])
    BY <1>6 DEF ContainerRuns, ContainerRunFails, GroupInspected, Activities, docker
  <2> QED
    BY <1>4, <2>1
<1>7. CASE GroupSet(c)
  <2>1. group' \in [ContainerGroups -> GroupRecord] /\ abandoned' \subseteq Names /\ puts' = puts /\ Do(c, NoWork)
    BY <1>q, <1>7, WorkFields DEF GroupSet, Done
  <2> QED
    BY <1>q, <1>n, <2>1, Did
<1>8. CASE GroupPatched(c)
  <2>1. work[c].record.state \in Activities
    BY <1>q DEF Work, GroupRecord
  <2>2. \A k \in ContainerGroups : [group[k] EXCEPT !.state = work[c].record.state] \in GroupRecord
    BY <1>q, <2>1 DEF GroupRecord
  <2>3. group' \in [ContainerGroups -> GroupRecord] /\ UNCHANGED <<abandoned, puts>> /\ Do(c, NoWork)
    BY <1>q, <1>8, <2>2 DEF GroupPatched, Done
  <2> QED
    BY <1>q, <1>n, <2>3, Did
<1> HIDE DEF Doing
<1> QED
  BY <1>1, <1>2, <1>3, <1>5, <1>6, <1>7, <1>8 DEF Containing

-----------------------------------------------------------------------------
(* What virtual machines see of container groups: another user of docker.  *)

LEMMA ContainingTouches ==
  ASSUME DockerTypeOK, AciTyped, NEW c \in Clients, Containing(c)
  PROVE  OneContainer(c) /\ UNCHANGED network
<1> USE DEF Doing
<1>n. work[c].at # "idle" => ContainerName(c) \in Names
  BY ContainerGroupsAssumption DEF AciTyped, AboutGroups, ContainerName
<1>k. work[c].port \in Ports \cup {NoPort} /\ work[c].record.put \in Tags
  BY WorkFields, PutsAssumption DEF AciTyped, AciType
<1>c. NoContainer \in Container /\ \A n \in Names : container[n] \in Container
  BY TagsAssumption DEF NoContainer, Container, States, NoTag, DockerTypeOK
<1>1. CASE (\E k \in ContainerGroups : (\E p \in AciPorts : PutContainerGroup(c, k, p)) \/ GetContainerGroup(c, k) \/ DeleteContainerGroup(c, k))
           \/ GroupSet(c) \/ GroupInspected(c) \/ GroupPatched(c)
  BY <1>1 DEF PutContainerGroup, GetContainerGroup, DeleteContainerGroup, GroupSet, GroupInspected, GroupPatched, docker, OneContainer
<1>2. CASE ContainerStops(c) \/ ContainerRemoved(c)
  <2> DEFINE n == ContainerName(c)
             stopped == [container[n] EXCEPT !.state = IF @ = "running" THEN "exited" ELSE @]
             removed == IF container[n].state = "running" THEN container[n] ELSE NoContainer
  <2>1. n \in Names /\ work[c].at # "idle"
    BY <1>2, <1>n DEF ContainerStops, ContainerRemoved
  <2>2. /\ stopped \in Container /\ stopped.net = container[n].net
        /\ removed \in Container /\ removed.net \in {Bridge, container[n].net}
    BY <1>c, <2>1 DEF Container, States, NoContainer
  <2>3. container' = [container EXCEPT ![n] = stopped] \/ container' = [container EXCEPT ![n] = removed]
    BY <1>2 DEF ContainerStops, ContainerRemoved, Stop, RemoveStopped
  <2>4. UNCHANGED network
    BY <1>2 DEF ContainerStops, ContainerRemoved
  <2> HIDE DEF stopped, removed
  <2> QED
    BY <2>1, <2>2, <2>3, <2>4 DEF OneContainer
<1>3. CASE ContainerRuns(c) \/ ContainerRunFails(c)
  <2> DEFINE n == ContainerName(c)
  <2>1. work[c].at # "idle" /\ UNCHANGED network
    BY <1>3 DEF ContainerRuns, ContainerRunFails
  <2>2. \/ UNCHANGED container
        \/ \E st \in {"running", "created"} :
              container' = [container EXCEPT ![n] = [state |-> st, port |-> work[c].port, net |-> Bridge, tag |-> work[c].record.put]]
    BY <1>3 DEF ContainerRuns, ContainerRunFails, Run, RunRefused, RunBreaks
  <2>3. \A st \in {"running", "created"} : [state |-> st, port |-> work[c].port, net |-> Bridge, tag |-> work[c].record.put] \in Container
    BY <1>k, ContainerType DEF States
  <2> QED
    BY <2>1, <2>2, <2>3 DEF OneContainer
<1> HIDE DEF Doing
<1> QED
  BY <1>1, <1>2, <1>3 DEF Containing

(* Every step of the composition is a step of virtual machines.            *)
LEMMA SeenByMachines ==
  ASSUME Typed, AciTyped, [ComputeNext]_computeVars
  PROVE  [Next]_vars
<1>1. ASSUME NEW c \in Clients, Containing(c), UNCHANGED <<store, fixed, req, bounds>> PROVE [Next]_vars
  <2>1. OneContainer(c) /\ UNCHANGED network
    BY <1>1, ContainingTouches DEF Typed
  <2>2. CASE UNCHANGED container
    BY <1>1, <2>1, <2>2 DEF vars, docker
  <2>3. CASE ~UNCHANGED container
    <3>1. ContainerName(c) \in Names \ (VMs \cup Services)
      BY <2>1, <2>3, ContainerGroupsAssumption DEF OneContainer, AciTyped, AboutGroups, ContainerName
    <3>2. Elsewhere
      BY <1>1, <2>1, <2>3, <3>1 DEF OneContainer, Elsewhere
    <3> QED
      BY <3>2 DEF Next
  <2> QED
    BY <2>2, <2>3
<1>2. CASE UNCHANGED computeVars
  BY <1>2 DEF computeVars
<1> QED
  BY <1>1, <1>2 DEF ComputeNext, Next

LEMMA ComputeTyping == ASSUME Typed, AciTyped, [ComputeNext]_computeVars PROVE AciTyped'
<1>1. CASE (Machining /\ UNCHANGED aci) \/ UNCHANGED computeVars
  BY <1>1 DEF aci, computeVars, AciTyped, AciType, AboutGroups
<1>2. ASSUME NEW c \in Clients, Containing(c) PROVE AciTyped'
  BY <1>2, ContainingType
<1>3. ASSUME NEW g, SweptWith(g) PROVE AciTyped'
  <2>1. group' \in [ContainerGroups -> GroupRecord] /\ UNCHANGED <<work, puts>>
    BY <1>3, Nowhere DEF SweptWith, AciTyped, AciType
  <2>2. abandoned' \subseteq Names
    BY <1>3, ContainerGroupsAssumption DEF SweptWith, AciTyped, AciType
  <2> QED
    BY <2>1, <2>2 DEF AciTyped, AciType, AboutGroups
<1>4. CASE RestartedToo
  <2>1. NoWork \in Work /\ NoGroup \in GroupRecord /\ NoWork.at = "idle"
    BY Nowhere DEF NoWork
  <2> QED
    BY <1>4, <2>1 DEF RestartedToo, AciTyped, AciType, AboutGroups
<1> QED
  BY <1>1, <1>2, <1>3, <1>4 DEF ComputeNext

LEMMA AlwaysAciTyped == ComputeSpec => [](Typed /\ AciTyped)
<1>1. ComputeInit => Typed /\ AciTyped
  <2>1. NoWork \in Work /\ NoGroup \in GroupRecord /\ NoWork.at = "idle" /\ 0 \in 0 .. MaxPuts
    BY Nowhere, PutsAssumption DEF NoWork
  <2> QED
    BY <2>1, InitialType DEF ComputeInit, AciTyped, AciType, AboutGroups
<1>2. Typed /\ AciTyped /\ [ComputeNext]_computeVars => (Typed /\ AciTyped)'
  BY SeenByMachines, SteppingType, ComputeTyping
<1> QED
  BY <1>1, <1>2, PTL DEF ComputeSpec

(* Container groups, their records and their requests keep their types, and*)
(* so do the virtual machines beside them: the handlers of internal/       *)
(* services/aci and vm together, over failing docker commands and restarts.*)
THEOREM ComputeKeepsItsTypes == ComputeSpec => []ComputeTypeOK
<1>1. Typed /\ AciTyped => ComputeTypeOK
  BY TypedIsTypeOK DEF AciTyped, AciType, ComputeTypeOK
<1> QED
  BY <1>1, AlwaysAciTyped, PTL

(* What the aci package does never looks to the vm package like more than  *)
(* another user of the docker daemon: every behaviour of both together is  *)
(* one of virtual machines, so the theorems about these hold of it.        *)
THEOREM MachinesAmongContainers == ComputeSpec => Spec
<1>1. ComputeInit => Init
  BY DEF ComputeInit
<1>2. Typed /\ AciTyped /\ [ComputeNext]_computeVars => [Next]_vars
  BY SeenByMachines
<1> QED
  BY <1>1, <1>2, AlwaysAciTyped, PTL DEF ComputeSpec, Spec

-----------------------------------------------------------------------------
(* What container groups see of virtual machines.                          *)

Others == Names \ (VMs \cup Services)
OthersStand == \A n \in Others : container'[n] = container[n]

LEMMA CommandAimed ==
  ASSUME DockerTypeOK, NEW n \in VMs \cup Services,
         \/ UNCHANGED container
         \/ Remove(n) \/ Stop(n) \/ Start(n) \/ Exits(n)
         \/ \E p, net, tag : Run(n, p, net, tag) \/ \E broken : RunBreaks(n, p, net, tag, broken)
  PROVE  OthersStand
BY DEF DockerTypeOK, Remove, Stop, Start, Exits, Run, RunBreaks, OthersStand, Others

LEMMA MachiningAimed ==
  ASSUME Typed, NEW c \in Clients, Putting(c) \/ Deleting(c) \/ Powering(c) \/ CascadeDropsContainers(c)
  PROVE  OthersStand /\ UNCHANGED <<dockerAvail, restarts>>
<1> USE DEF At
<1>d. DockerTypeOK /\ RequestsType
  BY DEF Typed
<1>v. req[c].at \in MachinePoints => req[c].vm \in VMs
  BY <1>d, About DEF VMPoints
<1>q. UNCHANGED <<dockerAvail, restarts>>
  BY DEF Putting, PutVM, GetVM, ResolveIdentity, ResolveFails, UpdateVM, BuildVM, CreateNetwork,
         CreateNetworkFails, RemoveStale, RunVM, RunVMFails, RemoveNetwork, StoreVM, IndexSecret, WriteBack,
         Deleting, DeleteVM, DeleteGroup, DeleteLists, DeleteRemoves, DeleteRemovesVM, DeleteRemovesNetwork, DeleteSweeps,
         DeleteForgetsSecret, DeleteDrops, CleanupLists, CleanupForgetsSecret, CascadeDropsVMs, CascadeDropsServices,
         CascadeDropsIdentities, CascadeDropsContainers,
         Powering, PowerAction, PowerLists, PowerDecides, StopService, StartService, StopVM, StartVM, PowerDone, fixed, bounds
<1>1. CASE RemoveStale(c) \/ RunVM(c) \/ RunVMFails(c) \/ DeleteRemovesVM(c) \/ StopVM(c) \/ StartVM(c)
  <2>1. req[c].vm \in VMs
    BY <1>1, <1>v DEF RemoveStale, RunVM, RunVMFails, DeleteRemovesVM, StopVM, StartVM, MachinePoints
  <2>2. \/ UNCHANGED container
        \/ Remove(req[c].vm) \/ Stop(req[c].vm) \/ Start(req[c].vm)
        \/ \E p, net, tag : Run(req[c].vm, p, net, tag) \/ \E broken : RunBreaks(req[c].vm, p, net, tag, broken)
    BY <1>1 DEF RemoveStale, RunVM, RunVMFails, RunRefused, DeleteRemovesVM, StopVM, StartVM
  <2> QED
    BY <1>d, <1>q, <2>1, <2>2, CommandAimed
<1>2. ASSUME NEW s \in Services, DeleteRemoves(c, s) \/ StopService(c, s) \/ StartService(c, s) PROVE OthersStand
  BY <1>d, <1>2, CommandAimed DEF DeleteRemoves, StopService, StartService
<1>3. CASE UNCHANGED container
  BY <1>q, <1>3 DEF OthersStand
<1>4. Putting(c) => RemoveStale(c) \/ RunVM(c) \/ RunVMFails(c) \/ UNCHANGED container
  BY DEF Putting, PutVM, GetVM, ResolveIdentity, ResolveFails, UpdateVM, BuildVM, CreateNetwork,
         CreateNetworkFails, RemoveNetwork, StoreVM, IndexSecret, WriteBack, docker
<1>5. Deleting(c) => DeleteRemovesVM(c) \/ (\E s \in Services : DeleteRemoves(c, s)) \/ UNCHANGED container
  BY DEF Deleting, DeleteVM, DeleteGroup, DeleteLists, DeleteRemovesNetwork, DeleteSweeps,
         DeleteForgetsSecret, DeleteDrops, CleanupLists, CleanupForgetsSecret, CascadeDropsVMs, CascadeDropsServices,
         CascadeDropsIdentities, docker
<1>6. Powering(c) => StopVM(c) \/ StartVM(c) \/ (\E s \in Services : StopService(c, s) \/ StartService(c, s)) \/ UNCHANGED container
  BY DEF Powering, PowerAction, PowerLists, PowerDecides, PowerDone, docker
<1>7. CascadeDropsContainers(c) => UNCHANGED container
  BY DEF CascadeDropsContainers, docker
<1> HIDE DEF At
<1> QED
  BY <1>q, <1>1, <1>2, <1>3, <1>4, <1>5, <1>6, <1>7

LEMMA DeployingAimed ==
  ASSUME Typed, NEW c \in Clients, Deploying(c)
  PROVE  OthersStand /\ UNCHANGED <<dockerAvail, restarts>>
<1>d. DockerTypeOK /\ RequestsType
  BY DEF Typed
<1>q. UNCHANGED <<dockerAvail, restarts>>
  BY DEF Deploying, GetService, DeleteService, DeployService, DeployInspects, DeployComparesPorts, DeployLooksItselfUp,
         DeployReplaces, DeployRuns, DeployRunFails, DeployForgets, DeployRecords, ServiceWritesBack, ServiceRemoved,
         ServiceDropped, ServiceNoted, fixed, bounds
<1>1. CASE DeployReplaces(c) \/ DeployRuns(c) \/ DeployRunFails(c) \/ ServiceRemoved(c)
  <2>1. req[c].svc \in Services
    BY <1>d, <1>1, About DEF DeployReplaces, DeployRuns, DeployRunFails, ServiceRemoved, At, ServicePoints
  <2>2. \/ UNCHANGED container
        \/ Remove(req[c].svc)
        \/ \E p, net, tag : Run(req[c].svc, p, net, tag) \/ \E broken : RunBreaks(req[c].svc, p, net, tag, broken)
    BY <1>1 DEF DeployReplaces, DeployRuns, DeployRunFails, ServiceRemoved, RunRefused
  <2> QED
    BY <1>d, <1>q, <2>1, <2>2, CommandAimed
<1>2. CASE UNCHANGED container
  BY <1>q, <1>2 DEF OthersStand
<1>3. DeployReplaces(c) \/ DeployRuns(c) \/ DeployRunFails(c) \/ ServiceRemoved(c) \/ UNCHANGED container
  BY DEF Deploying, GetService, DeleteService, DeployService, DeployInspects, DeployComparesPorts, DeployLooksItselfUp,
         DeployForgets, DeployRecords, ServiceWritesBack, ServiceDropped, ServiceNoted, docker
<1> QED
  BY <1>1, <1>2, <1>3

LEMMA MachinesAimed ==
  ASSUME Typed, Machining \/ \E c \in Clients : CascadeDropsContainers(c)
  PROVE  OthersStand /\ UNCHANGED <<dockerAvail, restarts>>
<1>d. DockerTypeOK
  BY DEF Typed
<1>1. ASSUME NEW c \in Clients, Attesting(c) PROVE OthersStand /\ UNCHANGED <<dockerAvail, restarts>>
  BY <1>1 DEF Attesting, PutIdentity, IdentityKeepsItsPrincipal, IdentityGetsAPrincipal, IdentitySet,
       GetToken, TokenReadsVM, TokenChecksIdentity, TokenStored, fixed, bounds, docker, OthersStand
<1>2. ASSUME NEW s \in Services, ServiceExits(s) PROVE OthersStand /\ UNCHANGED <<dockerAvail, restarts>>
  BY <1>d, <1>2, CommandAimed DEF ServiceExits, fixed
<1>3. ASSUME \/ \E g \in Groups : PutGroup(g)
             \/ \E i \in Identities : DeleteIdentity(i)
             \/ \E t \in tokens : IntrospectExpired(t)
      PROVE  OthersStand /\ UNCHANGED <<dockerAvail, restarts>>
  BY <1>3 DEF PutGroup, DeleteIdentity, IntrospectExpired, fixed, bounds, docker, OthersStand
<1> QED
  BY <1>1, <1>2, <1>3, MachiningAimed, DeployingAimed DEF Machining

-----------------------------------------------------------------------------
(* Serialised requests at work on containers work on different ones, and   *)
(* each knows what its steps so far have made of its container.            *)
Occupying == {"stop", "remove", "launch", "set"}
Occupied(c) == work[c].at \in Occupying
Matches(n, r) == (Present(n) => container[n].tag = r.put) /\ (r.id => Present(n))

Sole == \A c, d \in Clients : c # d /\ Occupied(c) /\ Occupied(d) => ContainerName(c) # ContainerName(d)
Halted(c) == /\ work[c].at = "remove" => ~Running(ContainerName(c))
             /\ work[c].at = "launch" => ~Present(ContainerName(c))
Preparing(c) == /\ work[c].at \in Occupying \ {"set"} => dockerAvail /\ ~work[c].record.id
                /\ Occupied(c) /\ work[c].last => work[c].at \in {"stop", "remove"} /\ ~Stored(work[c].group)
                /\ Occupied(c) /\ ~work[c].last => work[c].record.put # 0
Ready(c) == dockerAvail /\ work[c].at = "set" => Matches(ContainerName(c), work[c].record)
Lone(c) == Halted(c) /\ Preparing(c) /\ Ready(c)

(* Without docker, in the first life of the process, there is no container.*)
NoDocker == restarts = 0 /\ ~dockerAvail => \A k \in ContainerGroups : ~Present(ContainerOf[k])

(* A container group nobody is at work on.                                 *)
Settled(k) == /\ dockerAvail /\ Stored(k) => Matches(ContainerOf[k], group[k])
              /\ restarts = 0 /\ ~Stored(k) /\ Present(ContainerOf[k]) => ContainerOf[k] \in abandoned

Tidy == Sole /\ NoDocker /\ \A c \in Clients : Lone(c)
AllSettled == \A k \in ContainerGroups : Busy(k) \/ Settled(k)

(* A request's step that concerns no container, and one that concerns the  *)
(* container of group g, which is its own.                                 *)
SameRecord(k) == group'[k].put = group[k].put /\ group'[k].id = group[k].id
OneWorks(c) == work' = [work EXCEPT ![c] = work'[c]] /\ UNCHANGED <<cast, dockerAvail, restarts>>
Calm(c) == /\ OneWorks(c) /\ UNCHANGED <<container, abandoned>>
           /\ ~Occupied(c) /\ ~Occupied(c)'
           /\ \A k \in ContainerGroups : SameRecord(k)
Engaged(c, g) == /\ OneWorks(c)
                 /\ (Occupied(c) /\ work[c].group = g) \/ (~Occupied(c) /\ ~Busy(g))
                 /\ Occupied(c)' => work'[c].group = g
                 /\ \A n \in Names : container'[n] = container[n] \/ (n = ContainerOf[g] /\ Occupied(c) /\ dockerAvail)
                 /\ \A k \in ContainerGroups \ {g} : group'[k] = group[k]
                 /\ \A n \in Names \ {ContainerOf[g]} : n \in abandoned' <=> n \in abandoned
                 /\ Lone(c)'
                 /\ Occupied(c)' \/ Settled(g)'

LEMMA Works ==
  ASSUME AciTyped, NEW c \in Clients, NEW w, Do(c, w)
  PROVE  work' = [work EXCEPT ![c] = work'[c]] /\ work'[c] = w
BY DEF AciTyped, AciType, Do

LEMMA WorksOn ==
  ASSUME AciTyped, NEW c \in Clients, NEW p, DoNext(c, p)
  PROVE  /\ work' = [work EXCEPT ![c] = work'[c]] /\ work'[c].at = p
         /\ work'[c].group = work[c].group /\ work'[c].record = work[c].record /\ work'[c].last = work[c].last
<1>1. work[c] \in Work
  BY DEF AciTyped, AciType
<1>2. [work[c] EXCEPT !.at = p].at = p /\ [work[c] EXCEPT !.at = p].group = work[c].group
      /\ [work[c] EXCEPT !.at = p].record = work[c].record /\ [work[c] EXCEPT !.at = p].last = work[c].last
  BY <1>1 DEF Work
<1> QED
  BY <1>2, Works DEF DoNext

LEMMA CalmSteps ==
  ASSUME AciTyped, NEW c \in Clients, UNCHANGED <<fixed, bounds>>,
         (\E k \in ContainerGroups : GetContainerGroup(c, k)) \/ GroupInspected(c) \/ GroupPatched(c)
  PROVE  Calm(c)
<1>q. work[c] \in Work /\ UNCHANGED <<cast, dockerAvail, restarts>> /\ group \in [ContainerGroups -> GroupRecord]
  BY DEF AciTyped, AciType, fixed, bounds
<1>1. ASSUME NEW k \in ContainerGroups, GetContainerGroup(c, k) PROVE Calm(c)
  <2> DEFINE w == [NoWork EXCEPT !.at = "inspect", !.group = k, !.record = group[k]]
  <2>1. Do(c, w) /\ UNCHANGED <<group, container, abandoned>> /\ work[c].at = "idle"
    BY <1>1 DEF GetContainerGroup, docker, Doing
  <2>2. w.at = "inspect"
    BY DEF NoWork
  <2> HIDE DEF w
  <2> QED
    BY <1>q, <2>1, <2>2, Works DEF Calm, OneWorks, Occupied, Occupying, SameRecord
<1>2. CASE GroupInspected(c)
  <2>1. PICK st \in Activities : Do(c, [work[c] EXCEPT !.at = "patch", !.record.state = st])
    BY <1>2 DEF GroupInspected, Activities
  <2> DEFINE w == [work[c] EXCEPT !.at = "patch", !.record.state = st]
  <2>2. UNCHANGED <<group, container, abandoned>> /\ work[c].at = "inspect" /\ Do(c, w)
    BY <1>2, <2>1 DEF GroupInspected, docker, Doing
  <2>3. w.at = "patch"
    BY <1>q DEF Work
  <2> HIDE DEF w
  <2> QED
    BY <1>q, <2>2, <2>3, Works DEF Calm, OneWorks, Occupied, Occupying, SameRecord
<1>3. CASE GroupPatched(c)
  <2>1. UNCHANGED <<container, abandoned>> /\ work[c].at = "patch" /\ Do(c, NoWork)
    BY <1>3 DEF GroupPatched, docker, Doing, Done
  <2>2. \A k \in ContainerGroups : SameRecord(k)
    BY <1>q, <1>3 DEF GroupPatched, SameRecord, GroupRecord
  <2> QED
    BY <1>q, <2>1, <2>2, Works DEF Calm, OneWorks, Occupied, Occupying, NoWork
<1> QED
  BY <1>1, <1>2, <1>3

(* PUT and DELETE: their first step, and the others.                       *)
LEMMA EngagesFirst ==
  ASSUME DockerTypeOK, AciTyped, Tidy, cast.serialised, NEW c \in Clients, UNCHANGED <<fixed, bounds>>,
         NEW k \in ContainerGroups, DeleteContainerGroup(c, k) \/ \E p \in AciPorts : PutContainerGroup(c, k, p)
  PROVE  Engaged(c, k)
<1> USE DEF Doing
<1>q. /\ work[c] \in Work /\ UNCHANGED <<cast, dockerAvail, restarts>> /\ group \in [ContainerGroups -> GroupRecord]
      /\ container \in [Names -> Container] /\ \A j \in ContainerGroups : ContainerOf[j] \in Names
      /\ work[c].at # "idle" => work[c].group \in ContainerGroups
      /\ puts \in Nat /\ Halted(c) /\ Preparing(c) /\ Ready(c) /\ NoDocker
  BY PutsAssumption, ContainerGroupsAssumption DEF AciTyped, AciType, AboutGroups, fixed, bounds, DockerTypeOK, Tidy, Lone
<1>n. NoWork.at = "idle"
  BY DEF NoWork
<1>o. Occupying = {"stop", "remove", "launch", "set"}
  BY DEF Occupying
<1>1. ASSUME NEW p \in AciPorts, PutContainerGroup(c, k, p) PROVE Engaged(c, k)
  <2>1. PICK point \in {"stop", "set"} :
           /\ point = "stop" => dockerAvail
           /\ point = "set" => ~dockerAvail
           /\ Do(c, [NoWork EXCEPT !.at = point, !.group = k, !.port = p,
                                   !.record = [put |-> puts + 1, id |-> FALSE, state |-> "Running"]])
    BY <1>1 DEF PutContainerGroup, BeginWork
  <2> DEFINE w == [NoWork EXCEPT !.at = point, !.group = k, !.port = p,
                                 !.record = [put |-> puts + 1, id |-> FALSE, state |-> "Running"]]
  <2>2. UNCHANGED <<group, abandoned, container>> /\ work[c].at = "idle" /\ ~Busy(k)
    BY <1>1 DEF PutContainerGroup, BeginWork, docker
  <2>3. w.at = point /\ w.group = k /\ w.record.put = puts + 1 /\ ~w.record.id /\ ~w.last
    BY DEF NoWork
  <2>4. Do(c, w)
    BY <2>1
  <2> HIDE DEF w
  <2>5. work'[c] = w /\ OneWorks(c)
    BY <1>q, <2>4, Works DEF OneWorks
  <2>6. Lone(c)'
    BY <1>q, <2>1, <2>3, <2>5 DEF Lone, Halted, Preparing, Ready, Occupied, Occupying
  <2> QED
    BY <1>o, <2>2, <2>3, <2>5, <2>6 DEF Engaged, Occupied
<1>2. CASE DeleteContainerGroup(c, k)
  <2> DEFINE w == [NoWork EXCEPT !.at = "stop", !.group = k, !.last = TRUE]
  <2>1. \/ dockerAvail /\ Do(c, w)
        \/ ~dockerAvail /\ Do(c, NoWork)
    BY <1>2 DEF DeleteContainerGroup, BeginWork
  <2>2. UNCHANGED <<abandoned, container>> /\ work[c].at = "idle" /\ ~Busy(k) /\ group' = [group EXCEPT ![k] = NoGroup]
    BY <1>2 DEF DeleteContainerGroup, BeginWork, docker
  <2>3. w.at = "stop" /\ w.group = k /\ ~w.record.id /\ w.last
    BY DEF NoWork, NoGroup
  <2> HIDE DEF w
  <2>4. (dockerAvail => work'[c] = w) /\ (~dockerAvail => work'[c] = NoWork) /\ OneWorks(c)
    BY <1>q, <2>1, Works DEF OneWorks
  <2>5. ~Stored(k)'
    BY <1>q, <2>2 DEF Stored, NoGroup
  <2>6. Lone(c)'
    BY <1>n, <1>q, <2>3, <2>4, <2>5 DEF Lone, Halted, Preparing, Ready, Occupied, Occupying
  <2>7. ~dockerAvail => Settled(k)'
    BY <1>q, <2>2, <2>5 DEF Settled, NoDocker, Present
  <2> QED
    BY <1>n, <1>o, <1>q, <2>2, <2>3, <2>4, <2>6, <2>7 DEF Engaged, Occupied
<1> HIDE DEF Doing
<1> QED
  BY <1>1, <1>2

LEMMA EngagesOn ==
  ASSUME DockerTypeOK, AciTyped, Tidy, cast.serialised, NEW c \in Clients, UNCHANGED <<fixed, bounds>>,
         NEW g \in ContainerGroups, g = work[c].group,
         ContainerStops(c) \/ ContainerRemoved(c) \/ ContainerRuns(c) \/ ContainerRunFails(c) \/ GroupSet(c)
  PROVE  Engaged(c, g)
<1> USE DEF Doing
<1>q. /\ work[c] \in Work /\ UNCHANGED <<cast, dockerAvail, restarts>> /\ group \in [ContainerGroups -> GroupRecord]
      /\ container \in [Names -> Container] /\ \A k \in ContainerGroups : ContainerOf[k] \in Names
      /\ work[c].at # "idle" => work[c].group \in ContainerGroups
      /\ puts \in Nat /\ Halted(c) /\ Preparing(c) /\ Ready(c) /\ NoDocker
  BY PutsAssumption, ContainerGroupsAssumption DEF AciTyped, AciType, AboutGroups, fixed, bounds, DockerTypeOK, Tidy, Lone
<1>n. NoWork.at = "idle"
  BY DEF NoWork
<1>o. Occupying = {"stop", "remove", "launch", "set"}
  BY DEF Occupying
<1> DEFINE n == ContainerOf[g]
<1>w. ContainerName(c) = n
  BY DEF ContainerName
<1>3. CASE ContainerStops(c)
  <2>1. /\ Occupied(c) /\ dockerAvail /\ ~work[c].record.id /\ (work[c].last => ~Stored(g))
        /\ ~work[c].last => work[c].record.put # 0
    BY <1>3, <1>q, <1>o DEF ContainerStops, Preparing, Occupied
  <2>2. UNCHANGED <<group, abandoned>> /\ container' = [container EXCEPT ![n].state = IF @ = "running" THEN "exited" ELSE @]
    BY <1>3, <1>w DEF ContainerStops, Stop
  <2>3. /\ OneWorks(c) /\ work'[c].at = "remove" /\ work'[c].group = g /\ work'[c].record = work[c].record
        /\ work'[c].last = work[c].last
    BY <1>3, <1>q, WorksOn DEF ContainerStops, OneWorks
  <2>5. ~Running(n)'
    BY <1>q, <2>2 DEF Running, Container, States
  <2>6. Lone(c)'
    BY <1>q, <2>1, <2>2, <2>3, <2>5 DEF Lone, Halted, Preparing, Ready, Occupied, Occupying, ContainerName, Stored
  <2> QED
    BY <1>o, <1>q, <2>1, <2>2, <2>3, <2>6 DEF Engaged, Occupied
<1>4. CASE ContainerRemoved(c)
  <2>1. /\ Occupied(c) /\ dockerAvail /\ ~work[c].record.id /\ (work[c].last => ~Stored(g))
        /\ (~work[c].last => work[c].record.put # 0) /\ ~Running(n)
    BY <1>4, <1>q, <1>o DEF ContainerRemoved, Preparing, Occupied, Halted, ContainerName
  <2>2. UNCHANGED <<group, abandoned>> /\ container' = [container EXCEPT ![n] = NoContainer]
    BY <1>4, <1>w, <2>1 DEF ContainerRemoved, RemoveStopped, Running
  <2>3. /\ OneWorks(c)
        /\ work[c].last => work'[c] = NoWork
        /\ ~work[c].last => /\ work'[c].at = "launch" /\ work'[c].group = g /\ work'[c].record = work[c].record
                            /\ work'[c].last = work[c].last
    BY <1>4, <1>q, WorksOn, Works DEF ContainerRemoved, OneWorks, Done
  <2>5. ~Present(n)'
    BY <1>q, <2>2 DEF Present, NoContainer
  <2>6. Lone(c)'
    BY <1>q, <1>n, <2>1, <2>2, <2>3, <2>5 DEF Lone, Halted, Preparing, Ready, Occupied, Occupying, ContainerName, Stored
  <2>7. work[c].last => Settled(g)'
    BY <2>1, <2>2, <2>5 DEF Settled, Stored
  <2> QED
    BY <1>n, <1>o, <1>q, <2>1, <2>2, <2>3, <2>6, <2>7 DEF Engaged, Occupied
<1>5. CASE ContainerRuns(c) \/ ContainerRunFails(c)
  <2>1. Occupied(c) /\ dockerAvail /\ ~work[c].record.id /\ ~work[c].last /\ work[c].record.put # 0 /\ ~Present(n)
    BY <1>5, <1>q, <1>o DEF ContainerRuns, ContainerRunFails, Preparing, Occupied, Halted, ContainerName
  <2> DEFINE r == work[c].record
             ran == [work[c] EXCEPT !.at = "set", !.record.id = TRUE]
             failed == [work[c] EXCEPT !.at = "set", !.record.state = "Waiting"]
             made(st) == container' = [container EXCEPT ![n] = [state |-> st, port |-> work[c].port, net |-> Bridge, tag |-> r.put]]
  <2>2. /\ UNCHANGED <<group, abandoned>>
        /\ \/ made("running") /\ Do(c, ran)
           \/ (UNCHANGED container \/ made("created")) /\ Do(c, failed)
    BY <1>5, <1>w DEF ContainerRuns, ContainerRunFails, Run, RunRefused, RunBreaks
  <2>4. /\ ran.at = "set" /\ ran.group = g /\ ~ran.last /\ ran.record.put = r.put /\ ran.record.id
        /\ failed.at = "set" /\ failed.group = g /\ ~failed.last /\ failed.record.put = r.put /\ ~failed.record.id
    BY <1>q, <2>1 DEF Work, GroupRecord
  <2>5. \A m \in Names : container'[m] = container[m] \/ m = n
    BY <1>q, <2>2
  <2>6. \/ /\ Present(n)' /\ container'[n].tag = r.put
           /\ work'[c] = ran
        \/ /\ ~Present(n)' \/ container'[n].tag = r.put
           /\ work'[c] = failed
    BY <1>q, <2>1, <2>2, Works DEF Present
  <2>7. OneWorks(c)
    BY <1>q, <2>2, Works DEF OneWorks
  <2> HIDE DEF ran, failed, made
  <2>8. Lone(c)'
    BY <1>q, <2>1, <2>4, <2>6 DEF Lone, Halted, Preparing, Ready, Occupied, Occupying, ContainerName, Matches
  <2> QED
    BY <1>o, <1>q, <2>1, <2>2, <2>4, <2>5, <2>6, <2>7, <2>8 DEF Engaged, Occupied
<1>6. CASE GroupSet(c)
  <2>1. Occupied(c) /\ work[c].record.put # 0 /\ (dockerAvail => Matches(n, work[c].record))
    BY <1>6, <1>q, <1>o DEF GroupSet, Preparing, Ready, Occupied, ContainerName
  <2>2. /\ UNCHANGED <<container, network>> /\ group' = [group EXCEPT ![g] = work[c].record] /\ abandoned' = abandoned \ {n}
        /\ OneWorks(c) /\ work'[c] = NoWork
    BY <1>6, <1>q, <1>w, Works DEF GroupSet, docker, OneWorks, Done
  <2>4. Settled(g)'
    BY <1>q, <2>1, <2>2 DEF Settled, Stored, Matches, Present
  <2>5. Lone(c)'
    BY <1>n, <2>2 DEF Lone, Halted, Preparing, Ready, Occupied, Occupying
  <2> QED
    BY <1>n, <1>o, <1>q, <2>1, <2>2, <2>4, <2>5 DEF Engaged, Occupied
<1> HIDE DEF Doing
<1> QED
  BY <1>3, <1>4, <1>5, <1>6

LEMMA CalmOrEngaged ==
  ASSUME Typed, AciTyped, Tidy, cast.serialised, NEW c \in Clients, Containing(c), UNCHANGED <<fixed, bounds>>
  PROVE  Calm(c) \/ \E g \in ContainerGroups : Engaged(c, g)
<1>1. work[c].at # "idle" => work[c].group \in ContainerGroups
  BY DEF AciTyped, AboutGroups
<1>2. CASE ContainerStops(c) \/ ContainerRemoved(c) \/ ContainerRuns(c) \/ ContainerRunFails(c) \/ GroupSet(c)
  <2>1. work[c].group \in ContainerGroups
    BY <1>1, <1>2 DEF ContainerStops, ContainerRemoved, ContainerRuns, ContainerRunFails, GroupSet, Doing
  <2> QED
    BY <1>2, <2>1, EngagesOn DEF Typed
<1> QED
  BY <1>2, CalmSteps, EngagesFirst DEF Containing, Typed

-----------------------------------------------------------------------------
(* What a step leaves to the others.                                       *)

LEMMA StayAtWork ==
  ASSUME AciTyped, NEW c \in Clients, OneWorks(c), NEW d \in Clients, d # c
  PROVE  work'[d] = work[d]
BY DEF OneWorks, AciTyped, AciType

LEMMA CalmTidy == ASSUME AciTyped, Tidy, NEW c \in Clients, Calm(c) PROVE Tidy'
<1>1. \A d \in Clients \ {c} : work'[d] = work[d]
  BY StayAtWork DEF Calm
<1>2. Sole'
  BY <1>1 DEF Calm, Tidy, Sole, Occupied, ContainerName
<1>3. NoDocker'
  BY DEF Calm, OneWorks, Tidy, NoDocker, Present
<1>4. Lone(c)'
  BY DEF Calm, Lone, Halted, Preparing, Ready, Occupied, Occupying
<1>5. ASSUME NEW d \in Clients, d # c PROVE Lone(d)'
  <2>1. Lone(d) /\ work'[d] = work[d] /\ container' = container /\ dockerAvail' = dockerAvail
    BY <1>1, <1>5 DEF Calm, OneWorks, Tidy
  <2>2. Occupied(d) => (Stored(work[d].group) <=> Stored(work[d].group)')
    <3>1. Occupied(d) => work[d].group \in ContainerGroups
      BY DEF AciTyped, AboutGroups, Occupied, Occupying
    <3> QED
      BY <2>1, <3>1 DEF Calm, SameRecord, Stored
  <2> QED
    BY <2>1, <2>2 DEF Lone, Halted, Preparing, Ready, Occupied, ContainerName, Matches, Present, Running, Stored
<1> QED
  BY <1>2, <1>3, <1>4, <1>5 DEF Tidy

LEMMA EngagedTidy ==
  ASSUME AciTyped, Tidy, NEW c \in Clients, NEW g \in ContainerGroups, Engaged(c, g)
  PROVE  Tidy'
<1>1. \A d \in Clients \ {c} : work'[d] = work[d]
  BY StayAtWork DEF Engaged
<1>2. \A d \in Clients \ {c} : Occupied(d) => ContainerName(d) # ContainerOf[g] /\ work[d].group # g
  BY DEF Engaged, Tidy, Sole, Busy, Occupied, Occupying, ContainerName
<1>3. Sole'
  BY <1>1, <1>2 DEF Engaged, Tidy, Sole, Occupied, ContainerName
<1>4. NoDocker'
  <2>1. \A k \in ContainerGroups : ContainerOf[k] \in Names
    BY ContainerGroupsAssumption
  <2> QED
    BY <2>1 DEF Engaged, OneWorks, Tidy, NoDocker, Present
<1>5. ASSUME NEW d \in Clients, d # c PROVE Lone(d)'
  <2>1. Lone(d) /\ work'[d] = work[d] /\ dockerAvail' = dockerAvail
    BY <1>1, <1>5 DEF Engaged, OneWorks, Tidy
  <2>2. Occupied(d) => work[d].group \in ContainerGroups /\ ContainerName(d) \in Names
    BY ContainerGroupsAssumption DEF AciTyped, AboutGroups, Occupied, Occupying, ContainerName
  <2>3. Occupied(d) => container'[ContainerName(d)] = container[ContainerName(d)] /\ group'[work[d].group] = group[work[d].group]
    BY <1>2, <1>5, <2>2 DEF Engaged
  <2> QED
    BY <2>1, <2>3 DEF Lone, Halted, Preparing, Ready, Occupied, Occupying, ContainerName, Matches, Present, Running, Stored
<1> QED
  BY <1>3, <1>4, <1>5 DEF Tidy, Engaged

(* The same where every group has a container name of its own.             *)
OwnNames == \A k, j \in ContainerGroups : k # j => ContainerOf[k] # ContainerOf[j]

LEMMA CalmSettled == ASSUME AciTyped, AllSettled, NEW c \in Clients, Calm(c) PROVE AllSettled'
<1> SUFFICES ASSUME NEW k \in ContainerGroups PROVE Busy(k)' \/ Settled(k)'
  BY DEF AllSettled
<1>1. \A d \in Clients \ {c} : work'[d] = work[d]
  BY StayAtWork DEF Calm
<1>2. Busy(k) => Busy(k)'
  BY <1>1 DEF Calm, Busy, Occupied, Occupying, ContainerName
<1>3. Settled(k) => Settled(k)'
  BY DEF Calm, OneWorks, SameRecord, Settled, Stored, Matches, Present
<1> QED
  BY <1>2, <1>3 DEF AllSettled

LEMMA EngagedSettled ==
  ASSUME AciTyped, OwnNames, AllSettled, NEW c \in Clients, NEW g \in ContainerGroups, Engaged(c, g)
  PROVE  AllSettled'
<1> SUFFICES ASSUME NEW k \in ContainerGroups PROVE Busy(k)' \/ Settled(k)'
  BY DEF AllSettled
<1>1. \A d \in Clients \ {c} : work'[d] = work[d]
  BY StayAtWork DEF Engaged
<1>2. CASE k = g
  BY <1>2 DEF Engaged, Busy, Occupied, Occupying, ContainerName
<1>3. CASE k # g
  <2>1. ContainerOf[k] # ContainerOf[g] /\ ContainerOf[k] \in Names
    BY <1>3, ContainerGroupsAssumption DEF OwnNames
  <2>2. Busy(k) => Busy(k)'
    BY <1>1, <2>1 DEF Engaged, Busy, Occupied, Occupying, ContainerName
  <2>3. /\ container'[ContainerOf[k]] = container[ContainerOf[k]] /\ group'[k] = group[k]
        /\ ContainerOf[k] \in abandoned' <=> ContainerOf[k] \in abandoned
        /\ UNCHANGED <<dockerAvail, restarts>>
    BY <1>3, <2>1 DEF Engaged, OneWorks
  <2>4. Settled(k) => Settled(k)'
    BY <2>3 DEF Settled, Stored, Matches, Present
  <2> QED
    BY <2>2, <2>4 DEF AllSettled
<1> QED
  BY <1>2, <1>3

-----------------------------------------------------------------------------
(* Every step.                                                             *)

LEMMA MachinesTidy ==
  ASSUME AciTyped, OthersStand, UNCHANGED <<dockerAvail, restarts, cast, aci>>
  PROVE  (Tidy => Tidy') /\ (AllSettled => AllSettled')
<1>1. /\ UNCHANGED <<group, work, abandoned, puts>>
      /\ \A k \in ContainerGroups : container'[ContainerOf[k]] = container[ContainerOf[k]]
  BY ContainerGroupsAssumption DEF aci, OthersStand, Others
<1>2. UNCHANGED <<dockerAvail, restarts, cast>>
  OBVIOUS
<1>3. AllSettled => AllSettled'
  BY <1>1, <1>2 DEF AllSettled, Settled, Busy, ContainerName, Stored, Matches, Present
<1>4. ASSUME Tidy PROVE Tidy'
  <2>1. Sole' /\ NoDocker'
    BY <1>1, <1>2, <1>4 DEF Tidy, Sole, NoDocker, Occupied, ContainerName, Present
  <2>2. ASSUME NEW c \in Clients PROVE Lone(c)'
    BY <1>1, <1>2, <1>4 DEF Tidy, Lone, Halted, Preparing, Ready, Occupied, Occupying, ContainerName, Matches, Present, Running, Stored,
       AciTyped, AboutGroups
  <2> QED
    BY <2>1, <2>2 DEF Tidy
<1> QED
  BY <1>3, <1>4

(* The records of a resource group go; nothing is done to containers.      *)
LEMMA SweptTidy ==
  ASSUME AciTyped, NEW g, SweptWith(g), UNCHANGED <<container, dockerAvail, restarts, cast>>
  PROVE  (Tidy => Tidy') /\ (AllSettled => AllSettled')
<1>0. group' = [k \in ContainerGroups |-> IF RgOf[k] = g THEN NoGroup ELSE group[k]] /\ work' = work
  BY DEF SweptWith
<1>1. \A k \in ContainerGroups : /\ RgOf[k] # g => group'[k] = group[k]
                                 /\ RgOf[k] = g => ~Stored(k)'
                                 /\ RgOf[k] = g /\ Stored(k) => ContainerOf[k] \in abandoned'
  BY <1>0 DEF SweptWith, Stored, NoGroup
<1>2. \A k \in ContainerGroups : ContainerOf[k] \in abandoned => ContainerOf[k] \in abandoned'
  BY DEF SweptWith
<1>3. ASSUME Tidy PROVE Tidy'
  <2>1. Sole' /\ NoDocker'
    BY <1>0, <1>3 DEF Tidy, Sole, NoDocker, Occupied, ContainerName, Present
  <2>2. ASSUME NEW c \in Clients PROVE Lone(c)'
    <3>1. Occupied(c) => work[c].group \in ContainerGroups
      BY DEF AciTyped, AboutGroups, Occupied, Occupying
    <3>2. Occupied(c) /\ ~Stored(work[c].group) => ~Stored(work[c].group)'
      BY <1>0, <1>1, <3>1 DEF Stored
    <3> QED
      BY <1>0, <1>3, <3>2 DEF Tidy, Lone, Halted, Preparing, Ready, Occupied, ContainerName, Matches, Present, Running, Stored
  <2> QED
    BY <2>1, <2>2 DEF Tidy
<1>4. ASSUME AllSettled, NEW k \in ContainerGroups PROVE Busy(k)' \/ Settled(k)'
  <2>1. Busy(k) => Busy(k)'
    BY <1>0 DEF Busy, ContainerName
  <2>2. Settled(k) => Settled(k)'
    BY <1>1, <1>2 DEF Settled, Stored, Matches, Present
  <2> QED
    BY <1>4, <2>1, <2>2 DEF AllSettled
<1> QED
  BY <1>3, <1>4 DEF AllSettled

LEMMA RestartedTidy ==
  ASSUME Typed, AciTyped, Restart, RestartedToo
  PROVE  Tidy' /\ AllSettled'
<1>1. group' = [k \in ContainerGroups |-> NoGroup] /\ work' = [c \in Clients |-> NoWork] /\ restarts' = restarts + 1 /\ restarts \in Nat
  BY DEF Restart, RestartedToo, Typed, BoundsType
<1>2. \A c \in Clients : work'[c].at = "idle"
  BY <1>1 DEF NoWork
<1>3. restarts' # 0 /\ \A k \in ContainerGroups : ~Stored(k)'
  BY <1>1 DEF Stored, NoGroup
<1>4. Tidy'
  BY <1>2, <1>3 DEF Tidy, Sole, NoDocker, Lone, Halted, Preparing, Ready, Occupied, Occupying
<1>5. AllSettled'
  BY <1>3 DEF AllSettled, Settled
<1> QED
  BY <1>4, <1>5

Kept == cast.serialised => Tidy
KeptApart == cast.serialised => Tidy /\ AllSettled

LEMMA KeptStep ==
  ASSUME Typed, AciTyped, [ComputeNext]_computeVars
  PROVE  (Kept => Kept') /\ (OwnNames /\ KeptApart => KeptApart')
<1>0. cast' = cast
  BY SeenByMachines, CastStays
<1>1. ASSUME cast.serialised, Tidy PROVE Tidy' /\ (OwnNames /\ AllSettled => AllSettled')
  <2>1. CASE Machining /\ UNCHANGED aci
    BY <1>0, <1>1, <2>1, MachinesAimed, MachinesTidy
  <2>2. CASE UNCHANGED computeVars
    <3>1. OthersStand /\ UNCHANGED <<dockerAvail, restarts, cast, aci>>
      BY <2>2 DEF computeVars, vars, docker, fixed, bounds, OthersStand
    <3> QED
      BY <1>1, <3>1, MachinesTidy
  <2>3. ASSUME NEW c \in Clients, Containing(c), UNCHANGED <<store, fixed, req, bounds>> PROVE Tidy' /\ (OwnNames /\ AllSettled => AllSettled')
    BY <1>1, <2>3, CalmOrEngaged, CalmTidy, EngagedTidy, CalmSettled, EngagedSettled
  <2>4. ASSUME NEW c \in Clients, CascadeDropsContainers(c), SweptWith(req[c].group) PROVE Tidy' /\ (OwnNames /\ AllSettled => AllSettled')
    <3>1. UNCHANGED <<container, dockerAvail, restarts, cast>>
      BY <2>4 DEF CascadeDropsContainers, docker, fixed, bounds
    <3> QED
      BY <1>1, <2>4, <3>1, SweptTidy
  <2>5. CASE Restart /\ RestartedToo
    BY <2>5, RestartedTidy
  <2> QED
    BY <2>1, <2>2, <2>3, <2>4, <2>5 DEF ComputeNext
<1> QED
  BY <1>0, <1>1 DEF Kept, KeptApart

LEMMA KeptFirst == ComputeInit => Kept /\ KeptApart
<1> SUFFICES ASSUME ComputeInit PROVE Tidy /\ AllSettled
  BY DEF Kept, KeptApart
<1>1. /\ \A c \in Clients : work[c].at = "idle"
      /\ \A k \in ContainerGroups : ~Stored(k) /\ ~Present(ContainerOf[k])
  BY ContainerGroupsAssumption DEF ComputeInit, Init, DockerInit, NoWork, NoGroup, Stored, Present, NoContainer
<1>2. Tidy
  BY <1>1 DEF Tidy, Sole, NoDocker, Lone, Halted, Preparing, Ready, Occupied, Occupying
<1>3. AllSettled
  BY <1>1 DEF AllSettled, Settled
<1> QED
  BY <1>2, <1>3

(* "Remove any previous container with same name (idempotent PUT)": docker *)
(* run of CreateOrUpdateContainerGroup finds the name free, though docker  *)
(* rm without -f spares what runs, other requests run between the steps,   *)
(* and groups of several resource groups may share the name.               *)
THEOREM PutsFindNamesFree == ComputeSpec => []PutFindsTheNameFree
<1>1. Typed /\ AciTyped /\ Kept /\ [ComputeNext]_computeVars => Kept'
  BY KeptStep
<1>2. Kept => PutFindsTheNameFree
  BY DEF Kept, Tidy, Lone, Halted, PutFindsTheNameFree, Doing
<1> QED
  BY <1>1, <1>2, KeptFirst, AlwaysAciTyped, PTL DEF ComputeSpec

LEMMA AlwaysKeptApart == ASSUME OwnNames PROVE ComputeSpec => []KeptApart
<1>1. Typed /\ AciTyped /\ KeptApart /\ [ComputeNext]_computeVars => KeptApart'
  BY KeptStep
<1> QED
  BY <1>1, KeptFirst, AlwaysAciTyped, PTL DEF ComputeSpec

(* Where container names are not shared, a stored container group that no  *)
(* request is at work on has the container of its last PUT, or none if     *)
(* docker run failed: an older container never stays under a new record.   *)
THEOREM GroupsHaveTheirContainers == ASSUME OwnNames PROVE ComputeSpec => []GroupHasItsContainer
<1>1. KeptApart => GroupHasItsContainer
  BY DEF KeptApart, AllSettled, Settled, Matches, GroupHasItsContainer
<1> QED
  BY <1>1, AlwaysKeptApart, PTL

(* Where container names are not shared, and until a restart, a container  *)
(* without a record was left by the DELETE of its resource group, which    *)
(* drops records and not containers.                                       *)
THEOREM NobodyElseAbandons == ASSUME OwnNames PROVE ComputeSpec => []OnlyResourceGroupsAbandon
<1>1. KeptApart => OnlyResourceGroupsAbandon
  BY DEF KeptApart, AllSettled, Settled, OnlyResourceGroupsAbandon
<1> QED
  BY <1>1, AlwaysKeptApart, PTL
=============================================================================
