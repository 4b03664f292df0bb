-------------------------- MODULE ContainerInstance --------------------------
(***************************************************************************)
(* internal/services/aci: container groups, and the docker daemon and the  *)
(* resource groups they share with virtual machines.                       *)
(*                                                                         *)
(* A container group is a record and a container.  Every PUT makes a new   *)
(* record, so a record is known by the number of its PUT; the container    *)
(* carries the number of the PUT that ran it.  The container's name has no *)
(* resource group in it.                                                   *)
(*                                                                         *)
(* Serialised clients send no request about a container's name while one   *)
(* that may change the container is in progress.                           *)
(***************************************************************************)
EXTENDS VirtualMachine

CONSTANTS ContainerGroups,
          RgOf,       \* the resource group of a container group
          ContainerOf, \* its container's name
          AciPorts,   \* the ports a PUT may ask for
          MaxPuts     \* bound on the number of PUTs

ASSUME ContainerGroupsAssumption == /\ RgOf \in [ContainerGroups -> Groups]
                                    /\ ContainerOf \in [ContainerGroups -> Names \ (VMs \cup Services)]
                                    /\ AciPorts \subseteq Ports \cup {NoPort}
                                    /\ "none" \notin ContainerGroups
ASSUME PutsAssumption == MaxPuts \in Nat /\ 0 .. MaxPuts \subseteq Tags
ASSUME PutsCastAssumption == \A k \in Casts : k.puts \in 0 .. MaxPuts

VARIABLES group,      \* the record stored for a container group
          work,       \* the request each client has in progress
          abandoned,  \* the names of containers whose records a resource group took along
          puts

aci == <<group, work, abandoned, puts>>
computeVars == <<vars, aci>>

Activities == {"Running", "Waiting", "Terminated"}
NoGroup == [put |-> 0, id |-> FALSE, state |-> "Waiting"]
GroupRecord == [put : 0 .. MaxPuts, id : BOOLEAN, state : Activities]

Work == [at : {"idle", "stop", "remove", "launch", "set", "inspect", "patch"},
         group : ContainerGroups \cup {None}, record : GroupRecord, port : Ports \cup {NoPort},
         last : BOOLEAN]
NoWork == [at |-> "idle", group |-> None, record |-> NoGroup, port |-> NoPort, last |-> FALSE]

ComputeTypeOK == /\ TypeOK
                 /\ group \in [ContainerGroups -> GroupRecord]
                 /\ work \in [Clients -> Work]
                 /\ abandoned \subseteq Names
                 /\ puts \in 0 .. MaxPuts

ComputeInit == /\ Init
               /\ group = [k \in ContainerGroups |-> NoGroup]
               /\ work = [c \in Clients |-> NoWork]
               /\ abandoned = {}
               /\ puts = 0

Stored(k) == group[k].put # 0
Doing(c, point) == work[c].at = point
Do(c, w) == work' = [work EXCEPT ![c] = w]
DoNext(c, point) == Do(c, [work[c] EXCEPT !.at = point])
Done(c) == Do(c, NoWork)
ContainerName(c) == ContainerOf[work[c].group]

Busy(k) == \E c \in Clients : /\ work[c].at \in {"stop", "remove", "launch", "set"}
                              /\ ContainerName(c) = ContainerOf[k]

BeginWork(c, k, w) == /\ Doing(c, "idle")
                      /\ c \in cast.deployers
                      /\ cast.serialised => ~Busy(k)
                      /\ Do(c, w)

-----------------------------------------------------------------------------
(* PUT: docker stop, docker rm, docker run, and a record whether or not    *)
(* the container runs.                                                     *)

PutContainerGroup(c, k, p) ==
    /\ puts < cast.puts
    /\ puts' = puts + 1
    /\ BeginWork(c, k, [NoWork EXCEPT !.at = IF dockerAvail THEN "stop" ELSE "set", !.group = k, !.port = p,
                                      !.record = [put |-> puts + 1, id |-> FALSE, state |-> "Running"]])
    /\ UNCHANGED <<group, abandoned, docker>>

(* Mutant: docker rm without docker stop.                                  *)
BugStillRunning(c) == /\ Doing(c, "stop")
                      /\ DoNext(c, "remove")
                      /\ UNCHANGED <<group, abandoned, puts, docker>>

ContainerStops(c) == /\ Doing(c, "stop")
                     /\ Stop(ContainerName(c))
                     /\ DoNext(c, "remove")
                     /\ UNCHANGED <<group, abandoned, puts, network>>

ContainerRemoved(c) == /\ Doing(c, "remove")
                       /\ RemoveStopped(ContainerName(c))
                       /\ IF work[c].last THEN Done(c) ELSE DoNext(c, "launch")
                       /\ UNCHANGED <<group, abandoned, puts, network>>

ContainerRuns(c) == /\ Doing(c, "launch")
                    /\ Run(ContainerName(c), work[c].port, Bridge, work[c].record.put)
                    /\ Do(c, [work[c] EXCEPT !.at = "set", !.record.id = TRUE])
                    /\ UNCHANGED <<group, abandoned, puts, network>>

(* Mutant: a run that failed counts as one that did not.                   *)
BugFailureUnnoticed(c) ==
    /\ Doing(c, "launch")
    /\ \/ RunRefused(ContainerName(c))
       \/ RunBreaks(ContainerName(c), work[c].port, Bridge, work[c].record.put, cast.unstartable)
    /\ Do(c, [work[c] EXCEPT !.at = "set", !.record.id = TRUE])
    /\ UNCHANGED <<group, abandoned, puts, network>>

ContainerRunFails(c) ==
    /\ Doing(c, "launch")
    /\ \/ RunRefused(ContainerName(c))
       \/ RunBreaks(ContainerName(c), work[c].port, Bridge, work[c].record.put, cast.unstartable)
    /\ Do(c, [work[c] EXCEPT !.at = "set", !.record.state = "Waiting"])
    /\ UNCHANGED <<group, abandoned, puts, network>>

GroupSet(c) == /\ Doing(c, "set")
               /\ group' = [group EXCEPT ![work[c].group] = work[c].record]
               /\ abandoned' = abandoned \ {ContainerName(c)}
               /\ Done(c)
               /\ UNCHANGED <<puts, docker>>

(* GET assigns what docker says to the record it got, wherever that is now.*)
GetContainerGroup(c, k) == /\ dockerAvail
                           /\ Stored(k)
                           /\ Doing(c, "idle") /\ c \in cast.deployers
                           /\ Do(c, [NoWork EXCEPT !.at = "inspect", !.group = k, !.record = group[k]])
                           /\ UNCHANGED <<group, abandoned, puts, docker>>

GroupInspected(c) ==
    /\ Doing(c, "inspect")
    /\ Do(c, [work[c] EXCEPT !.at = "patch",
                             !.record.state = IF Running(ContainerName(c)) THEN "Running" ELSE "Terminated"])
    /\ UNCHANGED <<group, abandoned, puts, docker>>

GroupPatched(c) == LET r == work[c].record IN
    /\ Doing(c, "patch")
    /\ group' = [k \in ContainerGroups |-> IF group[k].put = r.put THEN [group[k] EXCEPT !.state = r.state] ELSE group[k]]
    /\ Done(c)
    /\ UNCHANGED <<abandoned, puts, docker>>

(* Mutant: the record goes and the container stays.                        *)
BugContainerStays(c, k) ==
    /\ Stored(k)
    /\ group' = [group EXCEPT ![k] = NoGroup]
    /\ BeginWork(c, k, NoWork)
    /\ UNCHANGED <<abandoned, puts, docker>>

DeleteContainerGroup(c, k) ==
    /\ Stored(k)
    /\ group' = [group EXCEPT ![k] = NoGroup]
    /\ BeginWork(c, k, IF dockerAvail THEN [NoWork EXCEPT !.at = "stop", !.group = k, !.last = TRUE] ELSE NoWork)
    /\ UNCHANGED <<abandoned, puts, docker>>

-----------------------------------------------------------------------------
(* The records go with the resource group; nothing is done to containers.  *)
SweptWith(g) == /\ group' = [k \in ContainerGroups |-> IF RgOf[k] = g THEN NoGroup ELSE group[k]]
                /\ abandoned' = abandoned \cup {ContainerOf[k] : k \in {j \in ContainerGroups : RgOf[j] = g /\ Stored(j)}}
                /\ UNCHANGED <<work, puts>>

RestartedToo == /\ group' = [k \in ContainerGroups |-> NoGroup]
                /\ work' = [c \in Clients |-> NoWork]
                /\ UNCHANGED <<abandoned, puts>>

Containing(c) == \/ \E k \in ContainerGroups : \/ \E p \in AciPorts : PutContainerGroup(c, k, p)
                                               \/ GetContainerGroup(c, k)
                                               \/ DeleteContainerGroup(c, k)
                 \/ ContainerStops(c) \/ ContainerRemoved(c) \/ ContainerRuns(c) \/ ContainerRunFails(c)
                 \/ GroupSet(c) \/ GroupInspected(c) \/ GroupPatched(c)

ComputeNext == \/ Machining /\ UNCHANGED aci
               \/ \E c \in Clients : Containing(c) /\ UNCHANGED <<store, fixed, req, bounds>>
               \/ \E c \in Clients : CascadeDropsContainers(c) /\ SweptWith(req[c].group)
               \/ Restart /\ RestartedToo

ComputeSpec == ComputeInit /\ [][ComputeNext]_computeVars

-----------------------------------------------------------------------------
(* "Remove any previous container with same name (idempotent PUT)": docker *)
(* run finds the name free, whoever used it before, also before the        *)
(* process started (CreateOrUpdateContainerGroup).                         *)
PutFindsTheNameFree == cast.serialised => \A c \in Clients : Doing(c, "launch") => ~Present(ContainerName(c))

(* When Docker is available a container group is a real container: that of *)
(* the last PUT, and not one of an older PUT or another group (PUT and     *)
(* DELETE against VMs, which share the ports).                             *)
GroupHasItsContainer ==
    cast.serialised /\ dockerAvail => \A k \in ContainerGroups : Stored(k) /\ ~Busy(k) =>
        /\ Present(ContainerOf[k]) => container[ContainerOf[k]].tag = group[k].put
        /\ group[k].id => Present(ContainerOf[k])

(* A container without a record was left by the DELETE of its resource     *)
(* group: nothing else leaves one (DeleteContainerGroup, a failed PUT).    *)
OnlyResourceGroupsAbandon ==
    cast.serialised /\ restarts = 0 => \A k \in ContainerGroups :
        ~Stored(k) /\ ~Busy(k) /\ Present(ContainerOf[k]) => ContainerOf[k] \in abandoned
=============================================================================
