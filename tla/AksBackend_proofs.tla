-------------------------- MODULE AksBackend_proofs --------------------------
(***************************************************************************)
(* What holds of AksBackend for any number of clients, clusters, groups    *)
(* and ports, with proofs checked by TLAPS.                                *)
(***************************************************************************)
EXTENDS AksBackend, FiniteSetTheorems, TLAPS

USE GroupOfAssumption, ClientsAssumption, PortsAssumption, BoundsAssumption

(* What a cast allows is within the bounds.                                *)
LEMMA CastBounds ==
  ASSUME cast \in Casts
  PROVE  /\ cast.faults \in 0 .. MaxFaults /\ cast.resets \in 0 .. MaxResets /\ cast.stops \in 0 .. MaxStops
         /\ cast.ports \subseteq Ports
BY CastsAssumption

ContainerType == [state : {"none", "created", "booting", "ready"}, port : Ports \cup {0}]
BoundsType == faults \in 0 .. MaxFaults /\ resets \in 0 .. MaxResets /\ stops \in 0 .. MaxStops

LEMMA FaultType == ASSUME TypeOK, Fault PROVE BoundsType'
BY CastBounds DEF Fault, TypeOK, BoundsType

LEMMA RemoveType ==
  ASSUME TypeOK, NEW k \in Clusters \cup Groups \cup {"none"}, Remove(k)
  PROVE  container' \in [Clusters -> ContainerType] /\ BoundsType'
<1>1. container' \in [Clusters -> ContainerType]
  BY DEF Remove, TypeOK, ContainerType, NoContainer
<1>2. BoundsType'
  BY FaultType DEF Remove, bounds, TypeOK, BoundsType
<1> QED
  BY <1>1, <1>2

LEMMA ReplyType ==
  ASSUME TypeOK, NEW c \in Clients, Reply(c)
  PROVE  /\ pc' \in [Clients -> Points]
         /\ target' \in [Clients -> Clusters \cup Groups \cup {"none"}]
         /\ held' \in [Clients -> Ports \cup {0}]
         /\ sweep' \in [Clients -> SUBSET Clusters]
BY DEF Reply, Goto, TypeOK, Points, Idle

-----------------------------------------------------------------------------
(* Type correctness.                                                       *)

LEMMA InitType == Init => TypeOK
<1> SUFFICES ASSUME Init PROVE TypeOK
  OBVIOUS
<1>1. container \in [Clusters -> ContainerType]
  BY DEF Init, NoContainer, ContainerType
<1> QED
  BY <1>1 DEF Init, TypeOK, NoRequests, NoRecord, ContainerType, Points, Idle

(* The steps of a request.                                                 *)
LEMMA RequestType == ASSUME NEW c \in Clients, TypeOK, RequestStep(c) PROVE TypeOK'
<1> USE DEF At, Goto, Unlock, clientVars
<1>t. target[c] \in Clusters \cup Groups \cup {"none"}
  BY DEF TypeOK
<1>1. CASE CreateBegins(c)
  BY <1>1, <1>t, RemoveType DEF CreateBegins, TypeOK, ContainerType, BoundsType, Points
<1>2. CASE CreateRuns(c)
  <2>1. PICK p \in cast.ports \ UsedPorts :
          /\ container' = [container EXCEPT ![target[c]] = [state |-> "booting", port |-> p]]
          /\ held' = [held EXCEPT ![c] = p]
    BY <1>2 DEF CreateRuns
  <2> QED
    BY <1>2, <2>1, CastBounds DEF CreateRuns, TypeOK, Points, bounds
<1>3. CASE CreateRunFails(c)
  <2>1. container' \in [Clusters -> ContainerType] /\ BoundsType'
    BY <1>3, FaultType DEF CreateRunFails, bounds, TypeOK, ContainerType, BoundsType
  <2> QED
    BY <1>3, <2>1, ReplyType DEF CreateRunFails, TypeOK, ContainerType, BoundsType
<1>4. CASE CreateReady(c)
  <2>0. /\ container \in [Clusters -> ContainerType]
        /\ \A r \in ContainerType : [r EXCEPT !.state = "ready"] \in ContainerType
    BY DEF TypeOK, ContainerType
  <2>1. container' \in [Clusters -> ContainerType]
    BY <1>4, <2>0 DEF CreateReady
  <2>2. pc' \in [Clients -> Points] /\ mu' \in Clients \cup {"free"}
    BY <1>4 DEF CreateReady, TypeOK, Points
  <2> QED
    BY <1>4, <2>1, <2>2 DEF CreateReady, TypeOK, bounds, BoundsType
<1>5. CASE CreateTimesOut(c)
  <2>1. container' \in [Clusters -> ContainerType] /\ BoundsType'
    BY <1>5, FaultType DEF CreateTimesOut, bounds, TypeOK, ContainerType, BoundsType, NoContainer
  <2> QED
    BY <1>5, <2>1, ReplyType DEF CreateTimesOut, TypeOK, ContainerType, BoundsType
<1>6. CASE PutStores(c)
  <2>1. record' \in [Clusters -> Ports \cup {NoRecord}]
    BY <1>6 DEF PutStores, TypeOK, NoRecord
  <2> QED
    BY <1>6, <2>1, ReplyType DEF PutStores, TypeOK, bounds
<1>7. CASE DeleteRemoves(c)
  BY <1>7, <1>t, RemoveType DEF DeleteRemoves, TypeOK, ContainerType, BoundsType, Points
<1>8. CASE DeleteDrops(c)
  BY <1>8, ReplyType DEF DeleteDrops, TypeOK, bounds, NoRecord
<1>9. CASE CleanupLists(c)
  BY <1>9 DEF CleanupLists, TypeOK, bounds, Points
<1>10. ASSUME NEW k \in Clusters, CleanupRemoves(c, k) PROVE TypeOK'
  BY <1>10, RemoveType DEF CleanupRemoves, TypeOK, ContainerType, BoundsType
<1>11. CASE CascadeDrops(c)
  BY <1>11, ReplyType DEF CascadeDrops, TypeOK, bounds, NoRecord
<1>12. CASE CredentialGiven(c) \/ CredentialFails(c)
  BY <1>12, ReplyType DEF CredentialGiven, CredentialFails, TypeOK, bounds
<1> QED
  BY <1>1, <1>2, <1>3, <1>4, <1>5, <1>6, <1>7, <1>8, <1>9, <1>10, <1>11, <1>12 DEF RequestStep

(* A request arrives; the store is reset.                                  *)
LEMMA ArrivalType ==
  ASSUME TypeOK, \/ \E c \in Clients : NewRequest(c)
                 \/ \E g \in Groups : PutGroup(g)
                 \/ Reset
  PROVE  TypeOK'
<1> USE DEF clientVars, bounds, TypeOK, Begin, Goto, Points
<1>1. ASSUME NEW c \in Clients, NEW k \in Clusters,
             PutCluster(c, k) \/ DeleteCluster(c, k) \/ ListCredential(c, k)
      PROVE  TypeOK'
  <2>1. \E there \in Points : Begin(c, k, there)
    BY <1>1 DEF PutCluster, DeleteCluster, ListCredential
  <2>2. held' \in {held, [held EXCEPT ![c] = record[k]]}
    BY <1>1 DEF PutCluster, DeleteCluster, ListCredential
  <2>3. held' \in [Clients -> Ports \cup {0}]
    BY <2>2 DEF NoRecord
  <2>4. UNCHANGED <<cast, groups, record, container, mu, sweep, disk, phase, doomed, bounds>>
    BY <1>1 DEF PutCluster, DeleteCluster, ListCredential
  <2>5. /\ target' \in [Clients -> Clusters \cup Groups \cup {"none"}]
        /\ pc' \in [Clients -> Points]
    BY <2>1
  <2> QED
    BY <2>3, <2>4, <2>5
<1>2. ASSUME NEW c \in Clients, NEW g \in Groups, DeleteGroup(c, g) PROVE TypeOK'
  BY <1>2 DEF DeleteGroup
<1>3. ASSUME NEW g \in Groups, PutGroup(g) PROVE TypeOK'
  BY <1>3 DEF PutGroup
<1>4. CASE Reset
  BY <1>4, CastBounds DEF Reset, NoRecord
<1> QED
  BY <1>1, <1>2, <1>3, <1>4 DEF NewRequest

(* The steps of the process.                                               *)
ProcessStep == \/ AutoSave \/ Signal \/ ShutdownLists \/ (\E k \in Clusters : ShutdownRemoves(k))
               \/ ShutdownReturns \/ Exit \/ Kill \/ Restart

LEMMA ProcessType == ASSUME TypeOK, ProcessStep PROVE TypeOK'
<1> USE DEF clientVars
<1>1. CASE AutoSave \/ Signal \/ ShutdownLists
  BY <1>1 DEF AutoSave, Signal, ShutdownLists, Checkpoint, TypeOK, bounds
<1>2. ASSUME NEW k \in Clusters, ShutdownRemoves(k) PROVE TypeOK'
  BY <1>2, RemoveType DEF ShutdownRemoves, TypeOK, ContainerType, BoundsType
<1>3. CASE ShutdownReturns
  BY <1>3, FaultType DEF ShutdownReturns, TypeOK, bounds, BoundsType
<1>4. CASE Exit \/ Kill
  <2>1. stops < MaxStops
    BY <1>4, CastBounds DEF Exit, Kill, Gone, TypeOK
  <2>2. Gone /\ faults' \in 0 .. MaxFaults
    BY <1>4, CastBounds DEF Exit, Kill, TypeOK
  <2> QED
    BY <2>1, <2>2 DEF Gone, TypeOK, Points, Idle
<1>5. CASE Restart
  <2>1. container' \in [Clusters -> ContainerType] /\ BoundsType'
    BY <1>5, FaultType DEF Restart, Reaped, TypeOK, bounds, NoContainer, ContainerType, BoundsType
  <2> QED
    BY <1>5, <2>1 DEF Restart, TypeOK, ContainerType, BoundsType
<1> QED
  BY <1>1, <1>2, <1>3, <1>4, <1>5 DEF ProcessStep

LEMMA NextType == TypeOK /\ [Next]_vars => TypeOK'
<1>1. TypeOK /\ UNCHANGED vars => TypeOK'
  BY DEF vars, clientVars, bounds, TypeOK
<1> QED
  BY <1>1, RequestType, ArrivalType, ProcessType DEF Next, ProcessStep

(* Records, containers, handles and the requests' places keep their types. *)
THEOREM TypeCorrect == Spec => []TypeOK
BY InitType, NextType, PTL DEF Spec

-----------------------------------------------------------------------------
(* The inductive invariant: the mutex is held from the docker run to the   *)
(* end of the wait, a creating request is about a cluster, and a process   *)
(* that is down runs no request.                                           *)
AboutCluster == {"create", "run", "wait", "store", "remove", "drop", "exec"}

MutexInv == \A c \in Clients : pc[c] \in Creating => mu = c
TargetInv == \A c \in Clients : pc[c] \in AboutCluster => target[c] \in Clusters
DownInv == phase = "down" => \A c \in Clients : pc[c] = Idle

IInv == TypeOK /\ MutexInv /\ TargetInv /\ DownInv /\ CreateOwnsItsContainer

LEMMA InitInv == Init => IInv
BY InitType DEF Init, NoRequests, IInv, MutexInv, TargetInv, DownInv, CreateOwnsItsContainer,
                Creating, AboutCluster, Idle

(* A container that is removed, or left as it was, contradicts no wait.    *)
LEMMA OwnerKeeps ==
  ASSUME IInv, NEW ks \in SUBSET Clusters,
         container' = [k \in Clusters |-> IF k \in ks THEN NoContainer ELSE container[k]],
         \A c \in Clients : pc'[c] = "wait" =>
             pc[c] = "wait" /\ held'[c] = held[c] /\ target'[c] = target[c]
  PROVE  CreateOwnsItsContainer'
BY DEF IInv, TypeOK, TargetInv, AboutCluster, CreateOwnsItsContainer, Running, NoContainer

LEMMA RemoveKeeps ==
  ASSUME IInv, NEW k \in Clusters, Remove(k)
  PROVE  \E ks \in SUBSET Clusters :
           container' = [j \in Clusters |-> IF j \in ks THEN NoContainer ELSE container[j]]
<1>1. CASE container' = [container EXCEPT ![k] = NoContainer]
  <2> WITNESS {k} \in SUBSET Clusters
  <2> QED
    BY <1>1 DEF IInv, TypeOK
<1>2. CASE container' = container
  <2> WITNESS {} \in SUBSET Clusters
  <2> QED
    BY <1>2 DEF IInv, TypeOK
<1> QED
  BY <1>1, <1>2 DEF Remove

(* Steps of the request of client c; d is any client.                      *)
LEMMA RequestInv == ASSUME NEW c \in Clients, IInv, RequestStep(c), TypeOK' PROVE IInv'
<1> USE DEF IInv, At, Goto, Unlock, clientVars
<1>d. DownInv' /\ UNCHANGED phase
  BY DEF RequestStep, CreateBegins, CreateRuns, CreateRunFails, CreateReady, CreateTimesOut, PutStores,
     DeleteRemoves, DeleteDrops, CleanupLists, CleanupRemoves, CascadeDrops, CredentialGiven, CredentialFails,
     DownInv, Alive
<1>t. pc[c] \in AboutCluster => target[c] \in Clusters
  BY DEF TargetInv
<1>e. ASSUME NEW d \in Clients, d # c, pc[c] \in Creating PROVE pc[d] \notin Creating
  BY <1>e DEF MutexInv
<1> USE DEF TypeOK, Creating, AboutCluster
<1>1. CASE CreateBegins(c)
  <2>1. MutexInv' /\ TargetInv'
    BY <1>1, ClientsAssumption DEF CreateBegins, MutexInv, TargetInv
  <2>2. CreateOwnsItsContainer'
    BY <1>1, <1>t, RemoveKeeps, OwnerKeeps DEF CreateBegins
  <2> QED
    BY <1>d, <2>1, <2>2
<1>2. CASE CreateRuns(c)
  <2>1. PICK p \in cast.ports \ UsedPorts :
          /\ container' = [container EXCEPT ![target[c]] = [state |-> "booting", port |-> p]]
          /\ held' = [held EXCEPT ![c] = p]
    BY <1>2 DEF CreateRuns
  <2>2. MutexInv' /\ TargetInv'
    BY <1>2 DEF CreateRuns, MutexInv, TargetInv
  <2>3. CreateOwnsItsContainer'
    BY <1>2, <1>t, <1>e, <2>1 DEF CreateRuns, CreateOwnsItsContainer, Running
  <2> QED
    BY <1>d, <2>2, <2>3
<1>3. CASE CreateRunFails(c)
  <2>1. MutexInv' /\ TargetInv'
    BY <1>3, <1>e DEF CreateRunFails, Reply, MutexInv, TargetInv, Idle
  <2>2. CreateOwnsItsContainer'
    BY <1>3, <1>t, <1>e DEF CreateRunFails, Reply, CreateOwnsItsContainer, Running, Idle
  <2> QED
    BY <1>d, <2>1, <2>2
<1>4. CASE CreateReady(c)
  <2>1. MutexInv' /\ TargetInv'
    BY <1>4, <1>e DEF CreateReady, MutexInv, TargetInv
  <2>2. CreateOwnsItsContainer'
    BY <1>4, <1>t, <1>e DEF CreateReady, CreateOwnsItsContainer, Running
  <2> QED
    BY <1>d, <2>1, <2>2
<1>5. CASE CreateTimesOut(c)
  <2>1. MutexInv' /\ TargetInv'
    BY <1>5, <1>e DEF CreateTimesOut, Reply, MutexInv, TargetInv, Idle
  <2>2. CreateOwnsItsContainer'
    BY <1>5, <1>t, <1>e DEF CreateTimesOut, Reply, CreateOwnsItsContainer, Running, Idle
  <2> QED
    BY <1>d, <2>1, <2>2
<1>6. CASE DeleteRemoves(c)
  <2>1. MutexInv' /\ TargetInv'
    BY <1>6 DEF DeleteRemoves, MutexInv, TargetInv
  <2>2. CreateOwnsItsContainer'
    BY <1>6, <1>t, RemoveKeeps, OwnerKeeps DEF DeleteRemoves
  <2> QED
    BY <1>d, <2>1, <2>2
<1>7. ASSUME NEW k \in Clusters, CleanupRemoves(c, k) PROVE IInv'
  <2>1. MutexInv' /\ TargetInv'
    BY <1>7 DEF CleanupRemoves, MutexInv, TargetInv
  <2>2. CreateOwnsItsContainer'
    BY <1>7, RemoveKeeps, OwnerKeeps DEF CleanupRemoves
  <2> QED
    BY <1>d, <2>1, <2>2
<1>8. CASE \/ PutStores(c) \/ DeleteDrops(c) \/ CascadeDrops(c)
           \/ CredentialGiven(c) \/ CredentialFails(c)
  <2>1. Reply(c) /\ UNCHANGED <<container, mu>>
    BY <1>8 DEF PutStores, DeleteDrops, CascadeDrops, CredentialGiven, CredentialFails
  <2>2. MutexInv' /\ TargetInv'
    BY <2>1 DEF Reply, MutexInv, TargetInv, Idle
  <2>3. CreateOwnsItsContainer'
    BY <2>1 DEF Reply, CreateOwnsItsContainer, Running, Idle
  <2> QED
    BY <1>d, <2>2, <2>3
<1>9. CASE CleanupLists(c)
  <2>1. MutexInv' /\ TargetInv' /\ CreateOwnsItsContainer'
    BY <1>9 DEF CleanupLists, MutexInv, TargetInv, CreateOwnsItsContainer, Running
  <2> QED
    BY <1>d, <2>1
<1> QED
  BY <1>1, <1>2, <1>3, <1>4, <1>5, <1>6, <1>7, <1>8, <1>9 DEF RequestStep

LEMMA ArrivalInv ==
  ASSUME IInv, TypeOK', \/ \E c \in Clients : NewRequest(c)
                        \/ \E g \in Groups : PutGroup(g)
                        \/ Reset
  PROVE  IInv'
<1> USE DEF IInv, TypeOK, Creating, AboutCluster, clientVars
<1>1. ASSUME NEW c \in Clients, NEW k \in Clusters,
             PutCluster(c, k) \/ DeleteCluster(c, k) \/ ListCredential(c, k)
      PROVE  IInv'
  <2>1. /\ \E there \in AboutCluster \ Creating : Begin(c, k, there)
        /\ \A d \in Clients : d # c => held'[d] = held[d]
        /\ UNCHANGED <<container, mu, phase>>
    BY <1>1 DEF PutCluster, DeleteCluster, ListCredential
  <2>2. MutexInv' /\ TargetInv' /\ DownInv'
    BY <2>1 DEF MutexInv, TargetInv, DownInv, Begin, Goto, Accepting
  <2>3. CreateOwnsItsContainer'
    BY <2>1 DEF Begin, Goto, CreateOwnsItsContainer, Running
  <2> QED
    BY <2>2, <2>3
<1>2. ASSUME NEW c \in Clients, NEW g \in Groups, DeleteGroup(c, g) PROVE IInv'
  <2>1. MutexInv' /\ TargetInv' /\ DownInv'
    BY <1>2 DEF DeleteGroup, MutexInv, TargetInv, DownInv, Begin, Goto, Accepting
  <2>2. CreateOwnsItsContainer'
    BY <1>2 DEF DeleteGroup, Begin, Goto, CreateOwnsItsContainer, Running
  <2> QED
    BY <2>1, <2>2
<1>3. ASSUME NEW g \in Groups, PutGroup(g) PROVE IInv'
  BY <1>3 DEF PutGroup, MutexInv, TargetInv, DownInv, CreateOwnsItsContainer, Running
<1>4. CASE Reset
  BY <1>4 DEF Reset, MutexInv, TargetInv, DownInv, CreateOwnsItsContainer, Running
<1> QED
  BY <1>1, <1>2, <1>3, <1>4 DEF NewRequest

LEMMA ProcessInv == ASSUME IInv, TypeOK', ProcessStep PROVE IInv'
<1> USE DEF IInv, clientVars
<1>1. CASE AutoSave \/ Signal \/ ShutdownLists \/ ShutdownReturns
  <2>1. UNCHANGED <<container, clientVars>> /\ (phase' = "down" => phase = "down")
    BY <1>1 DEF AutoSave, Signal, ShutdownLists, ShutdownReturns
  <2> QED
    BY <2>1 DEF MutexInv, TargetInv, DownInv, CreateOwnsItsContainer, Running
<1>2. ASSUME NEW k \in Clusters, ShutdownRemoves(k) PROVE IInv'
  <2>1. MutexInv' /\ TargetInv' /\ DownInv'
    BY <1>2 DEF ShutdownRemoves, MutexInv, TargetInv, DownInv
  <2>2. CreateOwnsItsContainer'
    BY <1>2, RemoveKeeps, OwnerKeeps DEF ShutdownRemoves
  <2> QED
    BY <2>1, <2>2
<1>3. CASE Exit \/ Kill
  <2>1. Gone
    BY <1>3 DEF Exit, Kill
  <2> QED
    BY <2>1 DEF Gone, MutexInv, TargetInv, DownInv, CreateOwnsItsContainer, Creating, AboutCluster, Idle
<1>4. CASE Restart
  BY <1>4 DEF Restart, MutexInv, TargetInv, DownInv, CreateOwnsItsContainer, Idle
<1> QED
  BY <1>1, <1>2, <1>3, <1>4 DEF ProcessStep

LEMMA NextInv == IInv /\ [Next]_vars => IInv'
<1> SUFFICES ASSUME IInv, [Next]_vars PROVE IInv'
  OBVIOUS
<1>1. TypeOK'
  BY NextType DEF IInv
<1>2. CASE UNCHANGED vars
  BY <1>1, <1>2 DEF vars, clientVars, IInv, MutexInv, TargetInv, DownInv, CreateOwnsItsContainer, Running
<1> QED
  BY <1>1, <1>2, RequestInv, ArrivalInv, ProcessInv DEF Next, ProcessStep

(* Whatever requests, faults and restarts come when, a Create that waits   *)
(* waits for the container it started, on the port of its handle.          *)
THEOREM CreateIsExclusive == Spec => []CreateOwnsItsContainer
<1>1. IInv => CreateOwnsItsContainer
  BY DEF IInv
<1> QED
  BY InitInv, NextInv, <1>1, PTL DEF Spec

-----------------------------------------------------------------------------
(* One client, no faults and no resets: a container that is there belongs  *)
(* to a record, or to the Create that is about to write one.  What a       *)
(* request has removed, or has still to remove, is part of the invariant,  *)
(* because it drops records by what it knows of the containers.            *)
Single == \A c \in Clients : pc[c] # Idle => c \in cast.clients
Unbroken == \A k \in Clusters : container[k].state # "created"
Holding == \A c \in Clients : pc[c] \in {"wait", "store"} => held[c] # 0
Emptied == \A c \in Clients : pc[c] = "drop" => ~Present(target[c])
Swept == \A c \in Clients : pc[c] = "sweep" =>
            \A k \in Clusters : GroupOf[k] = target[c] /\ Present(k) => k \in sweep[c]
Made(k) == \E c \in Clients : pc[c] \in {"wait", "store"} /\ target[c] = k
Owned == Alive => \A k \in Clusters : Present(k) => Exists(k) \/ Made(k)

Clean == Unbroken /\ Holding /\ Emptied /\ Swept /\ Owned
LoneInv == IInv /\ Single /\ (Alone => Clean)

LEMMA InitLone == Init => LoneInv
<1> SUFFICES ASSUME Init PROVE LoneInv
  OBVIOUS
<1>1. IInv
  BY InitInv
<1>2. \A c \in Clients : pc[c] = Idle
  BY DEF Init, NoRequests
<1>3. \A k \in Clusters : container[k].state = "none"
  BY DEF Init, NoContainer
<1> QED
  BY <1>1, <1>2, <1>3 DEF LoneInv, Single, Clean, Unbroken, Holding, Emptied, Swept, Owned, Present, Idle

(* The one request that runs.                                              *)
LEMMA OneAtATime ==
  ASSUME Single, Alone, NEW c \in Clients, NEW d \in Clients, pc[c] # Idle, pc[d] # Idle
  PROVE  c = d
BY DEF Single, Alone

LEMMA CastKept == ASSUME Next PROVE cast' = cast
<1>1. ASSUME NEW c \in Clients, RequestStep(c) PROVE cast' = cast
  BY <1>1 DEF RequestStep, CreateBegins, CreateRuns, CreateRunFails, CreateReady, CreateTimesOut, PutStores,
     DeleteRemoves, DeleteDrops, CleanupLists, CleanupRemoves, CascadeDrops, CredentialGiven, CredentialFails
<1>2. ASSUME NEW c \in Clients, NewRequest(c) PROVE cast' = cast
  BY <1>2 DEF NewRequest, PutCluster, DeleteCluster, ListCredential, DeleteGroup
<1>3. CASE Reset \/ (\E g \in Groups : PutGroup(g))
  BY <1>3 DEF Reset, PutGroup
<1>4. CASE ProcessStep
  BY <1>4 DEF ProcessStep, AutoSave, Signal, ShutdownLists, ShutdownRemoves, ShutdownReturns, Exit, Kill, Gone, Restart
<1> QED
  BY <1>1, <1>2, <1>3, <1>4 DEF Next, ProcessStep

LEMMA SingleStep == ASSUME LoneInv, Next PROVE Single'
<1> USE DEF LoneInv, Single, IInv, TypeOK
<1>c. cast' = cast
  BY CastKept
<1>1. ASSUME NEW c \in Clients, RequestStep(c) PROVE Single'
  <2>1. pc[c] # Idle /\ \A d \in Clients : d # c => pc'[d] = pc[d]
    BY <1>1 DEF RequestStep, CreateBegins, CreateRuns, CreateRunFails, CreateReady, CreateTimesOut, PutStores,
       DeleteRemoves, DeleteDrops, CleanupLists, CleanupRemoves, CascadeDrops, CredentialGiven, CredentialFails,
       At, Goto, Reply, Idle
  <2> QED
    BY <1>c, <2>1
<1>2. ASSUME NEW c \in Clients, NewRequest(c) PROVE Single'
  <2>1. c \in cast.clients /\ \A d \in Clients : d # c => pc'[d] = pc[d]
    BY <1>2 DEF NewRequest, PutCluster, DeleteCluster, ListCredential, DeleteGroup, Begin, Goto
  <2> QED
    BY <1>c, <2>1
<1>3. CASE Reset \/ (\E g \in Groups : PutGroup(g)) \/ ProcessStep
  <2>1. \A d \in Clients : pc'[d] \in {pc[d], Idle}
    BY <1>3 DEF Reset, PutGroup, ProcessStep, AutoSave, Signal, ShutdownLists, ShutdownRemoves, ShutdownReturns,
       Exit, Kill, Gone, Restart, clientVars
  <2> QED
    BY <1>c, <2>1
<1> QED
  BY <1>1, <1>2, <1>3 DEF Next, ProcessStep

(* Without faults docker rm removes.                                       *)
LEMMA NoFault == ASSUME TypeOK, Alone PROVE ~Fault
BY DEF Alone, Fault, TypeOK

LEMMA Removed ==
  ASSUME TypeOK, Alone, NEW k \in Clusters, Remove(k)
  PROVE  /\ container'[k].state = "none"
         /\ \A j \in Clusters : j # k => container'[j] = container[j]
BY NoFault DEF Remove, TypeOK, NoContainer

(* Steps of the one request that runs.                                     *)
LEMMA RequestClean ==
  ASSUME NEW c \in Clients, LoneInv, Alone, RequestStep(c)
  PROVE  Clean'
<1> USE DEF At
<1>t. TypeOK /\ TargetInv /\ Clean /\ Alive /\ UNCHANGED phase /\ pc[c] # Idle
  BY DEF LoneInv, IInv, RequestStep, CreateBegins, CreateRuns, CreateRunFails, CreateReady, CreateTimesOut, PutStores,
     DeleteRemoves, DeleteDrops, CleanupLists, CleanupRemoves, CascadeDrops, CredentialGiven, CredentialFails, Idle
<1>o. \A d \in Clients : d # c => pc[d] = Idle
  BY <1>t, OneAtATime DEF LoneInv
<1>p. \A d \in Clients : d # c => pc'[d] = Idle
  BY <1>t, <1>o DEF TypeOK, RequestStep, CreateBegins, CreateRuns, CreateRunFails, CreateReady, CreateTimesOut, PutStores,
       DeleteRemoves, DeleteDrops, CleanupLists, CleanupRemoves, CascadeDrops, CredentialGiven, CredentialFails,
       Goto, Reply
<1>q. pc[c] \notin {"wait", "store"} => \A k \in Clusters : Present(k) => Exists(k)
  BY <1>t, <1>o DEF Clean, Owned, Made, Idle
<1>r. \A k \in Clusters : Present(k) /\ ~Exists(k) => k = target[c]
  BY <1>t, <1>o DEF Clean, Owned, Made, Idle
<1>s. pc[c] \in AboutCluster => target[c] \in Clusters
  BY <1>t DEF TargetInv
<1> USE DEF TypeOK, Clean, Unbroken, Holding, Emptied, Swept, Owned, Made, Present, Exists, Goto, Idle, AboutCluster
<1>1. CASE CreateBegins(c)
  BY <1>1, <1>t, <1>p, <1>q, <1>s, Removed DEF CreateBegins
<1>2. CASE CreateRuns(c)
  <2>1. PICK p \in cast.ports \ UsedPorts :
          /\ container' = [container EXCEPT ![target[c]] = [state |-> "booting", port |-> p]]
          /\ held' = [held EXCEPT ![c] = p]
    BY <1>2 DEF CreateRuns
  <2>2. p # 0
    BY <1>t, CastBounds
  <2> QED
    BY <1>2, <1>t, <1>p, <1>q, <1>s, <2>1, <2>2 DEF CreateRuns
<1>3. CASE CreateRunFails(c)
  <2>1. container' = container /\ record' = record /\ Reply(c)
    BY <1>3, <1>t, NoFault DEF CreateRunFails
  <2> QED
    BY <1>3, <1>t, <1>p, <1>q, <2>1 DEF CreateRunFails, Reply
<1>4. CASE CreateReady(c)
  BY <1>4, <1>t, <1>p, <1>r, <1>s DEF CreateReady, Running
<1>5. CASE CreateTimesOut(c)
  <2>1. container' = container /\ ~Running(target[c]) /\ record' = record /\ Reply(c) /\ pc[c] = "wait"
    BY <1>5, <1>t, NoFault DEF CreateTimesOut
  <2>2. ~Present(target[c])
    BY <2>1, <1>t, <1>s DEF Running
  <2> QED
    BY <1>t, <1>p, <1>r, <2>1, <2>2 DEF Reply
<1>6. CASE PutStores(c)
  BY <1>6, <1>t, <1>p, <1>r, <1>s DEF PutStores, Reply, NoRecord
<1>7. CASE DeleteRemoves(c)
  <2>1. /\ target[c] \in Clusters /\ container'[target[c]].state = "none"
        /\ \A k \in Clusters : k # target[c] => container'[k] = container[k]
    BY <1>7, <1>t, <1>s, Removed DEF DeleteRemoves
  <2>2. /\ pc[c] = "remove" /\ pc'[c] = "drop" /\ record' = record /\ UNCHANGED <<phase, sweep, held, target>>
    BY <1>7, <1>t DEF DeleteRemoves
  <2>3. Unbroken' /\ Emptied'
    BY <1>t, <1>p, <2>1, <2>2
  <2>4. Holding' /\ Swept'
    BY <1>p, <2>2
  <2>5. Owned'
    BY <1>q, <2>1, <2>2
  <2> QED
    BY <2>3, <2>4, <2>5
<1>8. CASE DeleteDrops(c)
  BY <1>8, <1>t, <1>p, <1>q, <1>s DEF DeleteDrops, Reply
<1>9. CASE CleanupLists(c)
  BY <1>9, <1>t, <1>p, <1>q DEF CleanupLists
<1>10. ASSUME NEW k \in Clusters, CleanupRemoves(c, k) PROVE Clean'
  <2>1. /\ container'[k].state = "none" /\ \A j \in Clusters : j # k => container'[j] = container[j]
    BY <1>10, <1>t, Removed DEF CleanupRemoves
  <2>2. /\ pc[c] = "sweep" /\ pc' = pc /\ record' = record /\ UNCHANGED <<phase, held, target>>
        /\ sweep'[c] = sweep[c] \ {k}
    BY <1>10, <1>t DEF CleanupRemoves
  <2>3. Unbroken' /\ Holding' /\ Emptied'
    BY <1>t, <1>p, <2>1, <2>2
  <2>4. Swept'
    BY <1>t, <1>p, <2>1, <2>2
  <2>5. Owned'
    BY <1>q, <2>1, <2>2
  <2> QED
    BY <2>3, <2>4, <2>5
<1>11. CASE CascadeDrops(c)
  BY <1>11, <1>t, <1>p, <1>q DEF CascadeDrops, Reply
<1>12. CASE CredentialGiven(c) \/ CredentialFails(c)
  BY <1>12, <1>t, <1>p, <1>q DEF CredentialGiven, CredentialFails, Reply
<1> QED
  BY <1>1, <1>2, <1>3, <1>4, <1>5, <1>6, <1>7, <1>8, <1>9, <1>10, <1>11, <1>12 DEF RequestStep

LEMMA ArrivalClean ==
  ASSUME LoneInv, Alone, \/ \E c \in Clients : NewRequest(c)
                         \/ \E g \in Groups : PutGroup(g)
                         \/ Reset
  PROVE  Clean'
<1> USE DEF TypeOK, Clean, Unbroken, Holding, Emptied, Swept, Owned, Made, Present, Exists
<1>t. TypeOK /\ Clean
  BY DEF LoneInv, IInv
<1>1. ASSUME NEW c \in Clients, NewRequest(c) PROVE Clean'
  <2>1. /\ pc[c] = Idle /\ pc'[c] \in Points \ {"wait", "store", "drop", "sweep"}
        /\ \A d \in Clients : d # c => pc'[d] = pc[d] /\ target'[d] = target[d] /\ held'[d] = held[d] /\ sweep'[d] = sweep[d]
        /\ UNCHANGED <<record, container, phase>>
    BY <1>1, <1>t DEF NewRequest, PutCluster, DeleteCluster, ListCredential, DeleteGroup, Begin, Goto, Points
  <2>2. \A k \in Clusters : Made(k) => Made(k)'
    BY <2>1 DEF Idle
  <2>3. Unbroken' /\ Holding' /\ Emptied' /\ Swept'
    BY <1>t, <2>1 DEF Idle
  <2>4. Owned'
    BY <1>t, <2>1, <2>2 DEF Alive
  <2> QED
    BY <2>3, <2>4
<1>2. ASSUME NEW g \in Groups, PutGroup(g) PROVE Clean'
  BY <1>2, <1>t DEF PutGroup, clientVars, Alive
<1>3. CASE Reset
  BY <1>3, <1>t DEF Reset, Alone
<1> QED
  BY <1>1, <1>2, <1>3

LEMMA ProcessClean == ASSUME LoneInv, Alone, ProcessStep PROVE Clean'
<1> USE DEF TypeOK, Clean, Unbroken, Holding, Emptied, Swept, Owned, Made, Present, Exists, clientVars
<1>t. TypeOK /\ Clean /\ DownInv
  BY DEF LoneInv, IInv
<1>1. CASE AutoSave \/ Signal \/ ShutdownLists \/ ShutdownReturns
  BY <1>1, <1>t DEF AutoSave, Signal, ShutdownLists, ShutdownReturns, Alive
<1>2. ASSUME NEW k \in Clusters, ShutdownRemoves(k) PROVE Clean'
  <2>1. \A j \in Clusters : container'[j] = container[j] \/ container'[j].state = "none"
    BY <1>2, <1>t, Removed DEF ShutdownRemoves
  <2>2. UNCHANGED <<record, clientVars, phase>>
    BY <1>2 DEF ShutdownRemoves
  <2>3. Unbroken' /\ Holding' /\ Swept' /\ Owned'
    BY <1>t, <2>1, <2>2 DEF Alive
  <2>4. Emptied'
    BY <2>1, <2>2, <1>t DEF LoneInv, IInv, TargetInv, AboutCluster
  <2> QED
    BY <2>3, <2>4
<1>3. CASE Exit \/ Kill
  <2>1. Gone
    BY <1>3 DEF Exit, Kill
  <2> QED
    BY <2>1, <1>t DEF Gone, Idle, Alive
<1>4. CASE Restart
  <2>1. container' = Reaped(disk.record) /\ record' = disk.record /\ UNCHANGED clientVars
    BY <1>4, <1>t, NoFault DEF Restart
  <2>2. \A c \in Clients : pc'[c] = Idle
    BY <1>4, <1>t, <2>1 DEF Restart, DownInv
  <2>3. Unbroken' /\ Owned'
    BY <1>t, <2>1 DEF Reaped, NoContainer
  <2> QED
    BY <2>2, <2>3 DEF Idle
<1> QED
  BY <1>1, <1>2, <1>3, <1>4 DEF ProcessStep

LEMMA NextLone == LoneInv /\ [Next]_vars => LoneInv'
<1> SUFFICES ASSUME LoneInv, [Next]_vars PROVE LoneInv'
  OBVIOUS
<1>1. IInv'
  BY NextInv DEF LoneInv
<1>2. CASE UNCHANGED vars
  BY <1>1, <1>2 DEF vars, clientVars, bounds, LoneInv, Single, Alone, Clean, Unbroken, Holding, Emptied, Swept, Owned,
                    Made, Present, Exists, Alive
<1>3. CASE Next
  <2>1. Single' /\ cast' = cast
    BY <1>3, SingleStep, CastKept
  <2>2. Alone => Clean'
    BY <1>3, RequestClean, ArrivalClean, ProcessClean DEF Next, ProcessStep
  <2> QED
    BY <1>1, <2>1, <2>2 DEF LoneInv, Alone
<1> QED
  BY <1>2, <1>3

(* Whenever one client's requests are over, also in a later life of the    *)
(* process, no container is without a record.                              *)
THEOREM NothingLeaks == Spec => []NoLeakedContainer
<1>1. LoneInv => NoLeakedContainer
  BY DEF LoneInv, Clean, Owned, Made, NoLeakedContainer, Quiet, Alive, Idle
<1> QED
  BY InitLone, NextLone, <1>1, PTL DEF Spec

-----------------------------------------------------------------------------
(* Without a state file, and with a port for every cluster, the clusters   *)
(* on record have ready containers on their ports, but for those the       *)
(* request in progress has taken apart - as long as no shutdown began.     *)
EnoughPorts == /\ IsFiniteSet(Clusters)
               /\ \A k \in Casts : IsFiniteSet(k.ports) /\ Cardinality(k.ports) >= Cardinality(Clusters)

Serving == phase \in {"up", "saved"}
Works(k) == container[k] = [state |-> "ready", port |-> record[k]]
Touched(k) == \E c \in Clients : \/ pc[c] \in {"run", "wait", "store", "drop"} /\ target[c] = k
                                 \/ pc[c] = "sweep" /\ target[c] = GroupOf[k]
Vacated == \A c \in Clients : pc[c] = "run" => ~Present(target[c])
Started == \A c \in Clients : pc[c] = "wait" => Running(target[c])
Prepared == \A c \in Clients : pc[c] = "store" => container[target[c]] = [state |-> "ready", port |-> held[c]]
Recorded == \A k \in Clusters : Exists(k) => Works(k) \/ Touched(k)
Forgetful == disk.record = [k \in Clusters |-> NoRecord]

Listed == \A c \in Clients : pc[c] = "sweep" => \A k \in sweep[c] : GroupOf[k] = target[c]

Sound == Listed /\ Vacated /\ Started /\ Prepared /\ Recorded
FirstHand == Alone /\ ~cast.persistent
WorkInv == LoneInv /\ (~cast.persistent => Forgetful) /\ (FirstHand /\ Serving => Sound)

LEMMA APortIsLeft ==
  ASSUME TypeOK, EnoughPorts, NEW k \in Clusters, ~Present(k)
  PROVE  ~(cast.ports \subseteq UsedPorts)
<1> DEFINE Others == Clusters \ {k}
           port == [j \in Others |-> container[j].port]
           Taken == {port[j] : j \in Others}
<1>1. IsFiniteSet(Others) /\ Cardinality(Others) = Cardinality(Clusters) - 1 /\ Cardinality(Clusters) \in Nat
  BY FS_RemoveElement, FS_CardinalityType DEF EnoughPorts
<1>2. port \in Surjection(Others, Taken)
  BY DEF Surjection
<1>3. IsFiniteSet(Taken) /\ Cardinality(Taken) <= Cardinality(Others)
  BY <1>1, <1>2, FS_Surjection
<1>4. UsedPorts \subseteq Taken
  BY DEF UsedPorts, Running, Present
<1>5. SUFFICES ASSUME cast.ports \subseteq Taken PROVE FALSE
  BY <1>4
<1>6. Cardinality(cast.ports) <= Cardinality(Taken) /\ Cardinality(cast.ports) >= Cardinality(Clusters)
  BY <1>3, <1>5, FS_Subset DEF EnoughPorts, TypeOK
<1>7. Cardinality(Taken) \in Nat /\ Cardinality(cast.ports) \in Nat
  BY <1>3, FS_CardinalityType DEF EnoughPorts, TypeOK
<1> HIDE DEF Others, Taken
<1> QED
  BY <1>1, <1>3, <1>6, <1>7

LEMMA InitWork == Init => WorkInv
<1> SUFFICES ASSUME Init PROVE WorkInv
  OBVIOUS
<1>1. \A c \in Clients : pc[c] = Idle
  BY DEF Init, NoRequests
<1>2. Forgetful /\ \A k \in Clusters : ~Exists(k)
  BY DEF Init, Forgetful, Exists
<1> QED
  BY <1>1, <1>2, InitLone DEF WorkInv, Sound, Listed, Vacated, Started, Prepared, Recorded, Idle

LEMMA RequestWork ==
  ASSUME EnoughPorts, NEW c \in Clients, WorkInv, FirstHand, Serving, RequestStep(c)
  PROVE  Sound'
<1> USE DEF At
<1>t. TypeOK /\ TargetInv /\ CreateOwnsItsContainer /\ Clean /\ Alone /\ Sound /\ pc[c] # Idle
  BY DEF WorkInv, FirstHand, LoneInv, IInv, RequestStep, CreateBegins, CreateRuns, CreateRunFails, CreateReady, CreateTimesOut,
     PutStores, DeleteRemoves, DeleteDrops, CleanupLists, CleanupRemoves, CascadeDrops, CredentialGiven, CredentialFails, Idle
<1>o. \A d \in Clients : d # c => pc[d] = Idle
  BY <1>t, OneAtATime DEF WorkInv, LoneInv
<1>p. \A d \in Clients : d # c => pc'[d] = Idle
  BY <1>t, <1>o DEF TypeOK, RequestStep, CreateBegins, CreateRuns, CreateRunFails, CreateReady, CreateTimesOut, PutStores,
       DeleteRemoves, DeleteDrops, CleanupLists, CleanupRemoves, CascadeDrops, CredentialGiven, CredentialFails,
       Goto, Reply
<1>r. \A k \in Clusters : Exists(k) => \/ Works(k)
                                       \/ pc[c] \in {"run", "wait", "store", "drop"} /\ target[c] = k
                                       \/ pc[c] = "sweep" /\ target[c] = GroupOf[k]
  BY <1>t, <1>o DEF Sound, Recorded, Touched, Idle
<1>s. pc[c] \in AboutCluster => target[c] \in Clusters
  BY <1>t DEF TargetInv
<1>g. \A k \in Clusters : GroupOf[k] \in Groups /\ GroupOf[k] \notin Clusters
  BY DisjointAssumption
<1> USE DEF TypeOK, Sound, Listed, Vacated, Started, Prepared, Recorded, Touched, Works, Present, Exists, Goto, Idle, AboutCluster
<1>1. CASE CreateBegins(c)
  BY <1>1, <1>t, <1>p, <1>r, <1>s, Removed DEF CreateBegins
<1>2. CASE CreateRuns(c)
  <2>1. PICK p \in cast.ports \ UsedPorts :
          /\ container' = [container EXCEPT ![target[c]] = [state |-> "booting", port |-> p]]
          /\ held' = [held EXCEPT ![c] = p]
    BY <1>2 DEF CreateRuns
  <2> QED
    BY <1>2, <1>t, <1>p, <1>r, <1>s, <2>1 DEF CreateRuns, Running
<1>3. CASE CreateRunFails(c)
  <2>1. FALSE
    BY <1>3, <1>t, <1>s, NoFault, APortIsLeft DEF CreateRunFails
  <2> QED
    BY <2>1
<1>4. CASE CreateReady(c)
  <2>1. container[target[c]].port = held[c]
    BY <1>4, <1>t DEF CreateReady, CreateOwnsItsContainer
  <2>2. container' = [container EXCEPT ![target[c]] = [state |-> "ready", port |-> held[c]]]
    <3>1. target[c] \in Clusters /\ container' = [container EXCEPT ![target[c]].state = "ready"]
      BY <1>4, <1>s DEF CreateReady
    <3>2. container[target[c]] \in [state : {"none", "created", "booting", "ready"}, port : Ports \cup {0}]
      BY <1>t, <3>1
    <3>3. [container[target[c]] EXCEPT !.state = "ready"] = [state |-> "ready", port |-> held[c]]
      BY <2>1, <3>2
    <3> QED
      BY <3>1, <3>3
  <2> QED
    BY <1>4, <1>t, <1>p, <1>r, <1>s, <2>2 DEF CreateReady
<1>5. CASE CreateTimesOut(c)
  <2>1. FALSE
    BY <1>5, <1>t, NoFault DEF CreateTimesOut
  <2> QED
    BY <2>1
<1>6. CASE PutStores(c)
  <2>1. /\ pc[c] = "store" /\ record' = [record EXCEPT ![target[c]] = held[c]] /\ container' = container
        /\ pc'[c] = Idle
    BY <1>6, <1>t DEF PutStores, Reply
  <2>2. container[target[c]] = [state |-> "ready", port |-> held[c]]
    BY <1>t, <2>1
  <2>3. \A k \in Clusters : Exists(k)' => Works(k)'
    BY <1>t, <1>r, <1>s, <2>1, <2>2
  <2> QED
    BY <1>p, <2>1, <2>3
<1>7. CASE DeleteRemoves(c)
  BY <1>7, <1>t, <1>p, <1>r, <1>s, Removed DEF DeleteRemoves
<1>8. CASE DeleteDrops(c)
  BY <1>8, <1>t, <1>p, <1>r, <1>s DEF DeleteDrops, Reply
<1>9. CASE CleanupLists(c)
  BY <1>9, <1>t, <1>p, <1>r DEF CleanupLists
<1>10. ASSUME NEW k \in Clusters, CleanupRemoves(c, k) PROVE Sound'
  <2>1. GroupOf[k] = target[c]
    BY <1>10, <1>t DEF CleanupRemoves, Listed
  <2> QED
    <3>1. /\ pc[c] = "sweep" /\ pc' = pc /\ target' = target /\ record' = record
          /\ sweep' = [sweep EXCEPT ![c] = @ \ {k}]
          /\ \A j \in Clusters : j # k => container'[j] = container[j]
      BY <1>10, <1>t, Removed DEF CleanupRemoves
    <3>2. \A j \in Clusters : Exists(j)' => Works(j)' \/ target'[c] = GroupOf[j]
      BY <1>r, <2>1, <3>1
    <3>3. Recorded'
      BY <3>1, <3>2
    <3> QED
      BY <1>t, <1>p, <3>1, <3>3
<1>11. CASE CascadeDrops(c)
  BY <1>11, <1>t, <1>p, <1>r DEF CascadeDrops, Reply
<1>12. CASE CredentialGiven(c) \/ CredentialFails(c)
  <2>1. pc[c] = "exec" /\ pc'[c] = Idle /\ UNCHANGED <<record, container>>
    BY <1>12, <1>t DEF CredentialGiven, CredentialFails, Reply
  <2>2. \A k \in Clusters : Exists(k)' => Works(k)'
    BY <1>r, <2>1
  <2> QED
    BY <1>p, <2>1, <2>2
<1> QED
  BY <1>1, <1>2, <1>3, <1>4, <1>5, <1>6, <1>7, <1>8, <1>9, <1>10, <1>11, <1>12 DEF RequestStep

LEMMA ArrivalWork ==
  ASSUME WorkInv, FirstHand, Serving, \/ \E c \in Clients : NewRequest(c)
                                      \/ \E g \in Groups : PutGroup(g)
                                      \/ Reset
  PROVE  Sound'
<1> USE DEF TypeOK, Sound, Listed, Vacated, Started, Prepared, Recorded, Works, Present, Running, Exists
<1>t. TypeOK /\ Sound /\ Alone
  BY DEF WorkInv, LoneInv, IInv, FirstHand
<1>1. ASSUME NEW c \in Clients, NewRequest(c) PROVE Sound'
  <2>1. /\ pc[c] = Idle /\ pc'[c] \in Points \ {"run", "wait", "store", "drop", "sweep"}
        /\ \A d \in Clients : d # c => pc'[d] = pc[d] /\ target'[d] = target[d] /\ held'[d] = held[d] /\ sweep'[d] = sweep[d]
        /\ UNCHANGED <<record, container>>
    BY <1>1, <1>t DEF NewRequest, PutCluster, DeleteCluster, ListCredential, DeleteGroup, Begin, Goto, Points
  <2>2. \A k \in Clusters : Touched(k) => Touched(k)'
    BY <2>1 DEF Idle, Touched
  <2>6. \A d \in Clients : pc'[d] \in {"run", "wait", "store"} =>
             pc[d] = pc'[d] /\ target'[d] = target[d] /\ held'[d] = held[d]
    BY <2>1
  <2>7. Vacated'
    BY <1>t, <2>1, <2>6
  <2>8. Started'
    BY <1>t, <2>1, <2>6
  <2>3. Prepared'
    BY <1>t, <2>1, <2>6
  <2>5. Listed'
    BY <1>t, <2>1 DEF Listed
  <2>4. Recorded'
    BY <1>t, <2>1, <2>2
  <2> QED
    BY <2>3, <2>4, <2>5, <2>7, <2>8
<1>2. ASSUME NEW g \in Groups, PutGroup(g) PROVE Sound'
  BY <1>2, <1>t DEF PutGroup, clientVars, Touched
<1>3. CASE Reset
  BY <1>3, <1>t DEF Reset, Alone
<1> QED
  BY <1>1, <1>2, <1>3

(* The process stops serving, or starts with nothing.                      *)
LEMMA ProcessWork == ASSUME WorkInv, FirstHand, ProcessStep, Serving' PROVE Sound'
<1> USE DEF Serving, clientVars
<1>1. CASE AutoSave \/ Signal
  <2>1. Serving /\ UNCHANGED <<record, container, clientVars>>
    BY <1>1 DEF AutoSave, Signal, WorkInv, FirstHand
  <2> QED
    BY <2>1 DEF WorkInv, Sound, Listed, Vacated, Started, Prepared, Recorded, Touched, Works, Present, Running, Exists
<1>2. CASE ShutdownLists \/ ShutdownReturns \/ Exit \/ Kill
  BY <1>2 DEF ShutdownLists, ShutdownReturns, Exit, Kill, Gone
<1>3. ASSUME NEW k \in Clusters, ShutdownRemoves(k) PROVE Sound'
  BY <1>3 DEF ShutdownRemoves
<1>4. CASE Restart
  <2>1. record' = [k \in Clusters |-> NoRecord] /\ UNCHANGED clientVars
    BY <1>4 DEF Restart, WorkInv, FirstHand, Forgetful
  <2>2. \A c \in Clients : pc'[c] = Idle
    BY <1>4, <2>1 DEF Restart, DownInv, WorkInv, LoneInv, IInv
  <2> QED
    BY <2>1, <2>2 DEF Sound, Listed, Vacated, Started, Prepared, Recorded, Exists, Idle
<1> QED
  BY <1>1, <1>2, <1>3, <1>4 DEF ProcessStep

LEMMA NextWork == ASSUME EnoughPorts PROVE WorkInv /\ [Next]_vars => WorkInv'
<1> SUFFICES ASSUME WorkInv, [Next]_vars PROVE WorkInv'
  OBVIOUS
<1>1. LoneInv'
  BY NextLone DEF WorkInv
<1>2. CASE UNCHANGED vars
  BY <1>1, <1>2 DEF vars, clientVars, bounds, WorkInv, Forgetful, FirstHand, Alone, Serving, Sound, Listed, Vacated, Started,
                    Prepared, Recorded, Touched, Works, Present, Running, Exists
<1>3. CASE Next
  <2>1. cast' = cast
    BY <1>3, CastKept
  <2>2. ~cast.persistent => Forgetful'
    BY <1>3 DEF WorkInv, Forgetful, Next, NewRequest, PutCluster, DeleteCluster, ListCredential, DeleteGroup, PutGroup, Reset,
       RequestStep, CreateBegins, CreateRuns, CreateRunFails, CreateReady, CreateTimesOut, PutStores, DeleteRemoves, DeleteDrops,
       CleanupLists, CleanupRemoves, CascadeDrops, CredentialGiven, CredentialFails, AutoSave, Signal, ShutdownLists,
       ShutdownRemoves, ShutdownReturns, Exit, Kill, Gone, Restart
  <2>3. ASSUME FirstHand, Serving' PROVE Sound'
    <3>1. CASE ProcessStep
      BY <2>3, <3>1, ProcessWork
    <3>2. CASE (\E c \in Clients : NewRequest(c)) \/ (\E g \in Groups : PutGroup(g)) \/ Reset
      <4>1. UNCHANGED phase
        BY <3>2 DEF NewRequest, PutCluster, DeleteCluster, ListCredential, DeleteGroup, PutGroup, Reset
      <4> QED
        BY <2>3, <3>2, <4>1, ArrivalWork DEF Serving
    <3>3. ASSUME NEW c \in Clients, RequestStep(c) PROVE Sound'
      <4>1. UNCHANGED phase
        BY <3>3 DEF RequestStep, CreateBegins, CreateRuns, CreateRunFails, CreateReady, CreateTimesOut, PutStores, DeleteRemoves,
           DeleteDrops, CleanupLists, CleanupRemoves, CascadeDrops, CredentialGiven, CredentialFails
      <4> QED
        BY <2>3, <3>3, <4>1, RequestWork DEF Serving
    <3> QED
      BY <1>3, <3>1, <3>2, <3>3 DEF Next, ProcessStep
  <2> QED
    BY <1>1, <2>1, <2>2, <2>3 DEF WorkInv, FirstHand, Alone
<1> QED
  BY <1>2, <1>3

(* One client finds every cluster it put, on the port its answers name,    *)
(* until the process is told to stop.                                      *)
THEOREM ClustersWork == ASSUME EnoughPorts PROVE Spec => []RecordedClusterWorks
<1>1. WorkInv => RecordedClusterWorks
  BY DEF WorkInv, FirstHand, Serving, Sound, Recorded, Works, Touched, RecordedClusterWorks, Quiet, Idle
<1>2. WorkInv /\ [Next]_vars => WorkInv'
  BY NextWork
<1> QED
  BY InitWork, <1>1, <1>2, PTL DEF Spec
=============================================================================
