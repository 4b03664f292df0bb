--------------------- MODULE VirtualMachineSafety_proofs ---------------------
(***************************************************************************)
(* What requests that overlap never do to virtual machines, their services *)
(* and identities, for any number of each; that the secret in the index is *)
(* the secret of the VM it leads to, at every moment of every handler; and *)
(* what docker has of a VM that no request is about: everything that is on *)
(* record and, in the first life of the process, nothing else. From this   *)
(* it follows that the handlers implement Machines.                        *)
(***************************************************************************)
EXTENDS VirtualMachine_proofs

-----------------------------------------------------------------------------
(* The other steps.                                                        *)

Aside == \/ Elsewhere
         \/ \E s \in Services : ServiceExits(s)
         \/ \E g \in Groups : PutGroup(g)
         \/ \E i \in Identities : DeleteIdentity(i)
         \/ \E t \in tokens : IntrospectExpired(t)
         \/ UNCHANGED vars

Handles(c) == Putting(c) \/ Deleting(c) \/ Powering(c) \/ CascadeDropsContainers(c)

LEMMA StepKinds ==
  ASSUME [Next]_vars
  PROVE  \/ Aside \/ Restart
         \/ \E c \in Clients : Handles(c) \/ Deploying(c) \/ Attesting(c)
BY DEF Next, Machining, Aside, Handles

LEMMA HandlesFrame == ASSUME Typed, NEW c \in Clients, Handles(c) PROVE Framed(c) /\ Withdraws(c)
<1>1. CASE CascadeDropsContainers(c)
  <2>1. /\ identities \in [Identities -> Principals]
        /\ service \in [Services -> [port : Ports \cup {NoPort}, there : BOOLEAN]]
    BY DEF Typed, StoreType
  <2> QED
    BY <1>1, <2>1, Gone DEF CascadeDropsContainers, Framed, Withdraws, Keepers, Ungrouped, GroupPoints, Continued, At, TokenPoints, store, fixed
<1> QED
  BY <1>1, PuttingFrame, DeletingFrame, PoweringFrame DEF Handles

LEMMA AsideFrame ==
  ASSUME Typed, Aside
  PROVE  /\ req' = req /\ cast' = cast
         /\ \A i \in Identities : identities'[i] \in {0, identities[i]}
         /\ UNCHANGED <<service, record, index, created>>
<1>1. identities \in [Identities -> Principals]
  BY DEF Typed, StoreType
<1> QED
  BY <1>1 DEF Aside, Elsewhere, ServiceExits, PutGroup, DeleteIdentity, IntrospectExpired, vars, store, fixed, bounds

LEMMA RestartFrame ==
  ASSUME Typed, Restart
  PROVE  /\ \A c \in Clients : req'[c] = NoRequest /\ req'[c].at = "idle" /\ req'[c].group = None
         /\ \A i \in Identities : identities'[i] = 0
BY DEF Restart, NoRequest, NoIdentities

LEMMA OthersStay ==
  ASSUME Typed, NEW c \in Clients, OneMoves(c), NEW d \in Clients, d # c
  PROVE  req'[d] = req[d]
BY DEF OneMoves, Typed, RequestsType

-----------------------------------------------------------------------------
(* Identities and tokens.                                                  *)

(* What the steps of identities and tokens do to requests.                 *)
Asks(c) == /\ Begun(c)
           /\ req'[c].at \in {"idGet", "tokenVM"} /\ req'[c].group = None
           /\ req'[c].at = "tokenVM" => req'[c].seen = Alive
Settles(c) == /\ req[c].at = "idGet" /\ req'[c].at = "idSet"
              /\ req'[c].who = req[c].who /\ req'[c].vm = req[c].vm /\ req'[c].group = req[c].group
              /\ req'[c].principal # 0 /\ identities[req[c].who] \in {0, req'[c].principal}
Looks(c) == /\ req[c].at \in TokenPoints /\ req'[c].seen = req[c].seen /\ req'[c].group = req[c].group
            /\ \/ req'[c].at = "tokenIdentity"
               \/ req'[c].at = "tokenSet" /\ req'[c].who = req[c].who /\ req[c].who \in Alive
Answers(c) == req[c].at \in TokenPoints /\ req'[c] = NoRequest
Attests(c) == OneMoves(c) /\ UNCHANGED identities /\ (Asks(c) \/ Settles(c) \/ Looks(c) \/ Answers(c))

LEMMA AttestingFrame ==
  ASSUME Typed, NEW c \in Clients, Attesting(c)
  PROVE  Attests(c) \/ IdentitySet(c)
<1>q. /\ req \in [Clients -> Request] /\ req[c] \in Request
      /\ req[c].at \in IdentityPoints => req[c].who \in Identities
  BY About DEF Typed, RequestsType, SoundRequest, Sound
<1>1. ASSUME NEW i \in Identities, PutIdentity(c, i) PROVE Attests(c)
  BY <1>1, <1>q DEF PutIdentity, Begin, Begun, Become, At, OneMoves, NoRequest, Attests, Asks, store
<1>2. ASSUME NEW secret \in Secrets, GetToken(c, secret) PROVE Attests(c)
  BY <1>2, <1>q DEF GetToken, Begin, Begun, Become, At, OneMoves, NoRequest, Attests, Asks, store
<1>3. CASE IdentityKeepsItsPrincipal(c)
  BY <1>3, <1>q DEF IdentityKeepsItsPrincipal, Become, At, OneMoves, Request, Attests, Settles, store
<1>4. CASE IdentityGetsAPrincipal(c)
  <2>1. principals \in Nat
    BY BoundsAssumption DEF Typed, BoundsType, Principals
  <2>2. principals + 1 # 0
    BY <2>1
  <2> QED
    BY <1>4, <1>q, <2>2 DEF IdentityGetsAPrincipal, Become, At, OneMoves, Request, Attests, Settles, store
<1>5. CASE TokenReadsVM(c)
  <2>1. CASE Finish(c)
    BY <1>5, <2>1, Ended DEF TokenReadsVM, At, Attests, Answers, TokenPoints, store
  <2>2. ASSUME NEW i \in Identities, Become(c, [req[c] EXCEPT !.at = "tokenIdentity", !.who = i]) PROVE Attests(c)
    BY <1>5, <2>2, <1>q DEF TokenReadsVM, Become, At, OneMoves, Request, Attests, Looks, TokenPoints, store
  <2> QED
    BY <1>5, <2>1, <2>2 DEF TokenReadsVM, Assignments
<1>6. CASE TokenChecksIdentity(c)
  <2>1. CASE identities[req[c].who] = 0
    BY <1>6, <2>1, Ended DEF TokenChecksIdentity, At, Attests, Answers, TokenPoints, store
  <2>2. CASE identities[req[c].who] # 0
    <3>1. req[c].who \in Alive
      BY <1>6, <2>2, <1>q DEF TokenChecksIdentity, At, Alive, IdentityPoints
    <3> QED
      BY <1>6, <2>2, <3>1, <1>q DEF TokenChecksIdentity, Goto, Become, At, OneMoves, Request, Attests, Looks, TokenPoints, store
  <2> QED
    BY <2>1, <2>2
<1>7. CASE TokenStored(c)
  BY <1>7, Ended DEF TokenStored, At, Attests, Answers, TokenPoints
<1> QED
  BY <1>1, <1>2, <1>3, <1>4, <1>5, <1>6, <1>7 DEF Attesting

LEMMA SetFrame ==
  ASSUME Typed, NEW c \in Clients, IdentitySet(c)
  PROVE  /\ req[c].at = "idSet"
         /\ req'[c] = NoRequest /\ req'[c].at = "idle" /\ req'[c].group = None
         /\ \A d \in Clients \ {c} : /\ req'[d].at = req[d].at /\ req'[d].vm = req[d].vm /\ req'[d].who = req[d].who
                                     /\ req'[d].group = req[d].group /\ req'[d].principal = req[d].principal
                                     /\ req'[d].svc = req[d].svc /\ req'[d].port = req[d].port
                                     /\ req'[d].held = req[d].held /\ req'[d].cascade = req[d].cascade
                                     /\ req'[d].todo = req[d].todo /\ req'[d].listed = req[d].listed
                                     /\ req[d].at \in TokenPoints => req'[d].seen = req[d].seen \cup Alive'
<1>1. req \in [Clients -> Request]
  BY DEF Typed, RequestsType, SoundRequest
<1> QED
  BY <1>1 DEF IdentitySet, At, Watching, Request, NoRequest

LEMMA AttestingLeaves ==
  ASSUME NEW c \in Clients, Attesting(c)
  PROVE  UNCHANGED <<cast, service, record, index, created>>
BY DEF Attesting, PutIdentity, IdentityKeepsItsPrincipal, IdentityGetsAPrincipal, IdentitySet,
       GetToken, TokenReadsVM, TokenChecksIdentity, TokenStored, store, fixed, bounds

-----------------------------------------------------------------------------
(* A token request has seen every identity that lives.                     *)
Sees(c) == /\ req[c].at \in TokenPoints => Alive \subseteq req[c].seen
           /\ req[c].at = "tokenSet" => req[c].who \in req[c].seen
Watched == \A c \in Clients : Sees(c)

LEMMA WatchedStep == ASSUME Typed, Watched, [Next]_vars PROVE Watched'
<1>0. /\ "tokenSet" \in TokenPoints /\ "idle" \notin TokenPoints /\ "idGet" \notin TokenPoints /\ "idSet" \notin TokenPoints
      /\ NoRequest.at = "idle"
  BY DEF TokenPoints, NoRequest
<1>s. (\A i \in Identities : identities'[i] \in {0, identities[i]}) => Alive' \subseteq Alive
  BY DEF Alive
<1>1. CASE Aside
  BY <1>1, <1>s, AsideFrame DEF Watched, Sees
<1>2. CASE Restart
  BY <1>2, <1>0, RestartFrame DEF Watched, Sees
<1>3. ASSUME NEW c \in Clients, Handles(c) \/ Deploying(c) PROVE Watched'
  <2>1. Framed(c)
    BY <1>3, HandlesFrame, DeployingFrame
  <2> QED
    BY <2>1, <1>0, <1>s, OthersStay DEF Framed, Watched, Sees
<1>4. ASSUME NEW c \in Clients, Attests(c) PROVE Watched'
  <2>1. Alive' = Alive
    BY <1>4 DEF Attests, Alive
  <2>2. Sees(c)'
    BY <1>4, <1>0, <2>1 DEF Attests, Asks, Settles, Looks, Answers, Watched, Sees
  <2> QED
    BY <1>4, <2>1, <2>2, OthersStay DEF Attests, Watched, Sees
<1>5. ASSUME NEW c \in Clients, IdentitySet(c) PROVE Watched'
  BY <1>5, <1>0, SetFrame DEF Watched, Sees
<1> QED
  BY <1>1, <1>2, <1>3, <1>4, <1>5, StepKinds, AttestingFrame

LEMMA AlwaysWatched == Spec => []Watched
<1>1. Init => Watched
  BY DEF Init, Watched, Sees, NoRequest, TokenPoints
<1>2. Typed /\ Watched /\ [Next]_vars => Watched'
  BY WatchedStep
<1> QED
  BY <1>1, <1>2, AlwaysTyped, PTL DEF Spec

(* GetToken: "The identity must still exist: assignments can dangle after  *)
(* deletion".  No token names an identity that was gone all the time the   *)
(* request ran, however identities are made and deleted meanwhile.         *)
THEOREM NoTokenForTheDeleted == Spec => []TokensNameLivingIdentities
<1>1. Watched => TokensNameLivingIdentities
  BY DEF Watched, Sees, TokensNameLivingIdentities, At
<1> QED
  BY <1>1, AlwaysWatched, PTL

-----------------------------------------------------------------------------
(* Serialised requests are about different things.                         *)
Grouped == \A c \in Clients : Ungrouped(req[c])
Apart == cast.serialised => \A c, d \in Clients : c # d => Scope(req[c]) \cap Scope(req[d]) = {}

(* A request at work on an identity will give it the principal it has.     *)
Steady(c) == req[c].at = "idSet" => /\ req[c].principal # 0
                                   /\ identities[req[c].who] \in {0, req[c].principal}
Steadied == cast.serialised => \A c \in Clients : Steady(c)

LEMMA GroupedStep == ASSUME Typed, Grouped, [Next]_vars PROVE Grouped'
<1>1. CASE Aside
  BY <1>1, AsideFrame DEF Grouped
<1>2. CASE Restart
  BY <1>2, RestartFrame DEF Grouped, Ungrouped
<1>3. ASSUME NEW c \in Clients, Handles(c) \/ Deploying(c) PROVE Grouped'
  <2>1. Framed(c)
    BY <1>3, HandlesFrame, DeployingFrame
  <2> QED
    BY <2>1, OthersStay DEF Framed, Grouped
<1>4. ASSUME NEW c \in Clients, Attests(c) PROVE Grouped'
  <2>1. NoRequest.group = None
    BY DEF NoRequest
  <2>2. Ungrouped(req'[c])
    BY <1>4, <2>1 DEF Attests, Asks, Settles, Looks, Answers, Grouped, Ungrouped, GroupPoints, TokenPoints
  <2> QED
    BY <1>4, <2>2, OthersStay DEF Attests, Grouped
<1>5. ASSUME NEW c \in Clients, IdentitySet(c) PROVE Grouped'
  BY <1>5, SetFrame DEF Grouped, Ungrouped
<1> QED
  BY <1>1, <1>2, <1>3, <1>4, <1>5, StepKinds, AttestingFrame

LEMMA CastStays == ASSUME Typed, [Next]_vars PROVE cast' = cast
BY StepKinds, AsideFrame, HandlesFrame, DeployingFrame, AttestingLeaves DEF Framed, Restart

(* A request's scope does not grow.                                        *)
LEMMA ScopeShrinks ==
  ASSUME NEW c \in Clients, Continued(c)
  PROVE  Scope(req'[c]) \subseteq Scope(req[c]) \/ req'[c].at \in TokenPoints
BY DEF Continued, Scope, NoRequest, None, TokenPoints

LEMMA ApartAfterOne ==
  ASSUME Typed, Apart, NEW c \in Clients, OneMoves(c), cast' = cast,
         Begun(c) \/ Scope(req'[c]) \subseteq Scope(req[c])
  PROVE  Apart'
<1>1. \A d \in Clients \ {c} : req'[d] = req[d]
  BY OthersStay
<1>2. cast.serialised => \A d \in Clients \ {c} : Scope(req'[c]) \cap Scope(req[d]) = {}
  BY DEF Begun, Free, Apart
<1> QED
  BY <1>1, <1>2 DEF Apart

LEMMA ApartStep == ASSUME Typed, Apart, [Next]_vars PROVE Apart'
<1>0. cast' = cast
  BY CastStays
<1>1. CASE Aside
  BY <1>0, <1>1, AsideFrame DEF Apart
<1>z. Scope(NoRequest) = {}
  BY DEF Scope, NoRequest, None, TokenPoints
<1>2. CASE Restart
  BY <1>0, <1>2, <1>z, RestartFrame DEF Apart
<1>3. ASSUME NEW c \in Clients, Handles(c) \/ Deploying(c) PROVE Apart'
  <2>1. Framed(c)
    BY <1>3, HandlesFrame, DeployingFrame
  <2> QED
    BY <1>0, <2>1, ScopeShrinks, ApartAfterOne DEF Framed
<1>4. ASSUME NEW c \in Clients, Attests(c) PROVE Apart'
  <2>1. Begun(c) \/ Scope(req'[c]) \subseteq Scope(req[c])
    BY <1>4, <1>z DEF Attests, Asks, Settles, Looks, Answers, Scope, TokenPoints
  <2> QED
    BY <1>0, <1>4, <2>1, ApartAfterOne DEF Attests
<1>5. ASSUME NEW c \in Clients, IdentitySet(c) PROVE Apart'
  <2>1. \A d \in Clients \ {c} : Scope(req'[d]) = Scope(req[d])
    BY <1>5, SetFrame DEF Scope
  <2>2. Scope(req'[c]) = {}
    BY <1>5, <1>z, SetFrame
  <2> QED
    BY <1>0, <2>1, <2>2 DEF Apart
<1> QED
  BY <1>1, <1>2, <1>3, <1>4, <1>5, StepKinds, AttestingFrame

(* The identity of a request at work on one is its own.                    *)
LEMMA OwnIdentity ==
  ASSUME Typed, Grouped, Apart, cast.serialised,
         NEW c \in Clients, NEW d \in Clients, c # d, req[c].at = "idSet", req[d].at = "idSet"
  PROVE  req[c].who # req[d].who
<1>1. \A e \in Clients : req[e].at = "idSet" => req[e].who \in Scope(req[e])
  <2> SUFFICES ASSUME NEW e \in Clients, req[e].at = "idSet" PROVE req[e].who \in Scope(req[e])
    OBVIOUS
  <2>1. req[e].who \in Identities
    BY About DEF Typed, SoundRequest, Sound, IdentityPoints
  <2>2. req[e].who # None
    BY <2>1, NothingAssumption DEF None
  <2> QED
    BY <2>2 DEF Grouped, Ungrouped, GroupPoints, Scope, TokenPoints
<1> QED
  BY <1>1 DEF Apart

LEMMA WhoIsThere ==
  ASSUME Typed, NEW c \in Clients, req[c].at = "idSet"
  PROVE  req[c].who \in Identities
BY About DEF Typed, SoundRequest, Sound, IdentityPoints

LEMMA SteadiedStep ==
  ASSUME Typed, Grouped, Apart, Steadied, [Next]_vars
  PROVE  Steadied' /\ (cast.serialised => \A i \in Identities : identities[i] = 0 \/ identities'[i] \in {0, identities[i]})
<1>0. cast' = cast
  BY CastStays
<1> SUFFICES ASSUME cast.serialised
             PROVE  /\ \A d \in Clients : Steady(d)'
                    /\ \A i \in Identities : identities[i] = 0 \/ identities'[i] \in {0, identities[i]}
  BY <1>0 DEF Steadied
<1>s. \A d \in Clients : Steady(d)
  BY DEF Steadied
<1>k. ASSUME NEW d \in Clients, req'[d] = req[d], \A i \in Identities : identities'[i] \in {0, identities[i]}
      PROVE  Steady(d)'
  BY <1>k, <1>s, WhoIsThere DEF Steady
<1>1. CASE Aside
  BY <1>1, <1>k, AsideFrame
<1>2. CASE Restart
  BY <1>2, RestartFrame DEF Steady
<1>3. ASSUME NEW c \in Clients, Handles(c) \/ Deploying(c)
      PROVE  /\ \A d \in Clients : Steady(d)'
             /\ \A i \in Identities : identities[i] = 0 \/ identities'[i] \in {0, identities[i]}
  <2>1. Framed(c)
    BY <1>3, HandlesFrame, DeployingFrame
  <2>2. Steady(c)'
    BY <2>1 DEF Framed, Steady
  <2>3. ASSUME NEW d \in Clients, d # c PROVE Steady(d)'
    BY <2>1, <2>3, <1>k, OthersStay DEF Framed
  <2> QED
    BY <2>1, <2>2, <2>3 DEF Framed
<1>4. ASSUME NEW c \in Clients, Attests(c)
      PROVE  /\ \A d \in Clients : Steady(d)'
             /\ \A i \in Identities : identities[i] = 0 \/ identities'[i] \in {0, identities[i]}
  <2>1. NoRequest.at = "idle"
    BY DEF NoRequest
  <2>2. Steady(c)'
    BY <1>4, <2>1 DEF Attests, Asks, Settles, Looks, Answers, Steady, TokenPoints
  <2>3. ASSUME NEW d \in Clients, d # c PROVE Steady(d)'
    BY <1>4, <2>3, <1>s, OthersStay DEF Attests, Steady
  <2> QED
    BY <1>4, <2>2, <2>3 DEF Attests
<1>5. ASSUME NEW c \in Clients, IdentitySet(c)
      PROVE  /\ \A d \in Clients : Steady(d)'
             /\ \A i \in Identities : identities[i] = 0 \/ identities'[i] \in {0, identities[i]}
  <2>1. /\ identities \in [Identities -> Principals] /\ identities' = [identities EXCEPT ![req[c].who] = req[c].principal]
        /\ req[c].at = "idSet"
    BY <1>5 DEF Typed, StoreType, IdentitySet, At
  <2>2. identities[req[c].who] \in {0, req[c].principal}
    BY <2>1, <1>s DEF Steady
  <2>3. Steady(c)'
    BY <1>5, SetFrame DEF Steady
  <2>4. ASSUME NEW d \in Clients, d # c PROVE Steady(d)'
    <3>1. CASE req[d].at = "idSet"
      <4>1. req[d].who # req[c].who /\ req[d].who \in Identities
        BY <2>1, <2>4, <3>1, OwnIdentity, WhoIsThere
      <4>2. identities'[req[d].who] = identities[req[d].who]
        BY <2>1, <4>1
      <4> QED
        BY <1>5, <1>s, <2>4, <4>2, SetFrame DEF Steady
    <3>2. CASE req[d].at # "idSet"
      BY <1>5, <2>4, <3>2, SetFrame DEF Steady
    <3> QED
      BY <3>1, <3>2
  <2>5. \A i \in Identities : identities[i] = 0 \/ identities'[i] \in {0, identities[i]}
    BY <2>1, <2>2
  <2> QED
    BY <2>3, <2>4, <2>5
<1> QED
  BY <1>1, <1>2, <1>3, <1>4, <1>5, StepKinds, AttestingFrame, AsideFrame, RestartFrame

(* What holds of requests in every state of VirtualMachine.                *)
LEMMA AlwaysApart == Spec => [](Grouped /\ Apart /\ Steadied)
<1>1. Init => Grouped /\ Apart /\ Steadied
  <2> SUFFICES ASSUME Init PROVE Grouped /\ Apart /\ Steadied
    OBVIOUS
  <2>1. \A c \in Clients : req[c].at = "idle" /\ req[c].group = None /\ Scope(req[c]) = {}
    BY DEF Init, NoRequest, Scope, TokenPoints
  <2> QED
    BY <2>1 DEF Grouped, Ungrouped, Apart, Steadied, Steady
<1>2. Typed /\ (Grouped /\ Apart /\ Steadied) /\ [Next]_vars => (Grouped /\ Apart /\ Steadied)'
  BY GroupedStep, ApartStep, SteadiedStep
<1> QED
  BY <1>1, <1>2, AlwaysTyped, PTL DEF Spec

(* CreateOrUpdateIdentity: "principalId/clientId are stable across         *)
(* updates".  Between serialised requests a principal changes only with a  *)
(* deletion, whatever PUTs of VMs, tokens and other identities run.        *)
THEOREM PrincipalsStay == Spec => PrincipalsAreStable
<1>1. Typed /\ (Grouped /\ Apart /\ Steadied) /\ [Next]_vars =>
        [cast.serialised => \A i \in Identities : identities[i] = 0 \/ identities'[i] \in {0, identities[i]}]_vars
  BY SteadiedStep
<1> QED
  BY <1>1, AlwaysTyped, AlwaysApart, PTL DEF Spec, PrincipalsAreStable

-----------------------------------------------------------------------------
(* Ports of services on one VM.                                            *)
PortsDiffer == \A s, t \in Services : s # t /\ HostOf[s] = HostOf[t] /\ service[s].there /\ service[t].there
                  => service[s].port # service[t].port \/ service[s].port = NoPort

(* From the comparison to the record there is no conflict; what GET of a   *)
(* service stores again is still what is stored.                           *)
Placing(c) == req[c].at \in {"own", "unplace", "launch", "record"} => ~PortConflict(req[c].svc, req[c].port)
Showing(c) == req[c].at = "svcWriteback" => service[req[c].svc] = Deployed(req[c].port)
Placed == \A c \in Clients : Placing(c) /\ Showing(c)
Ported == cast.serialised => PortsDiffer /\ Placed

(* A step changes services only of VMs its request is about.               *)
Reaches(c) == \A s \in Services : service'[s] = service[s] \/ HostOf[s] \in Scope(req[c])

LEMMA HostInScope ==
  ASSUME Typed, Grouped, NEW c \in Clients, req[c].at \in ServicePoints
  PROVE  /\ req[c].svc \in Services
         /\ HostOf[req[c].svc] \in Scope(req[c])
<1>1. req[c].svc \in Services /\ req[c].vm = HostOf[req[c].svc] /\ req[c].vm # None /\ HostOf[req[c].svc] \in VMs
  BY About, PlacesAssumption, NothingAssumption DEF Typed, None
<1>2. req[c].group = None /\ req[c].at \notin TokenPoints
  BY DEF Grouped, Ungrouped, GroupPoints, ServicePoints, TokenPoints
<1> QED
  BY <1>1, <1>2 DEF Scope

LEMMA HandlesReach ==
  ASSUME Typed, Grouped, NEW c \in Clients, Handles(c)
  PROVE  Reaches(c)
<1>1. CASE Putting(c) \/ Powering(c) \/ CascadeDropsContainers(c)
  <2>1. Putting(c) => UNCHANGED service
    BY DEF Putting, PutVM, GetVM, ResolveIdentity, ResolveFails, UpdateVM, BuildVM, CreateNetwork,
           CreateNetworkFails, RemoveStale, RunVM, RunVMFails, RemoveNetwork, StoreVM, IndexSecret, WriteBack, store
  <2>2. Powering(c) \/ CascadeDropsContainers(c) => UNCHANGED service
    BY DEF Powering, PowerAction, PowerLists, PowerDecides, StopService, StartService, StopVM, StartVM, PowerDone,
           CascadeDropsContainers, store
  <2> QED
    BY <1>1, <2>1, <2>2 DEF Reaches
<1>2. CASE Deleting(c)
  <2>1. CASE DeleteSweeps(c)
    <3>1. "delSweep" \in VMPoints /\ "delSweep" \notin TokenPoints /\ req[c].vm # None
      BY <2>1, About, NothingAssumption DEF DeleteSweeps, At, VMPoints, MachinePoints, TokenPoints, Typed, None
    <3>2. req[c].vm \in Scope(req[c])
      BY <2>1, <3>1 DEF DeleteSweeps, At, Grouped, Ungrouped, GroupPoints, Scope
    <3> QED
      BY <2>1, <3>2 DEF DeleteSweeps, Reaches
  <2>2. CASE CascadeDropsServices(c)
    <3>1. "rgServices" \in GroupPoints /\ "rgServices" \notin TokenPoints
      BY DEF GroupPoints, TokenPoints
    <3>2. req[c].group # None
      BY <2>2, <3>1, About, NothingAssumption DEF CascadeDropsServices, At, Typed, None
    <3>3. \A s \in Services : HostOf[s] \in VMs
      BY PlacesAssumption
    <3>4. \A s \in Services : GroupOf[HostOf[s]] = req[c].group => HostOf[s] \in Scope(req[c])
      BY <2>2, <3>1, <3>2, <3>3 DEF CascadeDropsServices, At, Scope, InGroup
    <3> QED
      BY <2>2, <3>4 DEF CascadeDropsServices, Reaches
  <2>3. CASE ~DeleteSweeps(c) /\ ~CascadeDropsServices(c)
    <3>1. UNCHANGED service
      BY <1>2, <2>3 DEF Deleting, DeleteVM, DeleteGroup, DeleteLists, DeleteRemoves, DeleteRemovesVM, DeleteRemovesNetwork,
         DeleteForgetsSecret, DeleteDrops, CleanupLists, CleanupForgetsSecret, CascadeDropsVMs, CascadeDropsIdentities, store
    <3> QED
      BY <3>1 DEF Reaches
  <2> QED
    BY <2>1, <2>2, <2>3
<1> QED
  BY <1>1, <1>2 DEF Handles

LEMMA OthersKeepPorts ==
  ASSUME Typed, Grouped, Apart, Placed, cast.serialised,
         NEW c \in Clients, NEW d \in Clients, c # d, Reaches(c), req'[d] = req[d]
  PROVE  Placing(d)' /\ Showing(d)'
<1>1. CASE req[d].at \in Keepers
  <2>0. req[d].at \in ServicePoints
    BY <1>1 DEF Keepers, ServicePoints
  <2>1. req[d].svc \in Services /\ HostOf[req[d].svc] \notin Scope(req[c])
    BY <2>0, HostInScope DEF Apart
  <2>2. \A s \in Services : HostOf[s] = HostOf[req[d].svc] => service'[s] = service[s]
    BY <2>1 DEF Reaches
  <2>3. PortConflict(req[d].svc, req[d].port)' = PortConflict(req[d].svc, req[d].port)
    BY <2>1, <2>2 DEF PortConflict, ServiceRecords, Hosted
  <2> QED
    BY <2>1, <2>2, <2>3 DEF Placed, Placing, Showing
<1>2. CASE req[d].at \notin Keepers
  BY <1>2 DEF Placing, Showing, Keepers
<1> QED
  BY <1>1, <1>2

(* The handlers of services, one by one.                                   *)
LEMMA DeployingPorts ==
  ASSUME Typed, Grouped, PortsDiffer, Placed, NEW c \in Clients, Deploying(c)
  PROVE  Reaches(c) /\ Placing(c)' /\ Showing(c)' /\ PortsDiffer'
<1> DEFINE Goal == Reaches(c) /\ Placing(c)' /\ Showing(c)' /\ PortsDiffer'
<1>q. /\ req \in [Clients -> Request] /\ req[c] \in Request
      /\ service \in [Services -> [port : Ports \cup {NoPort}, there : BOOLEAN]]
  BY About DEF Typed, RequestsType, SoundRequest, StoreType
<1>m. Placing(c) /\ Showing(c)
  BY DEF Placed
<1>s. req[c].at \in ServicePoints => req[c].svc \in Services /\ HostOf[req[c].svc] \in Scope(req[c])
  BY HostInScope
<1>u. ASSUME UNCHANGED service PROVE Reaches(c) /\ PortsDiffer'
  BY <1>u DEF Reaches, PortsDiffer
<1>1. ASSUME NEW s \in Services, GetService(c, s) PROVE Goal
  <2> DEFINE r == [ServiceRequest(s, "svcWriteback") EXCEPT !.port = service[s].port]
  <2>1. req'[c] = r /\ UNCHANGED service
    BY <1>1, Began DEF GetService, store
  <2>2. r.at = "svcWriteback" /\ r.svc = s /\ r.port = service[s].port
    BY DEF ServiceRequest, VMRequest, NoRequest
  <2>3. service[s] = Deployed(service[s].port)
    BY <1>1, <1>q DEF GetService, Deployed
  <2> HIDE DEF r
  <2> QED
    BY <1>u, <2>1, <2>2, <2>3 DEF Placing, Showing
<1>2. ASSUME NEW s \in Services, DeleteService(c, s) \/ \E p \in PortsOf[s] : DeployService(c, s, p) PROVE Goal
  <2>0. {"svcRemove", "svcDrop", "inspect"} \subseteq Points
    BY DEF Points
  <2>1. req'[c].at \in {"svcRemove", "svcDrop", "inspect"} /\ UNCHANGED service
    <3>1. CASE DeleteService(c, s)
      BY <2>0, <3>1, Began, Starts DEF DeleteService, store
    <3>2. ASSUME NEW p \in PortsOf[s], DeployService(c, s, p) PROVE req'[c].at = "inspect" /\ UNCHANGED service
      <4>1. req'[c] = [ServiceRequest(s, "inspect") EXCEPT !.port = p]
        BY <3>2, Began DEF DeployService
      <4> QED
        BY <2>0, <3>2, <4>1, Starts DEF DeployService, store
    <3> QED
      BY <1>2, <3>1, <3>2
  <2> QED
    BY <1>u, <2>1 DEF Placing, Showing, Keepers
<1>3. CASE DeployInspects(c) \/ ServiceRemoved(c) \/ DeployRunFails(c)
  BY <1>3, <1>u, Gone, Ended DEF DeployInspects, ServiceRemoved, DeployRunFails, Placing, Showing, store
<1>4. CASE DeployComparesPorts(c)
  BY <1>4, <1>u, Gone, Ended DEF DeployComparesPorts, At, Placing, Showing, PortConflict, ServiceRecords, Hosted, store
<1>5. CASE DeployLooksItselfUp(c) \/ DeployReplaces(c) \/ DeployRuns(c)
  BY <1>5, <1>u, <1>m, Gone DEF DeployLooksItselfUp, DeployReplaces, DeployRuns, At, Placing, Showing, PortConflict, ServiceRecords, Hosted, store
<1>6. CASE DeployForgets(c) \/ ServiceDropped(c)
  <2>1. service' = [service EXCEPT ![req[c].svc] = Absent] /\ req[c].at \in ServicePoints /\ req'[c].at \in {"idle", "svcVM"}
    BY <1>6, Gone, Ended DEF DeployForgets, ServiceDropped, At, ServicePoints
  <2>2. Reaches(c) /\ PortsDiffer'
    BY <1>q, <1>s, <2>1 DEF Reaches, PortsDiffer, Absent
  <2> QED
    BY <2>1, <2>2 DEF Placing, Showing
<1>7. CASE DeployRecords(c)
  <2>1. /\ service' = [service EXCEPT ![req[c].svc] = Deployed(req[c].port)] /\ req[c].at \in ServicePoints
        /\ req'[c].at = "writeback" /\ ~PortConflict(req[c].svc, req[c].port) /\ req[c].svc \in Services
    BY <1>7, <1>m, <1>s, Gone DEF DeployRecords, At, ServicePoints, Placing
  <2>2. Reaches(c)
    BY <1>q, <1>s, <2>1 DEF Reaches
  <2>3. PortsDiffer'
    BY <1>q, <2>1 DEF PortsDiffer, PortConflict, ServiceRecords, Hosted, Deployed
  <2> QED
    BY <2>1, <2>2, <2>3 DEF Placing, Showing
<1>8. CASE ServiceWritesBack(c)
  <2>1. service' = [service EXCEPT ![req[c].svc] = Deployed(req[c].port)] /\ req[c].at \in ServicePoints
        /\ req'[c].at = "idle" /\ service[req[c].svc] = Deployed(req[c].port) /\ req[c].svc \in Services
    BY <1>8, <1>m, <1>s, Ended DEF ServiceWritesBack, At, ServicePoints, Showing
  <2>2. service' = service
    BY <1>q, <2>1
  <2> QED
    BY <1>u, <2>1, <2>2 DEF Placing, Showing
<1>9. CASE ServiceNoted(c)
  <2>1. req'[c].at \in {"idle", "writeback"}
    <3>1. CASE Finish(c)
      BY <3>1, Ended
    <3>2. CASE Become(c, [req[c] EXCEPT !.at = "writeback", !.held = record[req[c].vm]])
      BY <3>2, <1>q DEF Become, Request
    <3> QED
      BY <1>9, <3>1, <3>2 DEF ServiceNoted
  <2> QED
    BY <1>9, <1>u, <2>1 DEF ServiceNoted, Placing, Showing, store
<1> QED
  BY <1>1, <1>2, <1>3, <1>4, <1>5, <1>6, <1>7, <1>8, <1>9 DEF Deploying

LEMMA PortedStep == ASSUME Typed, Grouped, Apart, Ported, [Next]_vars PROVE Ported'
<1>0. cast' = cast
  BY CastStays
<1> SUFFICES ASSUME cast.serialised PROVE PortsDiffer' /\ Placed'
  BY <1>0 DEF Ported
<1>p. PortsDiffer /\ Placed
  BY DEF Ported
<1>q. service \in [Services -> [port : Ports \cup {NoPort}, there : BOOLEAN]]
  BY DEF Typed, StoreType
<1>1. CASE Aside
  BY <1>1, <1>p, AsideFrame DEF PortsDiffer, Placed, Placing, Showing, PortConflict, ServiceRecords, Hosted
<1>2. CASE Restart
  BY <1>2, RestartFrame DEF Restart, NoServices, Absent, PortsDiffer, Placed, Placing, Showing
<1>3. ASSUME NEW c \in Clients, Handles(c) PROVE PortsDiffer' /\ Placed'
  <2>1. Framed(c) /\ Withdraws(c) /\ Reaches(c)
    BY <1>3, HandlesFrame, HandlesReach
  <2>2. PortsDiffer'
    BY <1>p, <1>q, <2>1 DEF Withdraws, PortsDiffer, Absent
  <2>3. Placing(c)' /\ Showing(c)'
    BY <2>1 DEF Withdraws, Keepers, Placing, Showing
  <2>4. ASSUME NEW d \in Clients, d # c PROVE Placing(d)' /\ Showing(d)'
    BY <1>p, <2>1, <2>4, OthersStay, OthersKeepPorts DEF Framed
  <2> QED
    BY <2>2, <2>3, <2>4 DEF Placed
<1>4. ASSUME NEW c \in Clients, Deploying(c) PROVE PortsDiffer' /\ Placed'
  <2>1. Framed(c) /\ Reaches(c) /\ Placing(c)' /\ Showing(c)' /\ PortsDiffer'
    BY <1>4, <1>p, DeployingFrame, DeployingPorts
  <2>2. ASSUME NEW d \in Clients, d # c PROVE Placing(d)' /\ Showing(d)'
    BY <1>p, <2>1, <2>2, OthersStay, OthersKeepPorts DEF Framed
  <2> QED
    BY <2>1, <2>2 DEF Placed
<1>5. ASSUME NEW c \in Clients, Attesting(c) PROVE PortsDiffer' /\ Placed'
  <2>1. UNCHANGED service
    BY <1>5, AttestingLeaves
  <2>2. ASSUME NEW d \in Clients PROVE \/ req'[d].at = req[d].at /\ req'[d].svc = req[d].svc /\ req'[d].port = req[d].port
                                      \/ req'[d].at \notin Keepers
    <3>1. CASE IdentitySet(c)
      BY <3>1, SetFrame DEF Keepers
    <3>2. CASE Attests(c)
      BY <3>2, OthersStay DEF Attests, Asks, Settles, Looks, Answers, NoRequest, Keepers
    <3> QED
      BY <1>5, <3>1, <3>2, AttestingFrame
  <2> QED
    BY <1>p, <2>1, <2>2 DEF PortsDiffer, Placed, Placing, Showing, PortConflict, ServiceRecords, Hosted, Keepers
<1> QED
  BY <1>1, <1>2, <1>3, <1>4, <1>5, StepKinds

LEMMA AlwaysPorted == Spec => []Ported
<1>1. Init => Ported
  BY DEF Init, NoServices, Absent, NoRequest, Ported, PortsDiffer, Placed, Placing, Showing
<1>2. Typed /\ (Grouped /\ Apart /\ Steadied) /\ Ported /\ [Next]_vars => Ported'
  BY PortedStep
<1> QED
  BY <1>1, <1>2, AlwaysTyped, AlwaysApart, PTL DEF Spec

(* CreateOrUpdateService: "Port is already exposed by service".  Between   *)
(* serialised requests no two services on record for one VM have one port, *)
(* though the comparison and the record are steps apart.                   *)
THEOREM PortsNeverShared == Spec => []SiblingsShareNoPort
<1>1. Ported => SiblingsShareNoPort
  BY DEF Ported, PortsDiffer, SiblingsShareNoPort
<1> QED
  BY <1>1, AlwaysPorted, PTL
-----------------------------------------------------------------------------
(* Secrets.  What a request holds against what is stored.                  *)
BuildPoints == {"network", "stale", "run", "store"}
OldPoints == {"index", "writeback", "delSweep", "delSecret", "delKey", "powerList", "decide", "stopServices", "startVM",
              "startServices", "inspect", "siblings", "own", "unplace", "launch", "unrecord", "record"}
DropPoints == {"delList", "delServices", "delNet"}

(* A request about a VM there is holds its record; one about to drop it has*)
(* its secret out of the index; one that cleans up a group has, of each VM,*)
(* its record before it, or its secret behind it.                          *)
Old(c) == req[c].at \in OldPoints \/ (req[c].at \in DropPoints /\ req[c].group = None) =>
             req[c].held # 0 /\ record[req[c].vm] = req[c].held
Forgot(c) == req[c].at = "delKey" => index[req[c].held] = None
Cleaning(c) == req[c].at = "rgNext" \/ (req[c].at \in DropPoints /\ req[c].group # None) =>
                  /\ \A v \in VMs : GroupOf[v] = req[c].group =>
                        /\ req[c].cascade[v] \in {0, record[v]}
                        /\ req[c].cascade[v] = 0 => record[v] = 0 \/ index[record[v]] = None
                  /\ \A v \in VMs : req[c].cascade[v] # 0 => GroupOf[v] = req[c].group
                  /\ req[c].at \in DropPoints => GroupOf[req[c].vm] = req[c].group
Claim(c) == Old(c) /\ Forgot(c) /\ Cleaning(c)

(* A request that builds a VM has a secret nobody else has.                *)
Building(c) == req[c].at \in BuildPoints =>
                  /\ req[c].held # 0 /\ req[c].held \leq created
                  /\ record[req[c].vm] = 0
                  /\ \A v \in VMs : record[v] # req[c].held
Rivals == \A c, d \in Clients : c # d /\ req[c].at \in BuildPoints /\ req[d].at \in BuildPoints => req[c].held # req[d].held

Leads == \A s \in Secrets : index[s] # None => record[index[s]] = s
Distinct == /\ \A v \in VMs : record[v] \leq created
            /\ \A v, w \in VMs : v # w /\ record[v] = record[w] => record[v] = 0

Secret == Leads /\ Distinct /\ Rivals /\ \A c \in Clients : Claim(c) /\ Building(c)
Secretive == cast.serialised => Secret

(* Steps that change no record and no entry of the index.                  *)
BuildsOn(c) == req'[c].at \in BuildPoints => req[c].at \in BuildPoints /\ req'[c].held = req[c].held
Plain(c) == UNCHANGED <<record, index, created>> /\ Claim(c)' /\ Building(c)' /\ BuildsOn(c)

(* A request that is where nothing is claimed.                             *)
Unclaimed == BuildPoints \cup OldPoints \cup DropPoints \cup {"rgNext"}
LEMMA NothingClaimed ==
  ASSUME NEW c \in Clients, UNCHANGED <<record, index, created>>, req'[c].at \notin Unclaimed
  PROVE  Plain(c)
BY DEF Plain, Unclaimed, Claim, Old, Forgot, Cleaning, Building, BuildsOn, OldPoints

(* A request that finds its VM, and one that goes on.                      *)
LEMMA Found ==
  ASSUME NEW c \in Clients, UNCHANGED <<record, index, created>>,
         req'[c].at \in (OldPoints \cup DropPoints) \ {"delKey"}, req'[c].group = None,
         req'[c].held # 0, record[req'[c].vm] = req'[c].held
  PROVE  Plain(c)
BY DEF Plain, Claim, Old, Forgot, Cleaning, Building, BuildsOn, OldPoints, BuildPoints, DropPoints

LEMMA GoesOn ==
  ASSUME Typed, NEW c \in Clients, UNCHANGED <<record, index, created>>, Claim(c), Building(c),
         req'[c].vm = req[c].vm, req'[c].held = req[c].held, req'[c].group = req[c].group, req'[c].cascade = req[c].cascade,
         \/ req[c].at \in BuildPoints /\ req'[c].at \in BuildPoints
         \/ req[c].at \in OldPoints /\ req'[c].at \in OldPoints \ {"delKey"}
         \/ req[c].at \in DropPoints /\ req'[c].at \in DropPoints
         \/ req[c].at \in DropPoints /\ req[c].group = None /\ req'[c].at = "delSweep"
         \/ req[c].at \in DropPoints /\ req[c].group # None /\ req'[c].at = "rgNext"
  PROVE  Plain(c)
<1>1. BuildsOn(c)
  BY DEF BuildsOn, BuildPoints, OldPoints, DropPoints
<1>2. Building(c)'
  BY DEF Building, BuildPoints, OldPoints, DropPoints
<1>3. Old(c)' /\ Forgot(c)'
  BY DEF Claim, Old, Forgot, BuildPoints, OldPoints, DropPoints
<1>4. Cleaning(c)'
  BY DEF Claim, Cleaning, BuildPoints, OldPoints, DropPoints
<1> QED
  BY <1>1, <1>2, <1>3, <1>4 DEF Plain, Claim

-----------------------------------------------------------------------------
(* The handlers, one by one.                                               *)

LEMMA PuttingPlain ==
  ASSUME Typed, Grouped, NEW c \in Clients, Claim(c), Building(c), Putting(c),
         ~BuildVM(c), ~StoreVM(c), ~IndexSecret(c), ~WriteBack(c)
  PROVE  Plain(c)
<1> USE DEF At
<1>q. req[c] \in Request /\ record \in [VMs -> 0 .. MaxCreates]
  BY About DEF Typed, StoreType
<1>m. {"resolve", "writeback"} \subseteq Points /\ "resolve" \notin Unclaimed /\ "idle" \notin Unclaimed /\ "unnet" \notin Unclaimed
  BY DEF Points, Unclaimed, BuildPoints, OldPoints, DropPoints
<1>1. ASSUME NEW v \in VMs, NEW block, NEW named, PutVM(c, v, block, named) PROVE Plain(c)
  <2>0. req'[c] = [NoRequest EXCEPT !.at = "resolve", !.vm = v, !.block = block, !.todo = named]
    BY <1>1, Began DEF PutVM
  <2>1. req'[c].at = "resolve"
    BY <2>0 DEF NoRequest
  <2> QED
    BY <1>1, <1>m, <2>1, NothingClaimed DEF PutVM, store, bounds
<1>2. ASSUME NEW v \in VMs, GetVM(c, v) PROVE Plain(c)
  <2>0. req'[c] = VMRequest(v, "writeback")
    BY <1>2, Began DEF GetVM
  <2>1. /\ req'[c].at = "writeback" /\ req'[c].group = None /\ req'[c].vm = v /\ req'[c].held = record[v]
    BY <2>0 DEF VMRequest, NoRequest
  <2> QED
    BY <1>2, <2>1, Found DEF GetVM, Exists, OldPoints, store, bounds
<1>3. ASSUME NEW i \in Identities, ResolveIdentity(c, i) PROVE Plain(c)
  <2>0. req'[c] = [req[c] EXCEPT !.todo = @ \ {i}, !.ids[i] = identities[i]]
    BY <1>3, Became DEF ResolveIdentity
  <2>1. req'[c].at = "resolve"
    BY <1>3, <1>q, <2>0 DEF ResolveIdentity, Request
  <2> QED
    BY <1>3, <1>m, <2>1, NothingClaimed DEF ResolveIdentity, store, bounds
<1>4. CASE ResolveFails(c) \/ CreateNetworkFails(c) \/ RunVMFails(c) \/ RemoveNetwork(c)
  <2>1. req'[c].at \in {"idle", "unnet"}
    BY <1>4, Gone, Ended DEF ResolveFails, CreateNetworkFails, RunVMFails, RemoveNetwork
  <2> QED
    BY <1>4, <1>m, <2>1, NothingClaimed DEF ResolveFails, CreateNetworkFails, RunVMFails, RemoveNetwork, store, bounds
<1>5. CASE UpdateVM(c)
  <2> DEFINE r == [req[c] EXCEPT !.at = "writeback", !.held = record[req[c].vm]]
  <2>1. req'[c] = r
    BY <1>5, Became DEF UpdateVM
  <2>2. r.at = "writeback" /\ r.group = req[c].group /\ r.vm = req[c].vm /\ r.held = record[req[c].vm]
    BY <1>q DEF Request
  <2>3. req[c].group = None
    BY <1>5 DEF UpdateVM, Grouped, Ungrouped, GroupPoints
  <2> HIDE DEF r
  <2> QED
    BY <1>5, <2>1, <2>2, <2>3, Found DEF UpdateVM, OldPoints, bounds
<1>6. CASE CreateNetwork(c) \/ RemoveStale(c) \/ RunVM(c)
  <2>1. req[c].at \in BuildPoints /\ req'[c].at \in BuildPoints
    BY <1>6, Gone DEF CreateNetwork, RemoveStale, RunVM, BuildPoints
  <2>2. UNCHANGED <<record, index, created>> /\ \E p \in Points : Goto(c, p)
    BY <1>6 DEF CreateNetwork, RemoveStale, RunVM, Points, store, bounds
  <2> QED
    BY <2>1, <2>2, Gone, GoesOn
<1> HIDE DEF At
<1> QED
  BY <1>1, <1>2, <1>3, <1>4, <1>5, <1>6 DEF Putting

LEMMA DeletingPlain ==
  ASSUME Typed, Grouped, NEW c \in Clients, Claim(c), Building(c), Deleting(c) \/ CascadeDropsContainers(c),
         ~DeleteForgetsSecret(c), ~DeleteDrops(c), ~CascadeDropsVMs(c), \A v \in VMs : ~CleanupForgetsSecret(c, v)
  PROVE  Plain(c)
<1> USE DEF At
<1>q. req[c] \in Request /\ record \in [VMs -> 0 .. MaxCreates]
  BY About DEF Typed, StoreType
<1>g. req[c].at \in GroupPoints => req[c].group # None
  BY About, NothingAssumption DEF None, Typed
<1>m. /\ {"delList", "delSweep"} \subseteq Points /\ {"delList", "delServices", "delNet"} \subseteq Points \cap DropPoints
      /\ {"idle", "rgContainers", "rgList", "rgServices", "rgIdentities"} \cap Unclaimed = {}
  BY DEF Points, Unclaimed, BuildPoints, OldPoints, DropPoints
<1>1. ASSUME NEW v \in VMs, DeleteVM(c, v) PROVE Plain(c)
  <2>1. PICK p \in {"delList", "delSweep"} : Begin(c, VMRequest(v, p))
    BY <1>1 DEF DeleteVM
  <2>a. req'[c] = VMRequest(v, p)
    BY <2>1, Began
  <2>2. req'[c].at = p /\ req'[c].group = None /\ req'[c].vm = v /\ req'[c].held = record[v]
    BY <2>a DEF VMRequest, NoRequest
  <2> QED
    BY <1>1, <2>2, Found DEF DeleteVM, Exists, OldPoints, DropPoints, store, bounds
<1>2. ASSUME NEW g \in Groups, DeleteGroup(c, g) PROVE Plain(c)
  <2>0. req'[c] = [NoRequest EXCEPT !.at = "rgContainers", !.group = g]
    BY <1>2, Began DEF DeleteGroup
  <2>1. req'[c].at = "rgContainers"
    BY <2>0 DEF NoRequest
  <2> QED
    BY <1>2, <1>m, <2>1, NothingClaimed DEF DeleteGroup, bounds
<1>3. CASE DeleteLists(c)
  <2> DEFINE r == [req[c] EXCEPT !.at = "delServices", !.todo = ServiceRecords(req[c].vm)]
  <2>1. req'[c] = r
    BY <1>3, Became DEF DeleteLists
  <2>2. r.at = "delServices" /\ r.group = req[c].group /\ r.vm = req[c].vm /\ r.held = req[c].held /\ r.cascade = req[c].cascade
    BY <1>q DEF Request
  <2> HIDE DEF r
  <2> QED
    BY <1>3, <1>m, <2>1, <2>2, GoesOn DEF DeleteLists, DropPoints, store, bounds
<1>4. ASSUME NEW s \in Services, DeleteRemoves(c, s) PROVE Plain(c)
  <2> DEFINE r == [req[c] EXCEPT !.todo = @ \ {s}]
  <2>1. req'[c] = r
    BY <1>4, Became DEF DeleteRemoves
  <2>2. r.at = req[c].at /\ r.group = req[c].group /\ r.vm = req[c].vm /\ r.held = req[c].held /\ r.cascade = req[c].cascade
    BY <1>q DEF Request
  <2> HIDE DEF r
  <2> QED
    BY <1>4, <1>m, <2>1, <2>2, GoesOn DEF DeleteRemoves, DropPoints, store, bounds
<1>5. CASE DeleteRemovesVM(c) \/ DeleteRemovesNetwork(c)
  BY <1>5, Gone, GoesOn DEF DeleteRemovesVM, DeleteRemovesNetwork, DropPoints, store, bounds
<1>6. CASE DeleteSweeps(c)
  BY <1>6, Gone, GoesOn DEF DeleteSweeps, OldPoints, bounds
<1>7. CASE CleanupLists(c)
  <2> DEFINE list == [v \in VMs |-> IF GroupOf[v] = req[c].group THEN record[v] ELSE 0]
             r == [req[c] EXCEPT !.at = "rgNext", !.cascade = list]
  <2>1. req'[c] = r
    BY <1>7, Became DEF CleanupLists
  <2>2. r.at = "rgNext" /\ r.group = req[c].group /\ r.cascade = list
    BY <1>q DEF Request
  <2>3. \A v \in VMs : GroupOf[v] = r.group => r.cascade[v] = record[v]
    BY <2>2
  <2>4. UNCHANGED <<record, index, created>>
    BY <1>7 DEF CleanupLists, store, bounds
  <2> HIDE DEF r
  <2> QED
    BY <2>1, <2>2, <2>3, <2>4 DEF Plain, Claim, Old, Forgot, Cleaning, Building, BuildsOn, BuildPoints, OldPoints, DropPoints
<1>8. CASE CascadeDropsServices(c) \/ CascadeDropsIdentities(c) \/ CascadeDropsContainers(c)
  <2>1. req'[c].at \in {"rgIdentities", "idle", "rgList"}
    BY <1>8, Gone, Ended DEF CascadeDropsServices, CascadeDropsIdentities, CascadeDropsContainers
  <2> QED
    BY <1>8, <1>m, <2>1, NothingClaimed DEF CascadeDropsServices, CascadeDropsIdentities, CascadeDropsContainers, store, bounds
<1> HIDE DEF At
<1> QED
  BY <1>1, <1>2, <1>3, <1>4, <1>5, <1>6, <1>7, <1>8 DEF Deleting

LEMMA PoweringPlain ==
  ASSUME Typed, Grouped, NEW c \in Clients, Claim(c), Building(c), Powering(c)
  PROVE  Plain(c)
<1> USE DEF At
<1>q. req[c] \in Request
  BY About DEF Typed
<1>m. "idle" \notin Unclaimed /\ {"powerList", "decide", "stopServices", "startVM", "startServices", "writeback"} \subseteq OldPoints \ {"delKey"}
  BY DEF Unclaimed, BuildPoints, OldPoints, DropPoints
<1>u. UNCHANGED <<record, index, created>>
  BY DEF Powering, PowerAction, PowerLists, PowerDecides, StopService, StartService, StopVM, StartVM, PowerDone, store, bounds
<1>1. ASSUME NEW v \in VMs, NEW action, PowerAction(c, v, action) PROVE Plain(c)
  <2> DEFINE r == [VMRequest(v, "powerList") EXCEPT !.action = action]
  <2>1. req'[c] = r
    BY <1>1, Began DEF PowerAction
  <2>2. r.at = "powerList" /\ r.group = None /\ r.vm = v /\ r.held = record[v]
    BY DEF VMRequest, NoRequest
  <2>3. record[v] # 0
    BY <1>1 DEF PowerAction, Exists
  <2> HIDE DEF r
  <2> QED
    BY <1>u, <1>m, <2>1, <2>2, <2>3, Found
<1>2. CASE PowerLists(c)
  <2> DEFINE r == [req[c] EXCEPT !.at = "decide", !.listed = ServiceRecords(req[c].vm), !.todo = ServiceRecords(req[c].vm)]
  <2>1. req'[c] = r
    BY <1>2, Became DEF PowerLists
  <2>2. r.at = "decide" /\ r.group = req[c].group /\ r.vm = req[c].vm /\ r.held = req[c].held /\ r.cascade = req[c].cascade
    BY <1>q DEF Request
  <2>3. req[c].at \in OldPoints
    BY <1>2, <1>m DEF PowerLists
  <2> HIDE DEF r
  <2> QED
    BY <1>u, <1>m, <2>1, <2>2, <2>3, GoesOn
<1>3. CASE PowerDecides(c)
  <2>1. "decide" \in PowerPoints
    BY DEF PowerPoints
  <2>2. req[c].action \in {"start", "powerOff", "restart"}
    BY <1>3, <2>1, About DEF PowerDecides, Typed
  <2>3. PICK p \in {"writeback", "startVM", "stopServices"} : Goto(c, p)
    BY <1>3, <2>2 DEF PowerDecides
  <2> QED
    BY <1>3, <1>u, <1>m, <2>3, Gone, GoesOn DEF PowerDecides
<1>4. ASSUME NEW s \in Services, StopService(c, s) \/ StartService(c, s) PROVE Plain(c)
  <2> DEFINE r == [req[c] EXCEPT !.todo = @ \ {s}]
  <2>1. req'[c] = r /\ req[c].at \in {"stopServices", "startServices"}
    BY <1>4, Became DEF StopService, StartService
  <2>2. r.at = req[c].at /\ r.group = req[c].group /\ r.vm = req[c].vm /\ r.held = req[c].held /\ r.cascade = req[c].cascade
    BY <1>q DEF Request
  <2> HIDE DEF r
  <2> QED
    BY <1>u, <1>m, <2>1, <2>2, GoesOn
<1>5. CASE StopVM(c)
  <2>1. CASE Finish(c)
    BY <1>u, <1>m, <2>1, Ended, NothingClaimed
  <2>2. ASSUME NEW p \in {"startVM", "writeback"}, Goto(c, p) PROVE Plain(c)
    BY <1>5, <1>u, <1>m, <2>2, Gone, GoesOn DEF StopVM
  <2> QED
    BY <1>5, <2>1, <2>2 DEF StopVM
<1>6. CASE StartVM(c)
  <2> DEFINE r == [req[c] EXCEPT !.at = "startServices", !.todo = req[c].listed]
  <2>1. CASE Finish(c)
    BY <1>u, <1>m, <2>1, Ended, NothingClaimed
  <2>2. CASE Become(c, r)
    <3>1. req'[c] = r
      BY <2>2, Became
    <3>2. r.at = "startServices" /\ r.group = req[c].group /\ r.vm = req[c].vm /\ r.held = req[c].held /\ r.cascade = req[c].cascade
      BY <1>q DEF Request
    <3>3. req[c].at \in OldPoints
      BY <1>6, <1>m DEF StartVM
    <3> HIDE DEF r
    <3> QED
      BY <1>u, <1>m, <3>1, <3>2, <3>3, GoesOn
  <2> QED
    BY <1>6, <2>1, <2>2 DEF StartVM
<1>7. CASE PowerDone(c)
  BY <1>7, <1>u, <1>m, Gone, GoesOn DEF PowerDone
<1> HIDE DEF At
<1> QED
  BY <1>1, <1>2, <1>3, <1>4, <1>5, <1>6, <1>7 DEF Powering

LEMMA DeployingPlain ==
  ASSUME Typed, Grouped, NEW c \in Clients, Claim(c), Building(c), Deploying(c)
  PROVE  Plain(c)
<1> USE DEF At
<1>q. req[c] \in Request
  BY About DEF Typed
<1>m. /\ {"inspect", "siblings", "own", "unplace", "launch", "unrecord", "record", "writeback"} \subseteq OldPoints \ {"delKey"}
      /\ {"idle", "svcWriteback", "svcRemove", "svcDrop", "svcVM"} \cap Unclaimed = {}
      /\ {"inspect", "svcWriteback", "svcRemove", "svcDrop"} \subseteq Points
  BY DEF Unclaimed, BuildPoints, OldPoints, DropPoints, Points
<1>u. UNCHANGED <<record, index, created>>
  BY DEF Deploying, GetService, DeleteService, DeployService, DeployInspects, DeployComparesPorts, DeployLooksItselfUp,
         DeployReplaces, DeployRuns, DeployRunFails, DeployForgets, DeployRecords, ServiceWritesBack, ServiceRemoved,
         ServiceDropped, ServiceNoted, store, bounds
<1>1. ASSUME NEW s \in Services, GetService(c, s) PROVE Plain(c)
  <2>1. req'[c] = [ServiceRequest(s, "svcWriteback") EXCEPT !.port = service[s].port]
    BY <1>1, Began DEF GetService
  <2>2. req'[c].at = "svcWriteback"
    BY <1>m, <2>1, Starts
  <2> QED
    BY <1>u, <1>m, <2>2, NothingClaimed
<1>2. ASSUME NEW s \in Services, DeleteService(c, s) PROVE Plain(c)
  <2>1. PICK p \in {"svcRemove", "svcDrop"} : req'[c] = ServiceRequest(s, p)
    BY <1>2, Began DEF DeleteService
  <2>2. req'[c].at = p
    BY <1>m, <2>1, Starts
  <2> QED
    BY <1>u, <1>m, <2>1, <2>2, NothingClaimed
<1>3. ASSUME NEW s \in Services, NEW p \in PortsOf[s], DeployService(c, s, p) PROVE Plain(c)
  <2> DEFINE r == [ServiceRequest(s, "inspect") EXCEPT !.port = p]
  <2>1. req'[c] = r
    BY <1>3, Began DEF DeployService
  <2>2. r.at = "inspect" /\ r.group = None /\ r.vm = HostOf[s] /\ r.held = record[HostOf[s]]
    BY DEF ServiceRequest, VMRequest, NoRequest
  <2>3. record[HostOf[s]] # 0
    BY <1>3 DEF DeployService, Exists
  <2> HIDE DEF r
  <2> QED
    BY <1>u, <1>m, <2>1, <2>2, <2>3, Found
<1>4. CASE DeployInspects(c) \/ DeployComparesPorts(c) \/ DeployForgets(c) \/ ServiceWritesBack(c)
  <2>1. CASE Finish(c)
    BY <1>u, <1>m, <2>1, Ended, NothingClaimed
  <2>2. CASE DeployInspects(c) /\ Goto(c, "siblings")
    BY <1>u, <1>m, <2>2, Gone, GoesOn DEF DeployInspects
  <2>3. CASE DeployComparesPorts(c) /\ Goto(c, "own")
    BY <1>u, <1>m, <2>3, Gone, GoesOn DEF DeployComparesPorts
  <2>4. DeployInspects(c) => Finish(c) \/ Goto(c, "siblings")
    BY DEF DeployInspects
  <2>5. DeployComparesPorts(c) => Finish(c) \/ Goto(c, "own")
    BY DEF DeployComparesPorts
  <2>6. DeployForgets(c) \/ ServiceWritesBack(c) => Finish(c)
    BY DEF DeployForgets, ServiceWritesBack
  <2> QED
    BY <1>4, <2>1, <2>2, <2>3, <2>4, <2>5, <2>6
<1>5. CASE DeployLooksItselfUp(c) \/ DeployReplaces(c) \/ DeployRuns(c) \/ DeployRunFails(c) \/ DeployRecords(c)
  BY <1>5, <1>u, <1>m, Gone, GoesOn DEF DeployLooksItselfUp, DeployReplaces, DeployRuns, DeployRunFails, DeployRecords
<1>6. CASE ServiceRemoved(c) \/ ServiceDropped(c)
  BY <1>6, <1>u, <1>m, Gone, NothingClaimed DEF ServiceRemoved, ServiceDropped
<1>7. CASE ServiceNoted(c)
  <2> DEFINE r == [req[c] EXCEPT !.at = "writeback", !.held = record[req[c].vm]]
  <2>1. CASE Finish(c)
    BY <1>u, <1>m, <2>1, Ended, NothingClaimed
  <2>2. CASE Become(c, r) /\ record[req[c].vm] # 0
    <3>1. req'[c] = r
      BY <2>2, Became
    <3>2. r.at = "writeback" /\ r.group = req[c].group /\ r.vm = req[c].vm /\ r.held = record[req[c].vm]
      BY <1>q DEF Request
    <3>3. req[c].group = None
      BY <1>7 DEF ServiceNoted, Grouped, Ungrouped, GroupPoints
    <3> HIDE DEF r
    <3> QED
      BY <1>u, <1>m, <2>2, <3>1, <3>2, <3>3, Found
  <2> QED
    BY <1>7, <2>1, <2>2 DEF ServiceNoted, Exists
<1> HIDE DEF At
<1> QED
  BY <1>1, <1>2, <1>3, <1>4, <1>5, <1>6, <1>7 DEF Deploying

-----------------------------------------------------------------------------
(* What a step leaves to the other requests.                               *)

LEMMA VMInScope ==
  ASSUME Typed, Grouped, NEW c \in Clients,
         \/ req[c].at \in OldPoints \cup BuildPoints
         \/ req[c].at \in DropPoints /\ req[c].group = None
  PROVE  req[c].vm \in VMs /\ req[c].vm \in Scope(req[c])
<1>1. req[c].at \in VMPoints /\ req[c].at \notin TokenPoints
  BY DEF OldPoints, BuildPoints, DropPoints, VMPoints, MachinePoints, PowerPoints, ServicePoints, TokenPoints
<1>2. req[c].group = None
  BY DEF OldPoints, BuildPoints, DropPoints, Grouped, Ungrouped, GroupPoints
<1>3. req[c].vm \in VMs
  BY <1>1, About DEF Typed
<1> QED
  BY <1>1, <1>2, <1>3, NothingAssumption DEF Scope, None

LEMMA GroupInScope ==
  ASSUME NEW c \in Clients, req[c].group # None,
         req[c].at \in DropPoints \/ req[c].at = "rgNext"
  PROVE  \A v \in VMs : GroupOf[v] = req[c].group => v \in Scope(req[c])
BY DEF Scope, InGroup, DropPoints, TokenPoints

(* Records change only of VMs the request is about, to what it holds; the  *)
(* index changes only at the secret of such a VM.                          *)
Writes(c) == /\ created \leq created' /\ created' \in Nat
             /\ \A v \in VMs : record'[v] = record[v] \/ v \in Scope(req[c])
             /\ \A v \in VMs : record'[v] \in {0, record[v]} \/ (req[c].at \in BuildPoints /\ record'[v] = req[c].held)
             /\ \A s \in Secrets : index'[s] = index[s] \/ \E v \in VMs : v \in Scope(req[c]) /\ record[v] = s

LEMMA OthersKeepSecrets ==
  ASSUME Typed, Grouped, Apart, Secret, cast.serialised,
         NEW c \in Clients, NEW d \in Clients, c # d, req'[d] = req[d], Writes(c)
  PROVE  Claim(d)' /\ Building(d)'
<1> USE DEF Writes
<1>a. Scope(req[c]) \cap Scope(req[d]) = {}
  BY DEF Apart
<1>d. /\ Claim(d) /\ Building(d) /\ Distinct /\ Rivals
      /\ record \in [VMs -> 0 .. MaxCreates] /\ created \in Nat /\ MaxCreates \in Nat /\ req[d].held \in 0 .. MaxCreates
  BY About, BoundsAssumption DEF Secret, Typed, StoreType, BoundsType
<1>1. Old(d)'
  BY <1>a, <1>d, VMInScope DEF Claim, Old
<1>2. Forgot(d)'
  <2> SUFFICES ASSUME req[d].at = "delKey" PROVE index'[req[d].held] = None
    BY DEF Forgot
  <2>1. req[d].at \in OldPoints /\ req[d].vm \in VMs /\ req[d].vm \in Scope(req[d])
    BY VMInScope DEF OldPoints
  <2>2. req[d].held # 0 /\ record[req[d].vm] = req[d].held /\ index[req[d].held] = None
    BY <1>d, <2>1 DEF Claim, Old, Forgot
  <2>3. req[d].held \in Secrets
    BY <1>d, <2>2 DEF Secrets
  <2>4. ~ \E v \in VMs : v \in Scope(req[c]) /\ record[v] = req[d].held
    BY <1>a, <1>d, <2>1, <2>2 DEF Distinct
  <2> QED
    BY <2>2, <2>3, <2>4
<1>3. Cleaning(d)'
  <2>c. req[d].at = "rgNext" \/ (req[d].at \in DropPoints /\ req[d].group # None) =>
           /\ \A v \in VMs : req[d].cascade[v] # 0 => GroupOf[v] = req[d].group
           /\ req[d].at \in DropPoints => GroupOf[req[d].vm] = req[d].group
    BY <1>d DEF Claim, Cleaning
  <2> SUFFICES ASSUME req[d].at = "rgNext" \/ (req[d].at \in DropPoints /\ req[d].group # None),
                      NEW v \in VMs, GroupOf[v] = req[d].group
               PROVE  /\ req[d].cascade[v] \in {0, record'[v]}
                      /\ req[d].cascade[v] = 0 => record'[v] = 0 \/ index'[record'[v]] = None
    BY <2>c DEF Cleaning
  <2>0. req[d].group # None
    BY About, NothingAssumption DEF Typed, None, GroupPoints
  <2>1. v \in Scope(req[d])
    BY <2>0, GroupInScope
  <2>2. record'[v] = record[v] /\ record[v] \in 0 .. MaxCreates
    BY <1>a, <1>d, <2>1
  <2>3. req[d].cascade[v] \in {0, record[v]} /\ (req[d].cascade[v] = 0 => record[v] = 0 \/ index[record[v]] = None)
    BY <1>d DEF Claim, Cleaning
  <2>4. ASSUME record[v] # 0, index[record[v]] = None PROVE index'[record[v]] = None
    <3>1. record[v] \in Secrets
      BY <1>d, <2>2, <2>4 DEF Secrets
    <3>2. ~ \E w \in VMs : w \in Scope(req[c]) /\ record[w] = record[v]
      BY <1>a, <1>d, <2>1, <2>4 DEF Distinct
    <3> QED
      BY <2>4, <3>1, <3>2
  <2> QED
    BY <2>2, <2>3, <2>4
<1>4. Building(d)'
  <2> SUFFICES ASSUME req[d].at \in BuildPoints
               PROVE  /\ req[d].held # 0 /\ req[d].held \leq created'
                      /\ record'[req[d].vm] = 0
                      /\ \A v \in VMs : record'[v] # req[d].held
    BY DEF Building
  <2>1. req[d].vm \in VMs /\ req[d].vm \notin Scope(req[c])
    BY <1>a, VMInScope
  <2>2. /\ req[d].held # 0 /\ req[d].held \leq created
        /\ record[req[d].vm] = 0
        /\ \A v \in VMs : record[v] # req[d].held
    BY <1>d DEF Building
  <2>3. req[c].at \in BuildPoints => req[c].held # req[d].held
    BY <1>d DEF Rivals
  <2>4. req[d].held \leq created'
    BY <1>d, <2>2
  <2> QED
    BY <2>1, <2>2, <2>3, <2>4
<1> QED
  BY <1>1, <1>2, <1>3, <1>4 DEF Claim

(* The same of a whole step: the other requests, and the rivals.           *)
LEMMA RivalsAfter ==
  ASSUME Typed, Rivals, NEW c \in Clients, OneMoves(c), BuildsOn(c)
  PROVE  Rivals'
BY OthersStay DEF Rivals, BuildsOn

LEMMA WriterStep ==
  ASSUME Typed, Grouped, Apart, Secret, cast.serialised, NEW c \in Clients, OneMoves(c), Writes(c),
         Leads', Distinct', Rivals', Claim(c)', Building(c)'
  PROVE  Secret' /\ Writes(c)
<1>1. ASSUME NEW d \in Clients, d # c PROVE Claim(d)' /\ Building(d)'
  BY <1>1, OthersStay, OthersKeepSecrets
<1> QED
  BY <1>1 DEF Secret

LEMMA PlainStep ==
  ASSUME Typed, Grouped, Apart, Secret, cast.serialised, NEW c \in Clients, OneMoves(c), Plain(c)
  PROVE  Secret' /\ Writes(c)
<1>1. UNCHANGED <<record, index, created>>
  BY DEF Plain
<1>2. Writes(c)
  BY <1>1 DEF Writes, Typed, BoundsType
<1>3. Rivals'
  BY RivalsAfter DEF Plain, Secret
<1>4. Leads' /\ Distinct'
  BY <1>1 DEF Secret, Leads, Distinct
<1> QED
  BY <1>2, <1>3, <1>4, WriterStep DEF Plain

-----------------------------------------------------------------------------
(* The steps that write records and the index.                             *)

LEMMA BuildStep ==
  ASSUME Typed, Grouped, Apart, Secret, cast.serialised, NEW c \in Clients, BuildVM(c)
  PROVE  Secret' /\ Writes(c)
<1>q. /\ req[c] \in Request /\ record \in [VMs -> 0 .. MaxCreates] /\ created \in Nat /\ MaxCreates \in Nat
      /\ Leads /\ Distinct /\ Rivals /\ \A d \in Clients : Building(d)
      /\ \A d \in Clients : req[d].held \in 0 .. MaxCreates
  BY About, BoundsAssumption DEF Typed, StoreType, BoundsType, Secret
<1>1. PICK p \in {"network", "store"} : Become(c, [req[c] EXCEPT !.at = p, !.held = created + 1])
  BY DEF BuildVM
<1> DEFINE r == [req[c] EXCEPT !.at = p, !.held = created + 1]
<1>2. OneMoves(c) /\ req'[c] = r
  BY <1>1, Became
<1>3. r.at = p /\ r.vm = req[c].vm /\ r.held = created + 1
  BY <1>q DEF Request
<1> HIDE DEF r
<1>4. created' = created + 1 /\ record' = record /\ index' = index /\ record[req[c].vm] = 0
  BY DEF BuildVM, Exists
<1>5. Writes(c)
  BY <1>4, <1>q DEF Writes
<1>6. Leads' /\ Distinct'
  BY <1>4, <1>q DEF Leads, Distinct
<1>7. Claim(c)'
  BY <1>2, <1>3 DEF Claim, Old, Forgot, Cleaning, OldPoints, DropPoints
<1>8. Building(c)'
  BY <1>2, <1>3, <1>4, <1>q DEF Building, Distinct
<1>9. Rivals'
  <2>1. ASSUME NEW d \in Clients, d # c, req[d].at \in BuildPoints PROVE req[d].held # created + 1
    BY <2>1, <1>q DEF Building
  <2> QED
    BY <1>q, <1>2, <1>3, <2>1, OthersStay DEF Rivals
<1> QED
  BY <1>2, <1>5, <1>6, <1>7, <1>8, <1>9, WriterStep

LEMMA StoreStep ==
  ASSUME Typed, Grouped, Apart, Secret, cast.serialised, NEW c \in Clients, StoreVM(c)
  PROVE  Secret' /\ Writes(c)
<1>q. /\ req[c].at = "store" /\ req[c].vm \in VMs /\ req[c].vm \in Scope(req[c])
      /\ record \in [VMs -> 0 .. MaxCreates] /\ created \in Nat /\ req[c].held \in 0 .. MaxCreates
      /\ index \in [Secrets -> VMs \cup {None}]
      /\ Leads /\ Distinct /\ Building(c)
  BY About, VMInScope DEF Typed, StoreType, BoundsType, Secret, StoreVM, At, BuildPoints
<1>b. /\ req[c].held # 0 /\ req[c].held \leq created /\ record[req[c].vm] = 0
      /\ \A v \in VMs : record[v] # req[c].held
  BY <1>q DEF Building, BuildPoints
<1>1. /\ record' = [record EXCEPT ![req[c].vm] = req[c].held] /\ index' = index /\ created' = created
  BY DEF StoreVM, bounds
<1>2. OneMoves(c) /\ req'[c].at = "index" /\ req'[c].vm = req[c].vm /\ req'[c].held = req[c].held
  BY Gone DEF StoreVM
<1>3. Writes(c)
  BY <1>q, <1>1 DEF Writes, BuildPoints
<1>4. Leads'
  BY <1>q, <1>b, <1>1 DEF Leads, Secrets
<1>5. Distinct'
  BY <1>q, <1>b, <1>1 DEF Distinct
<1>6. Claim(c)' /\ Building(c)' /\ BuildsOn(c)
  BY <1>q, <1>b, <1>1, <1>2 DEF Claim, Old, Forgot, Cleaning, Building, BuildsOn, BuildPoints, OldPoints, DropPoints
<1>7. Rivals'
  BY <1>2, <1>6, RivalsAfter DEF Secret
<1> QED
  BY <1>2, <1>3, <1>4, <1>5, <1>6, <1>7, WriterStep

(* What the steps at the end of a handler have in common.                  *)
LEMMA EndedClaims ==
  ASSUME Typed, Rivals, NEW c \in Clients, Finish(c)
  PROVE  OneMoves(c) /\ Claim(c)' /\ Building(c)' /\ Rivals'
<1>1. OneMoves(c) /\ req'[c].at = "idle"
  BY Ended
<1>2. Claim(c)' /\ Building(c)' /\ BuildsOn(c)
  BY <1>1 DEF Claim, Old, Forgot, Cleaning, Building, BuildsOn, BuildPoints, OldPoints, DropPoints
<1> QED
  BY <1>1, <1>2, RivalsAfter

LEMMA IndexStep ==
  ASSUME Typed, Grouped, Apart, Secret, cast.serialised, NEW c \in Clients, IndexSecret(c) \/ WriteBack(c)
  PROVE  Secret' /\ Writes(c)
<1>q. /\ req[c].at \in {"index", "writeback"} /\ req[c].vm \in VMs /\ req[c].vm \in Scope(req[c])
      /\ record \in [VMs -> 0 .. MaxCreates] /\ created \in Nat
      /\ index \in [Secrets -> VMs \cup {None}]
      /\ Leads /\ Distinct /\ Rivals /\ Old(c)
  BY VMInScope DEF Typed, StoreType, BoundsType, Secret, Claim, IndexSecret, WriteBack, At, OldPoints
<1>b. req[c].held # 0 /\ record[req[c].vm] = req[c].held
  BY <1>q DEF Old, OldPoints
<1>1. Finish(c) /\ created' = created /\ record' = record /\ (index' = index \/ index' = [index EXCEPT ![req[c].held] = req[c].vm])
  BY <1>q, <1>b DEF IndexSecret, WriteBack, bounds
<1>2. Writes(c)
  BY <1>q, <1>b, <1>1 DEF Writes
<1>3. Leads' /\ Distinct'
  BY <1>q, <1>b, <1>1 DEF Leads, Distinct
<1> QED
  BY <1>q, <1>1, <1>2, <1>3, EndedClaims, WriterStep

LEMMA ForgetStep ==
  ASSUME Typed, Grouped, Apart, Secret, cast.serialised, NEW c \in Clients, DeleteForgetsSecret(c)
  PROVE  Secret' /\ Writes(c)
<1>q. /\ req[c].at = "delSecret" /\ req[c].vm \in VMs /\ req[c].vm \in Scope(req[c])
      /\ req[c].held \in 0 .. MaxCreates /\ created \in Nat /\ MaxCreates \in Nat
      /\ index \in [Secrets -> VMs \cup {None}]
      /\ Leads /\ Distinct /\ Rivals /\ Old(c)
  BY About, VMInScope, BoundsAssumption DEF Typed, StoreType, BoundsType, Secret, Claim, DeleteForgetsSecret, At, OldPoints
<1>b. req[c].held \in Secrets /\ record[req[c].vm] = req[c].held
  BY <1>q DEF Old, OldPoints, Secrets
<1>1. created' = created /\ record' = record /\ index' = [index EXCEPT ![req[c].held] = None]
  BY DEF DeleteForgetsSecret, bounds
<1>2. OneMoves(c) /\ req'[c].at = "delKey" /\ req'[c].vm = req[c].vm /\ req'[c].held = req[c].held
  BY Gone DEF DeleteForgetsSecret
<1>3. Writes(c)
  BY <1>q, <1>b, <1>1 DEF Writes
<1>4. Leads' /\ Distinct'
  BY <1>q, <1>1 DEF Leads, Distinct
<1>5. Claim(c)' /\ Building(c)' /\ BuildsOn(c)
  BY <1>q, <1>b, <1>1, <1>2 DEF Claim, Old, Forgot, Cleaning, Building, BuildsOn, BuildPoints, OldPoints, DropPoints
<1>6. Rivals'
  BY <1>q, <1>2, <1>5, RivalsAfter
<1> QED
  BY <1>2, <1>3, <1>4, <1>5, <1>6, WriterStep

LEMMA DropStep ==
  ASSUME Typed, Grouped, Apart, Secret, cast.serialised, NEW c \in Clients, DeleteDrops(c)
  PROVE  Secret' /\ Writes(c)
<1>q. /\ req[c].at = "delKey" /\ req[c].vm \in VMs /\ req[c].vm \in Scope(req[c])
      /\ record \in [VMs -> 0 .. MaxCreates] /\ created \in Nat
      /\ index \in [Secrets -> VMs \cup {None}]
      /\ Leads /\ Distinct /\ Rivals /\ Old(c) /\ Forgot(c)
  BY VMInScope DEF Typed, StoreType, BoundsType, Secret, Claim, DeleteDrops, At, OldPoints
<1>b. record[req[c].vm] = req[c].held /\ index[req[c].held] = None
  BY <1>q DEF Old, Forgot, OldPoints
<1>1. Finish(c) /\ created' = created /\ index' = index /\ record' = [record EXCEPT ![req[c].vm] = 0]
  BY DEF DeleteDrops, bounds
<1>2. Writes(c)
  BY <1>q, <1>1 DEF Writes
<1>3. Leads'
  BY <1>q, <1>b, <1>1 DEF Leads
<1>4. Distinct'
  BY <1>q, <1>1 DEF Distinct
<1> QED
  BY <1>q, <1>1, <1>2, <1>3, <1>4, EndedClaims, WriterStep

LEMMA CleanupStep ==
  ASSUME Typed, Grouped, Apart, Secret, cast.serialised, NEW c \in Clients, NEW v \in VMs, CleanupForgetsSecret(c, v)
  PROVE  Secret' /\ Writes(c)
<1>q. /\ req[c].at = "rgNext" /\ req[c] \in Request /\ created \in Nat
      /\ index \in [Secrets -> VMs \cup {None}] /\ record \in [VMs -> 0 .. MaxCreates]
      /\ req[c].cascade \in [VMs -> 0 .. MaxCreates] /\ req[c].cascade[v] # 0
      /\ Leads /\ Distinct /\ Rivals /\ Cleaning(c)
  BY About, Fields DEF Typed, StoreType, BoundsType, Secret, Claim, CleanupForgetsSecret, At
<1>g. req[c].group # None
  BY <1>q, About, NothingAssumption DEF GroupPoints, Typed, None
<1>c. \A w \in VMs : GroupOf[w] = req[c].group =>
                     /\ req[c].cascade[w] \in {0, record[w]}
                     /\ req[c].cascade[w] = 0 => record[w] = 0 \/ index[record[w]] = None
  BY <1>q DEF Cleaning
<1>v. /\ \A w \in VMs : req[c].cascade[w] # 0 => GroupOf[w] = req[c].group
      /\ GroupOf[v] = req[c].group /\ record[v] = req[c].cascade[v]
  BY <1>q, <1>c DEF Cleaning
<1>o. v \in Scope(req[c])
  BY <1>q, <1>g, <1>v, GroupInScope
<1> DEFINE old == req[c].cascade[v]
<1>1. created' = created /\ record' = record /\ index' = [index EXCEPT ![old] = None]
  BY DEF CleanupForgetsSecret, bounds
<1>2. PICK p \in {"delList", "rgNext"} : Become(c, [req[c] EXCEPT !.at = p, !.vm = v, !.cascade[v] = 0])
  BY DEF CleanupForgetsSecret
<1> DEFINE r == [req[c] EXCEPT !.at = p, !.vm = v, !.cascade[v] = 0]
<1>3. OneMoves(c) /\ req'[c] = r
  BY <1>2, Became
<1>4. r.at = p /\ r.vm = v /\ r.group = req[c].group /\ r.cascade = [req[c].cascade EXCEPT ![v] = 0]
  BY <1>q DEF Request
<1> HIDE DEF r
<1>5. Writes(c)
  BY <1>q, <1>v, <1>o, <1>1 DEF Writes
<1>6. Leads' /\ Distinct'
  BY <1>q, <1>1 DEF Leads, Distinct
<1>7. ASSUME NEW w \in VMs, GroupOf[w] = req[c].group
      PROVE  /\ r.cascade[w] \in {0, record[w]}
             /\ r.cascade[w] = 0 => record[w] = 0 \/ index'[record[w]] = None
  <2>1. CASE w = v
    <3>1. old = record[v] /\ old \in Secrets
      BY <1>c, <1>q, <1>7, <2>1 DEF Secrets
    <3> QED
      BY <1>q, <1>1, <1>4, <2>1, <3>1
  <2>2. CASE w # v
    <3>1. r.cascade[w] = req[c].cascade[w]
      BY <1>q, <1>4, <2>2
    <3>2. record[w] # 0 => record[w] \in Secrets
      BY <1>q DEF Secrets
    <3> QED
      BY <1>c, <1>q, <1>1, <1>7, <3>1, <3>2
  <2> QED
    BY <2>1, <2>2
<1>8. Cleaning(c)'
  <2>1. \A w \in VMs : r.cascade[w] # 0 => GroupOf[w] = r.group
    BY <1>q, <1>v, <1>4
  <2>2. GroupOf[r.vm] = r.group
    BY <1>v, <1>4
  <2> QED
    BY <1>1, <1>3, <1>4, <1>7, <2>1, <2>2 DEF Cleaning
<1>9. Old(c)' /\ Forgot(c)' /\ Building(c)' /\ BuildsOn(c)
  BY <1>3, <1>4, <1>g DEF Old, Forgot, Building, BuildsOn, BuildPoints, OldPoints, DropPoints
<1>10. Rivals'
  BY <1>q, <1>3, <1>9, RivalsAfter
<1> QED
  BY <1>3, <1>5, <1>6, <1>8, <1>9, <1>10, WriterStep DEF Claim

LEMMA CascadeStep ==
  ASSUME Typed, Grouped, Apart, Secret, cast.serialised, NEW c \in Clients, CascadeDropsVMs(c)
  PROVE  Secret' /\ Writes(c)
<1>q. /\ req[c].at = "rgNext" /\ req[c].cascade = NoCascade /\ created \in Nat
      /\ index \in [Secrets -> VMs \cup {None}] /\ record \in [VMs -> 0 .. MaxCreates]
      /\ Leads /\ Distinct /\ Rivals /\ Cleaning(c)
  BY DEF Typed, StoreType, BoundsType, Secret, Claim, CascadeDropsVMs, At
<1>g. req[c].group # None
  BY <1>q, About, NothingAssumption DEF GroupPoints, Typed, None
<1>s. \A v \in VMs : GroupOf[v] = req[c].group => v \in Scope(req[c])
  BY <1>q, <1>g, GroupInScope
<1>c. \A v \in VMs : GroupOf[v] = req[c].group => record[v] = 0 \/ index[record[v]] = None
  BY <1>q DEF Cleaning, NoCascade
<1>1. created' = created /\ index' = index /\ record' = [v \in VMs |-> IF GroupOf[v] = req[c].group THEN 0 ELSE record[v]]
  BY DEF CascadeDropsVMs, bounds
<1>2. OneMoves(c) /\ req'[c].at = "rgServices"
  BY Gone DEF CascadeDropsVMs
<1>3. Writes(c)
  BY <1>q, <1>s, <1>1 DEF Writes
<1>4. Leads'
  <2> SUFFICES ASSUME NEW s \in Secrets, index[s] # None PROVE record'[index[s]] = s
    BY <1>1 DEF Leads
  <2>1. index[s] \in VMs /\ record[index[s]] = s /\ s # 0
    BY <1>q DEF Leads, Secrets
  <2>2. GroupOf[index[s]] # req[c].group
    BY <1>c, <2>1
  <2> QED
    BY <1>1, <2>1, <2>2
<1>5. Distinct'
  BY <1>q, <1>1 DEF Distinct
<1>6. Claim(c)' /\ Building(c)' /\ BuildsOn(c)
  BY <1>2 DEF Claim, Old, Forgot, Cleaning, Building, BuildsOn, BuildPoints, OldPoints, DropPoints
<1>7. Rivals'
  BY <1>q, <1>2, <1>6, RivalsAfter
<1> QED
  BY <1>2, <1>3, <1>4, <1>5, <1>6, <1>7, WriterStep

-----------------------------------------------------------------------------
LEMMA HandlesStep ==
  ASSUME Typed, Grouped, Apart, Secret, cast.serialised, NEW c \in Clients, Handles(c)
  PROVE  Secret' /\ Writes(c)
<1>1. OneMoves(c) /\ Claim(c) /\ Building(c)
  BY HandlesFrame DEF Framed, Secret
<1>2. CASE BuildVM(c) \/ StoreVM(c) \/ IndexSecret(c) \/ WriteBack(c)
  BY <1>2, BuildStep, StoreStep, IndexStep
<1>3. CASE DeleteForgetsSecret(c) \/ DeleteDrops(c) \/ CascadeDropsVMs(c)
  BY <1>3, ForgetStep, DropStep, CascadeStep
<1>4. ASSUME NEW v \in VMs, CleanupForgetsSecret(c, v) PROVE Secret' /\ Writes(c)
  BY <1>4, CleanupStep
<1>5. CASE Putting(c) /\ ~BuildVM(c) /\ ~StoreVM(c) /\ ~IndexSecret(c) /\ ~WriteBack(c)
  <2>1. Plain(c)
    BY <1>1, <1>5, PuttingPlain
  <2> QED
    BY <1>1, <2>1, PlainStep
<1>6. CASE /\ Deleting(c) \/ CascadeDropsContainers(c)
           /\ ~DeleteForgetsSecret(c) /\ ~DeleteDrops(c) /\ ~CascadeDropsVMs(c)
           /\ \A v \in VMs : ~CleanupForgetsSecret(c, v)
  <2>1. Plain(c)
    BY <1>1, <1>6, DeletingPlain
  <2> QED
    BY <1>1, <2>1, PlainStep
<1>7. CASE Powering(c)
  <2>1. Plain(c)
    BY <1>1, <1>7, PoweringPlain
  <2> QED
    BY <1>1, <2>1, PlainStep
<1> QED
  BY <1>2, <1>3, <1>4, <1>5, <1>6, <1>7 DEF Handles

LEMMA AttestingStep ==
  ASSUME Typed, Grouped, Apart, Secret, cast.serialised, NEW c \in Clients, Attesting(c)
  PROVE  Secret'
<1>1. UNCHANGED <<record, index, created>>
  BY AttestingLeaves
<1>2. CASE Attests(c)
  <2>1. OneMoves(c) /\ req'[c].at \in {"idle", "idGet", "idSet"} \cup TokenPoints
    BY <1>2 DEF Attests, Asks, Settles, Looks, Answers, NoRequest, TokenPoints
  <2>2. ({"idle", "idGet", "idSet"} \cup TokenPoints) \cap Unclaimed = {}
    BY DEF Unclaimed, BuildPoints, OldPoints, DropPoints, TokenPoints
  <2>3. Plain(c)
    BY <1>1, <2>1, <2>2, NothingClaimed
  <2> QED
    BY <2>1, <2>3, PlainStep
<1>3. CASE IdentitySet(c)
  <2>1. ASSUME NEW d \in Clients PROVE Claim(d)' /\ Building(d)' /\ BuildsOn(d)
    <3>1. Claim(d) /\ Building(d)
      BY DEF Secret
    <3>2. CASE d = c
      BY <1>1, <1>3, <3>2, SetFrame DEF Claim, Old, Forgot, Cleaning, Building, BuildsOn, BuildPoints, OldPoints, DropPoints
    <3>3. CASE d # c
      BY <1>1, <1>3, <3>1, <3>3, SetFrame DEF Claim, Old, Forgot, Cleaning, Building, BuildsOn
    <3> QED
      BY <3>2, <3>3
  <2>2. Leads' /\ Distinct' /\ Rivals'
    BY <1>1, <2>1 DEF Secret, Leads, Distinct, Rivals, BuildsOn
  <2> QED
    BY <2>1, <2>2 DEF Secret
<1> QED
  BY <1>2, <1>3, AttestingFrame

LEMMA SecretiveStep == ASSUME Typed, Grouped, Apart, Secretive, [Next]_vars PROVE Secretive'
<1>0. cast' = cast
  BY CastStays
<1> SUFFICES ASSUME cast.serialised, Secret PROVE Secret'
  BY <1>0 DEF Secretive
<1>1. CASE Aside
  BY <1>1, AsideFrame DEF Secret, Leads, Distinct, Rivals, Claim, Old, Forgot, Cleaning, Building
<1>2. CASE Restart
  <2>1. record' = NoRecords /\ index' = NoSecrets /\ created' = created /\ created \in Nat
    BY <1>2 DEF Restart, Typed, BoundsType
  <2>2. \A c \in Clients : req'[c].at = "idle"
    BY <1>2, RestartFrame
  <2>3. Leads' /\ Distinct'
    BY <2>1 DEF Leads, Distinct, NoRecords, NoSecrets
  <2>4. Rivals' /\ \A c \in Clients : Claim(c)' /\ Building(c)'
    BY <2>2 DEF Rivals, Claim, Old, Forgot, Cleaning, Building, BuildPoints, OldPoints, DropPoints
  <2> QED
    BY <2>3, <2>4 DEF Secret
<1>3. ASSUME NEW c \in Clients, Handles(c) PROVE Secret'
  BY <1>3, HandlesStep
<1>4. ASSUME NEW c \in Clients, Deploying(c) PROVE Secret'
  <2>1. OneMoves(c) /\ Plain(c)
    BY <1>4, DeployingFrame, DeployingPlain DEF Framed, Secret
  <2> QED
    BY <2>1, PlainStep
<1>5. ASSUME NEW c \in Clients, Attesting(c) PROVE Secret'
  BY <1>5, AttestingStep
<1> QED
  BY <1>1, <1>2, <1>3, <1>4, <1>5, StepKinds

LEMMA AlwaysSecretive == Spec => []Secretive
<1>1. Init => Secretive
  BY BoundsAssumption DEF Init, NoRecords, NoSecrets, NoRequest, Secretive, Secret, Leads, Distinct, Rivals,
         Claim, Old, Forgot, Cleaning, Building, BuildPoints, OldPoints, DropPoints
<1>2. Typed /\ (Grouped /\ Apart /\ Steadied) /\ Secretive /\ [Next]_vars => Secretive'
  BY SecretiveStep
<1> QED
  BY <1>1, <1>2, AlwaysTyped, AlwaysApart, PTL DEF Spec

(* GetToken finds a VM by the secret in the request's header and does not  *)
(* compare it with the VM's own: between serialised requests every secret  *)
(* of the index is the secret of the record it leads to, at every moment   *)
(* of PUT, DELETE, a group's DELETE and whatever overlaps with them.       *)
THEOREM SecretsAlwaysLeadHome == Spec => []SecretsLeadHome
<1>1. Secretive => SecretsLeadHome
  BY DEF Secretive, Secret, Leads, SecretsLeadHome
<1> QED
  BY <1>1, AlwaysSecretive, PTL

-----------------------------------------------------------------------------
(* What docker and the tables have of a VM.                                *)
LastPoints == {"delSweep", "delSecret", "delKey"}
DockerPoints == {"network", "stale", "run", "unnet", "powerList", "decide", "stopServices", "startVM", "startServices",
                 "inspect", "siblings", "own", "unplace", "launch", "unrecord", "record"}
ListPoints == {"decide", "stopServices", "startVM", "startServices"}

Standing(v) == Present(v) /\ v \in network /\ container[v].tag = record[v]
Placement(s) == Present(s) /\ container[s].port = service[s].port /\ container[s].tag = record[HostOf[s]]
Bare(v) == NeverStarted(v) /\ v \notin network
Cleared(v) == Bare(v) /\ \A s \in Hosted(v) : NeverStarted(s)

(* A VM that no request is about.                                          *)
Rest(v) ==
    /\ Exists(v) => /\ dockerAvail => Standing(v) /\ \A s \in Hosted(v) : service[s].there => Placement(s)
                    /\ index[record[v]] = v
                    /\ GroupOf[v] \in groups
    /\ ~Exists(v) => \A s \in Hosted(v) : ~service[s].there
    /\ restarts = 0 => /\ ~Exists(v) => Bare(v)
                       /\ \A s \in Hosted(v) : service[s].there \/ NeverStarted(s)
                       /\ ~dockerAvail => Cleared(v)

(* A VM that request c is about: what is on record is in docker, but for   *)
(* what the request is about to remove or to record.                       *)
Removing(r) == r.at \in DropPoints \cup LastPoints \cup {"rgNext", "rgServices", "rgIdentities"}
Unplaced(r) == IF r.at \in {"launch", "unrecord", "record", "svcDrop"} THEN {r.svc} ELSE {}

Backed(c, v) == LET r == req[c] IN
    Exists(v) /\ ~Removing(r) =>
        /\ dockerAvail => Standing(v) /\ \A s \in Hosted(v) \ Unplaced(r) : service[s].there => Placement(s)
        /\ r.at # "index" => index[record[v]] = v
Homed(c, v) == LET r == req[c] IN
    Exists(v) \/ r.at \in {"resolve"} \cup BuildPoints => GroupOf[v] \in groups \/ r.group # None
Emptied(c, v) == LET r == req[c] IN
    /\ ~Exists(v) /\ r.at # "rgServices" => \A s \in Hosted(v) : ~service[s].there
    /\ r.at \in {"delSecret", "delKey", "rgIdentities"} => \A s \in Hosted(v) : ~service[s].there
    /\ r.at \in {"rgServices", "rgIdentities"} => ~Exists(v)
Making(c, v) == LET r == req[c] IN
    /\ r.at \in {"stale", "run"} => v \in network
    /\ r.at = "store" /\ dockerAvail => Present(v) /\ v \in network /\ container[v].tag = r.held
    /\ r.at = "unnet" => ~Exists(v)
    /\ r.at = "record" => Present(r.svc) /\ container[r.svc].port = r.port /\ container[r.svc].tag = r.held
    /\ r.at \in ListPoints => \A s \in r.listed \cup r.todo : s \in Hosted(v) /\ service[s].there
    /\ r.at = "delServices" /\ r.vm = v => r.todo \subseteq Hosted(v)
    /\ r.at \in DockerPoints => dockerAvail
    /\ r.at # "idle"

(* In the first life of the process: what is in docker is on record, or    *)
(* the request is about to remove or to record it.                         *)
Recorded(c, v) == LET r == req[c] IN
    /\ r.at \notin BuildPoints \cup {"unnet"} /\ ~Exists(v) => Bare(v)
    /\ r.at = "network" => Bare(v)
    /\ r.at \in {"stale", "run", "unnet"} => NeverStarted(v)
    /\ \A s \in Hosted(v) : service[s].there \/ NeverStarted(s) \/ (r.at = "record" /\ s = r.svc)
    /\ r.at \in {"launch", "unrecord", "svcDrop"} => NeverStarted(r.svc)
    /\ ~dockerAvail => Cleared(v)
Removed(c, v) == LET r == req[c] IN
    /\ r.at = "delServices" /\ r.vm = v => \A s \in Hosted(v) : s \in r.todo \/ NeverStarted(s)
    /\ r.at = "delNet" /\ r.vm = v => NeverStarted(v) /\ \A s \in Hosted(v) : NeverStarted(s)
    /\ r.at \in LastPoints \cup {"rgServices", "rgIdentities"} => Cleared(v)
    /\ /\ r.group # None /\ r.cascade[v] = 0
       /\ r.at = "rgNext" \/ (r.at \in DropPoints /\ r.vm # v)
       => Cleared(v)

Phase(c, v) == /\ Backed(c, v) /\ Homed(c, v) /\ Emptied(c, v) /\ Making(c, v)
               /\ restarts = 0 => Recorded(c, v) /\ Removed(c, v)

Shape == \A v \in VMs : /\ \A c \in Clients : v \in Scope(req[c]) => Phase(c, v)
                        /\ Quiet(v) => Rest(v)
Shaped == cast.serialised => Shape

(* On the network of a VM are its own container and those of its services. *)
Netted == \A n \in Names : \/ container[n].net = Bridge
                           \/ n \in VMs /\ container[n].net = n
                           \/ n \in Services /\ container[n].net = HostOf[n]

-----------------------------------------------------------------------------
(* What leaves a VM as it was.                                             *)
Same(n) == /\ Present(n)' <=> Present(n)
           /\ container'[n].port = container[n].port /\ container'[n].tag = container[n].tag
           /\ NeverStarted(n) => NeverStarted(n)'
Alike(v) == /\ record'[v] = record[v]
            /\ record[v] # 0 /\ index[record[v]] = v => index'[record[v]] = v
            /\ Same(v) /\ (v \in network' <=> v \in network)
            /\ \A s \in Hosted(v) : Same(s) /\ service'[s] = service[s]
            /\ GroupOf[v] \in groups => GroupOf[v] \in groups'

LEMMA RestStays ==
  ASSUME NEW v \in VMs, Alike(v), UNCHANGED <<dockerAvail, restarts>>, Rest(v)
  PROVE  Rest(v)'
<1>h. \A s \in Hosted(v) : HostOf[s] = v
  BY DEF Hosted
<1>1. (\A s \in Hosted(v) : service[s].there => Placement(s)) => (\A s \in Hosted(v) : service'[s].there => Placement(s)')
  BY <1>h DEF Alike, Same, Placement
<1>2. (Standing(v) => Standing(v)') /\ (Bare(v) => Bare(v)') /\ (Cleared(v) => Cleared(v)') /\ (Exists(v)' <=> Exists(v))
  BY DEF Alike, Same, Standing, Bare, Cleared, Exists, Hosted
<1> QED
  BY <1>1, <1>2 DEF Rest, Alike, Same, Exists, Hosted

(* A request that stands where it stood.                                   *)
Stands(d) == /\ req'[d].at = req[d].at /\ req'[d].vm = req[d].vm /\ req'[d].svc = req[d].svc /\ req'[d].group = req[d].group
             /\ req'[d].held = req[d].held /\ req'[d].port = req[d].port /\ req'[d].cascade = req[d].cascade
             /\ req'[d].todo = req[d].todo /\ req'[d].listed = req[d].listed

LEMMA PhaseStays ==
  ASSUME NEW v \in VMs, NEW d \in Clients, Alike(v), UNCHANGED <<dockerAvail, restarts>>, Stands(d),
         req[d].at \in ServicePoints => req[d].svc \in Hosted(v), Phase(d, v)
  PROVE  Phase(d, v)'
<1>h. \A s \in Hosted(v) : HostOf[s] = v
  BY DEF Hosted
<1>s. req[d].at \in {"launch", "unrecord", "record", "svcDrop"} => req[d].svc \in Hosted(v)
  BY DEF ServicePoints
<1>1. \A S : (\A s \in Hosted(v) \ S : service[s].there => Placement(s)) => (\A s \in Hosted(v) \ S : service'[s].there => Placement(s)')
  BY <1>h DEF Alike, Same, Placement
<1>2. (Standing(v) => Standing(v)') /\ (Bare(v) => Bare(v)') /\ (Cleared(v) => Cleared(v)') /\ (Exists(v)' <=> Exists(v))
  BY DEF Alike, Same, Standing, Bare, Cleared, Exists, Hosted
<1>3. Backed(d, v)'
  BY <1>1, <1>2 DEF Stands, Phase, Backed, Alike, Hosted, Exists, Unplaced, Removing
<1>4. Homed(d, v)' /\ Emptied(d, v)'
  BY <1>2 DEF Stands, Phase, Homed, Emptied, Alike, Hosted
<1>5. Making(d, v)'
  BY <1>2, <1>s DEF Stands, Phase, Making, Alike, Same, Hosted
<1>6. restarts = 0 => Recorded(d, v)'
  BY <1>2, <1>s DEF Stands, Phase, Recorded, Alike, Same, Hosted
<1>7. restarts = 0 => Removed(d, v)'
  BY <1>2 DEF Stands, Phase, Removed, Alike, Same, Hosted
<1> QED
  BY <1>3, <1>4, <1>5, <1>6, <1>7 DEF Phase

-----------------------------------------------------------------------------
(* A request changes docker, and takes groups away, only where it is about.*)
Local(c) == /\ \A n \in Names : \/ container'[n] = container[n]
                                \/ \E w \in VMs : w \in Scope(req[c]) /\ (n = w \/ n \in Hosted(w))
            /\ \A w \in VMs : (w \in network' <=> w \in network) \/ w \in Scope(req[c])
            /\ \A w \in VMs : GroupOf[w] \in groups => GroupOf[w] \in groups' \/ w \in Scope(req'[c])

LEMMA SameContainer == ASSUME NEW n, container'[n] = container[n] PROVE Same(n)
BY DEF Same, Present, NeverStarted

LEMMA OthersAlike ==
  ASSUME Typed, Secret, NEW c \in Clients, Local(c), Writes(c), Reaches(c),
         NEW v \in VMs, v \notin Scope(req[c]), v \notin Scope(req'[c])
  PROVE  Alike(v)
<1>0. v \in Names /\ v \notin Services /\ Hosted(v) \subseteq Services /\ Services \subseteq Names
  BY DockerNamesAssumption DEF Hosted
<1>1. container'[v] = container[v]
  BY <1>0 DEF Local, Hosted
<1>2. \A s \in Hosted(v) : container'[s] = container[s]
  BY <1>0, DockerNamesAssumption DEF Local, Hosted
<1>3. \A s \in Hosted(v) : service'[s] = service[s]
  BY DEF Reaches, Hosted
<1>4. record'[v] = record[v]
  BY DEF Writes
<1>5. ASSUME record[v] # 0, index[record[v]] = v PROVE index'[record[v]] = v
  <2>1. record[v] \in Secrets
    BY <1>5 DEF Typed, StoreType, Secrets
  <2>2. \A w \in VMs : record[w] = record[v] => w = v
    BY <1>5 DEF Secret, Distinct
  <2> QED
    BY <1>5, <2>1, <2>2 DEF Writes
<1> QED
  BY <1>1, <1>2, <1>3, <1>4, <1>5, SameContainer DEF Alike, Local

(* What a step makes of the VMs its request is about, before and after it. *)
Proceeds(c) == /\ Scope(req'[c]) \cap VMs = Scope(req[c]) \cap VMs
               /\ \A v \in VMs : v \in Scope(req[c]) => Phase(c, v)'
Ends(c) == /\ Scope(req'[c]) \cap VMs = {}
           /\ \A v \in VMs : v \in Scope(req[c]) => Rest(v)'
Opens(c) == /\ Scope(req[c]) \cap VMs = {}
            /\ \A v \in VMs : v \in Scope(req'[c]) => Phase(c, v)'
Meets(c) == Proceeds(c) \/ Ends(c) \/ Opens(c)

LEMMA HostedByOwn ==
  ASSUME Typed, Grouped, NEW d \in Clients, NEW v \in VMs, v \in Scope(req[d]), req[d].at \in ServicePoints
  PROVE  req[d].svc \in Hosted(v)
<1>1. req[d].svc \in Services /\ req[d].vm = HostOf[req[d].svc] /\ req[d] \in Request
  BY About DEF Typed
<1>2. req[d].who \in Identities \cup {None} /\ req[d].group = None /\ req[d].at \notin TokenPoints
  BY <1>1, Fields DEF Grouped, Ungrouped, GroupPoints, ServicePoints, TokenPoints
<1>3. v # req[d].who
  BY <1>2, DockerNamesAssumption, NothingAssumption DEF None
<1> QED
  BY <1>1, <1>2, <1>3 DEF Scope, Hosted

LEMMA ShapeAfter ==
  ASSUME Typed, Grouped, Apart, Apart', cast' = cast, Secret, Shape, cast.serialised, NEW c \in Clients, OneMoves(c),
         Local(c), Writes(c), Reaches(c), UNCHANGED <<dockerAvail, restarts>>, Meets(c)
  PROVE  Shape'
<1>1. ASSUME NEW v \in VMs, v \notin Scope(req[c]), v \notin Scope(req'[c])
      PROVE  /\ \A d \in Clients : v \in Scope(req'[d]) => Phase(d, v)'
             /\ Quiet(v)' => Rest(v)'
  <2>1. Alike(v)
    BY <1>1, OthersAlike
  <2>2. ASSUME NEW d \in Clients, v \in Scope(req'[d]) PROVE Phase(d, v)'
    <3>1. req'[d] = req[d] /\ v \in Scope(req[d])
      BY <1>1, <2>2, OthersStay
    <3> QED
      BY <2>1, <3>1, HostedByOwn, PhaseStays DEF Shape, Stands
  <2>3. Quiet(v)' => Quiet(v)
    BY <1>1, OthersStay DEF Quiet
  <2> QED
    BY <2>1, <2>2, <2>3, RestStays DEF Shape
<1>2. ASSUME NEW v \in VMs, v \in Scope(req'[c])
      PROVE  /\ \A d \in Clients : v \in Scope(req'[d]) => Phase(d, v)'
             /\ Quiet(v)' => Rest(v)'
  <2>1. Phase(c, v)'
    BY <1>2 DEF Meets, Proceeds, Ends, Opens
  <2>2. \A d \in Clients : v \in Scope(req'[d]) => d = c
    BY <1>2 DEF Apart
  <2>3. ~Quiet(v)'
    BY <1>2 DEF Quiet
  <2> QED
    BY <2>1, <2>2, <2>3
<1>3. ASSUME NEW v \in VMs, v \in Scope(req[c]), v \notin Scope(req'[c])
      PROVE  /\ \A d \in Clients : v \in Scope(req'[d]) => Phase(d, v)'
             /\ Quiet(v)' => Rest(v)'
  <2>1. Rest(v)'
    BY <1>3 DEF Meets, Proceeds, Ends, Opens
  <2>2. \A d \in Clients : v \notin Scope(req'[d])
    BY <1>3, OthersStay DEF Apart
  <2> QED
    BY <2>1, <2>2
<1> QED
  BY <1>1, <1>2, <1>3 DEF Shape

-----------------------------------------------------------------------------
(* The docker commands.                                                    *)
OnlyAt(n) == \A m \in Names \ {n} : container'[m] = container[m]

LEMMA Commands ==
  ASSUME DockerTypeOK, NEW n \in Names
  PROVE  /\ Remove(n) => OnlyAt(n) /\ NeverStarted(n)' /\ ~Present(n)'
         /\ Stop(n) => OnlyAt(n) /\ Same(n)
         /\ Start(n) => /\ OnlyAt(n) /\ Present(n)'
                        /\ container'[n].port = container[n].port /\ container'[n].tag = container[n].tag
         /\ Exits(n) => OnlyAt(n) /\ Same(n) 
         /\ \A p, net, tag : Run(n, p, net, tag) =>
               OnlyAt(n) /\ ~Present(n) /\ Present(n)' /\ container'[n].port = p /\ container'[n].tag = tag
         /\ \A p, net, tag, broken : RunBreaks(n, p, net, tag, broken) => OnlyAt(n) /\ NeverStarted(n)'
<1>c. container \in [Names -> Container] /\ container[n] \in Container
  BY DEF DockerTypeOK
<1>1. Remove(n) => OnlyAt(n) /\ NeverStarted(n)' /\ ~Present(n)'
  BY <1>c DEF Remove, OnlyAt, NeverStarted, Present, NoContainer
<1>2. Stop(n) => OnlyAt(n) /\ Same(n)
  BY <1>c DEF Stop, OnlyAt, Same, NeverStarted, Present, Container
<1>3. Start(n) => OnlyAt(n) /\ Present(n)' /\ container'[n].port = container[n].port /\ container'[n].tag = container[n].tag
  BY <1>c DEF Start, OnlyAt, Present, Container
<1>4. Exits(n) => OnlyAt(n) /\ Same(n)
  BY <1>c DEF Exits, OnlyAt, Same, NeverStarted, Present, Running, Container
<1>5. \A p, net, tag : Run(n, p, net, tag) =>
               OnlyAt(n) /\ ~Present(n) /\ Present(n)' /\ container'[n].port = p /\ container'[n].tag = tag
  BY <1>c DEF Run, OnlyAt, Present
<1>6. \A p, net, tag, broken : RunBreaks(n, p, net, tag, broken) => OnlyAt(n) /\ NeverStarted(n)'
  BY <1>c DEF RunBreaks, OnlyAt, NeverStarted
<1> QED
  BY <1>1, <1>2, <1>3, <1>4, <1>5, <1>6

(* A network that none of its own containers runs on goes.                 *)
LEMMA NetworkGoes ==
  ASSUME Typed, Netted, NEW v \in VMs, NeverStarted(v), \A s \in Hosted(v) : NeverStarted(s), NetworkRemove(v)
  PROVE  v \notin network'
<1>1. ASSUME NEW n \in Names, Running(n), container[n].net = v PROVE FALSE
  <2>0. v # Bridge
    BY DockerNamesAssumption, NetworksAssumption DEF Bridge
  <2>1. n = v \/ n \in Hosted(v)
    BY <1>1, <2>0 DEF Netted, Hosted
  <2> QED
    BY <1>1, <2>1 DEF NeverStarted, Running
<1> QED
  BY <1>1 DEF NetworkRemove

-----------------------------------------------------------------------------
(* Requests and VMs.                                                       *)
RestPoints == {"resolve", "writeback", "powerList", "decide", "stopServices", "startVM", "startServices",
               "inspect", "siblings", "own", "unplace", "svcWriteback", "svcRemove", "svcVM"}
Frozen == UNCHANGED <<record, index, service, groups, container, network, dockerAvail, restarts>>

LEMMA OwnVM ==
  ASSUME Typed, Grouped, NEW c \in Clients, req[c].at \in VMPoints \ TokenPoints,
         req[c].at \in DropPoints => req[c].group = None
  PROVE  /\ req[c].vm \in VMs /\ req[c].vm \in Names /\ req[c].vm \in Scope(req[c]) /\ req[c].group = None
         /\ \A v \in VMs : v \in Scope(req[c]) => v = req[c].vm
<1>1. req[c].vm \in VMs /\ req[c].vm \in Names /\ req[c] \in Request
  BY About DEF Typed
<1>2. req[c].group = None /\ req[c].who \in Identities \cup {None}
  <2>1. req[c].at \notin GroupPoints
    BY DEF VMPoints, MachinePoints, PowerPoints, ServicePoints, GroupPoints, TokenPoints
  <2> QED
    BY <1>1, <2>1, Fields DEF Grouped, Ungrouped, DropPoints
<1>3. req[c].vm # None /\ \A v \in VMs : v # req[c].who
  BY <1>1, <1>2, DockerNamesAssumption, NothingAssumption DEF None
<1> QED
  BY <1>1, <1>2, <1>3 DEF Scope

LEMMA ScopeStays ==
  ASSUME NEW c \in Clients, req[c].at \notin TokenPoints, req'[c].at \notin TokenPoints,
         req'[c].group = req[c].group, req'[c].who = req[c].who, req'[c].vm = req[c].vm \/ req[c].group # None
  PROVE  Scope(req'[c]) = Scope(req[c])
BY DEF Scope

LEMMA NoScope == Scope(NoRequest) = {}
BY DEF Scope, NoRequest, None, TokenPoints

LEMMA OpensScope ==
  ASSUME Shape, NEW c \in Clients, Begun(c), cast.serialised
  PROVE  /\ Scope(req[c]) \cap VMs = {}
         /\ \A v \in VMs : v \in Scope(req'[c]) => Rest(v)
<1>1. \A v \in VMs : v \notin Scope(req[c])
  BY DEF Begun, Shape, Phase, Making
<1>2. \A v \in VMs : v \in Scope(req'[c]) => Quiet(v)
  BY DEF Begun, Free, Quiet
<1> QED
  BY <1>1, <1>2 DEF Shape

LEMMA FrozenRest == ASSUME NEW v \in VMs, Rest(v), Frozen PROVE Rest(v)'
BY SameContainer, RestStays DEF Frozen, Alike

LEMMA FrozenLocal == ASSUME NEW c \in Clients, Frozen PROVE Local(c)
BY DEF Frozen, Local

(* A request about one VM that finds it as it is at rest, or leaves it so. *)
LEMMA AtRest ==
  ASSUME NEW c \in Clients, NEW v \in VMs, Phase(c, v), req[c].at \in RestPoints, req[c].group = None
  PROVE  Rest(v)
<1>1. ~Removing(req[c]) /\ Unplaced(req[c]) = {} /\ req[c].at \notin {"index", "rgServices", "record", "unnet"} \cup BuildPoints
  BY DEF Removing, Unplaced, RestPoints, DropPoints, LastPoints, BuildPoints
<1> QED
  BY <1>1 DEF Phase, Backed, Homed, Emptied, Recorded, Rest

(* Where it may go from there, and what it must hold.                      *)
Calls(c, v) == /\ req'[c].group = None
               /\ req'[c].at \in RestPoints \cup {"delList", "delServices", "delSweep", "svcDrop", "launch"}
               /\ req'[c].at = "resolve" => GroupOf[v] \in groups
               /\ req'[c].at \in ListPoints => \A s \in req'[c].listed \cup req'[c].todo : s \in Hosted(v) /\ service[s].there
               /\ req'[c].at \in DockerPoints => dockerAvail
               /\ req'[c].at = "delServices" => req'[c].todo = ServiceRecords(v)
               /\ req'[c].at = "delSweep" => ~dockerAvail
               /\ req'[c].at \in {"svcDrop", "launch"} => req'[c].svc \in Hosted(v)
               /\ req'[c].at = "svcDrop" => ~dockerAvail
               /\ req'[c].at = "launch" => ~service[req'[c].svc].there

LEMMA RestToPhase ==
  ASSUME NEW c \in Clients, NEW v \in VMs, Rest(v)', UNCHANGED <<service, groups, dockerAvail>>, Calls(c, v)
  PROVE  Phase(c, v)'
<1> USE DEF Calls
<1>p. /\ req'[c].at \notin {"index", "rgServices", "record", "unnet", "delNet", "delSecret", "delKey", "rgIdentities", "unrecord",
                             "idle", "rgNext"} \cup BuildPoints
      /\ req'[c].at \in LastPoints => req'[c].at = "delSweep"
      /\ req'[c].at \in {"launch", "unrecord", "svcDrop"} => req'[c].at \in {"launch", "svcDrop"}
      /\ req'[c].at \in {"resolve"} \cup BuildPoints => req'[c].at = "resolve"
  BY DEF RestPoints, BuildPoints, LastPoints
<1>1. Backed(c, v)'
  BY DEF Rest, Backed
<1>2. Homed(c, v)' /\ Emptied(c, v)'
  BY <1>p DEF Rest, Homed, Emptied
<1>3. Making(c, v)'
  BY <1>p DEF Making, ServiceRecords, BuildPoints
<1>4. restarts' = 0 => Recorded(c, v)'
  BY <1>p DEF Rest, Recorded, Cleared, Bare, BuildPoints
<1>5. restarts' = 0 => Removed(c, v)'
  BY <1>p DEF Rest, Removed, Cleared, ServiceRecords
<1> QED
  BY <1>1, <1>2, <1>3, <1>4, <1>5 DEF Phase

LEMMA FromRest ==
  ASSUME NEW c \in Clients, NEW v \in VMs, Rest(v), Frozen, Calls(c, v)
  PROVE  Phase(c, v)'
BY FrozenRest, RestToPhase DEF Frozen

(* The same of requests that begin, that go on, and that end.              *)
LEMMA MeetsFirst ==
  ASSUME Shape, cast.serialised, NEW c \in Clients, Begun(c), Frozen, NEW v \in VMs, req'[c].vm = v, req'[c].who = None, Calls(c, v)
  PROVE  Local(c) /\ Meets(c)
<1>1. Scope(req'[c]) \subseteq {v}
  BY DEF Calls, Scope
<1>2. \A w \in VMs : w \in Scope(req'[c]) => Phase(c, w)'
  BY <1>1, OpensScope, FromRest
<1> QED
  BY <1>2, FrozenLocal, OpensScope DEF Meets, Opens

LEMMA MeetsOn ==
  ASSUME Typed, Grouped, NEW c \in Clients, req[c].at \in RestPoints, UNCHANGED <<service, groups, dockerAvail>>,
         req'[c].vm = req[c].vm, req'[c].who = req[c].who, req'[c].group = req[c].group, Calls(c, req[c].vm),
         \A v \in VMs : v = req[c].vm => Rest(v)'
  PROVE  Meets(c)
<1>0. req[c].at \in VMPoints \ TokenPoints /\ req[c].at \notin DropPoints /\ req'[c].at \notin TokenPoints
  BY DEF Calls, RestPoints, VMPoints, MachinePoints, PowerPoints, ServicePoints, TokenPoints, DropPoints
<1>1. ASSUME NEW v \in VMs, v \in Scope(req[c]) PROVE Phase(c, v)'
  <2>1. v = req[c].vm /\ Rest(v)'
    BY <1>0, <1>1, OwnVM
  <2> QED
    BY <2>1, RestToPhase
<1>2. Scope(req'[c]) = Scope(req[c])
  BY <1>0, ScopeStays
<1> QED
  BY <1>1, <1>2 DEF Meets, Proceeds

LEMMA MeetsNext ==
  ASSUME Typed, Grouped, Shape, NEW c \in Clients, Frozen, req[c].at \in RestPoints,
         req'[c].vm = req[c].vm, req'[c].who = req[c].who, req'[c].group = req[c].group, Calls(c, req[c].vm)
  PROVE  Local(c) /\ Meets(c)
<1>0. req[c].at \in VMPoints \ TokenPoints /\ req[c].at \notin DropPoints
  BY DEF RestPoints, VMPoints, MachinePoints, PowerPoints, ServicePoints, TokenPoints, DropPoints
<1>1. ASSUME NEW v \in VMs, v = req[c].vm PROVE Rest(v)'
  <2>1. v \in Scope(req[c]) /\ req[c].group = None
    BY <1>0, <1>1, OwnVM
  <2> QED
    BY <2>1, AtRest, FrozenRest DEF Shape
<1> QED
  BY <1>1, MeetsOn, FrozenLocal DEF Frozen

LEMMA MeetsLast ==
  ASSUME Typed, Grouped, Shape, NEW c \in Clients, Frozen, req[c].at \in RestPoints, req'[c] = NoRequest
  PROVE  Local(c) /\ Meets(c)
<1>0. req[c].at \in VMPoints \ TokenPoints /\ req[c].at \notin DropPoints
  BY DEF RestPoints, VMPoints, MachinePoints, PowerPoints, ServicePoints, TokenPoints, DropPoints
<1>1. req[c].group = None
  BY <1>0, OwnVM
<1>2. \A v \in VMs : v \in Scope(req[c]) => Rest(v)'
  BY <1>1, AtRest, FrozenRest DEF Shape
<1> QED
  BY <1>2, NoScope, FrozenLocal DEF Meets, Ends

-----------------------------------------------------------------------------
(* The handlers, one by one: PUT and GET of a VM.                          *)

LEMMA AtOwn ==
  ASSUME Typed, Grouped, Shape, Secret, NEW c \in Clients, req[c].at \in VMPoints \ (TokenPoints \cup DropPoints)
  PROVE  /\ req[c].vm \in VMs /\ req[c].vm \in Names /\ req[c].group = None
         /\ Phase(c, req[c].vm) /\ Old(c) /\ Forgot(c) /\ Building(c)
         /\ \A v \in VMs : v \in Scope(req[c]) => v = req[c].vm
BY OwnVM DEF Shape, Secret, Claim

(* A step of such a request that changes docker, or what is on record, of  *)
(* its VM.                                                                 *)
LEMMA OwnGoesOn ==
  ASSUME Typed, Grouped, NEW c \in Clients, req[c].at \in VMPoints \ (TokenPoints \cup DropPoints), NEW p, Goto(c, p), p \notin TokenPoints,
         \A v \in VMs : v = req[c].vm => Phase(c, v)'
  PROVE  Meets(c)
<1>1. Scope(req'[c]) = Scope(req[c])
  BY ScopeStays, Gone
<1> QED
  BY <1>1, OwnVM DEF Meets, Proceeds

LEMMA OwnEnds ==
  ASSUME Typed, Grouped, NEW c \in Clients, req[c].at \in VMPoints \ (TokenPoints \cup DropPoints), Finish(c),
         \A v \in VMs : v = req[c].vm => Rest(v)'
  PROVE  Meets(c)
BY OwnVM, NoScope, Ended DEF Meets, Ends

LEMMA OwnLocal ==
  ASSUME NEW c \in Clients, req[c].vm \in VMs, req[c].vm \in Scope(req[c]), UNCHANGED groups,
         UNCHANGED container \/ OnlyAt(req[c].vm) \/ \E s \in Hosted(req[c].vm) : OnlyAt(s),
         UNCHANGED network \/ \A w \in Networks \ {req[c].vm} : w \in network' <=> w \in network
  PROVE  Local(c)
BY DockerNamesAssumption DEF Local, OnlyAt

(* A request at work on a VM that is not there yet.                        *)
LEMMA InBuild ==
  ASSUME NEW c \in Clients, NEW v \in VMs, req'[c].at \in BuildPoints \cup {"unnet"},
         ~Exists(v)', GroupOf[v] \in groups', \A s \in Hosted(v) : ~service'[s].there,
         req'[c].at # "store" => dockerAvail',
         req'[c].at \in {"stale", "run"} => v \in network',
         req'[c].at = "store" /\ dockerAvail' => Present(v)' /\ v \in network' /\ container'[v].tag = req'[c].held,
         restarts' = 0 => /\ \A s \in Hosted(v) : NeverStarted(s)'
                          /\ req'[c].at = "network" => Bare(v)'
                          /\ req'[c].at \in {"stale", "run", "unnet"} => NeverStarted(v)'
                          /\ ~dockerAvail' => Cleared(v)'
  PROVE  Phase(c, v)'
<1>m. /\ req'[c].at \in {"network", "stale", "run", "store", "unnet"}
      /\ req'[c].at \notin {"rgServices", "delServices", "record", "launch", "unrecord", "svcDrop", "delNet", "rgNext", "idle"}
                          \cup ListPoints \cup LastPoints \cup DropPoints \cup {"rgIdentities"}
      /\ req'[c].at = "store" => req'[c].at \notin DockerPoints
      /\ req'[c].at \notin BuildPoints => req'[c].at = "unnet"
  BY DEF BuildPoints, ListPoints, LastPoints, DropPoints, DockerPoints
<1>1. Backed(c, v)'
  BY DEF Backed
<1>2. Homed(c, v)' /\ Emptied(c, v)'
  BY <1>m DEF Homed, Emptied, LastPoints
<1>3. Making(c, v)'
  BY <1>m DEF Making
<1>4. restarts' = 0 => Recorded(c, v)' /\ Removed(c, v)'
  BY <1>m DEF Recorded, Removed
<1> QED
  BY <1>1, <1>2, <1>3, <1>4 DEF Phase

(* What such a request finds.                                              *)
LEMMA AtBuild ==
  ASSUME Typed, Grouped, Secret, Shape, NEW c \in Clients, req[c].at \in BuildPoints \cup {"unnet"}, NEW v \in VMs, v = req[c].vm
  PROVE  /\ v \in Scope(req[c]) /\ req[c].group = None /\ ~Exists(v)
         /\ \A s \in Hosted(v) : ~service[s].there /\ s \in Names /\ s # v
         /\ req[c].at \in BuildPoints => GroupOf[v] \in groups /\ req[c].held # 0
         /\ req[c].at # "store" => dockerAvail
         /\ req[c].at \in {"stale", "run"} => v \in network
         /\ req[c].at = "store" /\ dockerAvail => Present(v) /\ v \in network /\ container[v].tag = req[c].held
         /\ restarts = 0 => /\ \A s \in Hosted(v) : NeverStarted(s)
                            /\ req[c].at \in {"stale", "run", "unnet"} => NeverStarted(v)
                            /\ ~dockerAvail => Cleared(v)
<1>m. /\ req[c].at \in VMPoints \ (TokenPoints \cup DropPoints)
      /\ req[c].at \notin BuildPoints => req[c].at = "unnet"
      /\ req[c].at # "store" => req[c].at \in DockerPoints
      /\ req[c].at \notin {"rgServices", "record"}
  BY DEF BuildPoints, VMPoints, MachinePoints, TokenPoints, DropPoints, DockerPoints
<1>1. /\ Phase(c, v) /\ Building(c) /\ req[c].group = None /\ v \in Scope(req[c])
  BY <1>m, AtOwn, OwnVM
<1>2. ~Exists(v)
  BY <1>m, <1>1 DEF Building, Phase, Making, Exists
<1>3. \A s \in Hosted(v) : ~service[s].there /\ s \in Names /\ s # v
  BY <1>m, <1>1, <1>2, DockerNamesAssumption DEF Phase, Emptied, Hosted
<1>4. req[c].at \in BuildPoints => GroupOf[v] \in groups /\ req[c].held # 0
  BY <1>1 DEF Phase, Homed, Building
<1>5. /\ req[c].at # "store" => dockerAvail
      /\ req[c].at \in {"stale", "run"} => v \in network
      /\ req[c].at = "store" /\ dockerAvail => Present(v) /\ v \in network /\ container[v].tag = req[c].held
  BY <1>m, <1>1 DEF Phase, Making
<1>6. restarts = 0 => /\ \A s \in Hosted(v) : NeverStarted(s)
                      /\ req[c].at \in {"stale", "run", "unnet"} => NeverStarted(v)
                      /\ ~dockerAvail => Cleared(v)
  BY <1>m, <1>1, <1>3 DEF Phase, Recorded
<1> QED
  BY <1>1, <1>2, <1>3, <1>4, <1>5, <1>6

LEMMA PuttingMeets ==
  ASSUME Typed, Grouped, Secret, Shape, Netted, cast.serialised, NEW c \in Clients, Putting(c)
  PROVE  Local(c) /\ Meets(c) /\ UNCHANGED <<dockerAvail, restarts>>
<1> USE DEF At
<1>0. DockerTypeOK /\ req[c] \in Request /\ record \in [VMs -> 0 .. MaxCreates]
  BY About DEF Typed, StoreType
<1>u. UNCHANGED <<dockerAvail, restarts>>
  BY DEF Putting, PutVM, GetVM, ResolveIdentity, ResolveFails, UpdateVM, BuildVM, CreateNetwork,
         CreateNetworkFails, RemoveStale, RunVM, RunVMFails, RemoveNetwork, StoreVM, IndexSecret, WriteBack, fixed, bounds
<1>m. /\ {"resolve", "network", "stale", "run", "unnet", "store", "index", "writeback"} \subseteq VMPoints \ (TokenPoints \cup DropPoints)
      /\ {"resolve", "writeback"} \subseteq RestPoints \ (ListPoints \cup DockerPoints)
      /\ {"resolve", "network", "stale", "run", "unnet", "store", "index", "writeback"} \cap (TokenPoints \cup DropPoints \cup LastPoints) = {}
  BY DEF VMPoints, MachinePoints, TokenPoints, DropPoints, RestPoints, ListPoints, DockerPoints, LastPoints
<1>1. ASSUME NEW v \in VMs, NEW block, NEW named, PutVM(c, v, block, named) PROVE Local(c) /\ Meets(c)
  <2> DEFINE r == [NoRequest EXCEPT !.at = "resolve", !.vm = v, !.block = block, !.todo = named]
  <2>1. req'[c] = r /\ Begun(c)
    BY <1>1, Began DEF PutVM
  <2>2. r.at = "resolve" /\ r.vm = v /\ r.who = None /\ r.group = None
    BY DEF NoRequest
  <2>3. Frozen
    BY <1>1 DEF PutVM, store, docker, fixed, bounds, Frozen
  <2> HIDE DEF r
  <2> QED
    BY <1>1, <1>m, <2>1, <2>2, <2>3, MeetsFirst DEF PutVM, Calls
<1>2. ASSUME NEW v \in VMs, GetVM(c, v) PROVE Local(c) /\ Meets(c)
  <2>1. req'[c] = VMRequest(v, "writeback") /\ Begun(c)
    BY <1>2, Began DEF GetVM
  <2>2. req'[c].at = "writeback" /\ req'[c].vm = v /\ req'[c].who = None /\ req'[c].group = None
    BY <2>1 DEF VMRequest, NoRequest
  <2>3. Frozen
    BY <1>2 DEF GetVM, store, docker, fixed, bounds, Frozen
  <2> QED
    BY <1>m, <2>1, <2>2, <2>3, MeetsFirst DEF Calls
<1>3. ASSUME NEW i \in Identities, ResolveIdentity(c, i) PROVE Local(c) /\ Meets(c)
  <2> DEFINE r == [req[c] EXCEPT !.todo = @ \ {i}, !.ids[i] = identities[i]]
  <2>1. req'[c] = r /\ req[c].at = "resolve"
    BY <1>3, Became DEF ResolveIdentity
  <2>2. /\ r.at = req[c].at /\ r.vm = req[c].vm /\ r.who = req[c].who /\ r.group = req[c].group
    BY <1>0 DEF Request
  <2>3. Frozen
    BY <1>3 DEF ResolveIdentity, store, docker, fixed, bounds, Frozen
  <2>4. req[c].group = None /\ GroupOf[req[c].vm] \in groups
    BY <1>m, <2>1, AtOwn DEF Phase, Homed
  <2> HIDE DEF r
  <2> QED
    BY <1>m, <2>1, <2>2, <2>3, <2>4, MeetsNext DEF Calls
<1>4. CASE ResolveFails(c)
  <2>1. Frozen /\ req[c].at = "resolve" /\ req'[c] = NoRequest
    BY <1>4, Ended DEF ResolveFails, store, docker, fixed, bounds, Frozen
  <2> QED
    BY <1>m, <1>u, <2>1, MeetsLast
<1>5. CASE UpdateVM(c)
  <2> DEFINE r == [req[c] EXCEPT !.at = "writeback", !.held = record[req[c].vm]]
  <2>1. req'[c] = r /\ req[c].at = "resolve"
    BY <1>5, Became DEF UpdateVM
  <2>2. r.at = "writeback" /\ r.vm = req[c].vm /\ r.who = req[c].who /\ r.group = req[c].group
    BY <1>0 DEF Request
  <2>3. Frozen
    BY <1>5 DEF UpdateVM, docker, fixed, bounds, Frozen
  <2>4. req[c].group = None
    BY <1>m, <2>1, AtOwn
  <2> HIDE DEF r
  <2> QED
    BY <1>m, <1>u, <2>1, <2>2, <2>3, <2>4, MeetsNext DEF Calls
<1>6. CASE WriteBack(c)
  <2>1. req[c].at = "writeback" /\ req'[c] = NoRequest
    BY <1>6, Ended DEF WriteBack
  <2>2. record[req[c].vm] = req[c].held
    BY <1>m, <2>1, AtOwn DEF Old, OldPoints
  <2>3. Frozen
    BY <1>0, <1>6, <2>2 DEF WriteBack, docker, fixed, bounds, Frozen
  <2> QED
    BY <1>m, <1>u, <2>1, <2>3, MeetsLast
<1>k. /\ {"network", "stale", "run", "store"} = BuildPoints
      /\ \A v \in VMs : \A s \in Hosted(v) : s \in Names /\ s # v
  BY DockerNamesAssumption DEF BuildPoints, Hosted
<1>7. CASE BuildVM(c)
  <2> DEFINE p == IF dockerAvail THEN "network" ELSE "store"
             r == [req[c] EXCEPT !.at = p, !.held = created + 1]
  <2>1. Become(c, r) /\ req[c].at = "resolve" /\ ~Exists(req[c].vm)
    BY <1>7 DEF BuildVM
  <2>2. req'[c] = r /\ OneMoves(c)
    BY <2>1, Became
  <2>3. r.at = p /\ r.vm = req[c].vm /\ r.who = req[c].who /\ r.group = req[c].group
    BY <1>0 DEF Request
  <2>4. Frozen
    BY <1>7 DEF BuildVM, docker, fixed, bounds, Frozen
  <2>5. req[c].vm \in VMs /\ req[c].group = None /\ Phase(c, req[c].vm) /\ \A v \in VMs : v \in Scope(req[c]) => v = req[c].vm
    BY <1>m, <2>1, AtOwn
  <2>b. p \in {"network", "store"} /\ (p = "network" <=> dockerAvail)
    OBVIOUS
  <2> HIDE DEF r, p
  <2>6. ASSUME NEW v \in VMs, v = req[c].vm PROVE Phase(c, v)'
    <3>1. Rest(v) /\ GroupOf[v] \in groups
      BY <1>m, <2>1, <2>5, <2>6, AtRest DEF Phase, Homed
    <3>2. Rest(v)' /\ GroupOf[v] \in groups' /\ ~Exists(v)'
      BY <2>1, <2>4, <2>6, <3>1, FrozenRest DEF Frozen, Exists
    <3> QED
      BY <1>k, <1>u, <2>b, <2>2, <2>3, <3>2, InBuild DEF Rest, Cleared, BuildPoints
  <2>7. Scope(req'[c]) = Scope(req[c])
    BY <1>m, <2>1, <2>b, <2>2, <2>3, ScopeStays
  <2>8. Meets(c)
    BY <2>5, <2>6, <2>7 DEF Meets, Proceeds
  <2> QED
    BY <1>u, <2>4, <2>8, FrozenLocal
<1>8. CASE CreateNetworkFails(c)
  <2>1. req[c].at = "network" /\ req[c].vm \notin network /\ Finish(c)
    BY <1>8 DEF CreateNetworkFails
  <2>2. Frozen
    BY <1>8 DEF CreateNetworkFails, store, docker, fixed, bounds, Frozen
  <2>3. /\ req[c].group = None /\ Phase(c, req[c].vm) /\ ~Exists(req[c].vm)
    BY <1>k, <1>m, <2>1, AtOwn DEF Building, Exists
  <2>4. ASSUME NEW v \in VMs, v = req[c].vm PROVE Rest(v)'
    <3>1. Rest(v)
      BY <1>k, <2>1, <2>3, <2>4 DEF Phase, Emptied, Making, Recorded, Rest
    <3> QED
      BY <2>2, <3>1, FrozenRest
  <2> QED
    BY <1>m, <1>u, <2>1, <2>2, <2>4, OwnEnds, FrozenLocal
<1>b. {"network", "stale", "run", "unnet", "store"} = BuildPoints \cup {"unnet"} /\ "unnet" \notin BuildPoints
  BY DEF BuildPoints
<1>9. CASE CreateNetwork(c)
  <2>1. req[c].at = "network" /\ NetworkCreate(req[c].vm) /\ Goto(c, "stale") /\ UNCHANGED <<store, container>>
    BY <1>9 DEF CreateNetwork
  <2>2. req[c].vm \in VMs /\ req[c].vm \in Scope(req[c]) /\ Phase(c, req[c].vm)
    BY <1>k, <1>m, <2>1, AtOwn, OwnVM
  <2>3. ASSUME NEW v \in VMs, v = req[c].vm PROVE Phase(c, v)'
    <3>1. req'[c].at = "stale"
      BY <2>1, Gone
    <3>2. v \in network' /\ (restarts = 0 => NeverStarted(v)') /\ \A s \in Hosted(v) : NeverStarted(s)' <=> NeverStarted(s)
      BY <2>1, <2>2, <2>3 DEF Phase, Recorded, Bare, NetworkCreate, NeverStarted
    <3>3. ~Exists(v)' /\ GroupOf[v] \in groups' /\ \A s \in Hosted(v) : ~service'[s].there
      BY <1>b, <2>1, <2>3, AtBuild DEF store, Exists
    <3> QED
      BY <1>b, <1>u, <2>1, <2>3, <3>1, <3>2, <3>3, AtBuild, InBuild
  <2>4. Local(c)
    BY <2>1, <2>2, OwnLocal DEF NetworkCreate, store
  <2> QED
    BY <1>m, <1>u, <2>1, <2>3, <2>4, OwnGoesOn
<1>10. CASE RemoveStale(c)
  <2>1. req[c].at = "stale" /\ Remove(req[c].vm) /\ Goto(c, "run") /\ UNCHANGED <<store, network>>
    BY <1>10 DEF RemoveStale
  <2>2. req[c].vm \in VMs /\ req[c].vm \in Names /\ req[c].vm \in Scope(req[c])
    BY <1>k, <1>m, <2>1, AtOwn, OwnVM
  <2>3. \A v \in VMs : v = req[c].vm => OnlyAt(v) /\ NeverStarted(v)'
    BY <1>0, <2>1, <2>2, Commands
  <2>4. ASSUME NEW v \in VMs, v = req[c].vm PROVE Phase(c, v)'
    <3>1. req'[c].at = "run"
      BY <2>1, Gone
    <3>2. \A s \in Hosted(v) : NeverStarted(s)' <=> NeverStarted(s)
      BY <1>k, <2>3, <2>4 DEF OnlyAt, NeverStarted
    <3>3. ~Exists(v)' /\ GroupOf[v] \in groups' /\ v \in network' /\ \A s \in Hosted(v) : ~service'[s].there
      BY <1>b, <2>1, <2>4, AtBuild DEF store, Exists
    <3> QED
      BY <1>b, <1>u, <2>1, <2>3, <2>4, <3>1, <3>2, <3>3, AtBuild, InBuild
  <2>5. Local(c)
    BY <2>1, <2>2, <2>3, OwnLocal DEF store
  <2> QED
    BY <1>m, <1>u, <2>1, <2>4, <2>5, OwnGoesOn
<1>11. CASE RunVM(c)
  <2>1. req[c].at = "run" /\ Run(req[c].vm, NoPort, req[c].vm, req[c].held) /\ Goto(c, "store") /\ UNCHANGED <<store, network>>
    BY <1>11 DEF RunVM
  <2>2. req[c].vm \in VMs /\ req[c].vm \in Names /\ req[c].vm \in Scope(req[c])
    BY <1>k, <1>m, <2>1, AtOwn, OwnVM
  <2>3. \A v \in VMs : v = req[c].vm => OnlyAt(v) /\ Present(v)' /\ container'[v].tag = req[c].held
    BY <1>0, <2>1, <2>2, Commands
  <2>4. ASSUME NEW v \in VMs, v = req[c].vm PROVE Phase(c, v)'
    <3>1. req'[c].at = "store" /\ req'[c].held = req[c].held
      BY <2>1, Gone
    <3>2. \A s \in Hosted(v) : NeverStarted(s)' <=> NeverStarted(s)
      BY <1>k, <2>3, <2>4 DEF OnlyAt, NeverStarted
    <3>3. ~Exists(v)' /\ GroupOf[v] \in groups' /\ v \in network' /\ dockerAvail' /\ \A s \in Hosted(v) : ~service'[s].there
      BY <1>b, <1>u, <2>1, <2>4, AtBuild DEF store, Exists
    <3> QED
      BY <1>b, <1>u, <2>1, <2>3, <2>4, <3>1, <3>2, <3>3, AtBuild, InBuild
  <2>5. Local(c)
    BY <2>1, <2>2, <2>3, OwnLocal DEF store
  <2> QED
    BY <1>m, <1>u, <2>1, <2>4, <2>5, OwnGoesOn
<1>12. CASE RunVMFails(c)
  <2>1. req[c].at = "run" /\ Goto(c, "unnet") /\ UNCHANGED <<store, network>>
    BY <1>12 DEF RunVMFails
  <2>2. req[c].vm \in VMs /\ req[c].vm \in Names /\ req[c].vm \in Scope(req[c])
    BY <1>k, <1>m, <2>1, AtOwn, OwnVM
  <2>3. \A v \in VMs : v = req[c].vm => UNCHANGED container \/ (OnlyAt(v) /\ NeverStarted(v)')
    BY <1>0, <1>12, <2>2, Commands DEF RunVMFails, RunRefused
  <2>4. ASSUME NEW v \in VMs, v = req[c].vm PROVE Phase(c, v)'
    <3>1. req'[c].at = "unnet"
      BY <2>1, Gone
    <3>2. \A s \in Hosted(v) : NeverStarted(s)' <=> NeverStarted(s)
      BY <1>k, <2>3, <2>4 DEF OnlyAt, NeverStarted
    <3>3. ~Exists(v)' /\ GroupOf[v] \in groups' /\ \A s \in Hosted(v) : ~service'[s].there
      BY <1>b, <2>1, <2>4, AtBuild DEF store, Exists
    <3>4. restarts = 0 => NeverStarted(v)'
      BY <1>b, <2>1, <2>3, <2>4, AtBuild DEF NeverStarted
    <3> QED
      BY <1>b, <1>u, <2>1, <2>4, <3>1, <3>2, <3>3, <3>4, AtBuild, InBuild
  <2>5. Local(c)
    BY <2>1, <2>2, <2>3, OwnLocal DEF store
  <2> QED
    BY <1>m, <1>u, <2>1, <2>4, <2>5, OwnGoesOn
<1>13. CASE RemoveNetwork(c)
  <2>1. req[c].at = "unnet" /\ NetworkRemove(req[c].vm) /\ Finish(c) /\ UNCHANGED <<store, container>>
    BY <1>13 DEF RemoveNetwork
  <2>2. req[c].vm \in VMs /\ req[c].vm \in Scope(req[c])
    BY <1>k, <1>m, <2>1, AtOwn, OwnVM
  <2>3. ASSUME NEW v \in VMs, v = req[c].vm PROVE Rest(v)'
    <3>1. ~Exists(v)' /\ dockerAvail' /\ \A s \in Hosted(v) : ~service'[s].there
      BY <1>b, <1>u, <2>1, <2>3, AtBuild DEF store, Exists
    <3>2. restarts = 0 => Bare(v)' /\ \A s \in Hosted(v) : NeverStarted(s)'
      BY <1>b, <2>1, <2>3, AtBuild, NetworkGoes DEF Bare, NeverStarted
    <3> QED
      BY <1>u, <3>1, <3>2 DEF Rest
  <2>4. Local(c)
    BY <2>1, <2>2, OwnLocal DEF NetworkRemove, store
  <2> QED
    BY <1>m, <1>u, <2>1, <2>3, <2>4, OwnEnds
<1>14. CASE StoreVM(c)
  <2>1. /\ req[c].at = "store" /\ record' = [record EXCEPT ![req[c].vm] = req[c].held] /\ Goto(c, "index")
        /\ UNCHANGED <<groups, index, service, container, network>>
    BY <1>14 DEF StoreVM, docker
  <2>2. req[c].vm \in VMs /\ req[c].vm \in Scope(req[c]) /\ Phase(c, req[c].vm)
    BY <1>k, <1>m, <2>1, AtOwn, OwnVM
  <2>3. ASSUME NEW v \in VMs, v = req[c].vm PROVE Phase(c, v)'
    <3>1. req'[c].at = "index" /\ req'[c].group = None /\ req'[c].at \notin DockerPoints \cup ListPoints \cup LastPoints \cup DropPoints
      BY <1>b, <2>1, <2>3, Gone, AtBuild DEF DockerPoints, ListPoints, LastPoints, DropPoints
    <3>2. record'[v] = req[c].held /\ Exists(v)'
      BY <1>0, <1>b, <2>1, <2>3, AtBuild DEF Exists
    <3>3. /\ dockerAvail => Standing(v)'
          /\ GroupOf[v] \in groups'
          /\ \A s \in Hosted(v) : ~service'[s].there
          /\ restarts = 0 => (~dockerAvail => Cleared(v)') /\ \A s \in Hosted(v) : NeverStarted(s)'
      BY <1>b, <2>1, <2>3, <3>2, AtBuild DEF Standing, Present, Cleared, Bare, NeverStarted
    <3> QED
      BY <1>u, <3>1, <3>2, <3>3 DEF Phase, Backed, Homed, Emptied, Making, Recorded, Removed
  <2>4. Local(c)
    BY <2>1, <2>2, OwnLocal
  <2> QED
    BY <1>m, <1>u, <2>1, <2>3, <2>4, OwnGoesOn
<1>15. CASE IndexSecret(c)
  <2>1. /\ req[c].at = "index" /\ index' = [index EXCEPT ![req[c].held] = req[c].vm] /\ Finish(c)
        /\ UNCHANGED <<groups, record, service, container, network>>
    BY <1>15 DEF IndexSecret, docker
  <2>2. req[c].vm \in VMs /\ req[c].vm \in Scope(req[c]) /\ Phase(c, req[c].vm) /\ Old(c) /\ req[c].group = None
    BY <1>k, <1>m, <2>1, AtOwn, OwnVM
  <2>3. req[c].held # 0 /\ record[req[c].vm] = req[c].held /\ req[c].held \in Secrets
    BY <1>0, <2>1, <2>2, About DEF Old, OldPoints, Typed, Secrets
  <2>4. index'[req[c].held] = req[c].vm
    BY <2>1, <2>3 DEF Typed, StoreType
  <2>5. ASSUME NEW v \in VMs, v = req[c].vm PROVE Rest(v)'
    <3>0. /\ ~Removing(req[c]) /\ Unplaced(req[c]) = {} /\ req[c].at \notin BuildPoints \cup {"unnet", "record"}
      BY <2>1 DEF Removing, DropPoints, LastPoints, Unplaced, BuildPoints
    <3>1. /\ Exists(v) /\ index'[record[v]] = v /\ GroupOf[v] \in groups
          /\ dockerAvail => Standing(v) /\ \A s \in Hosted(v) : service[s].there => Placement(s)
          /\ restarts = 0 => (~dockerAvail => Cleared(v)) /\ \A s \in Hosted(v) : service[s].there \/ NeverStarted(s)
      BY <2>2, <2>3, <2>4, <2>5, <3>0 DEF Exists, Phase, Backed, Homed, Recorded
    <3>2. /\ Exists(v)' /\ index'[record'[v]] = v /\ GroupOf[v] \in groups'
          /\ dockerAvail => Standing(v)' /\ \A s \in Hosted(v) : service'[s].there => Placement(s)'
          /\ restarts = 0 => (~dockerAvail => Cleared(v)') /\ \A s \in Hosted(v) : service'[s].there \/ NeverStarted(s)'
      BY <2>1, <3>1 DEF Exists, Standing, Placement, Cleared, Bare, NeverStarted, Present
    <3> QED
      BY <1>u, <3>2 DEF Rest
  <2>6. Local(c)
    BY <2>1, <2>2, OwnLocal
  <2> QED
    BY <1>m, <1>u, <2>1, <2>5, <2>6, OwnEnds
<1> HIDE DEF At
<1> QED
  BY <1>1, <1>2, <1>3, <1>4, <1>5, <1>6, <1>7, <1>8, <1>9, <1>10, <1>11, <1>12, <1>13, <1>14, <1>15, <1>u DEF Putting

-----------------------------------------------------------------------------
(* Power actions.                                                          *)
LEMMA StoppedRest ==
  ASSUME NEW v \in VMs, Rest(v), \A n \in {v} \cup Hosted(v) : Same(n),
         UNCHANGED <<record, index, service, groups, network, dockerAvail, restarts>>
  PROVE  Rest(v)'
BY RestStays DEF Alike

LEMMA StartedRest ==
  ASSUME NEW v \in VMs, Rest(v), Exists(v), dockerAvail, NEW n, n = v \/ (n \in Hosted(v) /\ service[n].there), OnlyAt(n),
         v \in Names, Hosted(v) \subseteq Names,
         Present(n)', container'[n].port = container[n].port, container'[n].tag = container[n].tag,
         UNCHANGED <<record, index, service, groups, network, dockerAvail, restarts>>
  PROVE  Rest(v)'
<1>h. \A s \in Hosted(v) : HostOf[s] = v /\ s # v
  BY DockerNamesAssumption DEF Hosted
<1>1. /\ Standing(v) /\ index[record[v]] = v /\ GroupOf[v] \in groups
      /\ \A s \in Hosted(v) : service[s].there => Placement(s)
      /\ restarts = 0 => \A s \in Hosted(v) : service[s].there \/ NeverStarted(s)
  BY DEF Rest
<1>2. Standing(v)'
  BY <1>1 DEF Standing, OnlyAt, Present
<1>3. \A s \in Hosted(v) : service'[s].there => Placement(s)'
  BY <1>h, <1>1 DEF Placement, OnlyAt, Present
<1>4. restarts' = 0 => \A s \in Hosted(v) : service'[s].there \/ NeverStarted(s)'
  BY <1>h, <1>1 DEF OnlyAt, NeverStarted
<1> QED
  BY <1>1, <1>2, <1>3, <1>4 DEF Rest, Exists

(* A request that found the VM, and docker, at its work.                   *)
LEMMA AtPowerAction ==
  ASSUME Typed, Grouped, Secret, Shape, NEW c \in Clients, req[c].at \in ListPoints \cup {"powerList"}, NEW v \in VMs, v = req[c].vm
  PROVE  /\ v \in Names /\ Hosted(v) \subseteq Names /\ v \in Scope(req[c]) /\ req[c].group = None
         /\ Rest(v) /\ Exists(v) /\ dockerAvail
         /\ req[c].at \in ListPoints => \A s \in req[c].listed \cup req[c].todo : s \in Hosted(v) /\ service[s].there
<1>m. /\ req[c].at \in VMPoints \ (TokenPoints \cup DropPoints)
      /\ req[c].at \in RestPoints /\ req[c].at \in DockerPoints /\ req[c].at \in OldPoints
  BY DEF ListPoints, VMPoints, MachinePoints, PowerPoints, TokenPoints, DropPoints, RestPoints, DockerPoints, OldPoints
<1>1. Phase(c, v) /\ Old(c) /\ req[c].group = None /\ v \in Scope(req[c])
  BY <1>m, AtOwn, OwnVM
<1>2. Rest(v) /\ Exists(v) /\ dockerAvail
  BY <1>m, <1>1, AtRest DEF Old, Exists, Phase, Making
<1>3. req[c].at \in ListPoints => \A s \in req[c].listed \cup req[c].todo : s \in Hosted(v) /\ service[s].there
  BY <1>1 DEF Phase, Making
<1> QED
  BY <1>1, <1>2, <1>3, DockerNamesAssumption DEF Hosted

LEMMA PoweringMeets ==
  ASSUME Typed, Grouped, Secret, Shape, cast.serialised, NEW c \in Clients, Powering(c)
  PROVE  Local(c) /\ Meets(c) /\ UNCHANGED <<dockerAvail, restarts>>
<1> USE DEF At
<1>0. DockerTypeOK /\ req[c] \in Request
  BY About DEF Typed
<1>u. UNCHANGED <<record, index, service, groups, network, dockerAvail, restarts>>
  BY DEF Powering, PowerAction, PowerLists, PowerDecides, StopService, StartService, StopVM, StartVM, PowerDone, store, docker, fixed, bounds
<1>m. /\ ListPoints = {"decide", "stopServices", "startVM", "startServices"} /\ "powerList" \notin ListPoints
      /\ ListPoints \cup {"powerList", "writeback"} \subseteq RestPoints
      /\ ListPoints \cup {"powerList", "writeback"} \subseteq VMPoints \ (TokenPoints \cup DropPoints)
      /\ "writeback" \notin ListPoints \cup DockerPoints
      /\ "resolve" \notin ListPoints \cup {"powerList", "writeback"}
  BY DEF ListPoints, VMPoints, MachinePoints, PowerPoints, TokenPoints, DropPoints, RestPoints, DockerPoints
<1>f. UNCHANGED container => Frozen
  BY <1>u DEF Frozen
<1>1. ASSUME NEW v \in VMs, NEW action \in {"start", "powerOff", "restart"}, PowerAction(c, v, action) PROVE Local(c) /\ Meets(c)
  <2> DEFINE r == [VMRequest(v, "powerList") EXCEPT !.action = action]
  <2>1. req'[c] = r /\ Begun(c) /\ dockerAvail /\ UNCHANGED container
    BY <1>1, Began DEF PowerAction, docker
  <2>2. r.at = "powerList" /\ r.vm = v /\ r.who = None /\ r.group = None
    BY DEF VMRequest, NoRequest
  <2> HIDE DEF r
  <2> QED
    BY <1>f, <1>m, <2>1, <2>2, MeetsFirst DEF Calls
<1>2. CASE PowerLists(c)
  <2> DEFINE r == [req[c] EXCEPT !.at = "decide", !.listed = ServiceRecords(req[c].vm), !.todo = ServiceRecords(req[c].vm)]
  <2>1. req'[c] = r /\ req[c].at = "powerList" /\ UNCHANGED container
    BY <1>2, Became DEF PowerLists, docker
  <2>2. /\ r.at = "decide" /\ r.vm = req[c].vm /\ r.who = req[c].who /\ r.group = req[c].group
        /\ r.listed = ServiceRecords(req[c].vm) /\ r.todo = ServiceRecords(req[c].vm)
    BY <1>0 DEF Request
  <2> HIDE DEF r
  <2>3. \A s \in ServiceRecords(req[c].vm) : s \in Hosted(req[c].vm) /\ service[s].there
    BY DEF ServiceRecords
  <2>4. req[c].vm \in VMs /\ req[c].group = None /\ dockerAvail
    BY <1>m, <2>1, AtOwn, AtPowerAction
  <2>5. Calls(c, req[c].vm)
    BY <1>m, <2>1, <2>2, <2>3, <2>4 DEF Calls
  <2> QED
    BY <1>f, <1>m, <1>u, <2>1, <2>2, <2>5, MeetsNext
<1>3. CASE PowerDecides(c)
  <2>1. /\ req[c].at = "decide" /\ UNCHANGED container
    BY <1>3 DEF PowerDecides, docker
  <2>a. req[c].action \in {"start", "powerOff", "restart"}
    BY <2>1, About DEF PowerPoints, Typed
  <2>b. PICK p \in {"writeback", "startVM", "stopServices"} : Goto(c, p)
    BY <1>3, <2>a DEF PowerDecides
  <2>2. req[c].vm \in VMs /\ req[c].group = None /\ dockerAvail
    BY <1>m, <2>1, AtOwn, AtPowerAction
  <2>3. \A s \in req[c].listed \cup req[c].todo : s \in Hosted(req[c].vm) /\ service[s].there
    BY <1>m, <2>1, <2>2, AtPowerAction
  <2>4. /\ req'[c].at = p /\ req'[c].vm = req[c].vm /\ req'[c].who = req[c].who /\ req'[c].group = req[c].group
        /\ req'[c].listed = req[c].listed /\ req'[c].todo = req[c].todo
    BY <2>b, Gone
  <2>5. Calls(c, req[c].vm)
    BY <1>m, <2>2, <2>3, <2>4 DEF Calls
  <2> QED
    BY <1>f, <1>m, <1>u, <2>1, <2>4, <2>5, MeetsNext
<1>4. ASSUME NEW s \in Services, StopService(c, s) PROVE Local(c) /\ Meets(c)
  <2> DEFINE r == [req[c] EXCEPT !.todo = @ \ {s}]
  <2>1. req'[c] = r /\ req[c].at = "stopServices" /\ Stop(s) /\ s \in req[c].todo
    BY <1>4, Became DEF StopService
  <2>2. /\ r.at = req[c].at /\ r.vm = req[c].vm /\ r.who = req[c].who /\ r.group = req[c].group
        /\ r.listed = req[c].listed /\ r.todo \subseteq req[c].todo
    BY <1>0 DEF Request
  <2> HIDE DEF r
  <2>3. PICK v \in VMs : v = req[c].vm
    BY <1>m, <2>1, AtOwn
  <2>4. /\ v \in Scope(req[c]) /\ req[c].group = None /\ dockerAvail /\ Rest(v) /\ v \in Names /\ Hosted(v) \subseteq Names
        /\ \A t \in req[c].listed \cup req[c].todo : t \in Hosted(v) /\ service[t].there
    BY <1>m, <2>1, <2>3, AtPowerAction
  <2>5. s \in Names /\ OnlyAt(s) /\ Same(s)
    BY <1>0, <2>1, <2>4, Commands
  <2>6. \A n \in {v} \cup Hosted(v) : Same(n)
    BY <2>4, <2>5, SameContainer DEF OnlyAt
  <2>7. Rest(v)'
    BY <1>u, <2>4, <2>6, StoppedRest
  <2>8. Calls(c, v)
    BY <1>m, <2>1, <2>2, <2>4 DEF Calls
  <2>9. Local(c)
    BY <1>u, <2>1, <2>3, <2>4, <2>5, OwnLocal
  <2> QED
    BY <1>m, <1>u, <2>1, <2>2, <2>3, <2>7, <2>8, <2>9, MeetsOn
<1>5. CASE StopVM(c)
  <2>1. req[c].at = "stopServices" /\ Stop(req[c].vm)
    BY <1>5 DEF StopVM
  <2>2. PICK v \in VMs : v = req[c].vm
    BY <1>m, <2>1, AtOwn
  <2>3. /\ v \in Scope(req[c]) /\ req[c].group = None /\ dockerAvail /\ Rest(v) /\ v \in Names /\ Hosted(v) \subseteq Names
        /\ \A t \in req[c].listed \cup req[c].todo : t \in Hosted(v) /\ service[t].there
    BY <1>m, <2>1, <2>2, AtPowerAction
  <2>4. OnlyAt(v) /\ Same(v)
    BY <1>0, <2>1, <2>2, <2>3, Commands
  <2>5. \A n \in {v} \cup Hosted(v) : Same(n)
    BY <2>3, <2>4, SameContainer DEF OnlyAt
  <2>6. Rest(v)'
    BY <1>u, <2>3, <2>5, StoppedRest
  <2>7. Local(c)
    BY <1>u, <2>2, <2>3, <2>4, OwnLocal
  <2>8. ASSUME NEW p \in {"startVM", "writeback"}, Goto(c, p) PROVE Meets(c)
    <3>1. /\ req'[c].at = p /\ req'[c].vm = req[c].vm /\ req'[c].who = req[c].who /\ req'[c].group = req[c].group
          /\ req'[c].listed = req[c].listed /\ req'[c].todo = req[c].todo
      BY <2>8, Gone
    <3>2. Calls(c, v)
      BY <1>m, <2>3, <3>1 DEF Calls
    <3> QED
      BY <1>m, <1>u, <2>1, <2>2, <2>6, <3>1, <3>2, MeetsOn
  <2>9. Finish(c) => Meets(c)
    BY <1>m, <2>1, <2>2, <2>6, OwnEnds
  <2> QED
    BY <1>5, <1>u, <2>7, <2>8, <2>9 DEF StopVM
<1>6. CASE StartVM(c)
  <2>1. /\ req[c].at = "startVM"
        /\ \/ Start(req[c].vm) /\ Become(c, [req[c] EXCEPT !.at = "startServices", !.todo = req[c].listed])
           \/ Finish(c) /\ UNCHANGED container
    BY <1>6 DEF StartVM
  <2>2. PICK v \in VMs : v = req[c].vm
    BY <1>m, <2>1, AtOwn
  <2>3. /\ v \in Scope(req[c]) /\ req[c].group = None /\ dockerAvail /\ Rest(v) /\ Exists(v) /\ v \in Names /\ Hosted(v) \subseteq Names
        /\ \A t \in req[c].listed \cup req[c].todo : t \in Hosted(v) /\ service[t].there
    BY <1>m, <2>1, <2>2, AtPowerAction
  <2>4. CASE Finish(c) /\ UNCHANGED container
    BY <1>f, <1>m, <1>u, <2>1, <2>2, <2>3, <2>4, OwnEnds, FrozenRest, FrozenLocal
  <2>5. CASE Start(v) /\ Become(c, [req[c] EXCEPT !.at = "startServices", !.todo = req[c].listed])
    <3> DEFINE r == [req[c] EXCEPT !.at = "startServices", !.todo = req[c].listed]
    <3>1. req'[c] = r
      BY <2>5, Became
    <3>2. /\ r.at = "startServices" /\ r.vm = req[c].vm /\ r.who = req[c].who /\ r.group = req[c].group
          /\ r.listed = req[c].listed /\ r.todo = req[c].listed
      BY <1>0 DEF Request
    <3> HIDE DEF r
    <3>3. OnlyAt(v) /\ Present(v)' /\ container'[v].port = container[v].port /\ container'[v].tag = container[v].tag
      BY <1>0, <2>3, <2>5, Commands
    <3>4. Rest(v)'
      BY <1>u, <2>3, <3>3, StartedRest
    <3>5. Calls(c, v)
      BY <1>m, <2>3, <3>1, <3>2 DEF Calls
    <3>6. Local(c)
      BY <1>u, <2>2, <2>3, <3>3, OwnLocal
    <3> QED
      BY <1>m, <1>u, <2>1, <2>2, <3>1, <3>2, <3>4, <3>5, <3>6, MeetsOn
  <2> QED
    BY <2>1, <2>2, <2>4, <2>5
<1>7. ASSUME NEW s \in Services, StartService(c, s) PROVE Local(c) /\ Meets(c)
  <2> DEFINE r == [req[c] EXCEPT !.todo = @ \ {s}]
  <2>1. req'[c] = r /\ req[c].at = "startServices" /\ s \in req[c].todo /\ (Start(s) \/ UNCHANGED container)
    BY <1>7, Became DEF StartService
  <2>2. /\ r.at = req[c].at /\ r.vm = req[c].vm /\ r.who = req[c].who /\ r.group = req[c].group
        /\ r.listed = req[c].listed /\ r.todo \subseteq req[c].todo
    BY <1>0 DEF Request
  <2> HIDE DEF r
  <2>3. PICK v \in VMs : v = req[c].vm
    BY <1>m, <2>1, AtOwn
  <2>4. /\ v \in Scope(req[c]) /\ req[c].group = None /\ dockerAvail /\ Rest(v) /\ Exists(v) /\ v \in Names /\ Hosted(v) \subseteq Names
        /\ \A t \in req[c].listed \cup req[c].todo : t \in Hosted(v) /\ service[t].there
    BY <1>m, <2>1, <2>3, AtPowerAction
  <2>5. \/ UNCHANGED container
        \/ OnlyAt(s) /\ Present(s)' /\ container'[s].port = container[s].port /\ container'[s].tag = container[s].tag
    BY <1>0, <2>1, <2>4, Commands
  <2>7. Rest(v)'
    BY <1>f, <1>u, <2>1, <2>4, <2>5, StartedRest, FrozenRest
  <2>8. Calls(c, v)
    BY <1>m, <2>1, <2>2, <2>4 DEF Calls
  <2>9. Local(c)
    BY <1>u, <2>1, <2>3, <2>4, <2>5, OwnLocal
  <2> QED
    BY <1>m, <1>u, <2>1, <2>2, <2>3, <2>7, <2>8, <2>9, MeetsOn
<1>8. CASE PowerDone(c)
  <2>1. req[c].at = "startServices" /\ Goto(c, "writeback") /\ UNCHANGED container
    BY <1>8 DEF PowerDone, docker
  <2>2. req'[c].at = "writeback" /\ req'[c].vm = req[c].vm /\ req'[c].who = req[c].who /\ req'[c].group = req[c].group
    BY <2>1, Gone
  <2>3. req[c].group = None
    BY <1>m, <2>1, AtOwn
  <2>4. Calls(c, req[c].vm)
    BY <1>m, <2>2, <2>3 DEF Calls
  <2> QED
    BY <1>f, <1>m, <1>u, <2>1, <2>2, <2>4, MeetsNext
<1> HIDE DEF At
<1> QED
  BY <1>1, <1>2, <1>3, <1>4, <1>5, <1>6, <1>7, <1>8, <1>u DEF Powering

-----------------------------------------------------------------------------
(* Services.  A VM at rest, but for one service that a request is at.      *)
RestBut(v, s) ==
    /\ Exists(v) => /\ dockerAvail => Standing(v) /\ \A t \in Hosted(v) \ {s} : service[t].there => Placement(t)
                    /\ index[record[v]] = v
                    /\ GroupOf[v] \in groups
    /\ ~Exists(v) => \A t \in Hosted(v) : ~service[t].there
    /\ restarts = 0 => /\ ~Exists(v) => Bare(v)
                       /\ \A t \in Hosted(v) \ {s} : service[t].there \/ NeverStarted(t)
                       /\ ~dockerAvail => Cleared(v)
InFlight(c, s) == /\ req[c].at = "record" => Present(s) /\ container[s].port = req[c].port /\ container[s].tag = req[c].held
                  /\ restarts = 0 /\ req[c].at # "record" => NeverStarted(s)
                  /\ req[c].at # "svcDrop" => dockerAvail
WorkPoints == {"launch", "unrecord", "record", "svcDrop"}

LEMMA RestIsBut ==
  ASSUME NEW v \in VMs, NEW s \in Hosted(v), Rest(v)
  PROVE  RestBut(v, s)
BY DEF Rest, RestBut

LEMMA ButIsRest ==
  ASSUME NEW v \in VMs, NEW s \in Hosted(v), RestBut(v, s), service[s].there /\ Exists(v) /\ dockerAvail => Placement(s),
         restarts = 0 => service[s].there \/ NeverStarted(s)
  PROVE  Rest(v)
BY DEF Rest, RestBut

LEMMA ButStays ==
  ASSUME NEW v \in VMs, NEW s \in Hosted(v), RestBut(v, s), Hosted(v) \subseteq Names, v \in Names,
         OnlyAt(s) \/ UNCHANGED container, \A t \in Services \ {s} : service'[t] = service[t],
         service'[s] = service[s] \/ ~service'[s].there \/ Exists(v),
         dockerAvail \/ UNCHANGED container \/ NeverStarted(s)',
         UNCHANGED <<record, index, groups, network, dockerAvail, restarts>>
  PROVE  RestBut(v, s)'
<1>h. /\ \A t \in Hosted(v) : HostOf[t] = v /\ t # v /\ t \in Services
      /\ s # v
  BY DockerNamesAssumption DEF Hosted
<1>1. /\ Exists(v)' <=> Exists(v)
      /\ Standing(v)' <=> Standing(v)
      /\ Bare(v)' <=> Bare(v)
  BY <1>h DEF Exists, Standing, Present, OnlyAt, Bare, NeverStarted
<1>2. \A t \in Hosted(v) \ {s} : (Placement(t)' <=> Placement(t)) /\ (NeverStarted(t)' <=> NeverStarted(t))
  BY <1>h DEF Placement, Present, OnlyAt, NeverStarted
<1>3. ~dockerAvail /\ Cleared(v) => Cleared(v)'
  BY <1>1, <1>2 DEF Cleared, NeverStarted
<1> QED
  BY <1>h, <1>1, <1>2, <1>3 DEF RestBut

LEMMA PhaseAtWork ==
  ASSUME NEW c \in Clients, NEW v \in VMs, NEW s \in Hosted(v), req[c].at \in WorkPoints, req[c].group = None, req[c].svc = s, Phase(c, v)
  PROVE  RestBut(v, s) /\ InFlight(c, s)
<1>m. /\ ~Removing(req[c]) /\ Unplaced(req[c]) = {s}
      /\ req[c].at \notin BuildPoints \cup {"index", "rgServices", "unnet"}
      /\ req[c].at # "svcDrop" => req[c].at \in DockerPoints
  BY DEF WorkPoints, Removing, Unplaced, BuildPoints, DropPoints, LastPoints, DockerPoints
<1>1. RestBut(v, s)
  BY <1>m DEF Phase, Backed, Homed, Emptied, Recorded, RestBut
<1>2. restarts = 0 /\ req[c].at # "record" => NeverStarted(s)
  BY DEF Phase, Recorded, WorkPoints
<1> QED
  BY <1>m, <1>1, <1>2 DEF Phase, Making, InFlight

LEMMA WorkIsPhase ==
  ASSUME NEW c \in Clients, NEW v \in VMs, NEW s \in Hosted(v), req'[c].at \in WorkPoints, req'[c].group = None, req'[c].svc = s,
         RestBut(v, s)', InFlight(c, s)'
  PROVE  Phase(c, v)'
<1>m. /\ Unplaced(req'[c]) = {s}
      /\ req'[c].at \notin BuildPoints \cup {"index", "rgServices", "resolve", "unnet", "delServices", "delNet", "delSecret", "delKey",
                                              "rgIdentities", "rgNext", "idle", "stale", "run", "network", "store"}
                          \cup LastPoints \cup DropPoints \cup ListPoints
      /\ req'[c].at # "svcDrop" <=> req'[c].at \in DockerPoints
  BY DEF WorkPoints, Unplaced, BuildPoints, DropPoints, LastPoints, ListPoints, DockerPoints
<1>1. Backed(c, v)' /\ Homed(c, v)' /\ Emptied(c, v)'
  BY <1>m DEF Backed, Homed, Emptied, RestBut
<1>2. Making(c, v)'
  BY <1>m DEF Making, InFlight
<1>3. restarts' = 0 => Recorded(c, v)'
  BY <1>m DEF Recorded, RestBut, InFlight
<1>4. restarts' = 0 => Removed(c, v)'
  BY <1>m DEF Removed
<1> QED
  BY <1>1, <1>2, <1>3, <1>4 DEF Phase

(* What a request finds that is at a service.                              *)
LEMMA AtWork ==
  ASSUME Typed, Grouped, Secret, Shape, NEW c \in Clients, req[c].at \in WorkPoints \cup {"unplace", "svcRemove"}
  PROVE  \E v \in VMs, s \in Services :
            /\ v = req[c].vm /\ s = req[c].svc /\ s \in Hosted(v)
            /\ v \in Scope(req[c]) /\ req[c].group = None
            /\ v \in Names /\ Hosted(v) \subseteq Names
            /\ RestBut(v, s)
            /\ req[c].at \in WorkPoints => InFlight(c, s)
            /\ req[c].at \notin {"svcDrop", "svcRemove"} => Exists(v) /\ record[v] = req[c].held /\ dockerAvail
<1> DEFINE v == req[c].vm
           s == req[c].svc
<1>m. /\ req[c].at \in VMPoints \ (TokenPoints \cup DropPoints)
      /\ req[c].at \in ServicePoints
      /\ req[c].at \in {"unplace", "svcRemove"} => req[c].at \in RestPoints
      /\ req[c].at = "unplace" => req[c].at \in DockerPoints
      /\ req[c].at \notin {"svcDrop", "svcRemove"} => req[c].at \in OldPoints
  BY DEF WorkPoints, VMPoints, ServicePoints, TokenPoints, DropPoints, OldPoints, RestPoints, DockerPoints
<1>1. v \in VMs /\ Phase(c, v) /\ Old(c) /\ req[c].group = None /\ v \in Scope(req[c]) /\ v \in Names
  BY <1>m, AtOwn, OwnVM
<1>2. s \in Services /\ HostOf[s] = v
  BY <1>m, About DEF Typed
<1>3. s \in Hosted(v) /\ Hosted(v) \subseteq Names
  BY <1>2, DockerNamesAssumption DEF Hosted
<1>4. RestBut(v, s) /\ (req[c].at \in WorkPoints => InFlight(c, s))
  BY <1>1, <1>3, <1>m, AtRest, RestIsBut, PhaseAtWork
<1>5. req[c].at \notin {"svcDrop", "svcRemove"} => Exists(v) /\ record[v] = req[c].held /\ dockerAvail
  BY <1>1, <1>m, <1>4 DEF Old, Exists, Phase, Making, InFlight
<1> QED
  BY <1>1, <1>2, <1>3, <1>4, <1>5

(* And what it must leave to go on there.                                  *)
LEMMA WorkGoesOn ==
  ASSUME Typed, Grouped, NEW c \in Clients, req[c].at \in WorkPoints \cup {"unplace", "svcRemove"}, NEW p \in WorkPoints, Goto(c, p),
         req[c].group = None, NEW v \in VMs, NEW s \in Hosted(v), v = req[c].vm, s = req[c].svc, RestBut(v, s)', InFlight(c, s)'
  PROVE  Meets(c)
<1>m. /\ req[c].at \in VMPoints \ (TokenPoints \cup DropPoints) /\ p \notin TokenPoints
  BY DEF WorkPoints, VMPoints, ServicePoints, TokenPoints, DropPoints
<1>1. req'[c].at \in WorkPoints /\ req'[c].group = None /\ req'[c].svc = s
  BY Gone
<1>2. Phase(c, v)'
  BY <1>1, WorkIsPhase
<1> QED
  BY <1>m, <1>2, OwnGoesOn

LEMMA DeployingMeets ==
  ASSUME Typed, Grouped, Secret, Shape, Placed, cast.serialised, NEW c \in Clients, Deploying(c)
  PROVE  Local(c) /\ Meets(c) /\ UNCHANGED <<dockerAvail, restarts>>
<1> USE DEF At
<1>0. DockerTypeOK /\ req[c] \in Request /\ service \in [Services -> [port : Ports \cup {NoPort}, there : BOOLEAN]]
  BY About DEF Typed, StoreType
<1>u. UNCHANGED <<record, index, groups, network, dockerAvail, restarts>>
  BY DEF Deploying, GetService, DeleteService, DeployService, DeployInspects, DeployComparesPorts, DeployLooksItselfUp, DeployReplaces,
         DeployRuns, DeployRunFails, DeployForgets, DeployRecords, ServiceWritesBack, ServiceRemoved, ServiceDropped, ServiceNoted,
         store, docker, fixed, bounds
<1>f. UNCHANGED <<container, service>> => Frozen
  BY <1>u DEF Frozen
<1>m. /\ {"inspect", "siblings", "own", "unplace", "svcWriteback", "svcRemove", "svcVM"} \subseteq RestPoints
      /\ {"inspect", "siblings", "own", "unplace"} \subseteq DockerPoints
      /\ {"inspect", "siblings", "own", "unplace", "launch", "unrecord", "record", "svcWriteback", "svcRemove", "svcDrop", "svcVM"}
            \subseteq VMPoints \ (TokenPoints \cup DropPoints)
      /\ {"inspect", "siblings", "own", "unplace", "launch", "svcWriteback", "svcRemove", "svcDrop", "svcVM", "writeback"} \cap ListPoints = {}
      /\ {"svcWriteback", "svcRemove", "svcDrop", "svcVM", "writeback"} \cap DockerPoints = {}
      /\ "writeback" \in RestPoints
      /\ {"launch", "unrecord", "record", "svcDrop"} = WorkPoints
  BY DEF RestPoints, DockerPoints, VMPoints, ServicePoints, TokenPoints, DropPoints, ListPoints, WorkPoints
<1>h. \A s \in Services : HostOf[s] \in VMs /\ s \in Hosted(HostOf[s])
  BY PlacesAssumption DEF Hosted
<1>1. ASSUME NEW s \in Services, GetService(c, s) PROVE Local(c) /\ Meets(c)
  <2> DEFINE r == [ServiceRequest(s, "svcWriteback") EXCEPT !.port = service[s].port]
  <2>1. req'[c] = r /\ Begun(c) /\ UNCHANGED <<container, service>>
    BY <1>1, Began DEF GetService, docker, store
  <2>2. r.at = "svcWriteback" /\ r.vm = HostOf[s] /\ r.who = None /\ r.group = None
    BY DEF ServiceRequest, VMRequest, NoRequest
  <2> HIDE DEF r
  <2>3. Calls(c, HostOf[s])
    BY <1>m, <2>1, <2>2 DEF Calls
  <2> QED
    BY <1>f, <1>h, <2>1, <2>2, <2>3, MeetsFirst
<1>2. ASSUME NEW s \in Services, DeleteService(c, s) PROVE Local(c) /\ Meets(c)
  <2> DEFINE p == IF dockerAvail THEN "svcRemove" ELSE "svcDrop"
             r == ServiceRequest(s, p)
  <2>1. req'[c] = r /\ Begun(c) /\ UNCHANGED <<container, service>>
    BY <1>2, Began DEF DeleteService, docker, store
  <2>2. r.at = p /\ r.vm = HostOf[s] /\ r.who = None /\ r.group = None /\ r.svc = s
    BY DEF ServiceRequest, VMRequest, NoRequest
  <2>3. p \in {"svcRemove", "svcDrop"} /\ (p = "svcDrop" => ~dockerAvail)
    OBVIOUS
  <2> HIDE DEF r, p
  <2>4. Calls(c, HostOf[s])
    BY <1>h, <1>m, <2>1, <2>2, <2>3 DEF Calls
  <2> QED
    BY <1>f, <1>h, <2>1, <2>2, <2>4, MeetsFirst
<1>3. ASSUME NEW s \in Services, NEW port \in PortsOf[s], DeployService(c, s, port) PROVE Local(c) /\ Meets(c)
  <2> DEFINE r == [ServiceRequest(s, "inspect") EXCEPT !.port = port]
  <2>1. req'[c] = r /\ Begun(c) /\ UNCHANGED <<container, service>> /\ dockerAvail
    BY <1>3, Began DEF DeployService, docker, store
  <2>2. r.at = "inspect" /\ r.vm = HostOf[s] /\ r.who = None /\ r.group = None
    BY DEF ServiceRequest, VMRequest, NoRequest
  <2> HIDE DEF r
  <2>3. Calls(c, HostOf[s])
    BY <1>m, <2>1, <2>2 DEF Calls
  <2> QED
    BY <1>f, <1>h, <2>1, <2>2, <2>3, MeetsFirst
<1>g. ASSUME req[c].at \in {"inspect", "siblings", "own"}, UNCHANGED <<container, service>>,
             \/ Finish(c)
             \/ \E p \in {"siblings", "own", "unplace", "launch"} : Goto(c, p) /\ (p = "launch" => ~service[req[c].svc].there)
      PROVE  Local(c) /\ Meets(c)
  <2>1. CASE Finish(c)
    BY <1>f, <1>g, <1>m, <2>1, Ended, MeetsLast
  <2>2. ASSUME NEW p \in {"siblings", "own", "unplace", "launch"}, Goto(c, p), p = "launch" => ~service[req[c].svc].there PROVE Local(c) /\ Meets(c)
    <3>1. req[c].vm \in VMs /\ req[c].group = None /\ Phase(c, req[c].vm)
      BY <1>g, <1>m, AtOwn
    <3>2. dockerAvail
      BY <1>g, <1>m, <3>1 DEF Phase, Making
    <3>3. req[c].svc \in Hosted(req[c].vm)
      BY <1>g, About DEF Typed, Hosted, ServicePoints
    <3>4. /\ req'[c].at = p /\ req'[c].vm = req[c].vm /\ req'[c].who = req[c].who /\ req'[c].group = req[c].group /\ req'[c].svc = req[c].svc
      BY <2>2, Gone
    <3>5. Calls(c, req[c].vm)
      BY <1>m, <2>2, <3>1, <3>2, <3>3, <3>4 DEF Calls
    <3> QED
      BY <1>f, <1>g, <1>m, <3>4, <3>5, MeetsNext
  <2> QED
    BY <1>g, <2>1, <2>2
<1>4. CASE DeployInspects(c)
  BY <1>4, <1>g, <1>u DEF DeployInspects, docker, store
<1>5. CASE DeployComparesPorts(c)
  BY <1>5, <1>g, <1>u DEF DeployComparesPorts, docker, store
<1>6. CASE DeployLooksItselfUp(c)
  BY <1>6, <1>g, <1>u DEF DeployLooksItselfUp, docker, store
<1>7. CASE DeployReplaces(c)
  <2>1. req[c].at = "unplace" /\ Remove(req[c].svc) /\ Goto(c, "launch") /\ UNCHANGED service
    BY <1>7 DEF DeployReplaces, store
  <2>2. PICK v \in VMs, s \in Services :
            /\ v = req[c].vm /\ s = req[c].svc /\ s \in Hosted(v) /\ v \in Scope(req[c]) /\ req[c].group = None
            /\ v \in Names /\ Hosted(v) \subseteq Names
            /\ RestBut(v, s) /\ Exists(v) /\ dockerAvail
    BY <2>1, AtWork
  <2>3. OnlyAt(s) /\ NeverStarted(s)'
    BY <1>0, <2>1, <2>2, Commands
  <2>4. RestBut(v, s)'
    BY <1>u, <2>1, <2>2, <2>3, ButStays
  <2>5. InFlight(c, s)'
    BY <1>u, <2>1, <2>2, <2>3, Gone DEF InFlight
  <2>6. Meets(c)
    BY <1>m, <2>1, <2>2, <2>4, <2>5, WorkGoesOn
  <2> QED
    BY <1>u, <2>2, <2>3, <2>6, OwnLocal
<1>8. CASE DeployRuns(c)
  <2>1. req[c].at = "launch" /\ Run(req[c].svc, req[c].port, req[c].vm, req[c].held) /\ Goto(c, "record") /\ UNCHANGED service
    BY <1>8 DEF DeployRuns, store
  <2>2. PICK v \in VMs, s \in Services :
            /\ v = req[c].vm /\ s = req[c].svc /\ s \in Hosted(v) /\ v \in Scope(req[c]) /\ req[c].group = None
            /\ v \in Names /\ Hosted(v) \subseteq Names
            /\ RestBut(v, s) /\ Exists(v) /\ dockerAvail
    BY <1>m, <2>1, AtWork
  <2>3. OnlyAt(s) /\ Present(s)' /\ container'[s].port = req[c].port /\ container'[s].tag = req[c].held
    BY <1>0, <2>1, <2>2, Commands
  <2>4. RestBut(v, s)'
    BY <1>u, <2>1, <2>2, <2>3, ButStays
  <2>5. InFlight(c, s)'
    BY <1>u, <2>1, <2>2, <2>3, Gone DEF InFlight
  <2>6. Meets(c)
    BY <1>m, <2>1, <2>2, <2>4, <2>5, WorkGoesOn
  <2> QED
    BY <1>u, <2>2, <2>3, <2>6, OwnLocal
<1>9. CASE DeployRunFails(c)
  <2>1. req[c].at = "launch" /\ Goto(c, "unrecord") /\ UNCHANGED service
    BY <1>9 DEF DeployRunFails, store
  <2>2. PICK v \in VMs, s \in Services :
            /\ v = req[c].vm /\ s = req[c].svc /\ s \in Hosted(v) /\ v \in Scope(req[c]) /\ req[c].group = None
            /\ v \in Names /\ Hosted(v) \subseteq Names
            /\ RestBut(v, s) /\ InFlight(c, s) /\ Exists(v) /\ dockerAvail
    BY <1>m, <2>1, AtWork
  <2>3. UNCHANGED container \/ (OnlyAt(s) /\ NeverStarted(s)')
    BY <1>0, <1>9, <2>2, Commands DEF DeployRunFails, RunRefused
  <2>4. RestBut(v, s)'
    BY <1>u, <2>1, <2>2, <2>3, ButStays
  <2>5. restarts = 0 => NeverStarted(s)'
    BY <2>1, <2>2, <2>3 DEF InFlight, NeverStarted
  <2>6. InFlight(c, s)'
    BY <1>u, <2>1, <2>2, <2>5, Gone DEF InFlight
  <2>7. Meets(c)
    BY <1>m, <2>1, <2>2, <2>4, <2>6, WorkGoesOn
  <2> QED
    BY <1>u, <2>2, <2>3, <2>7, OwnLocal
<1>10. CASE DeployForgets(c)
  <2>1. req[c].at = "unrecord" /\ service' = [service EXCEPT ![req[c].svc] = Absent] /\ Finish(c) /\ UNCHANGED container
    BY <1>10 DEF DeployForgets, docker
  <2>2. PICK v \in VMs, s \in Services :
            /\ v = req[c].vm /\ s = req[c].svc /\ s \in Hosted(v) /\ v \in Scope(req[c])
            /\ v \in Names /\ Hosted(v) \subseteq Names
            /\ RestBut(v, s) /\ InFlight(c, s)
    BY <1>m, <2>1, AtWork
  <2>3. (\A t \in Services \ {s} : service'[t] = service[t]) /\ ~service'[s].there
    BY <1>0, <2>1, <2>2 DEF Absent
  <2>4. RestBut(v, s)' /\ (restarts = 0 => NeverStarted(s)')
    BY <1>u, <2>1, <2>2, <2>3, ButStays DEF InFlight, NeverStarted
  <2>5. Rest(v)'
    BY <1>u, <2>3, <2>4 DEF Rest, RestBut
  <2> QED
    BY <1>m, <1>u, <2>1, <2>2, <2>5, OwnLocal, OwnEnds
<1>11. CASE DeployRecords(c)
  <2>1. req[c].at = "record" /\ service' = [service EXCEPT ![req[c].svc] = Deployed(req[c].port)] /\ Goto(c, "writeback") /\ UNCHANGED container
    BY <1>11 DEF DeployRecords, docker
  <2>2. PICK v \in VMs, s \in Services :
            /\ v = req[c].vm /\ s = req[c].svc /\ s \in Hosted(v) /\ v \in Scope(req[c]) /\ req[c].group = None
            /\ v \in Names /\ Hosted(v) \subseteq Names
            /\ RestBut(v, s) /\ InFlight(c, s) /\ Exists(v) /\ record[v] = req[c].held /\ dockerAvail
    BY <1>m, <2>1, AtWork
  <2>3. (\A t \in Services \ {s} : service'[t] = service[t]) /\ service'[s].there /\ service'[s].port = req[c].port
    BY <1>0, <2>1, <2>2 DEF Deployed
  <2>4. RestBut(v, s)'
    BY <1>u, <2>1, <2>2, <2>3, ButStays
  <2>5. Placement(s)'
    BY <1>u, <2>1, <2>2, <2>3 DEF InFlight, Placement, Hosted, Present
  <2>6. Rest(v)'
    BY <2>3, <2>4, <2>5 DEF Rest, RestBut
  <2>7. req'[c].at = "writeback" /\ req'[c].group = None
    BY <2>1, <2>2, Gone
  <2>8. Phase(c, v)'
    BY <1>m, <2>6, <2>7 DEF Phase, Rest, Backed, Homed, Emptied, Making, Recorded, Removed, BuildPoints, LastPoints, DropPoints
  <2>9. "writeback" \notin TokenPoints
    BY DEF TokenPoints
  <2>10. Meets(c)
    BY <1>m, <2>1, <2>2, <2>8, <2>9, OwnGoesOn
  <2> QED
    BY <1>u, <2>1, <2>2, <2>10, OwnLocal
<1>12. CASE ServiceWritesBack(c)
  <2>1. req[c].at = "svcWriteback" /\ service' = [service EXCEPT ![req[c].svc] = Deployed(req[c].port)] /\ Finish(c) /\ UNCHANGED container
    BY <1>12 DEF ServiceWritesBack, docker
  <2>2. service[req[c].svc] = Deployed(req[c].port)
    BY <2>1 DEF Placed, Showing
  <2>3. UNCHANGED service
    BY <1>0, <2>1, <2>2
  <2> QED
    BY <1>f, <1>m, <1>u, <2>1, <2>3, Ended, MeetsLast
<1>13. CASE ServiceRemoved(c)
  <2>1. req[c].at = "svcRemove" /\ Remove(req[c].svc) /\ Goto(c, "svcDrop") /\ UNCHANGED service
    BY <1>13 DEF ServiceRemoved, store
  <2>2. PICK v \in VMs, s \in Services :
            /\ v = req[c].vm /\ s = req[c].svc /\ s \in Hosted(v) /\ v \in Scope(req[c]) /\ req[c].group = None
            /\ v \in Names /\ Hosted(v) \subseteq Names
            /\ RestBut(v, s)
    BY <2>1, AtWork
  <2>3. OnlyAt(s) /\ NeverStarted(s)'
    BY <1>0, <2>1, <2>2, Commands
  <2>4. RestBut(v, s)'
    BY <1>u, <2>1, <2>2, <2>3, ButStays
  <2>5. InFlight(c, s)'
    BY <1>u, <2>1, <2>2, <2>3, Gone DEF InFlight
  <2>6. Meets(c)
    BY <1>m, <2>1, <2>2, <2>4, <2>5, WorkGoesOn
  <2> QED
    BY <1>u, <2>2, <2>3, <2>6, OwnLocal
<1>14. CASE ServiceDropped(c)
  <2>1. req[c].at = "svcDrop" /\ service' = [service EXCEPT ![req[c].svc] = Absent] /\ Goto(c, "svcVM") /\ UNCHANGED container
    BY <1>14 DEF ServiceDropped, docker
  <2>2. PICK v \in VMs, s \in Services :
            /\ v = req[c].vm /\ s = req[c].svc /\ s \in Hosted(v) /\ v \in Scope(req[c]) /\ req[c].group = None
            /\ v \in Names /\ Hosted(v) \subseteq Names
            /\ RestBut(v, s) /\ InFlight(c, s)
    BY <1>m, <2>1, AtWork
  <2>3. (\A t \in Services \ {s} : service'[t] = service[t]) /\ ~service'[s].there
    BY <1>0, <2>1, <2>2 DEF Absent
  <2>4. RestBut(v, s)' /\ (restarts = 0 => NeverStarted(s)')
    BY <1>u, <2>1, <2>2, <2>3, ButStays DEF InFlight, NeverStarted
  <2>5. Rest(v)'
    BY <1>u, <2>3, <2>4 DEF Rest, RestBut
  <2>6. req'[c].at = "svcVM" /\ req'[c].group = None
    BY <2>1, <2>2, Gone
  <2>7. Phase(c, v)'
    BY <1>m, <2>5, <2>6 DEF Phase, Rest, Backed, Homed, Emptied, Making, Recorded, Removed, BuildPoints, LastPoints, DropPoints
  <2>8. "svcVM" \notin TokenPoints
    BY DEF TokenPoints
  <2>9. Meets(c)
    BY <1>m, <2>1, <2>2, <2>7, <2>8, OwnGoesOn
  <2> QED
    BY <1>u, <2>1, <2>2, <2>9, OwnLocal
<1>15. CASE ServiceNoted(c)
  <2> DEFINE r == [req[c] EXCEPT !.at = "writeback", !.held = record[req[c].vm]]
  <2>1. req[c].at = "svcVM" /\ UNCHANGED <<container, service>> /\ (Become(c, r) \/ Finish(c))
    BY <1>15 DEF ServiceNoted, docker, store
  <2>2. r.at = "writeback" /\ r.vm = req[c].vm /\ r.who = req[c].who /\ r.group = req[c].group
    BY <1>0 DEF Request
  <2> HIDE DEF r
  <2>3. CASE Finish(c)
    BY <1>f, <1>m, <1>u, <2>1, <2>3, Ended, MeetsLast
  <2>4. CASE Become(c, r)
    <3>1. req'[c] = r
      BY <2>4, Became
    <3>2. req[c].group = None
      BY <1>m, <2>1, AtOwn
    <3>3. Calls(c, req[c].vm)
      BY <1>m, <2>2, <3>1, <3>2 DEF Calls
    <3> QED
      BY <1>f, <1>m, <1>u, <2>1, <2>2, <3>1, <3>3, MeetsNext
  <2> QED
    BY <2>1, <2>3, <2>4
<1> HIDE DEF At
<1> QED
  BY <1>1, <1>2, <1>3, <1>4, <1>5, <1>6, <1>7, <1>8, <1>9, <1>10, <1>11, <1>12, <1>13, <1>14, <1>15, <1>u DEF Deploying

-----------------------------------------------------------------------------
(* Deletions.                                                              *)
RemovalPoints == DropPoints \cup LastPoints \cup {"rgNext", "rgServices", "rgIdentities"}
Left(v) == /\ ~Exists(v) => Bare(v)
           /\ \A s \in Hosted(v) : service[s].there \/ NeverStarted(s)
           /\ ~dockerAvail => Cleared(v)

LEMMA InRemoval ==
  ASSUME NEW c \in Clients, NEW v \in VMs, req'[c].at \in RemovalPoints,
         Exists(v)' => GroupOf[v] \in groups' \/ req'[c].group # None,
         Emptied(c, v)', req'[c].at = "delServices" /\ req'[c].vm = v => req'[c].todo \subseteq Hosted(v),
         restarts' = 0 => Left(v)' /\ Removed(c, v)'
  PROVE  Phase(c, v)'
<1>m. /\ Removing(req'[c])
      /\ req'[c].at \notin {"resolve", "stale", "run", "store", "unnet", "record", "idle", "network", "launch", "unrecord", "svcDrop"}
                          \cup BuildPoints \cup ListPoints \cup DockerPoints
  BY DEF RemovalPoints, Removing, DropPoints, LastPoints, BuildPoints, ListPoints, DockerPoints
<1>1. Backed(c, v)' /\ Homed(c, v)'
  BY <1>m DEF Backed, Homed
<1>2. Making(c, v)'
  BY <1>m DEF Making
<1>3. restarts' = 0 => Recorded(c, v)'
  BY <1>m DEF Recorded, Left
<1> QED
  BY <1>1, <1>2, <1>3 DEF Phase

LEMMA AtRemoval ==
  ASSUME NEW c \in Clients, NEW v \in VMs, req[c].at \in RemovalPoints, Phase(c, v)
  PROVE  /\ Exists(v) => GroupOf[v] \in groups \/ req[c].group # None
         /\ Emptied(c, v)
         /\ req[c].at = "delServices" /\ req[c].vm = v => req[c].todo \subseteq Hosted(v)
         /\ restarts = 0 => Left(v) /\ Removed(c, v)
<1>m. req[c].at \notin {"record", "unnet"} \cup BuildPoints
  BY DEF RemovalPoints, DropPoints, LastPoints, BuildPoints
<1> QED
  BY <1>m DEF Phase, Homed, Making, Recorded, Left

(* Steps after which docker has no more than before.                       *)
Lessens == (\A n \in Names : NeverStarted(n) => NeverStarted(n)') /\ network' \subseteq network

LEMMA Lessened ==
  ASSUME Lessens, NEW v \in VMs
  PROVE  (Bare(v) => Bare(v)') /\ (Cleared(v) => Cleared(v)')
<1>1. v \in Names /\ \A s \in Hosted(v) : s \in Names
  BY DockerNamesAssumption DEF Hosted
<1> QED
  BY <1>1 DEF Lessens, Bare, Cleared, Hosted

LEMMA LeftStays ==
  ASSUME Lessens, UNCHANGED <<record, service, dockerAvail>>, NEW v \in VMs, Left(v)
  PROVE  Left(v)'
<1>1. v \in Names /\ \A s \in Hosted(v) : s \in Names
  BY DockerNamesAssumption DEF Hosted
<1> QED
  BY <1>1, Lessened DEF Left, Exists, Lessens, Hosted

LEMMA NothingMore == ASSUME UNCHANGED container, UNCHANGED network PROVE Lessens
BY DEF Lessens, NeverStarted

LEMMA RemovesOne == ASSUME NEW n \in Names, OnlyAt(n), NeverStarted(n)', network' \subseteq network PROVE Lessens
BY DEF Lessens, OnlyAt, NeverStarted

LEMMA TakesNetwork == ASSUME UNCHANGED container, NEW net, NetworkRemove(net) PROVE Lessens
BY DEF Lessens, NeverStarted, NetworkRemove

(* The VMs that such a request is about.                                   *)
LEMMA DropVM ==
  ASSUME Typed, Grouped, Secret, NEW c \in Clients, req[c].at \in DropPoints \cup LastPoints
  PROVE  /\ req[c].vm \in VMs /\ req[c].vm \in Names /\ req[c].vm \in Scope(req[c])
         /\ req[c].at \in LastPoints => req[c].group = None
         /\ req[c].group = None => \A v \in VMs : v \in Scope(req[c]) => v = req[c].vm
<1>m. req[c].at \in VMPoints \ TokenPoints /\ req[c].at \notin GroupPoints /\ (req[c].at \in LastPoints => req[c].at \notin DropPoints)
  BY DEF DropPoints, LastPoints, VMPoints, MachinePoints, TokenPoints, GroupPoints
<1>1. req[c].vm \in VMs /\ req[c].vm \in Names
  BY <1>m, About DEF Typed
<1>2. CASE req[c].group = None
  BY <1>m, <1>2, OwnVM
<1>3. CASE req[c].group # None
  <2>1. req[c].at \in DropPoints
    BY <1>m, <1>3 DEF Grouped, Ungrouped, DropPoints
  <2>2. GroupOf[req[c].vm] = req[c].group
    BY <1>3, <2>1 DEF Secret, Claim, Cleaning
  <2> QED
    BY <1>1, <1>3, <1>m, <2>1, <2>2, GroupInScope
<1> QED
  BY <1>1, <1>2, <1>3

LEMMA InGroupOnly ==
  ASSUME NEW c \in Clients, req[c].group # None, req[c].at \notin TokenPoints
  PROVE  \A v \in VMs : v \in Scope(req[c]) <=> GroupOf[v] = req[c].group
BY DEF Scope, InGroup

LEMMA RemovalGoesOn ==
  ASSUME NEW c \in Clients, req[c].at \in RemovalPoints \cup {"rgContainers", "rgList"},
         req'[c].at \in RemovalPoints \cup {"rgContainers", "rgList"},
         req'[c].group = req[c].group, req'[c].who = req[c].who, req'[c].vm = req[c].vm \/ req[c].group # None,
         \A v \in VMs : v \in Scope(req[c]) => Phase(c, v)'
  PROVE  Meets(c)
<1>1. {req[c].at, req'[c].at} \cap TokenPoints = {}
  BY DEF RemovalPoints, DropPoints, LastPoints, TokenPoints
<1> QED
  BY <1>1, ScopeStays DEF Meets, Proceeds

LEMMA RemovalLocal ==
  ASSUME NEW c \in Clients, UNCHANGED groups, req[c].vm \in VMs, req[c].vm \in Scope(req[c]),
         UNCHANGED container \/ OnlyAt(req[c].vm) \/ \E s \in Hosted(req[c].vm) : OnlyAt(s),
         UNCHANGED network \/ NetworkRemove(req[c].vm)
  PROVE  Local(c)
BY DockerNamesAssumption DEF Local, OnlyAt, NetworkRemove

LEMMA StoreLocal == ASSUME NEW c \in Clients, UNCHANGED <<groups, container, network>> PROVE Local(c)
BY DEF Local

LEMMA DeletingMeets ==
  ASSUME Typed, Grouped, Secret, Shape, Netted, cast.serialised, NEW c \in Clients, Deleting(c) \/ CascadeDropsContainers(c)
  PROVE  Local(c) /\ Meets(c) /\ UNCHANGED <<dockerAvail, restarts>>
<1> USE DEF At
<1>0. /\ DockerTypeOK /\ req[c] \in Request /\ record \in [VMs -> 0 .. MaxCreates]
      /\ service \in [Services -> [port : Ports \cup {NoPort}, there : BOOLEAN]]
  BY About DEF Typed, StoreType
<1>u. UNCHANGED <<dockerAvail, restarts>>
  BY DEF Deleting, DeleteVM, DeleteGroup, DeleteLists, DeleteRemoves, DeleteRemovesVM, DeleteRemovesNetwork, DeleteSweeps,
         DeleteForgetsSecret, DeleteDrops, CleanupLists, CleanupForgetsSecret, CascadeDropsVMs, CascadeDropsServices,
         CascadeDropsIdentities, CascadeDropsContainers, fixed, bounds
<1>m. /\ DropPoints = {"delList", "delServices", "delNet"} /\ LastPoints = {"delSweep", "delSecret", "delKey"}
      /\ RemovalPoints = {"delList", "delServices", "delNet", "delSweep", "delSecret", "delKey", "rgNext", "rgServices", "rgIdentities"}
  BY DEF RemovalPoints, DropPoints, LastPoints
<1>t. (RemovalPoints \cup {"rgContainers", "rgList"}) \cap TokenPoints = {}
  BY <1>m DEF TokenPoints
<1>a. ASSUME req[c].at \in RemovalPoints, NEW v \in VMs, v \in Scope(req[c])
      PROVE  /\ Exists(v) => GroupOf[v] \in groups \/ req[c].group # None
             /\ Emptied(c, v)
             /\ req[c].at = "delServices" /\ req[c].vm = v => req[c].todo \subseteq Hosted(v)
             /\ restarts = 0 => Left(v) /\ Removed(c, v)
  BY <1>a, AtRemoval DEF Shape
<1>g. ASSUME req[c].at \in GroupPoints
      PROVE  req[c].group # None /\ \A v \in VMs : v \in Scope(req[c]) <=> GroupOf[v] = req[c].group
  <2>1. req[c].group # None
    BY <1>g, About, NothingAssumption DEF Typed, None
  <2>2. req[c].at \notin TokenPoints
    BY <1>g DEF GroupPoints, TokenPoints
  <2> QED
    BY <2>1, <2>2, InGroupOnly
<1>h. \A s \in Services : HostOf[s] \in VMs
  BY PlacesAssumption
<1>1. ASSUME NEW v \in VMs, DeleteVM(c, v) PROVE Local(c) /\ Meets(c)
  <2> DEFINE p == IF dockerAvail THEN "delList" ELSE "delSweep"
  <2>1. req'[c] = VMRequest(v, p) /\ Begun(c) /\ Frozen
    BY <1>1, <1>u, Began DEF DeleteVM, docker, store, Frozen
  <2>2. p \in {"delList", "delSweep"} /\ (p = "delSweep" => ~dockerAvail)
    OBVIOUS
  <2> HIDE DEF p
  <2>3. req'[c].at = p /\ req'[c].vm = v /\ req'[c].who = None /\ req'[c].group = None
    BY <2>1 DEF VMRequest, NoRequest
  <2>4. Calls(c, v)
    BY <2>2, <2>3 DEF Calls, ListPoints, DockerPoints
  <2> QED
    BY <2>1, <2>3, <2>4, MeetsFirst
<1>2. ASSUME NEW g \in Groups, DeleteGroup(c, g) PROVE Local(c) /\ Meets(c)
  <2> DEFINE r == [NoRequest EXCEPT !.at = "rgContainers", !.group = g]
  <2>1. req'[c] = r /\ Begun(c) /\ groups' = groups \ {g} /\ UNCHANGED <<record, index, service, container, network>>
    BY <1>2, Began DEF DeleteGroup, docker
  <2>2. r.at = "rgContainers" /\ r.group = g /\ g # None
    BY NothingAssumption DEF NoRequest, None
  <2> HIDE DEF r
  <2>3. "rgContainers" \notin TokenPoints
    BY DEF TokenPoints
  <2>4. \A v \in VMs : v \in Scope(req'[c]) <=> GroupOf[v] = g
    BY <2>1, <2>2, <2>3 DEF Scope, InGroup
  <2>5. ASSUME NEW v \in VMs, v \in Scope(req'[c]) PROVE Phase(c, v)'
    <3>1. Rest(v)
      BY <2>1, <2>5, OpensScope
    <3>2. /\ Exists(v)' <=> Exists(v)
          /\ Standing(v)' <=> Standing(v)
          /\ \A s \in Hosted(v) : Placement(s)' <=> Placement(s)
          /\ Bare(v)' <=> Bare(v)
          /\ Cleared(v)' <=> Cleared(v)
          /\ \A s \in Services : NeverStarted(s)' <=> NeverStarted(s)
      BY <2>1 DEF Exists, Standing, Placement, Present, Bare, Cleared, NeverStarted
    <3>3. Backed(c, v)'
      BY <1>u, <2>1, <3>1, <3>2 DEF Rest, Backed
    <3>4. Homed(c, v)' /\ Emptied(c, v)'
      BY <2>1, <2>2, <3>1, <3>2 DEF Rest, Homed, Emptied
    <3>5. Making(c, v)'
      BY <2>1, <2>2 DEF Making, ListPoints, DockerPoints
    <3>6. restarts' = 0 => Recorded(c, v)' /\ Removed(c, v)'
      BY <1>u, <1>m, <2>1, <2>2, <3>1, <3>2 DEF Rest, Recorded, Removed, Hosted
    <3> QED
      BY <3>3, <3>4, <3>5, <3>6 DEF Phase
  <2>6. Local(c)
    BY <2>1, <2>4 DEF Local
  <2> QED
    BY <2>1, <2>5, <2>6, OpensScope DEF Meets, Opens
<1>3. CASE CascadeDropsContainers(c)
  <2>1. req[c].at = "rgContainers" /\ Goto(c, "rgList") /\ Frozen
    BY <1>3, <1>u DEF CascadeDropsContainers, docker, store, Frozen
  <2>2. req'[c].at = "rgList" /\ req'[c].group = req[c].group /\ req'[c].who = req[c].who /\ req'[c].vm = req[c].vm
    BY <2>1, Gone
  <2>3. ASSUME NEW v \in VMs, v \in Scope(req[c]) PROVE Phase(c, v)'
    <3>1. Phase(c, v)
      BY <2>3 DEF Shape
    <3>2. /\ Exists(v)' <=> Exists(v)
          /\ Standing(v)' <=> Standing(v)
          /\ \A s \in Hosted(v) : Placement(s)' <=> Placement(s)
          /\ Bare(v)' <=> Bare(v)
          /\ Cleared(v)' <=> Cleared(v)
          /\ \A s \in Services : NeverStarted(s)' <=> NeverStarted(s)
      BY <2>1 DEF Frozen, Exists, Standing, Placement, Present, Bare, Cleared, NeverStarted
    <3>3. /\ ~Removing(req[c]) /\ Unplaced(req[c]) = {} /\ Unplaced(req'[c]) = {}
          /\ {"rgContainers", "rgList"} \cap (BuildPoints \cup ListPoints \cup DockerPoints \cup {"unnet", "index", "resolve"}) = {}
      BY <2>1, <2>2 DEF Removing, Unplaced, DropPoints, LastPoints, BuildPoints, ListPoints, DockerPoints
    <3>4. Backed(c, v)'
      BY <2>1, <3>1, <3>2, <3>3 DEF Phase, Backed, Frozen
    <3>5. Homed(c, v)' /\ Emptied(c, v)'
      BY <2>1, <2>2, <3>1, <3>2, <3>3 DEF Phase, Homed, Emptied, Frozen
    <3>6. Making(c, v)'
      BY <2>2, <3>3 DEF Making
    <3>7. restarts' = 0 => Recorded(c, v)' /\ Removed(c, v)'
      BY <1>m, <2>1, <2>2, <3>1, <3>2, <3>3 DEF Phase, Recorded, Removed, Frozen, Hosted
    <3> QED
      BY <3>4, <3>5, <3>6, <3>7 DEF Phase
  <2> QED
    BY <1>u, <2>1, <2>2, <2>3, FrozenLocal, RemovalGoesOn
<1>4. CASE CleanupLists(c)
  <2> DEFINE r == [req[c] EXCEPT !.at = "rgNext", !.cascade = [v \in VMs |-> IF GroupOf[v] = req[c].group THEN record[v] ELSE 0]]
  <2>1. req[c].at = "rgList" /\ req'[c] = r /\ Frozen
    BY <1>4, <1>u, Became DEF CleanupLists, docker, store, Frozen
  <2>2. /\ r.at = "rgNext" /\ r.group = req[c].group /\ r.who = req[c].who /\ r.vm = req[c].vm
        /\ \A v \in VMs : GroupOf[v] = req[c].group => r.cascade[v] = record[v]
    BY <1>0 DEF Request
  <2> HIDE DEF r
  <2>3. ASSUME NEW v \in VMs, v \in Scope(req[c]) PROVE Phase(c, v)'
    <3>1. Phase(c, v) /\ req[c].group # None /\ GroupOf[v] = req[c].group
      BY <1>g, <2>1, <2>3 DEF Shape, GroupPoints
    <3>2. restarts = 0 => Left(v) /\ (~Exists(v) => Cleared(v))
      BY <2>1, <3>1 DEF Phase, Recorded, Emptied, Left, Cleared, BuildPoints
    <3>3. Lessens
      BY <2>1, NothingMore DEF Frozen
    <3>4. Emptied(c, v)'
      BY <2>1, <2>2, <3>1 DEF Phase, Emptied, Frozen, Exists
    <3>5. restarts' = 0 => Left(v)' /\ Removed(c, v)'
      BY <1>m, <2>1, <2>2, <3>1, <3>2, <3>3, LeftStays, Lessened DEF Removed, Frozen, Exists
    <3> QED
      BY <1>m, <2>1, <2>2, <3>1, <3>4, <3>5, InRemoval
  <2> QED
    BY <1>m, <1>u, <2>1, <2>2, <2>3, FrozenLocal, RemovalGoesOn
<1>5. ASSUME NEW w \in VMs, CleanupForgetsSecret(c, w) PROVE Local(c) /\ Meets(c)
  <2> DEFINE p == IF dockerAvail THEN "delList" ELSE "rgNext"
             r == [req[c] EXCEPT !.at = p, !.vm = w, !.cascade[w] = 0]
  <2>1. req[c].at = "rgNext" /\ req'[c] = r /\ UNCHANGED <<groups, record, service, container, network>>
    BY <1>5, Became DEF CleanupForgetsSecret, docker
  <2>2. /\ r.at = p /\ r.group = req[c].group /\ r.who = req[c].who /\ r.vm = w
        /\ \A v \in VMs : v # w => r.cascade[v] = req[c].cascade[v]
    BY <1>0 DEF Request
  <2>3. p \in {"delList", "rgNext"} /\ (p = "rgNext" => ~dockerAvail)
    OBVIOUS
  <2> HIDE DEF r, p
  <2>4. req[c].group # None
    BY <1>g, <2>1 DEF GroupPoints
  <2>5. Lessens
    BY <2>1, NothingMore
  <2>6. ASSUME NEW v \in VMs, v \in Scope(req[c]) PROVE Phase(c, v)'
    <3>1. Emptied(c, v)'
      BY <1>a, <1>m, <2>1, <2>2, <2>3, <2>6 DEF Emptied, Exists
    <3>2. restarts' = 0 => Left(v)'
      BY <1>a, <1>m, <1>u, <2>1, <2>5, <2>6, LeftStays
    <3>3. restarts' = 0 => Removed(c, v)'
      <4>1. ASSUME restarts = 0, v # w, req'[c].cascade[v] = 0 PROVE Cleared(v)'
        BY <1>a, <1>m, <2>1, <2>2, <2>4, <2>5, <2>6, <4>1, Lessened DEF Removed
      <4>2. ASSUME restarts = 0, req'[c].at = "rgNext" PROVE Cleared(v)'
        BY <1>a, <1>m, <2>1, <2>2, <2>3, <2>5, <2>6, <4>2, Lessened DEF Left
      <4> QED
        BY <1>m, <1>u, <2>1, <2>2, <2>3, <4>1, <4>2 DEF Removed
    <3> QED
      BY <1>m, <2>1, <2>2, <2>3, <2>4, <3>1, <3>2, <3>3, InRemoval
  <2> QED
    BY <1>m, <1>u, <2>1, <2>2, <2>3, <2>4, <2>6, StoreLocal, RemovalGoesOn
<1>6. CASE DeleteLists(c)
  <2> DEFINE r == [req[c] EXCEPT !.at = "delServices", !.todo = ServiceRecords(req[c].vm)]
  <2>1. req[c].at = "delList" /\ req'[c] = r /\ UNCHANGED <<groups, record, service, container, network>>
    BY <1>6, Became DEF DeleteLists, docker, store
  <2>2. /\ r.at = "delServices" /\ r.group = req[c].group /\ r.who = req[c].who /\ r.vm = req[c].vm
        /\ r.todo = ServiceRecords(req[c].vm) /\ r.cascade = req[c].cascade
    BY <1>0 DEF Request
  <2> HIDE DEF r
  <2>3. Lessens
    BY <2>1, NothingMore
  <2>4. ASSUME NEW v \in VMs, v \in Scope(req[c]) PROVE Phase(c, v)'
    <3>1. Emptied(c, v)'
      BY <1>a, <1>m, <2>1, <2>2, <2>4 DEF Emptied, Exists
    <3>2. restarts' = 0 => Left(v)'
      BY <1>a, <1>m, <1>u, <2>1, <2>3, <2>4, LeftStays
    <3>3. restarts' = 0 => Removed(c, v)'
      <4>1. restarts = 0 => (v # req[c].vm /\ req[c].group # None /\ req[c].cascade[v] = 0 => Cleared(v)')
        BY <1>a, <1>m, <2>1, <2>3, <2>4, Lessened DEF Removed
      <4> QED
        BY <1>m, <1>u, <2>1, <2>2, <3>2, <4>1 DEF Removed, Left, ServiceRecords
    <3> QED
      BY <1>a, <1>m, <2>1, <2>2, <2>4, <3>1, <3>2, <3>3, InRemoval DEF ServiceRecords, Exists
  <2> QED
    BY <1>m, <1>u, <2>1, <2>2, <2>4, StoreLocal, RemovalGoesOn
<1>7. ASSUME NEW s \in Services, DeleteRemoves(c, s) PROVE Local(c) /\ Meets(c)
  <2> DEFINE r == [req[c] EXCEPT !.todo = @ \ {s}]
  <2>1. req[c].at = "delServices" /\ req'[c] = r /\ Remove(s) /\ s \in req[c].todo /\ UNCHANGED <<groups, record, service, network>>
    BY <1>7, Became DEF DeleteRemoves, store
  <2>2. /\ r.at = req[c].at /\ r.group = req[c].group /\ r.who = req[c].who /\ r.vm = req[c].vm
        /\ r.todo = req[c].todo \ {s} /\ r.cascade = req[c].cascade
    BY <1>0 DEF Request
  <2> HIDE DEF r
  <2>3. req[c].vm \in VMs /\ req[c].vm \in Scope(req[c])
    BY <1>m, <2>1, DropVM
  <2>4. s \in Hosted(req[c].vm) /\ s \in Names
    BY <1>a, <1>m, <2>1, <2>3, DockerNamesAssumption
  <2>5. OnlyAt(s) /\ NeverStarted(s)'
    BY <1>0, <2>1, <2>4, Commands
  <2>6. Lessens
    BY <2>1, <2>4, <2>5, RemovesOne
  <2>7. ASSUME NEW v \in VMs, v \in Scope(req[c]) PROVE Phase(c, v)'
    <3>1. Emptied(c, v)'
      BY <1>a, <1>m, <2>1, <2>2, <2>7 DEF Emptied, Exists
    <3>2. restarts' = 0 => Left(v)'
      BY <1>a, <1>m, <1>u, <2>1, <2>6, <2>7, LeftStays
    <3>3. restarts' = 0 => Removed(c, v)'
      <4>1. restarts = 0 => (v # req[c].vm /\ req[c].group # None /\ req[c].cascade[v] = 0 => Cleared(v)')
        BY <1>a, <1>m, <2>1, <2>6, <2>7, Lessened DEF Removed
      <4>2. restarts = 0 /\ v = req[c].vm => \A t \in Hosted(v) : t \in req[c].todo \ {s} \/ NeverStarted(t)'
        BY <1>a, <1>m, <2>1, <2>5, <2>6, <2>7, DockerNamesAssumption DEF Removed, Lessens, Hosted
      <4> QED
        BY <1>m, <1>u, <2>1, <2>2, <4>1, <4>2 DEF Removed
    <3> QED
      BY <1>a, <1>m, <2>1, <2>2, <2>7, <3>1, <3>2, <3>3, InRemoval DEF Exists
  <2>8. Local(c)
    BY <2>1, <2>3, <2>4, <2>5, RemovalLocal
  <2> QED
    BY <1>m, <1>u, <2>1, <2>2, <2>7, <2>8, RemovalGoesOn
<1>8. CASE DeleteRemovesVM(c)
  <2>1. req[c].at = "delServices" /\ req[c].todo = {} /\ Remove(req[c].vm) /\ Goto(c, "delNet") /\ UNCHANGED <<groups, record, service, network>>
    BY <1>8 DEF DeleteRemovesVM, store
  <2>2. /\ req'[c].at = "delNet" /\ req'[c].group = req[c].group /\ req'[c].who = req[c].who /\ req'[c].vm = req[c].vm
        /\ req'[c].cascade = req[c].cascade
    BY <2>1, Gone
  <2>3. PICK w \in VMs : w = req[c].vm /\ w \in Scope(req[c]) /\ w \in Names
    BY <1>m, <2>1, DropVM
  <2>4. OnlyAt(w) /\ NeverStarted(w)'
    BY <1>0, <2>1, <2>3, Commands
  <2>5. Lessens
    BY <2>1, <2>3, <2>4, RemovesOne
  <2>6. ASSUME NEW v \in VMs, v \in Scope(req[c]) PROVE Phase(c, v)'
    <3>1. Emptied(c, v)'
      BY <1>a, <1>m, <2>1, <2>2, <2>6 DEF Emptied, Exists
    <3>2. restarts' = 0 => Left(v)'
      BY <1>a, <1>m, <1>u, <2>1, <2>5, <2>6, LeftStays
    <3>3. restarts' = 0 => Removed(c, v)'
      <4>1. restarts = 0 => (v # w /\ req[c].group # None /\ req[c].cascade[v] = 0 => Cleared(v)')
        BY <1>a, <1>m, <2>1, <2>3, <2>5, <2>6, Lessened DEF Removed
      <4>2. restarts = 0 /\ v = w => NeverStarted(v)' /\ \A t \in Hosted(v) : NeverStarted(t)'
        BY <1>a, <1>m, <2>1, <2>3, <2>4, <2>5, <2>6, DockerNamesAssumption DEF Removed, Lessens, Hosted
      <4> QED
        BY <1>m, <1>u, <2>1, <2>2, <2>3, <4>1, <4>2 DEF Removed
    <3> QED
      BY <1>a, <1>m, <2>1, <2>2, <2>6, <3>1, <3>2, <3>3, InRemoval DEF Exists
  <2>7. Local(c)
    BY <2>1, <2>3, <2>4, RemovalLocal
  <2> QED
    BY <1>m, <1>u, <2>1, <2>2, <2>6, <2>7, RemovalGoesOn
<1>9. CASE DeleteRemovesNetwork(c)
  <2> DEFINE p == IF req[c].group = None THEN "delSweep" ELSE "rgNext"
  <2>1. req[c].at = "delNet" /\ NetworkRemove(req[c].vm) /\ Goto(c, p) /\ UNCHANGED <<groups, record, service, container>>
    BY <1>9 DEF DeleteRemovesNetwork, store
  <2>2. p \in {"delSweep", "rgNext"} /\ (p = "delSweep" <=> req[c].group = None)
    OBVIOUS
  <2> HIDE DEF p
  <2>3. /\ req'[c].at = p /\ req'[c].group = req[c].group /\ req'[c].who = req[c].who /\ req'[c].vm = req[c].vm
        /\ req'[c].cascade = req[c].cascade
    BY <2>1, Gone
  <2>4. PICK w \in VMs : w = req[c].vm /\ w \in Scope(req[c]) /\ (req[c].group = None => \A v \in VMs : v \in Scope(req[c]) => v = w)
    BY <1>m, <2>1, DropVM
  <2>5. Lessens
    BY <2>1, <2>4, TakesNetwork
  <2>6. restarts = 0 => Cleared(w)'
    <3>1. restarts = 0 => NeverStarted(w) /\ \A s \in Hosted(w) : NeverStarted(s)
      BY <1>a, <1>m, <2>1, <2>4 DEF Removed
    <3>2. restarts = 0 => w \notin network'
      BY <2>1, <2>4, <3>1, NetworkGoes
    <3> QED
      BY <2>1, <3>1, <3>2 DEF Cleared, Bare, NeverStarted
  <2>7. ASSUME NEW v \in VMs, v \in Scope(req[c]) PROVE Phase(c, v)'
    <3>1. Emptied(c, v)'
      BY <1>a, <1>m, <2>1, <2>2, <2>3, <2>7 DEF Emptied, Exists
    <3>2. restarts' = 0 => Left(v)'
      BY <1>a, <1>m, <1>u, <2>1, <2>5, <2>7, LeftStays
    <3>3. restarts' = 0 => Removed(c, v)'
      <4>1. restarts = 0 => (v # w /\ req[c].group # None /\ req[c].cascade[v] = 0 => Cleared(v)')
        BY <1>a, <1>m, <2>1, <2>4, <2>5, <2>7, Lessened DEF Removed
      <4> QED
        BY <1>m, <1>u, <2>2, <2>3, <2>4, <2>6, <2>7, <4>1 DEF Removed
    <3> QED
      BY <1>a, <1>m, <2>1, <2>2, <2>3, <2>7, <3>1, <3>2, <3>3, InRemoval DEF Exists
  <2>8. Local(c)
    BY <2>1, <2>4, RemovalLocal
  <2> QED
    BY <1>m, <1>u, <2>1, <2>2, <2>3, <2>7, <2>8, RemovalGoesOn
<1>10. CASE DeleteSweeps(c)
  <2>1. /\ req[c].at = "delSweep" /\ Goto(c, "delSecret") /\ UNCHANGED <<groups, record, container, network>>
        /\ service' = [s \in Services |-> IF HostOf[s] = req[c].vm THEN Absent ELSE service[s]]
    BY <1>10 DEF DeleteSweeps, docker
  <2>2. /\ req'[c].at = "delSecret" /\ req'[c].group = req[c].group /\ req'[c].who = req[c].who /\ req'[c].vm = req[c].vm
    BY <2>1, Gone
  <2>3. req[c].group = None /\ \A v \in VMs : v \in Scope(req[c]) => v = req[c].vm
    BY <1>m, <2>1, DropVM
  <2>4. Lessens
    BY <2>1, NothingMore
  <2>5. ASSUME NEW v \in VMs, v \in Scope(req[c]) PROVE Phase(c, v)'
    <3>1. \A s \in Hosted(v) : ~service'[s].there
      BY <2>1, <2>3, <2>5 DEF Hosted, Absent
    <3>2. restarts = 0 => Cleared(v)'
      BY <1>a, <1>m, <2>1, <2>4, <2>5, Lessened DEF Removed
    <3>3. Emptied(c, v)' /\ (restarts' = 0 => Left(v)' /\ Removed(c, v)')
      BY <1>m, <1>u, <2>2, <2>3, <3>1, <3>2 DEF Emptied, Left, Removed, Cleared
    <3> QED
      BY <1>a, <1>m, <2>1, <2>2, <2>5, <3>3, InRemoval DEF Exists
  <2> QED
    BY <1>m, <1>u, <2>1, <2>2, <2>5, StoreLocal, RemovalGoesOn
<1>11. CASE DeleteForgetsSecret(c)
  <2>1. req[c].at = "delSecret" /\ Goto(c, "delKey") /\ UNCHANGED <<groups, record, service, container, network>>
    BY <1>11 DEF DeleteForgetsSecret, docker
  <2>2. /\ req'[c].at = "delKey" /\ req'[c].group = req[c].group /\ req'[c].who = req[c].who /\ req'[c].vm = req[c].vm
    BY <2>1, Gone
  <2>3. req[c].group = None
    BY <1>m, <2>1, DropVM
  <2>4. Lessens
    BY <2>1, NothingMore
  <2>5. ASSUME NEW v \in VMs, v \in Scope(req[c]) PROVE Phase(c, v)'
    <3>1. Emptied(c, v)'
      BY <1>a, <1>m, <2>1, <2>2, <2>5 DEF Emptied, Exists
    <3>2. restarts' = 0 => Left(v)' /\ Removed(c, v)'
      BY <1>a, <1>m, <1>u, <2>1, <2>2, <2>3, <2>4, <2>5, LeftStays, Lessened DEF Removed
    <3> QED
      BY <1>a, <1>m, <2>1, <2>2, <2>5, <3>1, <3>2, InRemoval DEF Exists
  <2> QED
    BY <1>m, <1>u, <2>1, <2>2, <2>5, StoreLocal, RemovalGoesOn
<1>12. CASE DeleteDrops(c)
  <2>1. req[c].at = "delKey" /\ Finish(c) /\ record' = [record EXCEPT ![req[c].vm] = 0] /\ UNCHANGED <<groups, service, container, network>>
    BY <1>12 DEF DeleteDrops, docker
  <2>2. req[c].vm \in VMs /\ \A v \in VMs : v \in Scope(req[c]) => v = req[c].vm
    BY <1>m, <2>1, DropVM
  <2>3. Lessens
    BY <2>1, NothingMore
  <2>4. ASSUME NEW v \in VMs, v \in Scope(req[c]) PROVE Rest(v)'
    <3>1. ~Exists(v)' /\ \A s \in Hosted(v) : ~service'[s].there
      BY <1>0, <1>a, <1>m, <2>1, <2>2, <2>4 DEF Exists, Emptied
    <3>2. restarts = 0 => Cleared(v)'
      BY <1>a, <1>m, <2>1, <2>3, <2>4, Lessened DEF Removed
    <3> QED
      BY <1>u, <3>1, <3>2 DEF Rest, Cleared
  <2> QED
    BY <1>u, <2>1, <2>4, Ended, NoScope, StoreLocal DEF Meets, Ends
<1>13. CASE CascadeDropsVMs(c)
  <2>1. /\ req[c].at = "rgNext" /\ req[c].cascade = NoCascade /\ Goto(c, "rgServices") /\ UNCHANGED <<groups, service, container, network>>
        /\ record' = [v \in VMs |-> IF GroupOf[v] = req[c].group THEN 0 ELSE record[v]]
    BY <1>13 DEF CascadeDropsVMs, docker
  <2>2. /\ req'[c].at = "rgServices" /\ req'[c].group = req[c].group /\ req'[c].who = req[c].who /\ req'[c].vm = req[c].vm
    BY <2>1, Gone
  <2>3. Lessens
    BY <2>1, NothingMore
  <2>4. ASSUME NEW v \in VMs, v \in Scope(req[c]) PROVE Phase(c, v)'
    <3>1. req[c].group # None /\ GroupOf[v] = req[c].group
      BY <1>g, <2>1, <2>4 DEF GroupPoints
    <3>2. ~Exists(v)'
      BY <2>1, <3>1 DEF Exists
    <3>3. restarts = 0 => Cleared(v)'
      BY <1>a, <1>m, <2>1, <2>3, <2>4, <3>1, Lessened DEF Removed, NoCascade
    <3>4. restarts' = 0 => Left(v)'
      BY <1>u, <3>3 DEF Left, Cleared
    <3>5. Emptied(c, v)' /\ (restarts' = 0 => Removed(c, v)')
      BY <1>m, <1>u, <2>2, <3>2, <3>3 DEF Emptied, Removed
    <3> QED
      BY <1>m, <2>2, <3>1, <3>2, <3>4, <3>5, InRemoval
  <2> QED
    BY <1>m, <1>u, <2>1, <2>2, <2>4, StoreLocal, RemovalGoesOn
<1>14. CASE CascadeDropsServices(c)
  <2>1. /\ req[c].at = "rgServices" /\ Goto(c, "rgIdentities") /\ UNCHANGED <<groups, record, container, network>>
        /\ service' = [s \in Services |-> IF GroupOf[HostOf[s]] = req[c].group THEN Absent ELSE service[s]]
    BY <1>14 DEF CascadeDropsServices, docker
  <2>2. /\ req'[c].at = "rgIdentities" /\ req'[c].group = req[c].group /\ req'[c].who = req[c].who /\ req'[c].vm = req[c].vm
    BY <2>1, Gone
  <2>3. Lessens
    BY <2>1, NothingMore
  <2>4. ASSUME NEW v \in VMs, v \in Scope(req[c]) PROVE Phase(c, v)'
    <3>1. req[c].group # None /\ GroupOf[v] = req[c].group
      BY <1>g, <2>1, <2>4 DEF GroupPoints
    <3>2. ~Exists(v)' /\ \A s \in Hosted(v) : ~service'[s].there
      BY <1>a, <1>m, <2>1, <2>4, <3>1 DEF Emptied, Exists, Hosted, Absent
    <3>3. restarts = 0 => Cleared(v)'
      BY <1>a, <1>m, <2>1, <2>3, <2>4, Lessened DEF Removed
    <3>4. restarts' = 0 => Left(v)'
      BY <1>u, <3>3 DEF Left, Cleared
    <3>5. Emptied(c, v)' /\ (restarts' = 0 => Removed(c, v)')
      BY <1>m, <1>u, <2>2, <3>2, <3>3 DEF Emptied, Removed
    <3> QED
      BY <1>m, <2>2, <3>1, <3>2, <3>4, <3>5, InRemoval
  <2> QED
    BY <1>m, <1>u, <2>1, <2>2, <2>4, StoreLocal, RemovalGoesOn
<1>15. CASE CascadeDropsIdentities(c)
  <2>1. req[c].at = "rgIdentities" /\ Finish(c) /\ UNCHANGED <<groups, record, service, container, network>>
    BY <1>15 DEF CascadeDropsIdentities, docker
  <2>2. Lessens
    BY <2>1, NothingMore
  <2>3. ASSUME NEW v \in VMs, v \in Scope(req[c]) PROVE Rest(v)'
    <3>1. ~Exists(v)' /\ \A s \in Hosted(v) : ~service'[s].there
      BY <1>a, <1>m, <2>1, <2>3 DEF Exists, Emptied
    <3>2. restarts = 0 => Cleared(v)'
      BY <1>a, <1>m, <2>1, <2>2, <2>3, Lessened DEF Removed
    <3> QED
      BY <1>u, <3>1, <3>2 DEF Rest, Cleared
  <2> QED
    BY <1>u, <2>1, <2>3, Ended, NoScope, StoreLocal DEF Meets, Ends
<1> HIDE DEF At
<1> QED
  BY <1>1, <1>2, <1>3, <1>4, <1>5, <1>6, <1>7, <1>8, <1>9, <1>10, <1>11, <1>12, <1>13, <1>14, <1>15, <1>u DEF Deleting

-----------------------------------------------------------------------------
(* Networks.                                                               *)
LEMMA NetCommands ==
  ASSUME DockerTypeOK, Netted, NEW n \in Names
  PROVE  /\ Remove(n) \/ Stop(n) \/ Start(n) \/ Exits(n) \/ RunRefused(n) => Netted'
         /\ \A p, net, tag, broken : /\ Run(n, p, net, tag) \/ RunBreaks(n, p, net, tag, broken)
                                     /\ (n \in VMs /\ net = n) \/ (n \in Services /\ net = HostOf[n])
                                     => Netted'
<1>c. container \in [Names -> Container]
  BY DEF DockerTypeOK
<1>1. Remove(n) => Netted'
  BY <1>c DEF Remove, NoContainer, Netted
<1>2. Stop(n) \/ Start(n) \/ Exits(n) => \A m \in Names : container'[m].net = container[m].net
  BY <1>c DEF Stop, Start, Exits, Container
<1>3. Stop(n) \/ Start(n) \/ Exits(n) => Netted'
  BY <1>2 DEF Netted
<1>4. RunRefused(n) => Netted'
  BY DEF RunRefused, Netted
<1>5. \A p, net, tag, broken : /\ Run(n, p, net, tag) \/ RunBreaks(n, p, net, tag, broken)
                               /\ (n \in VMs /\ net = n) \/ (n \in Services /\ net = HostOf[n])
                               => Netted'
  BY <1>c DEF Run, RunBreaks, Netted
<1> QED
  BY <1>1, <1>3, <1>4, <1>5

LEMMA NettedStep == ASSUME Typed, Netted, [Next]_vars PROVE Netted'
<1> USE DEF At
<1>0. DockerTypeOK /\ RequestsType /\ VMs \subseteq Names /\ Services \subseteq Names
  BY DockerNamesAssumption DEF Typed
<1>k. UNCHANGED container => Netted'
  BY DEF Netted
<1>1. ASSUME NEW c \in Clients, Putting(c) PROVE Netted'
  <2>1. CASE RemoveStale(c) \/ RunVM(c) \/ RunVMFails(c)
    <3>1. req[c].vm \in VMs
      BY <1>0, <2>1, About DEF RemoveStale, RunVM, RunVMFails, VMPoints, MachinePoints
    <3>2. CASE RemoveStale(c)
      BY <1>0, <3>1, <3>2, NetCommands DEF RemoveStale
    <3>3. CASE RunVM(c)
      BY <1>0, <3>1, <3>3, NetCommands DEF RunVM
    <3>4. CASE RunVMFails(c)
      BY <1>0, <3>1, <3>4, NetCommands DEF RunVMFails
    <3> QED
      BY <2>1, <3>2, <3>3, <3>4
  <2>2. CASE ~(RemoveStale(c) \/ RunVM(c) \/ RunVMFails(c))
    BY <1>1, <1>k, <2>2 DEF Putting, PutVM, GetVM, ResolveIdentity, ResolveFails, UpdateVM, BuildVM, CreateNetwork, CreateNetworkFails,
       RemoveNetwork, StoreVM, IndexSecret, WriteBack, docker
  <2> QED
    BY <2>1, <2>2
<1>2. ASSUME NEW c \in Clients, Deleting(c) \/ CascadeDropsContainers(c) PROVE Netted'
  <2>1. CASE DeleteRemovesVM(c)
    <3>1. req[c].vm \in VMs
      BY <1>0, <2>1, About DEF DeleteRemovesVM, VMPoints, MachinePoints
    <3> QED
      BY <1>0, <2>1, <3>1, NetCommands DEF DeleteRemovesVM
  <2>2. ASSUME NEW s \in Services, DeleteRemoves(c, s) PROVE Netted'
    BY <1>0, <2>2, NetCommands DEF DeleteRemoves
  <2>3. CASE ~DeleteRemovesVM(c) /\ \A s \in Services : ~DeleteRemoves(c, s)
    BY <1>2, <1>k, <2>3 DEF Deleting, DeleteVM, DeleteGroup, DeleteLists, DeleteRemovesNetwork, DeleteSweeps, DeleteForgetsSecret, DeleteDrops,
       CleanupLists, CleanupForgetsSecret, CascadeDropsVMs, CascadeDropsServices, CascadeDropsIdentities, CascadeDropsContainers, docker
  <2> QED
    BY <2>1, <2>2, <2>3
<1>3. ASSUME NEW c \in Clients, Powering(c) PROVE Netted'
  <2>1. CASE StopVM(c) \/ StartVM(c)
    <3>1. req[c].vm \in VMs
      BY <1>0, <2>1, About DEF StopVM, StartVM, VMPoints, MachinePoints
    <3> QED
      BY <1>0, <1>k, <2>1, <3>1, NetCommands DEF StopVM, StartVM
  <2>2. ASSUME NEW s \in Services, StopService(c, s) \/ StartService(c, s) PROVE Netted'
    BY <1>0, <1>k, <2>2, NetCommands DEF StopService, StartService
  <2>3. CASE PowerLists(c) \/ PowerDecides(c) \/ PowerDone(c) \/ \E v \in VMs, action \in {"start", "powerOff", "restart"} : PowerAction(c, v, action)
    BY <1>k, <2>3 DEF PowerAction, PowerLists, PowerDecides, PowerDone, docker
  <2> QED
    BY <1>3, <2>1, <2>2, <2>3 DEF Powering
<1>4. ASSUME NEW c \in Clients, Deploying(c) PROVE Netted'
  <2>1. CASE DeployReplaces(c) \/ DeployRuns(c) \/ DeployRunFails(c) \/ ServiceRemoved(c)
    <3>1. req[c].svc \in Services /\ req[c].vm = HostOf[req[c].svc]
      BY <1>0, <2>1, About DEF DeployReplaces, DeployRuns, DeployRunFails, ServiceRemoved, ServicePoints
    <3>2. CASE DeployReplaces(c) \/ ServiceRemoved(c)
      BY <1>0, <3>1, <3>2, NetCommands DEF DeployReplaces, ServiceRemoved
    <3>3. CASE DeployRuns(c)
      BY <1>0, <3>1, <3>3, NetCommands DEF DeployRuns
    <3>4. CASE DeployRunFails(c)
      BY <1>0, <3>1, <3>4, NetCommands DEF DeployRunFails
    <3> QED
      BY <2>1, <3>2, <3>3, <3>4
  <2>2. CASE ~(DeployReplaces(c) \/ DeployRuns(c) \/ DeployRunFails(c) \/ ServiceRemoved(c))
    BY <1>4, <1>k, <2>2 DEF Deploying, GetService, DeleteService, DeployService, DeployInspects, DeployComparesPorts, DeployLooksItselfUp,
       DeployForgets, DeployRecords, ServiceWritesBack, ServiceDropped, ServiceNoted, docker
  <2> QED
    BY <2>1, <2>2
<1>5. ASSUME NEW c \in Clients, Attesting(c) PROVE Netted'
  BY <1>5, <1>k DEF Attesting, PutIdentity, IdentityKeepsItsPrincipal, IdentityGetsAPrincipal, IdentitySet,
     GetToken, TokenReadsVM, TokenChecksIdentity, TokenStored, docker
<1>6. CASE Aside
  <2>1. ASSUME NEW s \in Services, ServiceExits(s) PROVE Netted'
    BY <1>0, <2>1, NetCommands DEF ServiceExits
  <2>2. CASE Elsewhere
    <3>1. container \in [Names -> Container]
      BY <1>0 DEF DockerTypeOK
    <3> QED
      BY <2>2, <3>1 DEF Elsewhere, Netted
  <2> QED
    BY <1>6, <1>k, <2>1, <2>2 DEF Aside, PutGroup, DeleteIdentity, IntrospectExpired, docker, vars
<1>7. CASE Restart
  BY <1>7, <1>k DEF Restart, docker
<1> HIDE DEF At
<1> QED
  BY <1>1, <1>2, <1>3, <1>4, <1>5, <1>6, <1>7, StepKinds DEF Handles

-----------------------------------------------------------------------------
(* The other steps.                                                        *)

(* Requests of identities keep VMs at rest.                                *)
LEMMA AtIdentity ==
  ASSUME Grouped, Shape, NEW c \in Clients, req[c].at \in {"idGet", "idSet"}, NEW v \in VMs, v \in Scope(req[c])
  PROVE  Rest(v)
<1>1. Phase(c, v) /\ req[c].group = None
  BY DEF Shape, Grouped, Ungrouped, GroupPoints
<1>2. ~Removing(req[c]) /\ Unplaced(req[c]) = {} /\ req[c].at \notin {"index", "rgServices", "record", "unnet"} \cup BuildPoints
  BY DEF Removing, Unplaced, DropPoints, LastPoints, BuildPoints
<1> QED
  BY <1>1, <1>2 DEF Phase, Backed, Homed, Emptied, Recorded, Rest

LEMMA ToIdentity ==
  ASSUME NEW c \in Clients, req'[c].at \in {"idGet", "idSet"}, NEW v \in VMs, Rest(v)'
  PROVE  Phase(c, v)'
<1>1. req'[c].at \notin {"index", "rgServices", "record", "unnet", "resolve", "stale", "run", "store", "network", "launch", "unrecord", "svcDrop",
                         "delServices", "delNet", "delSecret", "delKey", "rgIdentities", "rgNext", "idle"}
                        \cup BuildPoints \cup ListPoints \cup DockerPoints \cup DropPoints \cup LastPoints
  BY DEF DropPoints, LastPoints, BuildPoints, ListPoints, DockerPoints
<1>2. Backed(c, v)' /\ Homed(c, v)' /\ Emptied(c, v)'
  BY <1>1 DEF Rest, Backed, Homed, Emptied
<1>3. Making(c, v)'
  BY <1>1 DEF Making
<1>4. restarts' = 0 => Recorded(c, v)' /\ Removed(c, v)'
  BY <1>1 DEF Rest, Recorded, Removed
<1> QED
  BY <1>2, <1>3, <1>4 DEF Phase

LEMMA FrozenAlike == ASSUME NEW v \in VMs, Frozen PROVE Alike(v)
BY SameContainer DEF Frozen, Alike

LEMMA AttestingShapes ==
  ASSUME Typed, Grouped, Apart, Apart', cast' = cast, Secret, Shape, cast.serialised, NEW c \in Clients, Attesting(c)
  PROVE  Shape'
<1>1. Frozen /\ UNCHANGED created
  BY DEF Attesting, PutIdentity, IdentityKeepsItsPrincipal, IdentityGetsAPrincipal, IdentitySet,
         GetToken, TokenReadsVM, TokenChecksIdentity, TokenStored, store, docker, fixed, bounds, Frozen
<1>2. CASE Attests(c)
  <2>1. Local(c) /\ Reaches(c) /\ UNCHANGED <<dockerAvail, restarts>>
    BY <1>1, FrozenLocal DEF Frozen, Reaches
  <2>2. Writes(c)
    BY <1>1 DEF Frozen, Writes, Typed, BoundsType
  <2>3. CASE Asks(c)
    <3>1. ASSUME NEW v \in VMs, v \in Scope(req'[c]) PROVE Phase(c, v)'
      <4>1. req'[c].at = "idGet"
        BY <2>3, <3>1 DEF Asks, Scope, TokenPoints
      <4>2. Rest(v)
        BY <2>3, <3>1, OpensScope DEF Asks
      <4> QED
        BY <1>1, <4>1, <4>2, FrozenRest, ToIdentity
    <3>2. Meets(c)
      BY <2>3, <3>1, OpensScope DEF Asks, Meets, Opens
    <3> QED
      BY <1>2, <2>1, <2>2, <3>2, ShapeAfter DEF Attests
  <2>4. CASE Settles(c)
    <3>1. Scope(req'[c]) = Scope(req[c])
      BY <2>4 DEF Settles, Scope, TokenPoints
    <3>2. ASSUME NEW v \in VMs, v \in Scope(req[c]) PROVE Phase(c, v)'
      <4>1. Rest(v)
        BY <2>4, <3>2, AtIdentity DEF Settles
      <4> QED
        BY <1>1, <2>4, <4>1, FrozenRest, ToIdentity DEF Settles
    <3>3. Meets(c)
      BY <3>1, <3>2 DEF Meets, Proceeds
    <3> QED
      BY <1>2, <2>1, <2>2, <3>3, ShapeAfter DEF Attests
  <2>5. CASE Looks(c) \/ Answers(c)
    <3>1. Scope(req[c]) = {} /\ Scope(req'[c]) = {}
      BY <2>5, NoScope DEF Looks, Answers, Scope, TokenPoints
    <3>2. Meets(c)
      BY <3>1 DEF Meets, Proceeds
    <3> QED
      BY <1>2, <2>1, <2>2, <3>2, ShapeAfter DEF Attests
  <2> QED
    BY <1>2, <2>3, <2>4, <2>5 DEF Attests
<1>3. CASE IdentitySet(c)
  <2>1. Scope(req'[c]) = {} /\ req[c].at = "idSet"
    BY <1>3, SetFrame, NoScope
  <2>2. \A d \in Clients \ {c} : Stands(d) /\ Scope(req'[d]) = Scope(req[d])
    BY <1>3, SetFrame DEF Stands, Scope
  <2>3. ASSUME NEW v \in VMs, NEW d \in Clients, v \in Scope(req'[d]) PROVE Phase(d, v)'
    <3>1. d # c /\ Stands(d) /\ v \in Scope(req[d]) /\ Phase(d, v)
      BY <2>1, <2>2, <2>3 DEF Shape
    <3> QED
      BY <1>1, <3>1, FrozenAlike, HostedByOwn, PhaseStays DEF Frozen
  <2>4. ASSUME NEW v \in VMs, Quiet(v)' PROVE Rest(v)'
    <3>1. CASE v \in Scope(req[c])
      BY <1>1, <2>1, <3>1, AtIdentity, FrozenRest
    <3>2. CASE v \notin Scope(req[c])
      BY <1>1, <2>2, <2>4, <3>2, FrozenRest DEF Quiet, Shape
    <3> QED
      BY <3>1, <3>2
  <2> QED
    BY <2>3, <2>4 DEF Shape
<1> QED
  BY <1>2, <1>3, AttestingFrame

LEMMA AsideShapes ==
  ASSUME Typed, Grouped, Shape, Aside
  PROVE  Shape'
<1>0. DockerTypeOK /\ container \in [Names -> Container]
  BY DEF Typed, DockerTypeOK
<1>1. req' = req /\ UNCHANGED <<record, index, service>>
  BY AsideFrame
<1>2. UNCHANGED <<network, dockerAvail, restarts>> /\ groups \subseteq groups'
  BY DEF Aside, Elsewhere, ServiceExits, PutGroup, DeleteIdentity, IntrospectExpired, vars, store, docker, fixed, bounds
<1>3. \A n \in VMs \cup Services : Same(n)
  <2>1. ASSUME NEW s \in Services, ServiceExits(s) PROVE \A n \in VMs \cup Services : Same(n)
    <3>1. s \in Names /\ VMs \cup Services \subseteq Names
      BY DockerNamesAssumption
    <3>2. OnlyAt(s) /\ Same(s)
      BY <1>0, <2>1, <3>1, Commands DEF ServiceExits
    <3> QED
      BY <3>1, <3>2, SameContainer DEF OnlyAt
  <2>2. CASE Elsewhere
    <3>1. \A n \in VMs \cup Services : container'[n] = container[n]
      BY <1>0, <2>2, DockerNamesAssumption DEF Elsewhere
    <3> QED
      BY <3>1, SameContainer
  <2>3. ASSUME UNCHANGED container PROVE \A n \in VMs \cup Services : Same(n)
    BY <2>3, SameContainer
  <2> QED
    BY <2>1, <2>2, <2>3 DEF Aside, PutGroup, DeleteIdentity, IntrospectExpired, vars, docker
<1>4. ASSUME NEW v \in VMs PROVE Alike(v)
  BY <1>1, <1>2, <1>3 DEF Alike, Hosted
<1>5. ASSUME NEW v \in VMs, NEW d \in Clients, v \in Scope(req'[d]) PROVE Phase(d, v)'
  BY <1>1, <1>2, <1>4, <1>5, HostedByOwn, PhaseStays DEF Shape, Stands
<1>6. ASSUME NEW v \in VMs, Quiet(v)' PROVE Rest(v)'
  BY <1>1, <1>2, <1>4, <1>6, RestStays DEF Shape, Quiet
<1> QED
  BY <1>5, <1>6 DEF Shape

LEMMA RestartShapes == ASSUME Typed, Restart PROVE Shape'
<1>1. \A d \in Clients : Scope(req'[d]) = {}
  BY NoScope, RestartFrame
<1>2. restarts' # 0
  BY DEF Restart, Typed, BoundsType
<1>3. \A v \in VMs : ~Exists(v)' /\ \A s \in Hosted(v) : ~service'[s].there
  BY DEF Restart, NoRecords, NoServices, Absent, Exists, Hosted
<1> QED
  BY <1>1, <1>2, <1>3 DEF Shape, Rest

LEMMA ShapedStep ==
  ASSUME Typed, Grouped, Apart, Ported, Secretive, Netted, Shaped, [Next]_vars
  PROVE  Shaped'
<1>0. cast' = cast /\ Apart'
  BY CastStays, ApartStep
<1> SUFFICES ASSUME cast.serialised PROVE Shape'
  BY <1>0 DEF Shaped
<1>s. Shape /\ Secret /\ PortsDiffer /\ Placed
  BY DEF Shaped, Secretive, Ported
<1>1. ASSUME NEW c \in Clients, Handles(c) PROVE Shape'
  <2>1. OneMoves(c) /\ Reaches(c) /\ Writes(c)
    BY <1>1, <1>s, HandlesFrame, HandlesReach, HandlesStep DEF Framed
  <2>2. Local(c) /\ Meets(c) /\ UNCHANGED <<dockerAvail, restarts>>
    BY <1>1, <1>s, PuttingMeets, DeletingMeets, PoweringMeets DEF Handles
  <2> QED
    BY <1>0, <1>s, <2>1, <2>2, ShapeAfter
<1>2. ASSUME NEW c \in Clients, Deploying(c) PROVE Shape'
  <2>1. OneMoves(c) /\ Plain(c) /\ Reaches(c)
    BY <1>2, <1>s, DeployingFrame, DeployingPlain, DeployingPorts DEF Framed, Secret
  <2>2. Writes(c)
    BY <1>s, <2>1, PlainStep
  <2>3. Local(c) /\ Meets(c) /\ UNCHANGED <<dockerAvail, restarts>>
    BY <1>2, <1>s, DeployingMeets
  <2> QED
    BY <1>0, <1>s, <2>1, <2>2, <2>3, ShapeAfter
<1>3. ASSUME NEW c \in Clients, Attesting(c) PROVE Shape'
  BY <1>0, <1>3, <1>s, AttestingShapes
<1>4. CASE Aside
  BY <1>4, <1>s, AsideShapes
<1>5. CASE Restart
  BY <1>5, RestartShapes
<1> QED
  BY <1>1, <1>2, <1>3, <1>4, <1>5, StepKinds

LEMMA InitialShape == Init => Shape /\ Netted
<1> SUFFICES ASSUME Init PROVE Shape /\ Netted
  OBVIOUS
<1>1. \A d \in Clients : Scope(req[d]) = {}
  BY NoScope DEF Init
<1>2. \A n \in Names : container[n] = NoContainer
  BY DEF Init, DockerInit
<1>n. NoContainer.net = Bridge
  BY DEF NoContainer
<1>3. Netted
  BY <1>2, <1>n DEF Netted
<1>4. ASSUME NEW v \in VMs PROVE Rest(v)
  <2>1. ~Exists(v) /\ \A s \in Hosted(v) : ~service[s].there
    BY DEF Init, NoRecords, NoServices, Absent, Exists, Hosted
  <2>2. v \in Names /\ Hosted(v) \subseteq Names
    BY DockerNamesAssumption DEF Hosted
  <2>3. NeverStarted(v) /\ v \notin network /\ \A s \in Hosted(v) : NeverStarted(s)
    BY <1>2, <2>2 DEF NeverStarted, NoContainer, Init, DockerInit
  <2> QED
    BY <2>1, <2>3 DEF Rest, Bare, Cleared
<1> QED
  BY <1>1, <1>3, <1>4 DEF Shape

LEMMA AlwaysShaped == Spec => []Shaped
<1>1. Init => Shaped /\ Netted
  BY InitialShape DEF Shaped
<1>2. Typed /\ Netted /\ [Next]_vars => Netted'
  BY NettedStep
<1>3. Typed /\ (Grouped /\ Apart /\ Steadied) /\ Ported /\ Secretive /\ Netted /\ Shaped /\ [Next]_vars => Shaped'
  BY ShapedStep
<1> QED
  BY <1>1, <1>2, <1>3, AlwaysTyped, AlwaysApart, AlwaysPorted, AlwaysSecretive, PTL DEF Spec

(* "Each VM is backed by a Docker container" (handler.go) that knows the   *)
(* secret of its record, and the secret leads back to it: of a VM that no  *)
(* serialised request is about, whatever requests about other VMs do, also *)
(* after a restart.                                                        *)
THEOREM RecordedVMsAlwaysWork == Spec => []RecordedVMWorks
<1>1. ASSUME Shaped PROVE RecordedVMWorks
  BY <1>1 DEF Shaped, Shape, Rest, Standing, Placement, ServiceRecords, Hosted, RecordedVMWorks
<1> QED
  BY <1>1, AlwaysShaped, PTL

(* "DELETE: delete a VM, its services and network", and "fail fast and     *)
(* leave nothing behind" (handler.go): in the first life of the process,   *)
(* whichever of docker's commands failed, docker has nothing of a VM that  *)
(* no serialised request is about and that is not on record.               *)
THEOREM NothingIsLeftOver == Spec => []NothingLeftOver
<1>1. ASSUME Shaped PROVE NothingLeftOver
  BY <1>1 DEF Shaped, Shape, Rest, Bare, ServiceRecords, NothingLeftOver
<1> QED
  BY <1>1, AlwaysShaped, PTL

-----------------------------------------------------------------------------
(* A VM is one thing: what the request about it must know of it so that    *)
(* each step is one of Machines.                                           *)
Cleaned(v) == /\ \A s \in ServiceRecords(v) : ~Present(s)
              /\ dockerAvail /\ Exists(v) => ~Present(v)
OnPoints == {"siblings", "own", "unplace", "launch", "record", "startServices"}

Swept(r, v) == \/ r.at = "delNet" /\ r.vm = v
               \/ r.at \in LastPoints \cup {"rgServices", "rgIdentities"}
               \/ /\ r.group # None /\ r.cascade[v] = 0
                  /\ r.at = "rgNext" \/ (r.at \in DropPoints /\ r.vm # v)

ReadyFor(c, v) == LET r == req[c] IN
    /\ r.at \in OnPoints \/ (r.at = "store" /\ dockerAvail) => Running(v)
    /\ r.at = "launch" => ~service[r.svc].there \/ ~Present(r.svc)
    /\ r.at = "decide" => ServiceRecords(v) \subseteq r.todo
    /\ r.at = "stopServices" => \A s \in ServiceRecords(v) : s \in r.todo \/ ~Running(s)
    /\ r.at = "delServices" /\ r.vm = v => \A s \in ServiceRecords(v) : s \in r.todo \/ ~Present(s)
    /\ Swept(r, v) => Cleaned(v)

(* A service is deployed only where there is docker.                       *)
Dockerless == ~dockerAvail => \A s \in Services : ~service[s].there
PreparedNow == Dockerless /\ \A c \in Clients, v \in VMs : v \in Scope(req[c]) => ReadyFor(c, v)
Prepared == cast.serialised => PreparedNow

(* Where nothing of the kind is needed.                                    *)
HardPoints == OnPoints \cup {"store", "decide", "stopServices"} \cup RemovalPoints

LEMMA EasyReady == ASSUME NEW c \in Clients, NEW v \in VMs, req'[c].at \notin HardPoints PROVE ReadyFor(c, v)'
BY DEF ReadyFor, Swept, HardPoints, RemovalPoints, OnPoints, DropPoints

(* What leaves a VM as it was, but for services that end.                  *)
Slackens(v) == /\ container'[v] = container[v] /\ record'[v] = record[v]
               /\ \A s \in Hosted(v) : /\ service'[s] = service[s]
                                       /\ Present(s)' <=> Present(s)
                                       /\ Running(s)' => Running(s)

LEMMA ReadyStays ==
  ASSUME NEW v \in VMs, NEW d \in Clients, Slackens(v), UNCHANGED dockerAvail, Stands(d),
         req[d].at \in ServicePoints => req[d].svc \in Hosted(v), ReadyFor(d, v)
  PROVE  ReadyFor(d, v)'
<1>0. req[d].at = "launch" => req[d].svc \in Hosted(v)
  BY DEF ServicePoints
<1>1. ServiceRecords(v)' = ServiceRecords(v) /\ ServiceRecords(v) \subseteq Hosted(v)
  BY DEF ServiceRecords, Slackens, Hosted
<1>2. (Running(v) => Running(v)') /\ (Cleaned(v) => Cleaned(v)')
  BY <1>1 DEF Running, Present, Cleaned, Exists, Slackens
<1>3. req'[d].at \in OnPoints \/ (req'[d].at = "store" /\ dockerAvail') => Running(v)'
  BY <1>2 DEF Stands, ReadyFor
<1>4. (req[d].at = "launch" => ~service[req[d].svc].there \/ ~Present(req[d].svc))'
  BY <1>0 DEF Stands, ReadyFor, Slackens, Present
<1>5. req'[d].at = "decide" => ServiceRecords(v)' \subseteq req'[d].todo
  BY <1>1 DEF Stands, ReadyFor
<1>6. req'[d].at = "stopServices" => \A s \in ServiceRecords(v)' : s \in req'[d].todo \/ ~Running(s)'
  BY <1>1 DEF Stands, ReadyFor, Slackens
<1>7. req'[d].at = "delServices" /\ req'[d].vm = v => \A s \in ServiceRecords(v)' : s \in req'[d].todo \/ ~Present(s)'
  BY <1>1 DEF Stands, ReadyFor, Slackens
<1>8. Swept(req'[d], v) => Cleaned(v)'
  BY <1>2 DEF Stands, ReadyFor, Swept
<1> QED
  BY <1>3, <1>4, <1>5, <1>6, <1>7, <1>8 DEF ReadyFor

-----------------------------------------------------------------------------
(* The steps of Machines.                                                  *)
Promised == [Promise!Next]_(Promise!vars)
OnlyMachine(w) == \A v \in VMs \ {w} : (IsMachine(v)' <=> IsMachine(v)) /\ (IsOn(v)' <=> IsOn(v))
OnlyService(t) == \A s \in Services \ {t} : (IsDeployed(s)' <=> IsDeployed(s)) /\ (IsServing(s)' <=> IsServing(s))
SameMachines == \A v \in VMs : (IsMachine(v)' <=> IsMachine(v)) /\ (IsOn(v)' <=> IsOn(v))
SameServices == \A s \in Services : (IsDeployed(s)' <=> IsDeployed(s)) /\ (IsServing(s)' <=> IsServing(s))

LEMMA Stutters == ASSUME SameMachines, SameServices PROVE Promised
BY DEF SameMachines, SameServices, Promised, Promise!vars

LEMMA Creates ==
  ASSUME NEW w \in VMs, OnlyMachine(w), SameServices, ~IsMachine(w), IsMachine(w)', IsOn(w)'
  PROVE  Promised
<1>1. Promise!Create(w)
  BY DEF OnlyMachine, SameServices, Promise!Create
<1> QED
  BY <1>1 DEF Promised, Promise!Next

LEMMA PowersOn ==
  ASSUME NEW w \in VMs, OnlyMachine(w), SameServices, IsMachine(w), IsMachine(w)', IsOn(w)'
  PROVE  Promised
<1>1. CASE IsOn(w)
  BY <1>1, Stutters DEF OnlyMachine, SameMachines
<1>2. CASE ~IsOn(w)
  <2>1. Promise!PowerOn(w)
    BY <1>2 DEF OnlyMachine, SameServices, Promise!PowerOn
  <2> QED
    BY <2>1 DEF Promised, Promise!Next
<1> QED
  BY <1>1, <1>2

LEMMA PowersOff ==
  ASSUME NEW w \in VMs, OnlyMachine(w), SameServices, IsMachine(w)' <=> IsMachine(w), ~IsOn(w)', \A s \in Hosted(w) : ~IsServing(s)
  PROVE  Promised
<1>1. CASE ~IsOn(w)
  BY <1>1, Stutters DEF OnlyMachine, SameMachines
<1>2. CASE IsOn(w)
  <2>1. Promise!PowerOff(w)
    BY <1>2 DEF OnlyMachine, SameServices, Promise!PowerOff, Promise!Hosted, Hosted
  <2> QED
    BY <2>1 DEF Promised, Promise!Next
<1> QED
  BY <1>1, <1>2

LEMMA Deletes ==
  ASSUME SameServices, \A v \in VMs : IsMachine(v)' => IsMachine(v),
         \A v \in VMs : IsOn(v)' <=> IsOn(v) /\ IsMachine(v)',
         \A v \in VMs : IsMachine(v) /\ ~IsMachine(v)' => \A s \in Hosted(v) : ~IsDeployed(s)
  PROVE  Promised
<1> DEFINE gone == {v \in VMs : IsMachine(v) /\ ~IsMachine(v)'}
<1>0. \A v \in VMs : IsOn(v) => IsMachine(v)
  BY DEF IsOn, IsMachine, Running, Present
<1>1. Promise!Delete(gone)
  BY <1>0 DEF SameServices, Promise!Delete, Promise!Hosted, Hosted
<1> QED
  BY <1>1 DEF Promised, Promise!Next

LEMMA Deploys ==
  ASSUME NEW t \in Services, SameMachines, OnlyService(t), ~IsDeployed(t), IsDeployed(t)', IsOn(HostOf[t])
  PROVE  Promised
<1>1. HostOf[t] \in VMs /\ ~IsServing(t)
  BY PlacesAssumption DEF IsServing, IsDeployed, Running, Present
<1>2. Promise!Deploy(t)
  BY <1>1 DEF SameMachines, OnlyService, Promise!Deploy
<1> QED
  BY <1>2 DEF Promised, Promise!Next

LEMMA Withdrawn ==
  ASSUME NEW t \in Services, SameMachines, OnlyService(t), ~IsDeployed(t)'
  PROVE  Promised
<1>0. ~IsServing(t)' /\ (IsServing(t) => IsDeployed(t))
  BY DEF IsServing, IsDeployed, Running, Present
<1>1. CASE ~IsDeployed(t)
  BY <1>0, <1>1, Stutters DEF OnlyService, SameServices
<1>2. CASE IsDeployed(t)
  <2>1. Promise!Withdraw(t)
    BY <1>0, <1>2 DEF SameMachines, OnlyService, Promise!Withdraw
  <2> QED
    BY <2>1 DEF Promised, Promise!Next
<1> QED
  BY <1>1, <1>2

LEMMA Serving ==
  ASSUME NEW t \in Services, SameMachines, OnlyService(t), IsDeployed(t), IsDeployed(t)', IsServing(t)', IsOn(HostOf[t])
  PROVE  Promised
<1>1. CASE IsServing(t)
  BY <1>1, Stutters DEF OnlyService, SameServices
<1>2. CASE ~IsServing(t)
  <2>1. HostOf[t] \in VMs
    BY PlacesAssumption
  <2>2. Promise!Serve(t)
    BY <1>2, <2>1 DEF SameMachines, OnlyService, Promise!Serve
  <2> QED
    BY <2>2 DEF Promised, Promise!Next
<1> QED
  BY <1>1, <1>2

LEMMA Halts ==
  ASSUME NEW t \in Services, SameMachines, OnlyService(t), IsDeployed(t)' <=> IsDeployed(t), ~IsServing(t)'
  PROVE  Promised
<1>1. CASE ~IsServing(t)
  BY <1>1, Stutters DEF OnlyService, SameServices
<1>2. CASE IsServing(t)
  <2>1. Promise!Halt(t)
    BY <1>2 DEF SameMachines, OnlyService, Promise!Halt
  <2> QED
    BY <2>1 DEF Promised, Promise!Next
<1> QED
  BY <1>1, <1>2

(* What a docker command, and a step that runs none, leave alone.          *)
LEMMA NothingSeen ==
  ASSUME UNCHANGED <<record, service, container, cast, dockerAvail>>
  PROVE  SameMachines /\ SameServices /\ Promised
<1>1. SameMachines /\ SameServices
  BY DEF SameMachines, SameServices, IsMachine, IsOn, IsDeployed, IsServing, Exists, Present, Running
<1> QED
  BY <1>1, Stutters

LEMMA VMSeen ==
  ASSUME NEW w \in VMs, OnlyAt(w), UNCHANGED <<record, service, cast, dockerAvail>>
  PROVE  OnlyMachine(w) /\ SameServices
<1>1. \A n \in (VMs \cup Services) \ {w} : container'[n] = container[n]
  BY DockerNamesAssumption DEF OnlyAt
<1>2. w \notin Services
  BY DockerNamesAssumption
<1> QED
  BY <1>1, <1>2 DEF OnlyMachine, SameServices, IsMachine, IsOn, IsDeployed, IsServing, Exists, Present, Running

LEMMA ServiceSeen ==
  ASSUME NEW t \in Services, OnlyAt(t), UNCHANGED <<record, service, cast, dockerAvail>>
  PROVE  SameMachines /\ OnlyService(t)
<1>1. \A n \in (VMs \cup Services) \ {t} : container'[n] = container[n]
  BY DockerNamesAssumption DEF OnlyAt
<1>2. t \notin VMs
  BY DockerNamesAssumption
<1> QED
  BY <1>1, <1>2 DEF SameMachines, OnlyService, IsMachine, IsOn, IsDeployed, IsServing, Exists, Present, Running

LEMMA RecordSeen ==
  ASSUME NEW t \in Services, \A s \in Services \ {t} : service'[s] = service[s], UNCHANGED <<record, container, cast, dockerAvail>>
  PROVE  SameMachines /\ OnlyService(t)
BY DEF SameMachines, OnlyService, IsMachine, IsOn, IsDeployed, IsServing, Exists, Present, Running

LEMMA Effects ==
  ASSUME DockerTypeOK, NEW n \in Names
  PROVE  /\ Remove(n) => OnlyAt(n) /\ ~Present(n)'
         /\ Stop(n) => OnlyAt(n) /\ ~Running(n)' /\ (Present(n)' <=> Present(n)) /\ \A m \in Names : Running(m)' => Running(m)
         /\ Start(n) => OnlyAt(n) /\ Running(n)' /\ Present(n)'
         /\ Exits(n) => OnlyAt(n) /\ ~Running(n)' /\ (Present(n)' <=> Present(n))
         /\ \A p, net, tag : Run(n, p, net, tag) => OnlyAt(n) /\ ~Present(n) /\ Running(n)' /\ Present(n)'
         /\ \A p, net, tag, broken : RunBreaks(n, p, net, tag, broken) =>
               OnlyAt(n) /\ ~Present(n) /\ ~Running(n)' /\ Present(n)'
<1>c. container \in [Names -> Container] /\ container[n] \in Container
  BY DEF DockerTypeOK
<1>1. Remove(n) => OnlyAt(n) /\ ~Present(n)'
  BY <1>c DEF Remove, OnlyAt, Present, NoContainer
<1>2. Stop(n) => OnlyAt(n) /\ ~Running(n)' /\ (Present(n)' <=> Present(n)) /\ \A m \in Names : Running(m)' => Running(m)
  BY <1>c DEF Stop, OnlyAt, Running, Present, Container
<1>3. Start(n) => OnlyAt(n) /\ Running(n)' /\ Present(n)'
  BY <1>c DEF Start, OnlyAt, Running, Present, Container
<1>4. Exits(n) => OnlyAt(n) /\ ~Running(n)' /\ (Present(n)' <=> Present(n))
  BY <1>c DEF Exits, OnlyAt, Running, Present, Container
<1>5. \A p, net, tag : Run(n, p, net, tag) => OnlyAt(n) /\ ~Present(n) /\ Running(n)' /\ Present(n)'
  BY <1>c DEF Run, OnlyAt, Running, Present
<1>6. \A p, net, tag, broken : RunBreaks(n, p, net, tag, broken) => OnlyAt(n) /\ ~Present(n) /\ ~Running(n)' /\ Present(n)'
  BY <1>c DEF RunBreaks, OnlyAt, Running, Present
<1> QED
  BY <1>1, <1>2, <1>3, <1>4, <1>5, <1>6

(* A step and the request that takes it.                                   *)
Readies(c) == \A v \in VMs : v \in Scope(req'[c]) => ReadyFor(c, v)'
Renders(c) == Promised /\ Dockerless' /\ Readies(c)

LEMMA DockerlessStays ==
  ASSUME Dockerless, UNCHANGED dockerAvail, dockerAvail \/ \A s \in Services : service'[s].there => service[s].there
  PROVE  Dockerless'
BY DEF Dockerless

LEMMA EasilyReady == ASSUME NEW c \in Clients, req'[c].at \notin HardPoints PROVE Readies(c)
BY EasyReady DEF Readies

LEMMA OwnReady ==
  ASSUME Typed, Grouped, NEW c \in Clients, req[c].at \in VMPoints \ (TokenPoints \cup DropPoints), req'[c].at \notin TokenPoints,
         req'[c].vm = req[c].vm, req'[c].who = req[c].who, req'[c].group = req[c].group,
         \A v \in VMs : v = req[c].vm => ReadyFor(c, v)'
  PROVE  Readies(c)
<1>1. Scope(req'[c]) = Scope(req[c])
  BY ScopeStays
<1> QED
  BY <1>1, OwnVM DEF Readies

LEMMA Unseen ==
  ASSUME Dockerless, NEW c \in Clients, UNCHANGED <<record, service, container, cast, dockerAvail>>, req'[c].at \notin HardPoints
  PROVE  Renders(c)
<1>1. Dockerless'
  BY DEF Dockerless
<1> QED
  BY <1>1, NothingSeen, EasilyReady DEF Renders

-----------------------------------------------------------------------------
(* PUT and GET of a VM: one that is there is stored as it was.             *)
LEMMA PuttingRenders ==
  ASSUME Typed, Grouped, Secret, Shape, PreparedNow, cast.serialised, NEW c \in Clients, Putting(c)
  PROVE  Renders(c)
<1> USE DEF At
<1>0. DockerTypeOK /\ req \in [Clients -> Request] /\ req[c] \in Request /\ record \in [VMs -> 0 .. MaxCreates] /\ Dockerless
  BY About DEF Typed, RequestsType, StoreType, PreparedNow
<1>m. /\ {"resolve", "network", "stale", "run", "unnet", "store", "index", "writeback"} \subseteq VMPoints \ (TokenPoints \cup DropPoints)
      /\ {"idle", "resolve", "network", "stale", "run", "unnet", "index", "writeback"} \cap HardPoints = {}
      /\ {"network", "stale", "run", "store"} = BuildPoints
  BY DEF VMPoints, MachinePoints, TokenPoints, DropPoints, HardPoints, OnPoints, RemovalPoints, LastPoints, BuildPoints
<1>1. ASSUME NEW v \in VMs, NEW block, NEW named, PutVM(c, v, block, named) PROVE Renders(c)
  <2>1. req'[c].at = "resolve"
    BY <1>0, <1>1 DEF PutVM, Begin, Become, NoRequest
  <2> QED
    BY <1>0, <1>m, <1>1, <2>1, Unseen DEF PutVM, store, docker, fixed
<1>2. ASSUME NEW v \in VMs, GetVM(c, v) PROVE Renders(c)
  <2>1. req'[c].at = "writeback"
    BY <1>0, <1>2 DEF GetVM, Begin, Become, VMRequest, NoRequest
  <2> QED
    BY <1>0, <1>m, <1>2, <2>1, Unseen DEF GetVM, store, docker, fixed
<1>3. ASSUME NEW i \in Identities, ResolveIdentity(c, i) PROVE Renders(c)
  <2>1. req'[c].at = "resolve"
    BY <1>0, <1>3 DEF ResolveIdentity, Become, Request
  <2> QED
    BY <1>0, <1>m, <1>3, <2>1, Unseen DEF ResolveIdentity, store, docker, fixed
<1>4. CASE ResolveFails(c) \/ CreateNetworkFails(c) \/ RemoveNetwork(c) \/ IndexSecret(c)
  <2>1. Finish(c) /\ UNCHANGED <<record, service, container, cast, dockerAvail>>
    BY <1>4 DEF ResolveFails, CreateNetworkFails, RemoveNetwork, IndexSecret, store, docker, fixed
  <2> QED
    BY <1>0, <1>m, <2>1, Ended, Unseen
<1>5. CASE UpdateVM(c) \/ CreateNetwork(c)
  <2>1. req'[c].at \in {"writeback", "stale"}
    <3>1. UpdateVM(c) => req'[c].at = "writeback"
      BY <1>0 DEF UpdateVM, Become, Request
    <3>2. CreateNetwork(c) => req'[c].at = "stale"
      BY Gone DEF CreateNetwork
    <3> QED
      BY <1>5, <3>1, <3>2
  <2> QED
    BY <1>0, <1>m, <1>5, <2>1, Unseen DEF UpdateVM, CreateNetwork, store, docker, fixed
<1>6. CASE WriteBack(c)
  <2>1. Finish(c) /\ req[c].at = "writeback"
    BY <1>6 DEF WriteBack
  <2>2. record[req[c].vm] = req[c].held
    BY <1>m, <2>1, AtOwn DEF Old, OldPoints
  <2>3. UNCHANGED record
    BY <1>0, <1>6, <2>2 DEF WriteBack
  <2> QED
    BY <1>0, <1>m, <1>6, <2>1, <2>3, Ended, Unseen DEF WriteBack, docker, fixed
<1>7. CASE BuildVM(c)
  <2> DEFINE p == IF dockerAvail THEN "network" ELSE "store"
  <2>1. Become(c, [req[c] EXCEPT !.at = p, !.held = created + 1]) /\ UNCHANGED <<record, service, container, cast, dockerAvail>>
    BY <1>7 DEF BuildVM, docker, fixed
  <2>2. req'[c].at = p
    BY <1>0, <2>1 DEF Become, Request
  <2>3. CASE dockerAvail
    BY <1>0, <1>m, <2>1, <2>2, <2>3, Unseen
  <2>4. CASE ~dockerAvail
    <3>1. req'[c].at = "store" /\ ~dockerAvail'
      BY <2>1, <2>2, <2>4
    <3>2. Readies(c)
      BY <3>1 DEF Readies, ReadyFor, Swept, OnPoints, LastPoints, DropPoints
    <3>3. Dockerless'
      BY <1>0, <2>1 DEF Dockerless
    <3> QED
      BY <2>1, <3>2, <3>3, NothingSeen DEF Renders
  <2> QED
    BY <2>3, <2>4
<1>8. CASE RemoveStale(c) \/ RunVM(c) \/ RunVMFails(c)
  <2>1. /\ req[c].at \in {"stale", "run"} /\ UNCHANGED <<record, service, cast, dockerAvail>>
        /\ \E p \in {"run", "store", "unnet"} : Goto(c, p) /\ (p = "store" => RunVM(c))
    BY <1>8 DEF RemoveStale, RunVM, RunVMFails, store, fixed
  <2>2. PICK w \in VMs : w = req[c].vm
    BY <1>m, <2>1, AtOwn
  <2>3. w \in Names /\ ~Exists(w)
    BY <1>m, <2>1, <2>2, AtOwn, AtBuild
  <2>4. OnlyAt(w)
    BY <1>0, <1>8, <2>2, <2>3, Effects DEF RemoveStale, RunVM, RunVMFails, RunRefused, OnlyAt
  <2>5. RunVM(c) => Running(w)'
    BY <1>0, <2>2, <2>3, Effects DEF RunVM
  <2>6. SameMachines /\ SameServices
    BY <2>1, <2>3, <2>4, VMSeen DEF OnlyMachine, SameMachines, IsMachine, IsOn, Exists
  <2>7. Dockerless'
    BY <1>0, <2>1 DEF Dockerless
  <2>8. PICK p \in {"run", "store", "unnet"} : Goto(c, p) /\ (p = "store" => RunVM(c))
    BY <2>1
  <2>9. req'[c].at = p /\ req'[c].vm = w /\ req'[c].who = req[c].who /\ req'[c].group = req[c].group /\ req[c].group = None
    BY <1>m, <2>1, <2>2, <2>8, Gone, AtOwn
  <2>10. CASE p # "store"
    BY <1>m, <2>6, <2>7, <2>9, <2>10, EasilyReady, Stutters DEF Renders
  <2>11. CASE p = "store"
    <3>1. ReadyFor(c, w)'
      BY <2>5, <2>8, <2>9, <2>11 DEF ReadyFor, Swept, OnPoints, LastPoints, DropPoints
    <3>2. Readies(c)
      BY <1>m, <2>1, <2>2, <2>9, <2>11, <3>1, OwnReady
    <3> QED
      BY <2>6, <2>7, <3>2, Stutters DEF Renders
  <2> QED
    BY <2>10, <2>11
<1>9. CASE StoreVM(c)
  <2>1. /\ req[c].at = "store" /\ UNCHANGED <<service, container, cast, dockerAvail>> /\ Goto(c, "index")
        /\ record' = [record EXCEPT ![req[c].vm] = req[c].held]
    BY <1>9 DEF StoreVM, docker, fixed
  <2>2. PICK w \in VMs : w = req[c].vm
    BY <1>m, <2>1, AtOwn
  <2>3. w \in Scope(req[c]) /\ ~Exists(w) /\ req[c].held # 0 /\ (dockerAvail => Present(w))
    BY <1>m, <2>1, <2>2, AtBuild
  <2>4. dockerAvail => Running(w)
    BY <2>1, <2>3 DEF PreparedNow, ReadyFor
  <2>5. ~IsMachine(w) /\ IsMachine(w)' /\ IsOn(w)'
    BY <1>0, <2>1, <2>2, <2>3, <2>4 DEF IsMachine, IsOn, Exists, Present, Running
  <2>6. OnlyMachine(w) /\ SameServices
    BY <1>0, <2>1, <2>2 DEF OnlyMachine, SameServices, IsMachine, IsOn, IsDeployed, IsServing, Exists, Present, Running
  <2>7. Promised
    BY <2>5, <2>6, Creates
  <2>8. Dockerless'
    BY <1>0, <2>1 DEF Dockerless
  <2>9. Readies(c)
    BY <1>m, <2>1, Gone, EasilyReady
  <2> QED
    BY <2>7, <2>8, <2>9 DEF Renders
<1> QED
  BY <1>1, <1>2, <1>3, <1>4, <1>5, <1>6, <1>7, <1>8, <1>9 DEF Putting

-----------------------------------------------------------------------------
(* Power actions: services stop before the VM and start behind it.         *)
LEMMA PoweringRenders ==
  ASSUME Typed, Grouped, Secret, Shape, PreparedNow, cast.serialised, NEW c \in Clients, Powering(c)
  PROVE  Renders(c)
<1> USE DEF At
<1>0. DockerTypeOK /\ req \in [Clients -> Request] /\ req[c] \in Request /\ Dockerless
  BY About DEF Typed, RequestsType, PreparedNow
<1>u. UNCHANGED <<record, service, cast, dockerAvail>> /\ Dockerless'
  <2>1. UNCHANGED <<record, service, cast, dockerAvail>>
    BY DEF Powering, PowerAction, PowerLists, PowerDecides, StopService, StartService, StopVM, StartVM, PowerDone, store, fixed
  <2> QED
    BY <1>0, <2>1 DEF Dockerless
<1>m. /\ ListPoints = {"decide", "stopServices", "startVM", "startServices"}
      /\ ListPoints \cup {"powerList"} \subseteq VMPoints \ (TokenPoints \cup DropPoints)
      /\ {"idle", "powerList", "startVM", "writeback"} \cap HardPoints = {}
      /\ (ListPoints \cup {"writeback"}) \cap (LastPoints \cup DropPoints \cup TokenPoints) = {}
      /\ ListPoints \cap OnPoints = {"startServices"}
  BY DEF ListPoints, VMPoints, MachinePoints, PowerPoints, TokenPoints, DropPoints, LastPoints, HardPoints, OnPoints, RemovalPoints
<1>1. ASSUME NEW v \in VMs, NEW action \in {"start", "powerOff", "restart"}, PowerAction(c, v, action) PROVE Renders(c)
  <2>1. req'[c].at = "powerList"
    BY <1>0, <1>1 DEF PowerAction, Begin, Become, VMRequest, NoRequest
  <2> QED
    BY <1>0, <1>m, <1>u, <1>1, <2>1, Unseen DEF PowerAction, docker
<1>2. CASE PowerLists(c)
  <2>1. /\ req[c].at = "powerList" /\ UNCHANGED container /\ req'[c].at = "decide" /\ req'[c].todo = ServiceRecords(req[c].vm)
        /\ req'[c].vm = req[c].vm /\ req'[c].who = req[c].who /\ req'[c].group = req[c].group
    BY <1>0, <1>2 DEF PowerLists, docker, Become, Request
  <2>2. PICK v \in VMs : v = req[c].vm
    BY <1>m, <2>1, AtOwn
  <2>3. ServiceRecords(v)' = ServiceRecords(v)
    BY <1>u DEF ServiceRecords
  <2>4. ReadyFor(c, v)'
    BY <1>m, <2>1, <2>2, <2>3 DEF ReadyFor, Swept
  <2>5. Readies(c)
    BY <1>m, <2>1, <2>2, <2>4, OwnReady
  <2> QED
    BY <1>u, <2>1, <2>5, NothingSeen DEF Renders
<1>3. CASE PowerDecides(c)
  <2>1. /\ req[c].at = "decide" /\ UNCHANGED container
    BY <1>3 DEF PowerDecides, docker
  <2>2. req[c].action \in {"start", "powerOff", "restart"}
    BY <2>1, About DEF PowerPoints, Typed
  <2>3. PICK p \in {"writeback", "startVM", "stopServices"} : Goto(c, p)
    BY <1>3, <2>2 DEF PowerDecides
  <2>4. /\ req'[c].at = p /\ req'[c].vm = req[c].vm /\ req'[c].who = req[c].who /\ req'[c].group = req[c].group
        /\ req'[c].todo = req[c].todo
    BY <2>3, Gone
  <2>5. CASE p # "stopServices"
    BY <1>0, <1>m, <1>u, <2>1, <2>4, <2>5, Unseen
  <2>6. CASE p = "stopServices"
    <3>1. PICK v \in VMs : v = req[c].vm
      BY <1>m, <2>1, AtOwn
    <3>2. ServiceRecords(v)' = ServiceRecords(v) /\ ServiceRecords(v) \subseteq req[c].todo
      BY <1>m, <1>u, <2>1, <3>1, AtPowerAction DEF ServiceRecords, PreparedNow, ReadyFor
    <3>3. ReadyFor(c, v)'
      BY <1>m, <2>4, <2>6, <3>2 DEF ReadyFor, Swept
    <3>4. Readies(c)
      BY <1>m, <2>1, <2>4, <2>6, <3>1, <3>3, OwnReady
    <3> QED
      BY <1>u, <2>1, <3>4, NothingSeen DEF Renders
  <2> QED
    BY <2>5, <2>6
<1>4. ASSUME NEW s \in Services, StopService(c, s) PROVE Renders(c)
  <2>1. /\ req[c].at = "stopServices" /\ Stop(s) /\ s \in req[c].todo
        /\ req'[c].at = "stopServices" /\ req'[c].todo = req[c].todo \ {s}
        /\ req'[c].vm = req[c].vm /\ req'[c].who = req[c].who /\ req'[c].group = req[c].group
    BY <1>0, <1>4 DEF StopService, Become, Request
  <2>2. PICK v \in VMs : v = req[c].vm
    BY <1>m, <2>1, AtOwn
  <2>3. v \in Scope(req[c]) /\ v \in Names /\ Hosted(v) \subseteq Names
    BY <1>m, <2>1, <2>2, AtPowerAction
  <2>4. s \in Names
    BY DockerNamesAssumption
  <2>5. OnlyAt(s) /\ ~Running(s)' /\ (Present(s)' <=> Present(s)) /\ \A n \in Names : Running(n)' => Running(n)
    BY <1>0, <2>1, <2>4, Effects
  <2>6. SameMachines /\ OnlyService(s)
    BY <1>u, <2>4, <2>5, ServiceSeen
  <2>7. Promised
    BY <1>u, <2>5, <2>6, Halts DEF IsDeployed, IsServing
  <2>8. \A t \in ServiceRecords(v) : t \in req[c].todo \/ ~Running(t)
    BY <2>1, <2>2, <2>3 DEF PreparedNow, ReadyFor
  <2>9. ServiceRecords(v)' = ServiceRecords(v) /\ ServiceRecords(v) \subseteq Names
    BY <1>u, <2>3 DEF ServiceRecords
  <2>10. \A t \in ServiceRecords(v)' : t \in req'[c].todo \/ ~Running(t)'
    BY <2>1, <2>5, <2>8, <2>9
  <2>11. ReadyFor(c, v)'
    BY <1>m, <2>1, <2>10 DEF ReadyFor, Swept
  <2>12. Readies(c)
    BY <1>m, <2>1, <2>2, <2>11, OwnReady
  <2> QED
    BY <1>u, <2>7, <2>12 DEF Renders
<1>5. CASE StopVM(c)
  <2>1. req[c].at = "stopServices" /\ Stop(req[c].vm) /\ req[c].todo = {}
    BY <1>5 DEF StopVM
  <2>2. PICK v \in VMs : v = req[c].vm
    BY <1>m, <2>1, AtOwn
  <2>3. v \in Scope(req[c]) /\ v \in Names /\ Hosted(v) \subseteq Names /\ dockerAvail
    BY <1>m, <2>1, <2>2, AtPowerAction
  <2>4. OnlyAt(v) /\ ~Running(v)' /\ (Present(v)' <=> Present(v))
    BY <1>0, <2>1, <2>2, <2>3, Effects
  <2>5. OnlyMachine(v) /\ SameServices
    BY <1>u, <2>4, VMSeen
  <2>6. \A s \in Hosted(v) : ~IsServing(s)
    BY <2>1, <2>2, <2>3 DEF PreparedNow, ReadyFor, IsServing, ServiceRecords
  <2>7. (IsMachine(v)' <=> IsMachine(v)) /\ ~IsOn(v)'
    BY <1>u, <2>3, <2>4 DEF IsMachine, IsOn, Exists
  <2>8. Promised
    BY <2>5, <2>6, <2>7, PowersOff
  <2>9. req'[c].at \in {"startVM", "writeback", "idle"}
    BY <1>5, Gone, Ended DEF StopVM
  <2> QED
    BY <1>m, <1>u, <2>8, <2>9, EasilyReady DEF Renders
<1>6. CASE StartVM(c)
  <2>1. req[c].at = "startVM"
    BY <1>6 DEF StartVM
  <2>2. PICK v \in VMs : v = req[c].vm
    BY <1>m, <2>1, AtOwn
  <2>3. v \in Names /\ Rest(v) /\ Exists(v) /\ dockerAvail
    BY <1>m, <2>1, <2>2, AtPowerAction
  <2>4. CASE Finish(c) /\ UNCHANGED container
    BY <1>0, <1>m, <1>u, <2>4, Ended, Unseen
  <2>5. CASE Start(v) /\ Become(c, [req[c] EXCEPT !.at = "startServices", !.todo = req[c].listed])
    <3>1. /\ req'[c].at = "startServices" /\ req'[c].vm = req[c].vm /\ req'[c].who = req[c].who /\ req'[c].group = req[c].group
      BY <1>0, <2>5 DEF Become, Request
    <3>2. OnlyAt(v) /\ Running(v)' /\ Present(v)'
      BY <1>0, <2>3, <2>5, Effects
    <3>3. OnlyMachine(v) /\ SameServices
      BY <1>u, <3>2, VMSeen
    <3>4. IsMachine(v) /\ IsMachine(v)' /\ IsOn(v)'
      BY <1>u, <2>3, <3>2 DEF IsMachine, IsOn, Exists, Rest, Standing
    <3>5. Promised
      BY <3>3, <3>4, PowersOn
    <3>6. ReadyFor(c, v)'
      BY <1>m, <3>1, <3>2 DEF ReadyFor, Swept
    <3>7. Readies(c)
      BY <1>m, <2>1, <2>2, <3>1, <3>6, OwnReady
    <3> QED
      BY <1>u, <3>5, <3>7 DEF Renders
  <2> QED
    BY <1>6, <2>2, <2>4, <2>5 DEF StartVM
<1>7. ASSUME NEW s \in Services, StartService(c, s) PROVE Renders(c)
  <2>1. /\ req[c].at = "startServices" /\ (Start(s) \/ UNCHANGED container) /\ s \in req[c].todo
        /\ req'[c].at = "startServices"
        /\ req'[c].vm = req[c].vm /\ req'[c].who = req[c].who /\ req'[c].group = req[c].group
    BY <1>0, <1>7 DEF StartService, Become, Request
  <2>2. PICK v \in VMs : v = req[c].vm
    BY <1>m, <2>1, AtOwn
  <2>3. /\ v \in Scope(req[c]) /\ v \in Names /\ Rest(v) /\ Exists(v) /\ dockerAvail
        /\ s \in Hosted(v) /\ service[s].there
    BY <1>m, <2>1, <2>2, AtPowerAction
  <2>4. s \in Names /\ s # v /\ Running(v) /\ Present(s) /\ HostOf[s] = v
    BY <2>1, <2>3, <1>m, DockerNamesAssumption DEF PreparedNow, ReadyFor, Rest, Placement, Hosted
  <2>5. UNCHANGED container \/ (OnlyAt(s) /\ Running(s)' /\ Present(s)')
    BY <1>0, <2>1, <2>4, Effects
  <2>6. Running(v)'
    BY <2>3, <2>4, <2>5 DEF OnlyAt, Running
  <2>7. Promised
    <3>1. CASE UNCHANGED container
      BY <1>u, <3>1, NothingSeen
    <3>2. CASE OnlyAt(s) /\ Running(s)' /\ Present(s)'
      <4>1. SameMachines /\ OnlyService(s)
        BY <1>u, <2>4, <3>2, ServiceSeen
      <4>2. IsDeployed(s) /\ IsDeployed(s)' /\ IsServing(s)' /\ IsOn(HostOf[s])
        BY <1>u, <2>3, <2>4, <3>2 DEF IsDeployed, IsServing, IsOn
      <4> QED
        BY <4>1, <4>2, Serving
    <3> QED
      BY <2>5, <3>1, <3>2
  <2>8. ReadyFor(c, v)'
    BY <1>m, <2>1, <2>6 DEF ReadyFor, Swept
  <2>9. Readies(c)
    BY <1>m, <2>1, <2>2, <2>8, OwnReady
  <2> QED
    BY <1>u, <2>7, <2>9 DEF Renders
<1>8. CASE PowerDone(c)
  BY <1>0, <1>m, <1>u, <1>8, Gone, Unseen DEF PowerDone, docker
<1> QED
  BY <1>1, <1>2, <1>3, <1>4, <1>5, <1>6, <1>7, <1>8 DEF Powering

-----------------------------------------------------------------------------
(* Services: a VM stays on while one is deployed on it.                    *)
LEMMA DeployingRenders ==
  ASSUME Typed, Grouped, Secret, Shape, Placed, PreparedNow, cast.serialised, NEW c \in Clients, Deploying(c)
  PROVE  Renders(c)
<1> USE DEF At
<1>0. /\ DockerTypeOK /\ req \in [Clients -> Request] /\ req[c] \in Request /\ Dockerless
      /\ service \in [Services -> [port : Ports \cup {NoPort}, there : BOOLEAN]]
  BY About DEF Typed, RequestsType, StoreType, PreparedNow
<1>u. UNCHANGED <<record, cast, dockerAvail>>
  BY DEF Deploying, GetService, DeleteService, DeployService, DeployInspects, DeployComparesPorts, DeployLooksItselfUp, DeployReplaces,
         DeployRuns, DeployRunFails, DeployForgets, DeployRecords, ServiceWritesBack, ServiceRemoved, ServiceDropped, ServiceNoted,
         store, fixed
<1>m. /\ {"inspect", "siblings", "own", "unplace", "launch", "record", "svcWriteback", "svcRemove", "svcDrop"} \subseteq VMPoints \ (TokenPoints \cup DropPoints)
      /\ {"idle", "inspect", "unrecord", "svcWriteback", "svcRemove", "svcDrop", "svcVM", "writeback"} \cap HardPoints = {}
      /\ {"siblings", "own", "unplace", "launch", "record"} \subseteq OnPoints
      /\ {"siblings", "own", "unplace", "launch", "record"} \cap (LastPoints \cup DropPoints \cup TokenPoints) = {}
      /\ {"launch", "unrecord", "record", "svcDrop"} = WorkPoints
  BY DEF VMPoints, ServicePoints, TokenPoints, DropPoints, LastPoints, HardPoints, OnPoints, RemovalPoints, WorkPoints
<1>d. UNCHANGED service => Dockerless'
  BY <1>0, <1>u DEF Dockerless
<1>1. ASSUME NEW s \in Services, GetService(c, s) PROVE Renders(c)
  <2>1. req'[c].at = "svcWriteback"
    BY <1>0, <1>1 DEF GetService, Begin, Become, ServiceRequest, VMRequest, NoRequest
  <2> QED
    BY <1>0, <1>m, <1>u, <1>1, <2>1, Unseen DEF GetService, docker, store
<1>2. ASSUME NEW s \in Services, DeleteService(c, s) PROVE Renders(c)
  <2>1. req'[c].at \in {"svcRemove", "svcDrop"}
    BY <1>0, <1>2 DEF DeleteService, Begin, Become, ServiceRequest, VMRequest, NoRequest
  <2> QED
    BY <1>0, <1>m, <1>u, <1>2, <2>1, Unseen DEF DeleteService, docker, store
<1>3. ASSUME NEW s \in Services, NEW port \in PortsOf[s], DeployService(c, s, port) PROVE Renders(c)
  <2>1. req'[c].at = "inspect"
    BY <1>0, <1>3 DEF DeployService, Begin, Become, ServiceRequest, VMRequest, NoRequest
  <2> QED
    BY <1>0, <1>m, <1>u, <1>3, <2>1, Unseen DEF DeployService, docker, store
<1>g. ASSUME req[c].at \in {"inspect", "siblings", "own"}, UNCHANGED <<container, service>>,
             req[c].at = "inspect" => Running(req[c].vm),
             NEW p \in {"siblings", "own", "unplace", "launch"}, Goto(c, p), p = "launch" => ~service[req[c].svc].there
      PROVE  Renders(c)
  <2>1. PICK v \in VMs : v = req[c].vm
    BY <1>g, <1>m, AtOwn
  <2>2. v \in Scope(req[c])
    BY <1>g, <1>m, <2>1, OwnVM
  <2>3. Running(v)
    BY <1>g, <1>m, <2>1, <2>2 DEF PreparedNow, ReadyFor
  <2>4. /\ req'[c].at = p /\ req'[c].vm = req[c].vm /\ req'[c].who = req[c].who /\ req'[c].group = req[c].group /\ req'[c].svc = req[c].svc
    BY <1>g, Gone
  <2>5. Running(v)' /\ (p = "launch" => ~service'[req'[c].svc].there)
    BY <1>g, <2>3, <2>4 DEF Running
  <2>6. ReadyFor(c, v)'
    BY <1>m, <2>4, <2>5 DEF ReadyFor, Swept
  <2>7. Readies(c)
    BY <1>g, <1>m, <2>1, <2>4, <2>6, OwnReady
  <2> QED
    BY <1>d, <1>g, <1>u, <2>7, NothingSeen DEF Renders
<1>e. ASSUME Finish(c), UNCHANGED <<container, service>> PROVE Renders(c)
  BY <1>0, <1>e, <1>m, <1>u, Ended, Unseen
<1>4. CASE DeployInspects(c)
  BY <1>4, <1>e, <1>g DEF DeployInspects, docker, store
<1>5. CASE DeployComparesPorts(c)
  BY <1>5, <1>e, <1>g DEF DeployComparesPorts, docker, store
<1>6. CASE DeployLooksItselfUp(c)
  BY <1>6, <1>g DEF DeployLooksItselfUp, docker, store
<1>7. CASE DeployReplaces(c) \/ ServiceRemoved(c)
  <2>1. /\ req[c].at \in {"unplace", "svcRemove"} /\ Remove(req[c].svc) /\ UNCHANGED service
        /\ req'[c].at = IF req[c].at = "unplace" THEN "launch" ELSE "svcDrop"
        /\ req'[c].vm = req[c].vm /\ req'[c].who = req[c].who /\ req'[c].group = req[c].group /\ req'[c].svc = req[c].svc
    BY <1>7, Gone DEF DeployReplaces, ServiceRemoved, store
  <2>2. PICK v \in VMs, s \in Services :
            /\ v = req[c].vm /\ s = req[c].svc /\ s \in Hosted(v) /\ v \in Scope(req[c])
            /\ v \in Names /\ Hosted(v) \subseteq Names
    BY <2>1, AtWork
  <2>3. OnlyAt(s) /\ ~Present(s)'
    BY <1>0, <2>1, <2>2, Effects
  <2>4. SameMachines /\ OnlyService(s)
    BY <1>u, <2>1, <2>3, ServiceSeen
  <2>5. Promised
    BY <2>3, <2>4, Withdrawn DEF IsDeployed
  <2>6. CASE req[c].at = "svcRemove"
    BY <1>d, <1>m, <2>1, <2>5, <2>6, EasilyReady DEF Renders
  <2>7. CASE req[c].at = "unplace"
    <3>1. Running(v)
      BY <1>m, <2>2, <2>7 DEF PreparedNow, ReadyFor
    <3>2. v # s
      BY <2>2, DockerNamesAssumption
    <3>3. Running(v)' /\ ~Present(s)' /\ req'[c].svc = s
      BY <2>1, <2>2, <2>3, <3>1, <3>2 DEF OnlyAt, Running
    <3>4. (~Present(req[c].svc))'
      BY <3>3 DEF Present
    <3>5. ReadyFor(c, v)'
      BY <1>m, <2>1, <2>7, <3>3, <3>4 DEF ReadyFor, Swept
    <3>6. Readies(c)
      BY <1>m, <2>1, <2>2, <2>7, <3>5, OwnReady
    <3> QED
      BY <1>d, <2>1, <2>5, <3>6 DEF Renders
  <2> QED
    BY <2>1, <2>6, <2>7
<1>8. CASE DeployRuns(c) \/ DeployRunFails(c)
  <2>1. /\ req[c].at = "launch" /\ UNCHANGED service
        /\ req'[c].at \in {"record", "unrecord"} /\ (req'[c].at = "record" => DeployRuns(c))
        /\ req'[c].vm = req[c].vm /\ req'[c].who = req[c].who /\ req'[c].group = req[c].group
    BY <1>8, Gone DEF DeployRuns, DeployRunFails, store
  <2>2. PICK v \in VMs, s \in Services :
            /\ v = req[c].vm /\ s = req[c].svc /\ s \in Hosted(v) /\ v \in Scope(req[c])
            /\ v \in Names /\ Hosted(v) \subseteq Names
            /\ Exists(v) /\ dockerAvail
    BY <1>m, <2>1, AtWork
  <2>3. Running(v) /\ v # s /\ HostOf[s] = v
    BY <1>m, <2>1, <2>2, DockerNamesAssumption DEF PreparedNow, ReadyFor, Hosted
  <2>4. UNCHANGED container \/ (OnlyAt(s) /\ ~Present(s) /\ Present(s)')
    BY <1>0, <1>8, <2>2, Effects DEF DeployRuns, DeployRunFails, RunRefused
  <2>5. Promised
    <3>1. CASE UNCHANGED container
      BY <1>u, <2>1, <3>1, NothingSeen
    <3>2. CASE OnlyAt(s) /\ ~Present(s) /\ Present(s)'
      <4>1. SameMachines /\ OnlyService(s)
        BY <1>u, <2>1, <3>2, ServiceSeen
      <4>2. CASE service[s].there
        <5>1. ~IsDeployed(s) /\ IsDeployed(s)' /\ IsOn(HostOf[s])
          BY <1>u, <2>1, <2>2, <2>3, <3>2, <4>2 DEF IsDeployed, IsOn
        <5> QED
          BY <4>1, <5>1, Deploys
      <4>3. CASE ~service[s].there
        <5>1. SameServices
          BY <2>1, <4>1, <4>3 DEF OnlyService, SameServices, IsDeployed, IsServing
        <5> QED
          BY <4>1, <5>1, Stutters
      <4> QED
        BY <4>2, <4>3
    <3> QED
      BY <2>4, <3>1, <3>2
  <2>6. CASE req'[c].at = "unrecord"
    BY <1>d, <1>m, <2>1, <2>5, <2>6, EasilyReady DEF Renders
  <2>7. CASE req'[c].at = "record"
    <3>1. Running(v)'
      BY <2>2, <2>3, <2>4 DEF OnlyAt, Running
    <3>2. ReadyFor(c, v)'
      BY <1>m, <2>7, <3>1 DEF ReadyFor, Swept
    <3>3. Readies(c)
      BY <1>m, <2>1, <2>2, <2>7, <3>2, OwnReady
    <3> QED
      BY <1>d, <2>1, <2>5, <3>3 DEF Renders
  <2> QED
    BY <2>1, <2>6, <2>7
<1>9. CASE DeployForgets(c) \/ ServiceDropped(c)
  <2>1. /\ req[c].at \in {"unrecord", "svcDrop"} /\ service' = [service EXCEPT ![req[c].svc] = Absent] /\ UNCHANGED container
        /\ req'[c].at \in {"idle", "svcVM"}
    BY <1>9, Gone, Ended DEF DeployForgets, ServiceDropped, docker
  <2>2. PICK s \in Services : s = req[c].svc
    BY <1>m, <2>1, AtWork
  <2>3. (\A t \in Services \ {s} : service'[t] = service[t]) /\ ~service'[s].there
    BY <1>0, <2>1, <2>2 DEF Absent
  <2>4. SameMachines /\ OnlyService(s)
    BY <1>u, <2>1, <2>3, RecordSeen
  <2>5. Promised
    BY <2>3, <2>4, Withdrawn DEF IsDeployed
  <2>6. Dockerless'
    BY <1>0, <1>u, <2>3 DEF Dockerless
  <2> QED
    BY <1>m, <2>1, <2>5, <2>6, EasilyReady DEF Renders
<1>10. CASE DeployRecords(c)
  <2>1. /\ req[c].at = "record" /\ service' = [service EXCEPT ![req[c].svc] = Deployed(req[c].port)] /\ UNCHANGED container
        /\ req'[c].at = "writeback"
    BY <1>10, Gone DEF DeployRecords, docker
  <2>2. PICK v \in VMs, s \in Services :
            /\ v = req[c].vm /\ s = req[c].svc /\ s \in Hosted(v) /\ v \in Scope(req[c])
            /\ InFlight(c, s) /\ Exists(v) /\ dockerAvail
    BY <1>m, <2>1, AtWork
  <2>3. (\A t \in Services \ {s} : service'[t] = service[t]) /\ service'[s].there
    BY <1>0, <2>1, <2>2 DEF Deployed
  <2>4. Running(v) /\ HostOf[s] = v /\ Present(s)
    BY <1>m, <2>1, <2>2 DEF PreparedNow, ReadyFor, Hosted, InFlight
  <2>5. SameMachines /\ OnlyService(s)
    BY <1>u, <2>1, <2>3, RecordSeen
  <2>6. Promised
    <3>1. CASE service[s].there
      <4>1. SameServices
        BY <1>u, <2>1, <2>3, <2>5, <3>1 DEF OnlyService, SameServices, IsDeployed, IsServing, Present, Running
      <4> QED
        BY <2>5, <4>1, Stutters
    <3>2. CASE ~service[s].there
      <4>1. ~IsDeployed(s) /\ IsDeployed(s)' /\ IsOn(HostOf[s])
        BY <1>u, <2>1, <2>2, <2>3, <2>4, <3>2 DEF IsDeployed, IsOn, Present
      <4> QED
        BY <2>5, <4>1, Deploys
    <3> QED
      BY <3>1, <3>2
  <2>7. Dockerless'
    BY <1>u, <2>2 DEF Dockerless
  <2> QED
    BY <1>m, <2>1, <2>6, <2>7, EasilyReady DEF Renders
<1>11. CASE ServiceWritesBack(c)
  <2>1. req[c].at = "svcWriteback" /\ service' = [service EXCEPT ![req[c].svc] = Deployed(req[c].port)] /\ Finish(c) /\ UNCHANGED container
    BY <1>11 DEF ServiceWritesBack, docker
  <2>2. service[req[c].svc] = Deployed(req[c].port)
    BY <2>1 DEF Placed, Showing
  <2>3. UNCHANGED service
    BY <1>0, <2>1, <2>2
  <2> QED
    BY <1>e, <2>1, <2>3
<1>12. CASE ServiceNoted(c)
  <2>1. req'[c].at \in {"writeback", "idle"}
    <3>1. Become(c, [req[c] EXCEPT !.at = "writeback", !.held = record[req[c].vm]]) => req'[c].at = "writeback"
      BY <1>0 DEF Become, Request
    <3> QED
      BY <1>12, <3>1, Ended DEF ServiceNoted
  <2> QED
    BY <1>0, <1>m, <1>u, <1>12, <2>1, Unseen DEF ServiceNoted, docker, store
<1> QED
  BY <1>1, <1>2, <1>3, <1>4, <1>5, <1>6, <1>7, <1>8, <1>9, <1>10, <1>11, <1>12 DEF Deploying

-----------------------------------------------------------------------------
(* Deletions: a VM goes when nothing of it is left that runs.              *)
LEMMA RemovalReady ==
  ASSUME NEW c \in Clients, req'[c].at \in RemovalPoints,
         \A v \in VMs : v \in Scope(req'[c]) =>
            /\ req'[c].at = "delServices" /\ req'[c].vm = v => \A s \in ServiceRecords(v)' : s \in req'[c].todo \/ ~Present(s)'
            /\ Swept(req'[c], v) => Cleaned(v)'
  PROVE  Readies(c)
BY DEF Readies, ReadyFor, RemovalPoints, DropPoints, LastPoints, OnPoints

LEMMA CleanedStays ==
  ASSUME NEW v \in VMs, Cleaned(v), UNCHANGED dockerAvail, \A n \in VMs \cup Services : Present(n)' => Present(n),
         \A s \in Services : service'[s].there => service[s].there, record'[v] \in {0, record[v]}
  PROVE  Cleaned(v)'
BY DEF Cleaned, ServiceRecords, Hosted, Exists

(* What a deletion finds.                                                  *)
LEMMA InDeletion ==
  ASSUME PreparedNow, NEW c \in Clients, NEW v \in VMs, v \in Scope(req[c])
  PROVE  /\ req[c].at = "delServices" /\ req[c].vm = v => \A s \in ServiceRecords(v) : s \in req[c].todo \/ ~Present(s)
         /\ Swept(req[c], v) => Cleaned(v)
BY DEF PreparedNow, ReadyFor

LEMMA WithoutDocker == ASSUME Dockerless, ~dockerAvail, NEW v \in VMs PROVE ServiceRecords(v) = {} /\ Cleaned(v)
BY DEF Dockerless, ServiceRecords, Hosted, Cleaned

LEMMA DeletingRenders ==
  ASSUME Typed, Grouped, Secret, Shape, PreparedNow, cast.serialised, NEW c \in Clients, Deleting(c) \/ CascadeDropsContainers(c)
  PROVE  Renders(c)
<1> USE DEF At
<1>0. /\ DockerTypeOK /\ req \in [Clients -> Request] /\ req[c] \in Request /\ Dockerless /\ record \in [VMs -> 0 .. MaxCreates]
      /\ service \in [Services -> [port : Ports \cup {NoPort}, there : BOOLEAN]]
  BY About DEF Typed, RequestsType, StoreType, PreparedNow
<1>u. UNCHANGED <<cast, dockerAvail>>
  BY DEF Deleting, DeleteVM, DeleteGroup, DeleteLists, DeleteRemoves, DeleteRemovesVM, DeleteRemovesNetwork, DeleteSweeps,
         DeleteForgetsSecret, DeleteDrops, CleanupLists, CleanupForgetsSecret, CascadeDropsVMs, CascadeDropsServices,
         CascadeDropsIdentities, CascadeDropsContainers, fixed
<1>m. /\ DropPoints = {"delList", "delServices", "delNet"} /\ LastPoints = {"delSweep", "delSecret", "delKey"}
      /\ RemovalPoints = {"delList", "delServices", "delNet", "delSweep", "delSecret", "delKey", "rgNext", "rgServices", "rgIdentities"}
      /\ {"idle", "rgContainers", "rgList"} \cap HardPoints = {}
      /\ {"rgList", "rgNext", "rgServices", "rgIdentities"} \subseteq GroupPoints
  BY DEF RemovalPoints, DropPoints, LastPoints, HardPoints, OnPoints, GroupPoints
<1>t. (RemovalPoints \cup {"rgContainers", "rgList"}) \cap TokenPoints = {}
  BY <1>m DEF TokenPoints
<1>g. ASSUME req[c].at \in GroupPoints
      PROVE  req[c].group # None /\ \A v \in VMs : v \in Scope(req[c]) <=> GroupOf[v] = req[c].group
  <2>1. req[c].group # None
    BY <1>g, About, NothingAssumption DEF Typed, None
  <2>2. req[c].at \notin TokenPoints
    BY <1>g DEF GroupPoints, TokenPoints
  <2> QED
    BY <2>1, <2>2, InGroupOnly
<1>h. \A s \in Services : HostOf[s] \in VMs
  BY PlacesAssumption
<1>d. UNCHANGED service => Dockerless'
  BY <1>0, <1>u DEF Dockerless
<1>s. UNCHANGED <<service, container>> => \A v \in VMs : ServiceRecords(v)' = ServiceRecords(v) /\ \A n \in VMs \cup Services : Present(n)' => Present(n)
  BY DEF ServiceRecords, Present
<1>1. ASSUME NEW v \in VMs, DeleteVM(c, v) PROVE Renders(c)
  <2>1. /\ req'[c].at = IF dockerAvail THEN "delList" ELSE "delSweep"
        /\ req'[c].vm = v /\ req'[c].group = None
        /\ UNCHANGED <<record, service, container>>
    BY <1>0, <1>1 DEF DeleteVM, Begin, Become, VMRequest, NoRequest, docker, store
  <2>2. ~dockerAvail' => \A w \in VMs : Cleaned(w)'
    BY <1>0, <1>s, <1>u, <2>1, WithoutDocker, CleanedStays
  <2>3. Readies(c)
    BY <1>m, <1>u, <2>1, <2>2, RemovalReady DEF Swept
  <2> QED
    BY <1>d, <1>u, <2>1, <2>3, NothingSeen DEF Renders
<1>2. ASSUME NEW g \in Groups, DeleteGroup(c, g) PROVE Renders(c)
  <2>1. req'[c].at = "rgContainers"
    BY <1>0, <1>2 DEF DeleteGroup, Begin, Become, NoRequest
  <2> QED
    BY <1>0, <1>m, <1>u, <1>2, <2>1, Unseen DEF DeleteGroup, docker
<1>3. CASE CascadeDropsContainers(c)
  BY <1>0, <1>3, <1>m, <1>u, Gone, Unseen DEF CascadeDropsContainers, docker, store
<1>4. CASE CleanupLists(c)
  <2>1. /\ req[c].at = "rgList" /\ req'[c].at = "rgNext" /\ UNCHANGED <<record, service, container>>
        /\ req'[c].vm = req[c].vm /\ req'[c].who = req[c].who /\ req'[c].group = req[c].group
        /\ \A v \in VMs : GroupOf[v] = req[c].group => req'[c].cascade[v] = record[v]
    BY <1>0, <1>4 DEF CleanupLists, docker, store, Become, Request
  <2>2. Scope(req'[c]) = Scope(req[c])
    BY <1>m, <1>t, <2>1, ScopeStays
  <2>3. ASSUME NEW v \in VMs, v \in Scope(req'[c]), Swept(req'[c], v) PROVE Cleaned(v)'
    <3>1. ~Exists(v) /\ Emptied(c, v)
      BY <1>g, <1>m, <2>1, <2>2, <2>3 DEF Swept, Exists, Shape, Phase
    <3>2. Cleaned(v)
      BY <2>1, <3>1 DEF Emptied, Cleaned, ServiceRecords
    <3> QED
      BY <1>s, <1>u, <2>1, <3>2, CleanedStays
  <2>4. Readies(c)
    BY <1>m, <2>1, <2>3, RemovalReady
  <2> QED
    BY <1>d, <1>u, <2>1, <2>4, NothingSeen DEF Renders
<1>5. ASSUME NEW v \in VMs, CleanupForgetsSecret(c, v) PROVE Renders(c)
  <2>1. /\ req[c].at = "rgNext" /\ UNCHANGED <<record, service, container>>
        /\ req'[c].at = IF dockerAvail THEN "delList" ELSE "rgNext"
        /\ req'[c].vm = v /\ req'[c].who = req[c].who /\ req'[c].group = req[c].group
        /\ \A w \in VMs \ {v} : req'[c].cascade[w] = req[c].cascade[w]
    BY <1>0, <1>5 DEF CleanupForgetsSecret, docker, store, Become, Request
  <2>2. Scope(req'[c]) = Scope(req[c])
    BY <1>g, <1>m, <1>t, <2>1, ScopeStays
  <2>3. ASSUME NEW w \in VMs, w \in Scope(req'[c]), Swept(req'[c], w) PROVE Cleaned(w)'
    <3>1. Cleaned(w)
      BY <1>0, <1>m, <2>1, <2>2, <2>3, InDeletion, WithoutDocker DEF Swept
    <3> QED
      BY <1>s, <1>u, <2>1, <3>1, CleanedStays
  <2>4. Readies(c)
    BY <1>m, <2>1, <2>3, RemovalReady
  <2> QED
    BY <1>d, <1>u, <2>1, <2>4, NothingSeen DEF Renders
<1>6. CASE DeleteLists(c)
  <2>1. /\ req[c].at = "delList" /\ req'[c].at = "delServices" /\ UNCHANGED <<record, service, container>>
        /\ req'[c].vm = req[c].vm /\ req'[c].who = req[c].who /\ req'[c].group = req[c].group
        /\ req'[c].cascade = req[c].cascade /\ req'[c].todo = ServiceRecords(req[c].vm)
    BY <1>0, <1>6 DEF DeleteLists, docker, store, Become, Request
  <2>2. Scope(req'[c]) = Scope(req[c])
    BY <1>m, <1>t, <2>1, ScopeStays
  <2>3. ASSUME NEW v \in VMs, v \in Scope(req'[c]), Swept(req'[c], v) PROVE Cleaned(v)'
    <3>1. Cleaned(v)
      BY <1>m, <2>1, <2>2, <2>3, InDeletion DEF Swept
    <3> QED
      BY <1>s, <1>u, <2>1, <3>1, CleanedStays
  <2>4. \A v \in VMs : req'[c].vm = v => ServiceRecords(v)' \subseteq req'[c].todo
    BY <1>s, <2>1
  <2>5. Readies(c)
    BY <1>m, <2>1, <2>3, <2>4, RemovalReady
  <2> QED
    BY <1>d, <1>u, <2>1, <2>5, NothingSeen DEF Renders
<1>7. ASSUME NEW s \in Services, DeleteRemoves(c, s) PROVE Renders(c)
  <2>1. /\ req[c].at = "delServices" /\ s \in req[c].todo /\ Remove(s) /\ UNCHANGED <<record, service>>
        /\ req'[c].at = "delServices" /\ req'[c].vm = req[c].vm /\ req'[c].who = req[c].who /\ req'[c].group = req[c].group
        /\ req'[c].cascade = req[c].cascade /\ req'[c].todo = req[c].todo \ {s}
    BY <1>0, <1>7 DEF DeleteRemoves, store, Become, Request
  <2>2. Scope(req'[c]) = Scope(req[c])
    BY <1>m, <1>t, <2>1, ScopeStays
  <2>3. s \in Names /\ VMs \cup Services \subseteq Names
    BY DockerNamesAssumption
  <2>4. OnlyAt(s) /\ ~Present(s)'
    BY <1>0, <2>1, <2>3, Effects
  <2>5. \A n \in VMs \cup Services : Present(n)' => Present(n)
    BY <2>3, <2>4 DEF OnlyAt, Present
  <2>6. SameMachines /\ OnlyService(s)
    BY <1>u, <2>1, <2>3, <2>4, ServiceSeen
  <2>7. Promised
    BY <2>4, <2>6, Withdrawn DEF IsDeployed
  <2>8. ASSUME NEW v \in VMs, v \in Scope(req'[c]), Swept(req'[c], v) PROVE Cleaned(v)'
    <3>1. Cleaned(v)
      BY <1>m, <2>1, <2>2, <2>8, InDeletion DEF Swept
    <3> QED
      BY <1>u, <2>1, <2>5, <3>1, CleanedStays
  <2>9. ASSUME NEW v \in VMs, v \in Scope(req'[c]), req'[c].vm = v, NEW t \in ServiceRecords(v)' PROVE t \in req'[c].todo \/ ~Present(t)'
    <3>1. t \in ServiceRecords(v) /\ t \in Services
      BY <2>1, <2>9 DEF ServiceRecords, Hosted
    <3>2. t \in req[c].todo \/ ~Present(t)
      BY <2>1, <2>2, <2>9, <3>1, InDeletion
    <3> QED
      BY <2>1, <2>4, <2>5, <3>1, <3>2
  <2>10. Readies(c)
    BY <1>m, <2>1, <2>8, <2>9, RemovalReady
  <2> QED
    BY <1>d, <2>1, <2>7, <2>10 DEF Renders
<1>8. CASE DeleteRemovesVM(c)
  <2>1. /\ req[c].at = "delServices" /\ req[c].todo = {} /\ Remove(req[c].vm) /\ UNCHANGED <<record, service>> /\ Goto(c, "delNet")
    BY <1>8 DEF DeleteRemovesVM, store
  <2>2. /\ req'[c].at = "delNet" /\ req'[c].vm = req[c].vm /\ req'[c].who = req[c].who /\ req'[c].group = req[c].group
        /\ req'[c].cascade = req[c].cascade
    BY <2>1, Gone
  <2>3. PICK w \in VMs : w = req[c].vm /\ w \in Scope(req[c]) /\ w \in Names
    BY <1>m, <2>1, DropVM
  <2>4. Scope(req'[c]) = Scope(req[c])
    BY <1>m, <1>t, <2>1, <2>2, ScopeStays
  <2>5. OnlyAt(w) /\ ~Present(w)'
    BY <1>0, <2>1, <2>3, Effects
  <2>6. \A n \in VMs \cup Services : Present(n)' => Present(n)
    BY <2>3, <2>5, DockerNamesAssumption DEF OnlyAt, Present
  <2>7. \A s \in ServiceRecords(w) : ~Present(s)
    BY <2>1, <2>3, InDeletion
  <2>8. OnlyMachine(w) /\ SameServices
    BY <1>u, <2>1, <2>3, <2>5, VMSeen
  <2>9. Promised
    <3>1. \A v \in VMs : IsMachine(v)' => IsMachine(v)
      BY <1>u, <2>1, <2>6 DEF IsMachine, Exists
    <3>2. \A v \in VMs : IsOn(v)' <=> IsOn(v) /\ IsMachine(v)'
      <4>1. IsOn(w)' <=> IsOn(w) /\ IsMachine(w)'
        BY <1>u, <2>1, <2>5 DEF IsOn, IsMachine, Exists, Present, Running
      <4>2. \A v \in VMs : IsOn(v) => IsMachine(v)
        BY DEF IsOn, IsMachine, Present, Running
      <4> QED
        BY <2>8, <4>1, <4>2 DEF OnlyMachine
    <3>3. \A v \in VMs : IsMachine(v) /\ ~IsMachine(v)' => \A s \in Hosted(v) : ~IsDeployed(s)
      BY <2>7, <2>8 DEF OnlyMachine, ServiceRecords, IsDeployed
    <3> QED
      BY <2>8, <3>1, <3>2, <3>3, Deletes
  <2>10. ASSUME NEW v \in VMs, v \in Scope(req'[c]), Swept(req'[c], v) PROVE Cleaned(v)'
    <3>1. CASE v = w
      <4>1. \A s \in ServiceRecords(v)' : s \in ServiceRecords(v) /\ s \in VMs \cup Services
        BY <2>1 DEF ServiceRecords, Hosted
      <4> QED
        BY <2>5, <2>6, <2>7, <3>1, <4>1 DEF Cleaned
    <3>2. CASE v # w
      <4>1. Cleaned(v)
        BY <1>m, <2>1, <2>2, <2>3, <2>4, <2>10, <3>2, InDeletion DEF Swept
      <4> QED
        BY <1>u, <2>1, <2>6, <4>1, CleanedStays
    <3> QED
      BY <3>1, <3>2
  <2>11. Readies(c)
    BY <1>m, <2>2, <2>10, RemovalReady
  <2> QED
    BY <1>d, <2>1, <2>9, <2>11 DEF Renders
<1>9. CASE DeleteRemovesNetwork(c) \/ DeleteForgetsSecret(c)
  <2>1. /\ req[c].at \in {"delNet", "delSecret"} /\ UNCHANGED <<record, service, container>>
        /\ req'[c].at = CASE req[c].at = "delSecret" -> "delKey" [] OTHER -> IF req[c].group = None THEN "delSweep" ELSE "rgNext"
        /\ req'[c].vm = req[c].vm /\ req'[c].who = req[c].who /\ req'[c].group = req[c].group
        /\ req'[c].cascade = req[c].cascade
    <3>1. DeleteRemovesNetwork(c) => Goto(c, IF req[c].group = None THEN "delSweep" ELSE "rgNext") /\ req[c].at = "delNet"
      BY DEF DeleteRemovesNetwork
    <3>2. DeleteForgetsSecret(c) => Goto(c, "delKey") /\ req[c].at = "delSecret"
      BY DEF DeleteForgetsSecret
    <3> QED
      BY <1>9, <3>1, <3>2, Gone DEF DeleteRemovesNetwork, DeleteForgetsSecret, docker, store
  <2>2. Scope(req'[c]) = Scope(req[c])
    BY <1>m, <1>t, <2>1, ScopeStays
  <2>3. req[c].group = None => \A v \in VMs : v \in Scope(req[c]) => v = req[c].vm
    BY <1>m, <2>1, DropVM
  <2>4. ASSUME NEW v \in VMs, v \in Scope(req'[c]), Swept(req'[c], v) PROVE Cleaned(v)'
    <3>1. Cleaned(v)
      BY <1>m, <2>1, <2>2, <2>3, <2>4, InDeletion DEF Swept
    <3> QED
      BY <1>s, <1>u, <2>1, <3>1, CleanedStays
  <2>5. Readies(c)
    BY <1>m, <2>1, <2>4, RemovalReady
  <2> QED
    BY <1>d, <1>u, <2>1, <2>5, NothingSeen DEF Renders
<1>10. CASE DeleteSweeps(c) \/ CascadeDropsServices(c)
  <2>1. /\ req[c].at \in {"delSweep", "rgServices"} /\ UNCHANGED <<record, container>>
        /\ req'[c].at \in {"delSecret", "rgIdentities"}
        /\ req'[c].vm = req[c].vm /\ req'[c].who = req[c].who /\ req'[c].group = req[c].group
        /\ \A s \in Services : \/ service'[s] = service[s]
                               \/ ~service'[s].there /\ HostOf[s] \in Scope(req[c])
    <3>1. ASSUME DeleteSweeps(c) PROVE \A s \in Services : service'[s] = service[s] \/ (~service'[s].there /\ HostOf[s] \in Scope(req[c]))
      <4>1. req[c].vm \in Scope(req[c])
        BY <1>m, <3>1, DropVM DEF DeleteSweeps
      <4> QED
        BY <3>1, <4>1 DEF DeleteSweeps, Absent
    <3>2. ASSUME CascadeDropsServices(c) PROVE \A s \in Services : service'[s] = service[s] \/ (~service'[s].there /\ HostOf[s] \in Scope(req[c]))
      BY <1>g, <1>h, <1>m, <3>2 DEF CascadeDropsServices, Absent
    <3> QED
      BY <1>10, <3>1, <3>2, Gone DEF DeleteSweeps, CascadeDropsServices, docker
  <2>2. Scope(req'[c]) = Scope(req[c])
    BY <1>m, <1>t, <2>1, ScopeStays
  <2>3. \A v \in VMs : v \in Scope(req[c]) => Cleaned(v)
    BY <1>m, <2>1, InDeletion DEF Swept
  <2>4. \A v \in VMs : v \in Scope(req[c]) => Cleaned(v)'
    <3>1. \A s \in Services : service'[s].there => service[s].there
      BY <2>1
    <3>2. \A n \in VMs \cup Services : Present(n)' => Present(n)
      BY <2>1 DEF Present
    <3> QED
      BY <1>u, <2>1, <2>3, <3>1, <3>2, CleanedStays
  <2>5. SameMachines
    BY <1>u, <2>1 DEF SameMachines, IsMachine, IsOn, Exists, Present, Running
  <2>6. SameServices
    <3>1. ASSUME NEW s \in Services, service'[s] # service[s]
          PROVE  ~IsDeployed(s) /\ ~IsDeployed(s)' /\ ~IsServing(s) /\ ~IsServing(s)'
      BY <1>h, <2>1, <2>3, <3>1 DEF Cleaned, ServiceRecords, Hosted, IsDeployed, IsServing, Present, Running
    <3>2. ASSUME NEW s \in Services, service'[s] = service[s]
          PROVE  (IsDeployed(s)' <=> IsDeployed(s)) /\ (IsServing(s)' <=> IsServing(s))
      BY <1>u, <2>1, <3>2 DEF IsDeployed, IsServing, Present, Running
    <3> QED
      BY <3>1, <3>2 DEF SameServices
  <2>7. Dockerless'
    BY <1>0, <1>u, <2>1 DEF Dockerless
  <2>8. Readies(c)
    BY <1>m, <2>1, <2>2, <2>4, RemovalReady
  <2> QED
    BY <2>5, <2>6, <2>7, <2>8, Stutters DEF Renders
<1>11. CASE DeleteDrops(c) \/ CascadeDropsVMs(c)
  <2>1. /\ req[c].at = "delKey" \/ (req[c].at = "rgNext" /\ req[c].cascade = NoCascade)
        /\ UNCHANGED <<service, container>>
        /\ req'[c].at = "idle" \/ (req'[c].at = "rgServices" /\ Scope(req'[c]) = Scope(req[c]))
        /\ \A v \in VMs : record'[v] = record[v] \/ (record'[v] = 0 /\ v \in Scope(req[c]))
    <3>1. ASSUME DeleteDrops(c)
          PROVE  req'[c].at = "idle" /\ \A v \in VMs : record'[v] = record[v] \/ (record'[v] = 0 /\ v \in Scope(req[c]))
      <4>1. req[c].vm \in Scope(req[c]) /\ req[c].vm \in VMs
        BY <1>m, <3>1, DropVM DEF DeleteDrops
      <4> QED
        BY <1>0, <3>1, <4>1, Ended DEF DeleteDrops
    <3>2. ASSUME CascadeDropsVMs(c)
          PROVE  /\ req'[c].at = "rgServices" /\ Scope(req'[c]) = Scope(req[c])
                 /\ \A v \in VMs : record'[v] = record[v] \/ (record'[v] = 0 /\ v \in Scope(req[c]))
      <4>1. Scope(req'[c]) = Scope(req[c])
        BY <1>m, <1>t, <3>2, Gone, ScopeStays DEF CascadeDropsVMs
      <4> QED
        BY <1>g, <1>m, <3>2, <4>1, Gone DEF CascadeDropsVMs
    <3> QED
      BY <1>11, <3>1, <3>2 DEF DeleteDrops, CascadeDropsVMs, docker
  <2>2. \A v \in VMs : v \in Scope(req[c]) => Cleaned(v)
    BY <1>g, <1>m, <2>1, InDeletion DEF Swept, NoCascade
  <2>3. \A v \in VMs : v \in Scope(req[c]) => Cleaned(v)'
    BY <1>s, <1>u, <2>1, <2>2, CleanedStays
  <2>4. SameServices
    BY <1>u, <2>1 DEF SameServices, IsDeployed, IsServing, Present, Running
  <2>5. \A v \in VMs : IsMachine(v)' => IsMachine(v)
    BY <1>u, <2>1 DEF IsMachine, Exists, Present
  <2>6. \A v \in VMs : IsOn(v)' <=> IsOn(v) /\ IsMachine(v)'
    BY <1>u, <2>1 DEF IsOn, IsMachine, Exists, Present, Running
  <2>7. ASSUME NEW v \in VMs, IsMachine(v), ~IsMachine(v)', NEW s \in Hosted(v) PROVE ~IsDeployed(s)
    <3>1. record'[v] # record[v]
      BY <1>u, <2>1, <2>7 DEF IsMachine, Exists, Present
    <3>2. Cleaned(v)
      BY <2>1, <2>2, <3>1
    <3> QED
      BY <2>7, <3>2 DEF Cleaned, ServiceRecords, IsDeployed
  <2>8. Promised
    BY <2>4, <2>5, <2>6, <2>7, Deletes
  <2>9. Readies(c)
    BY <1>m, <2>1, <2>3, EasilyReady, RemovalReady
  <2> QED
    BY <1>d, <2>1, <2>8, <2>9 DEF Renders
<1>12. CASE CascadeDropsIdentities(c)
  BY <1>0, <1>12, <1>m, <1>u, Ended, Unseen DEF CascadeDropsIdentities, docker
<1> QED
  BY <1>1, <1>2, <1>3, <1>4, <1>5, <1>6, <1>7, <1>8, <1>9, <1>10, <1>11, <1>12 DEF Deleting

-----------------------------------------------------------------------------
(* What other requests find is what they left.                             *)
LEMMA SlackensAll ==
  ASSUME Dockerless, UNCHANGED dockerAvail, \A v \in VMs : Slackens(v)
  PROVE  Dockerless'
<1>1. \A s \in Services : HostOf[s] \in VMs /\ s \in Hosted(HostOf[s])
  BY PlacesAssumption DEF Hosted
<1> QED
  BY <1>1 DEF Dockerless, Slackens

LEMMA PreparedStays ==
  ASSUME Typed, Grouped, PreparedNow, UNCHANGED dockerAvail, \A v \in VMs : Slackens(v),
         \A d \in Clients : (Stands(d) /\ Scope(req'[d]) = Scope(req[d])) \/ req'[d].at \notin HardPoints
  PROVE  PreparedNow'
<1>1. ASSUME NEW d \in Clients, NEW v \in VMs, v \in Scope(req'[d]) PROVE ReadyFor(d, v)'
  <2>1. CASE Stands(d) /\ Scope(req'[d]) = Scope(req[d])
    <3>1. v \in Scope(req[d]) /\ ReadyFor(d, v)
      BY <1>1, <2>1 DEF PreparedNow
    <3> QED
      BY <2>1, <3>1, HostedByOwn, ReadyStays
  <2>2. CASE req'[d].at \notin HardPoints
    BY <2>2, EasyReady
  <2> QED
    BY <2>1, <2>2
<1> QED
  BY <1>1, SlackensAll DEF PreparedNow

LEMMA PreparedAfter ==
  ASSUME Typed, Grouped, Apart, PreparedNow, cast.serialised, NEW c \in Clients, OneMoves(c),
         Apart', cast' = cast, Local(c), Writes(c), Reaches(c), UNCHANGED dockerAvail, Renders(c)
  PROVE  PreparedNow'
<1>1. ASSUME NEW d \in Clients \ {c}, NEW v \in VMs, v \in Scope(req'[d]) PROVE ReadyFor(d, v)'
  <2>1. req'[d] = req[d] /\ v \in Scope(req[d]) /\ v \notin Scope(req[c])
    BY <1>1, OthersStay DEF Apart
  <2>2. v \in Names /\ v \notin Services /\ Hosted(v) \subseteq Services /\ Services \subseteq Names
    BY DockerNamesAssumption DEF Hosted
  <2>3. container'[v] = container[v] /\ \A s \in Hosted(v) : container'[s] = container[s]
    BY <2>1, <2>2, DockerNamesAssumption DEF Local, Hosted
  <2>4. record'[v] = record[v] /\ \A s \in Hosted(v) : service'[s] = service[s]
    BY <2>1 DEF Writes, Reaches, Hosted
  <2>5. Slackens(v)
    BY <2>3, <2>4 DEF Slackens, Present, Running
  <2> QED
    BY <2>1, <2>5, HostedByOwn, ReadyStays DEF PreparedNow, Stands
<1>2. \A v \in VMs : v \in Scope(req'[c]) => ReadyFor(c, v)'
  BY DEF Renders, Readies
<1> QED
  BY <1>1, <1>2 DEF PreparedNow, Renders

LEMMA FrozenSlackens == ASSUME UNCHANGED <<record, service, container>>, NEW v \in VMs PROVE Slackens(v)
BY DEF Slackens, Present, Running

LEMMA AttestingPrepares ==
  ASSUME Typed, Grouped, PreparedNow, NEW c \in Clients, Attesting(c)
  PROVE  PreparedNow' /\ Promised
<1>1. UNCHANGED <<record, service, container, cast, dockerAvail>>
  BY DEF Attesting, PutIdentity, IdentityKeepsItsPrincipal, IdentityGetsAPrincipal, IdentitySet,
         GetToken, TokenReadsVM, TokenChecksIdentity, TokenStored, store, docker, fixed
<1>2. \A v \in VMs : Slackens(v)
  BY <1>1, FrozenSlackens
<1>m. ({"idle", "idGet", "idSet"} \cup TokenPoints) \cap HardPoints = {}
  BY DEF TokenPoints, HardPoints, OnPoints, RemovalPoints, DropPoints, LastPoints
<1>3. req'[c].at \notin HardPoints
  <2>1. CASE Attests(c)
    BY <1>m, <2>1 DEF Attests, Asks, Settles, Looks, Answers, NoRequest, TokenPoints
  <2>2. CASE IdentitySet(c)
    BY <1>m, <2>2, SetFrame
  <2> QED
    BY <2>1, <2>2, AttestingFrame
<1>4. \A d \in Clients \ {c} : Stands(d) /\ Scope(req'[d]) = Scope(req[d])
  <2>1. CASE Attests(c)
    BY <2>1, OthersStay DEF Attests, Stands
  <2>2. CASE IdentitySet(c)
    <3>1. \A d \in Clients \ {c} : Stands(d)
      BY <2>2, SetFrame DEF Stands
    <3>2. ASSUME NEW d \in Clients \ {c} PROVE Scope(req'[d]) = Scope(req[d])
      <4>1. req'[d].at = req[d].at /\ req'[d].group = req[d].group /\ req'[d].vm = req[d].vm /\ req'[d].who = req[d].who
        BY <2>2, SetFrame
      <4> QED
        BY <4>1 DEF Scope
    <3> QED
      BY <3>1, <3>2
  <2> QED
    BY <2>1, <2>2, AttestingFrame
<1>5. PreparedNow'
  BY <1>1, <1>2, <1>3, <1>4, PreparedStays
<1> QED
  BY <1>1, <1>5, NothingSeen

LEMMA AsidePrepares ==
  ASSUME Typed, Grouped, PreparedNow, Aside
  PROVE  PreparedNow' /\ Promised
<1>0. DockerTypeOK /\ container \in [Names -> Container] /\ VMs \cup Services \subseteq Names /\ VMs \cap Services = {}
  BY DockerNamesAssumption DEF Typed, DockerTypeOK
<1>1. req' = req /\ UNCHANGED <<record, service, cast>>
  BY AsideFrame
<1>2. UNCHANGED dockerAvail
  BY DEF Aside, Elsewhere, ServiceExits, PutGroup, DeleteIdentity, IntrospectExpired, vars, fixed
<1>3. \A d \in Clients : Stands(d) /\ Scope(req'[d]) = Scope(req[d])
  BY <1>1 DEF Stands
<1>4. ASSUME \A n \in VMs \cup Services : container'[n] = container[n] PROVE PreparedNow' /\ Promised
  <2>1. \A v \in VMs : Slackens(v)
    BY <1>1, <1>4 DEF Slackens, Hosted, Present, Running
  <2>2. SameMachines /\ SameServices
    BY <1>1, <1>2, <1>4 DEF SameMachines, SameServices, IsMachine, IsOn, IsDeployed, IsServing, Exists, Present, Running
  <2> QED
    BY <1>2, <1>3, <2>1, <2>2, PreparedStays, Stutters
<1>5. ASSUME NEW s \in Services, ServiceExits(s) PROVE PreparedNow' /\ Promised
  <2>1. OnlyAt(s) /\ ~Running(s)' /\ (Present(s)' <=> Present(s))
    BY <1>0, <1>5, Effects DEF ServiceExits
  <2>2. \A v \in VMs : Slackens(v)
    BY <1>0, <1>1, <2>1 DEF Slackens, OnlyAt, Hosted, Present, Running
  <2>3. SameMachines /\ OnlyService(s)
    BY <1>0, <1>1, <1>2, <2>1, ServiceSeen
  <2>4. Promised
    BY <1>1, <2>1, <2>3, Halts DEF IsDeployed, IsServing
  <2> QED
    BY <1>2, <1>3, <2>2, <2>4, PreparedStays
<1>6. CASE Elsewhere
  <2>1. \A n \in VMs \cup Services : container'[n] = container[n]
    BY <1>0, <1>6 DEF Elsewhere
  <2> QED
    BY <1>4, <2>1
<1>7. CASE UNCHANGED container
  BY <1>4, <1>7
<1> QED
  BY <1>5, <1>6, <1>7 DEF Aside, PutGroup, DeleteIdentity, IntrospectExpired, docker, vars

LEMMA RestartPrepares == ASSUME Typed, Restart PROVE PreparedNow' /\ Promised
<1>1. \A d \in Clients : Scope(req'[d]) = {}
  BY NoScope, RestartFrame
<1>2. (\A v \in VMs : ~Exists(v)') /\ \A s \in Services : ~service'[s].there
  BY DEF Restart, NoRecords, NoServices, Absent, Exists
<1>3. PreparedNow'
  BY <1>1, <1>2 DEF PreparedNow, Dockerless
<1>4. Promise!Forget
  BY <1>2 DEF Promise!Forget, IsMachine, IsOn, IsDeployed, IsServing
<1> QED
  BY <1>3, <1>4 DEF Promised, Promise!Next

LEMMA PreparedStep ==
  ASSUME Typed, Grouped, Apart, Ported, Secretive, Netted, Shaped, Prepared, [Next]_vars
  PROVE  Prepared' /\ Promised
<1>0. cast' = cast /\ Apart'
  BY CastStays, ApartStep
<1>n. CASE ~cast.serialised
  <2>1. SameMachines /\ SameServices
    BY <1>0, <1>n DEF SameMachines, SameServices, IsMachine, IsOn, IsDeployed, IsServing
  <2> QED
    BY <1>0, <1>n, <2>1, Stutters DEF Prepared
<1> SUFFICES ASSUME cast.serialised PROVE PreparedNow' /\ Promised
  BY <1>0, <1>n DEF Prepared
<1>s. Shape /\ Secret /\ PortsDiffer /\ Placed /\ PreparedNow
  BY DEF Shaped, Secretive, Ported, Prepared
<1>1. ASSUME NEW c \in Clients, Handles(c) PROVE PreparedNow' /\ Promised
  <2>1. OneMoves(c) /\ Reaches(c) /\ Writes(c)
    BY <1>1, <1>s, HandlesFrame, HandlesReach, HandlesStep DEF Framed
  <2>2. Local(c) /\ UNCHANGED dockerAvail
    BY <1>1, <1>s, PuttingMeets, DeletingMeets, PoweringMeets DEF Handles
  <2>3. Renders(c)
    BY <1>1, <1>s, PuttingRenders, DeletingRenders, PoweringRenders DEF Handles
  <2> QED
    BY <1>0, <1>s, <2>1, <2>2, <2>3, PreparedAfter DEF Renders
<1>2. ASSUME NEW c \in Clients, Deploying(c) PROVE PreparedNow' /\ Promised
  <2>1. OneMoves(c) /\ Plain(c) /\ Reaches(c)
    BY <1>2, <1>s, DeployingFrame, DeployingPlain, DeployingPorts DEF Framed, Secret
  <2>2. Writes(c)
    BY <1>s, <2>1, PlainStep
  <2>3. Local(c) /\ UNCHANGED dockerAvail
    BY <1>2, <1>s, DeployingMeets
  <2>4. Renders(c)
    BY <1>2, <1>s, DeployingRenders
  <2> QED
    BY <1>0, <1>s, <2>1, <2>2, <2>3, <2>4, PreparedAfter DEF Renders
<1>3. ASSUME NEW c \in Clients, Attesting(c) PROVE PreparedNow' /\ Promised
  BY <1>3, <1>s, AttestingPrepares
<1>4. CASE Aside
  BY <1>4, <1>s, AsidePrepares
<1>5. CASE Restart
  BY <1>5, RestartPrepares
<1> QED
  BY <1>1, <1>2, <1>3, <1>4, <1>5, StepKinds

(* To clients that keep their requests about one VM apart, a VM is one     *)
(* thing (all handlers of the package together): every step of a handler   *)
(* is one of Machines, or is not seen, whatever requests about other VMs   *)
(* and the services that end do in between.                                *)
THEOREM HandlersImplementMachines == Spec => ImplementsMachines
<1>1. Init => Prepared /\ Promise!Init
  <2> SUFFICES ASSUME Init PROVE Prepared /\ Promise!Init
    OBVIOUS
  <2>1. (\A v \in VMs : ~Exists(v)) /\ \A s \in Services : ~service[s].there
    BY DEF Init, NoRecords, NoServices, Absent, Exists
  <2>2. \A d \in Clients : Scope(req[d]) = {}
    BY NoScope DEF Init
  <2>3. Prepared
    BY <2>1, <2>2 DEF Prepared, PreparedNow, Dockerless
  <2>4. Promise!Init
    BY <2>1 DEF Promise!Init, IsMachine, IsOn, IsDeployed, IsServing
  <2> QED
    BY <2>3, <2>4
<1>2. Typed /\ (Grouped /\ Apart /\ Steadied) /\ Ported /\ Secretive /\ Netted /\ Shaped /\ Prepared /\ [Next]_vars
         => Prepared' /\ [Promise!Next]_(Promise!vars)
  BY PreparedStep DEF Promised
<1>3. Init => Netted
  BY InitialShape
<1>4. Typed /\ Netted /\ [Next]_vars => Netted'
  BY NettedStep
<1> QED
  BY <1>1, <1>2, <1>3, <1>4, AlwaysTyped, AlwaysApart, AlwaysPorted, AlwaysSecretive, AlwaysShaped, PTL DEF Spec, ImplementsMachines, Promise!Spec
=============================================================================
