----------------------------- MODULE ArmServer ------------------------------
(***************************************************************************)
(* Clients whose requests the handlers serve, one call to the shared store *)
(* after the other.  The store locks each call and nothing longer, so the  *)
(* calls of different requests interleave.                                 *)
(*                                                                         *)
(* Over a map in memory, saved to a file or not, Get hands out the stored  *)
(* Go map itself.  The records of vnet and nsg are therefore objects of a  *)
(* heap, each holding a list of children; two handlers that have got the   *)
(* same record assign to the same object.  Over PostgreSQL every Get       *)
(* decodes a copy.  The other records are told apart only by the address   *)
(* of a public IP, the outcome of a deployment, and whether JSON has taken *)
(* the Go type from a record whose handlers assert it.                     *)
(***************************************************************************)
EXTENDS StoreCalls, FiniteSets

CONSTANTS Clients,
          Casts,        (* what is asked in a behaviour, and what may      *)
                        (* happen                                          *)
          Longer,       (* pairs of names, the second beginning with the   *)
                        (* first                                           *)
          Alike,        (* pairs of names, the second of which LIKE takes  *)
                        (* for the first                                   *)
          Objects       (* maps the process may hold at a time             *)

(* A cast: the requests; how many are served at once; the backend of the   *)
(* store; and bounds on the addresses given (below the 2^16 after which    *)
(* nextIP comes round), the resets and the restarts.                       *)
ASSUME CastsAssumption ==
    \A cast \in Casts :
        /\ cast.backend \in {"memory", "file", "postgres"}
        /\ {cast.atOnce, cast.addresses, cast.resets, cast.restarts} \subseteq Nat

VARIABLES cast,
          store,        (* from the keys present to their records          *)
          heap,         (* the list of children each object holds          *)
          counter,      (* ipCounter                                       *)
          request,      (* of each client, or NoRequest                    *)
          pc,           (* the next call of the request                    *)
          status,       (* whether a call has failed it                    *)
          held,         (* the record Get returned, or NoRecord            *)
          listed,       (* the keys ListByPrefix returned; the answer      *)
          window,       (* the keys in the store at every instant of the   *)
                        (* request, and those in it at some instant        *)
          resets,
          restarts      (* of the process                                  *)

vars == <<cast, store, heap, counter, request, pc, status, held, listed, window, resets, restarts>>
process == <<cast, restarts>>

None == "none"
NoAddress == 0
Plain == [object |-> None, address |-> NoAddress, ok |-> TRUE, decoded |-> FALSE]
NoRecord == [object |-> None, address |-> NoAddress, ok |-> FALSE, decoded |-> FALSE]
NoRequest == Request("", "", <<>>, <<>>)
NoWindow == [throughout |-> {}, sometime |-> {}]

KindsWithList == {"vnet", "nsg"}

(* The kinds that are stored as a Go struct which their handlers assert.   *)
(* JSON decodes it as a map.  (DeleteServer asserts a Database as well,    *)
(* for the engine outside only: dbpostgres/handler.go:264.)                *)
AssertedKinds == {"rg", "blob:container", "blob:blob", "kv"}
OverPostgres == cast.backend = "postgres"

-----------------------------------------------------------------------------
(* strings.HasPrefix, on keys.                                             *)
Begins(name, part) == part = "" \/ part = name \/ <<part, name>> \in Longer

HasPrefix(key, prefix) ==
    LET n == Len(prefix.path) IN
    /\ key.kind = prefix.kind
    /\ Len(key.path) >= n
    /\ \A i \in 1..(n - 1) : key.path[i] = prefix.path[i]
    /\ Begins(key.path[n], prefix.path[n])

(* key LIKE prefix || '%', on keys: an underscore in a name of the prefix  *)
(* stands for any character.                                               *)
LikeName(name, part) == part = name \/ <<part, name>> \in Alike

Like(key, prefix) ==
    LET n == Len(prefix.path) IN
    /\ key.kind = prefix.kind
    /\ Len(key.path) >= n
    /\ \A i \in 1..(n - 1) : LikeName(key.path[i], prefix.path[i])
    /\ Begins(key.path[n], prefix.path[n]) \/ LikeName(key.path[n], prefix.path[n])

Matching(keys, prefix) ==
    {key \in keys : HasPrefix(key, prefix) \/ (OverPostgres /\ Like(key, prefix))}

(* Below a record: the names of its key, and more; and what LIKE takes for *)
(* such a key.                                                             *)
Below(k, key) ==
    /\ Len(k.path) > Len(key.path)
    /\ \A i \in DOMAIN key.path : k.path[i] = key.path[i]
LikeBelow(k, key) ==
    /\ OverPostgres
    /\ Len(k.path) > Len(key.path)
    /\ \A i \in DOMAIN key.path : LikeName(k.path[i], key.path[i])

-----------------------------------------------------------------------------
Init ==
    /\ cast \in Casts
    /\ store = [k \in {} |-> Plain]
    /\ heap = [o \in Objects |-> {}]
    /\ counter = 0
    /\ request = [c \in Clients |-> NoRequest]
    /\ pc = [c \in Clients |-> 1]
    /\ status = [c \in Clients |-> "ok"]
    /\ held = [c \in Clients |-> NoRecord]
    /\ listed = [c \in Clients |-> {}]
    /\ window = [c \in Clients |-> NoWindow]
    /\ resets = 0
    /\ restarts = 0

Running(c) == request[c] # NoRequest
Finished(c) == Running(c) /\ pc[c] > Len(request[c].calls)
At(c, op) == Running(c) /\ ~Finished(c) /\ request[c].calls[pc[c]].op = op
Current(c) == request[c].calls[pc[c]]
Target(c) == Current(c).key

Continue(c) == pc' = [pc EXCEPT ![c] = @ + 1] /\ UNCHANGED status

(* Mutant: a failed call ends the request as if it had succeeded.          *)
BugFailureForgotten(c) ==
    /\ pc' = [pc EXCEPT ![c] = IF Current(c).skip > 0 THEN @ + 1 + Current(c).skip
                                                     ELSE request[c].cleanup]
    /\ UNCHANGED status

(* The call has not done its work: a return with an error, or a branch     *)
(* that is left out.                                                       *)
GiveUp(c) ==
    IF Current(c).skip > 0
    THEN pc' = [pc EXCEPT ![c] = @ + 1 + Current(c).skip] /\ UNCHANGED status
    ELSE /\ pc' = [pc EXCEPT ![c] = request[c].cleanup]
         /\ status' = [status EXCEPT ![c] = "failed"]

(* What a GET or DELETE sees of the keys below its own.                    *)
Seen(r, keys) ==
    IF r.method \in {"GET", "DELETE"} THEN {k \in keys : Below(k, r.target)} ELSE {}

(* The store changes, and with it what the running requests have seen.     *)
Becomes(new) ==
    /\ store' = new
    /\ window' = [c \in Clients |->
                    [throughout |-> window[c].throughout \intersect DOMAIN new,
                     sometime |-> window[c].sometime \union Seen(request[c], DOMAIN new)]]

With(key, record) ==
    [k \in DOMAIN store \union {key} |-> IF k = key THEN record ELSE store[k]]
Without(keys) == [k \in DOMAIN store \ keys |-> store[k]]

(* The objects the store, or a handler that has got them, refers to.       *)
InUse(records) == {store[k].object : k \in DOMAIN store} \union {records[c].object : c \in Clients}

-----------------------------------------------------------------------------
Begin(c, r) ==
    /\ ~Running(c)
    /\ Cardinality({d \in Clients : Running(d)}) < cast.atOnce
    /\ (\E i \in DOMAIN r.calls : r.calls[i].op = "address") => counter < cast.addresses
    /\ request' = [request EXCEPT ![c] = r]
    /\ window' = [window EXCEPT ![c] = [throughout |-> Seen(r, DOMAIN store),
                                        sometime |-> Seen(r, DOMAIN store)]]
    /\ UNCHANGED <<process, store, heap, counter, pc, status, held, listed, resets>>

(* The answer goes out; an object nothing refers to any more is collected. *)
Respond(c) ==
    /\ Finished(c)
    /\ request' = [request EXCEPT ![c] = NoRequest]
    /\ pc' = [pc EXCEPT ![c] = 1]
    /\ status' = [status EXCEPT ![c] = "ok"]
    /\ held' = [held EXCEPT ![c] = NoRecord]
    /\ listed' = [listed EXCEPT ![c] = {}]
    /\ window' = [window EXCEPT ![c] = NoWindow]
    /\ heap' = [o \in Objects |-> IF o \in InUse(held') THEN heap[o] ELSE {}]
    /\ UNCHANGED <<process, store, counter, resets>>

-----------------------------------------------------------------------------
(* Reading.                                                                *)

Found(c) == Target(c) \in DOMAIN store
Spare == CHOOSE o \in Objects : o \notin InUse(held)

(* The record itself; over PostgreSQL a copy, in an object of its own.     *)
Find(c) ==
    IF Found(c) /\ OverPostgres /\ Target(c).kind \in KindsWithList
    THEN /\ Objects \ InUse(held) # {}
         /\ held' = [held EXCEPT ![c] = [store[Target(c)] EXCEPT !.object = Spare]]
         /\ heap' = [heap EXCEPT ![Spare] = heap[store[Target(c)].object]]
    ELSE /\ held' = [held EXCEPT ![c] = IF Found(c) THEN store[Target(c)] ELSE NoRecord]
         /\ UNCHANGED heap

DoGet(c) ==
    /\ At(c, "get")
    /\ Find(c)
    /\ IF Found(c) THEN Continue(c) ELSE GiveUp(c)
    /\ UNCHANGED <<process, store, counter, request, listed, window, resets>>

DoLook(c) ==
    /\ At(c, "look")
    /\ Find(c)
    /\ Continue(c)
    /\ UNCHANGED <<process, store, counter, request, listed, window, resets>>

(* v.(ResourceGroup): a panic, answered with 500, when v is a map.         *)
DoTyped(c) ==
    /\ At(c, "typed")
    /\ IF held[c].decoded THEN GiveUp(c) ELSE Continue(c)
    /\ UNCHANGED <<process, store, heap, counter, request, held, listed, window, resets>>

DoAbsent(c) ==
    /\ At(c, "absent")
    /\ IF Target(c) \in DOMAIN store THEN GiveUp(c) ELSE Continue(c)
    /\ UNCHANGED <<process, store, heap, counter, request, held, listed, window, resets>>

DoUnlessFound(c) ==
    /\ At(c, "unlessFound")
    /\ IF held[c] # NoRecord THEN GiveUp(c) ELSE Continue(c)
    /\ UNCHANGED <<process, store, heap, counter, request, held, listed, window, resets>>

DoListByPrefix(c) ==
    /\ At(c, "listByPrefix")
    /\ listed' = [listed EXCEPT ![c] = Matching(DOMAIN store, Target(c))]
    /\ Continue(c)
    /\ UNCHANGED <<process, store, heap, counter, request, held, window, resets>>

(* if s, ok := item.(Secret); ok: the other items are left out.  Registries*)
(* are stored as maps from the start: the check of a registry's name       *)
(* asserts a Registry and never sees one.                                  *)
IsStruct(k) == k.kind \in AssertedKinds /\ ~store[k].decoded

DoListTyped(c) ==
    /\ At(c, "listTyped")
    /\ listed' = [listed EXCEPT ![c] =
                     {k \in Matching(DOMAIN store, Target(c)) : IsStruct(k)}]
    /\ Continue(c)
    /\ UNCHANGED <<process, store, heap, counter, request, held, window, resets>>

-----------------------------------------------------------------------------
(* Writing.  A new record with a list is an object that nothing refers to  *)
(* any more; it holds what the handler has listed for it.                  *)

DoSet(c) ==
    /\ At(c, "set")
    /\ IF Target(c).kind \in KindsWithList
       THEN /\ Objects \ InUse(held) # {}
            /\ Becomes(With(Target(c), [Plain EXCEPT !.object = Spare]))
            /\ heap' = [heap EXCEPT ![Spare] = listed[c]]
       ELSE /\ Becomes(With(Target(c),
                     [Plain EXCEPT
                        !.address = IF Target(c).kind = "publicip" THEN held[c].address ELSE @,
                        !.ok = Target(c).kind = "deployment" => status[c] = "ok",
                        !.decoded = OverPostgres /\ Target(c).kind \in AssertedKinds]))
            /\ UNCHANGED heap
    /\ listed' = [listed EXCEPT ![c] = {}]
    /\ Continue(c)
    /\ UNCHANGED <<process, counter, request, held, resets>>

DoSetSame(c) ==
    /\ At(c, "setSame")
    /\ Becomes(With(Target(c), held[c]))
    /\ Continue(c)
    /\ UNCHANGED <<process, heap, counter, request, held, listed, resets>>

(* props["subnets"] = ..., props["securityRules"] = ...                    *)
DoAssign(c) ==
    /\ At(c, "assign")
    /\ heap' = [heap EXCEPT ![held[c].object] = listed[c]]
    /\ listed' = [listed EXCEPT ![c] = {}]
    /\ Continue(c)
    /\ UNCHANGED <<process, store, counter, request, held, window, resets>>

DoEncode(c) ==
    /\ At(c, "encode")
    /\ listed' = [listed EXCEPT ![c] = heap[held[c].object]]
    /\ Continue(c)
    /\ UNCHANGED <<process, store, heap, counter, request, held, window, resets>>

(* Mutants: every PUT takes a new address; the address is the number of    *)
(* public IPs.                                                             *)
BugNewAddress(c) ==
    /\ At(c, "address")
    /\ counter' = counter + 1
    /\ held' = [held EXCEPT ![c].address = counter']
    /\ Continue(c)
    /\ UNCHANGED <<process, store, heap, request, listed, window, resets>>
BugCountedAddress(c) ==
    /\ At(c, "address")
    /\ counter' = Cardinality({k \in DOMAIN store : k.kind = "publicip"} \union {Current(c).key})
    /\ held' = [held EXCEPT ![c].address = counter']
    /\ Continue(c)
    /\ UNCHANGED <<process, store, heap, request, listed, window, resets>>

(* buildResponse keeps the address of the record found; nextIP otherwise.  *)
DoAddress(c) ==
    /\ At(c, "address")
    /\ IF held[c] # NoRecord
       THEN UNCHANGED <<counter, held>>
       ELSE /\ counter' = counter + 1
            /\ held' = [held EXCEPT ![c].address = counter']
    /\ Continue(c)
    /\ UNCHANGED <<process, store, heap, request, listed, window, resets>>

DoDelete(c) ==
    /\ At(c, "delete")
    /\ IF Target(c) \in DOMAIN store THEN Continue(c) ELSE GiveUp(c)
    /\ Becomes(Without({Target(c)}))
    /\ UNCHANGED <<process, heap, counter, request, held, listed, resets>>

DoDrop(c) ==
    /\ At(c, "drop")
    /\ Becomes(Without({Target(c)}))
    /\ Continue(c)
    /\ UNCHANGED <<process, heap, counter, request, held, listed, resets>>

DoDeleteByPrefix(c) ==
    /\ At(c, "deleteByPrefix")
    /\ Becomes(Without(Matching(DOMAIN store, Target(c))))
    /\ Continue(c)
    /\ UNCHANGED <<process, heap, counter, request, held, listed, resets>>
-----------------------------------------------------------------------------
(* A failure that is not the store's.                                      *)
DoMayFail(c) ==
    /\ At(c, "mayFail")
    /\ Continue(c) \/ GiveUp(c)
    /\ UNCHANGED <<process, store, heap, counter, request, held, listed, window, resets>>

DoNotRouted(c) ==
    /\ At(c, "notRouted")
    /\ GiveUp(c)
    /\ UNCHANGED <<process, store, heap, counter, request, held, listed, window, resets>>

(* POST /_miniblue/reset, at any moment.                                   *)
Reset ==
    /\ resets < cast.resets
    /\ resets' = resets + 1
    /\ Becomes(Without(DOMAIN store))
    /\ UNCHANGED <<process, heap, counter, request, pc, status, held, listed>>

(* The process is stopped between two requests and started again: the file *)
(* has what the final Save wrote, as JSON, and ipCounter is 0.  What a     *)
(* save that fails, or a kill, does to the file is in FileBackend.         *)
Restart ==
    /\ cast.backend # "memory" /\ restarts < cast.restarts
    /\ \A c \in Clients : ~Running(c)
    /\ restarts' = restarts + 1
    /\ Becomes([k \in DOMAIN store |-> [store[k] EXCEPT !.decoded = k.kind \in AssertedKinds]])
    /\ counter' = 0
    /\ UNCHANGED <<cast, heap, request, pc, status, held, listed, resets>>

Reads(c) == DoGet(c) \/ DoLook(c) \/ DoAbsent(c) \/ DoUnlessFound(c) \/ DoListByPrefix(c)
            \/ DoTyped(c) \/ DoListTyped(c)
Writes(c) == DoSet(c) \/ DoSetSame(c) \/ DoAssign(c) \/ DoEncode(c) \/ DoAddress(c)
Deletes(c) == DoDelete(c) \/ DoDrop(c) \/ DoDeleteByPrefix(c)
Fails(c) == DoMayFail(c) \/ DoNotRouted(c)

Next ==
    \/ \E c \in Clients :
          \/ \E r \in cast.requests : Begin(c, r)
          \/ Reads(c)
          \/ Writes(c)
          \/ Deletes(c)
          \/ Fails(c)
          \/ Respond(c)
    \/ Reset
    \/ Restart

Spec == Init /\ [][Next]_vars

-----------------------------------------------------------------------------
(* The keys and records there may be.                                      *)
Written(r) == {r.calls[i].key : i \in {j \in DOMAIN r.calls : r.calls[j].op \in {"set", "setSame"}}}
Requests == UNION {k.requests : k \in Casts}
Keys == UNION {Written(r) : r \in Requests}

Records == [object : Objects \union {None}, address : Nat, ok : BOOLEAN, decoded : BOOLEAN]

(* Every variable has its type; a request that runs is one of the cast,    *)
(* and no early return jumps out of it (cleanup, skip).                  *)
TypeOK ==
    /\ cast \in Casts
    /\ DOMAIN store \subseteq Keys
    /\ \A k \in DOMAIN store : store[k] \in Records
    /\ heap \in [Objects -> SUBSET Keys]
    /\ counter \in Nat
    /\ request \in [Clients -> cast.requests \union {NoRequest}]
    /\ pc \in [Clients -> Nat]
    /\ \A c \in Clients : pc[c] \in 1..(Len(request[c].calls) + 1)
    /\ status \in [Clients -> {"ok", "failed"}]
    /\ held \in [Clients -> Records]
    /\ listed \in [Clients -> SUBSET Keys]
    /\ window \in [Clients -> [throughout : SUBSET Keys, sometime : SUBSET Keys]]
    /\ resets \in 0..cast.resets /\ restarts \in 0..cast.restarts

-----------------------------------------------------------------------------
(* What is below what.                                                     *)

(* The kinds whose PUT asks for the parent, with the parent's kind.        *)
ParentKinds == {<<"subnet", "vnet">>, <<"nsgrule", "nsg">>, <<"dns:record", "dns:zone">>,
    <<"sqldb:db", "sqldb:server">>, <<"pgflex:db", "pgflex:server">>,
    <<"dbmysql:db", "dbmysql:server">>, <<"queue:msg", "queue:meta">>}
Parents(k) == {Key(p[2], SubSeq(k.path, 1, 2)) : p \in {q \in ParentKinds : q[1] = k.kind}}

(* The keys of accounts, vaults and namespaces have no group before them.  *)
DataKinds == {"blob:container", "blob:blob", "blob:sharedkeyctx", "cosmos", "table", "kv",
    "appconfig", "sb:queue", "sb:topic", "queue:meta", "queue:msg"}
OfAccount(k, key) == k.kind \in DataKinds /\ key.kind \in {"blob:account", "sb:namespace"}
SameName(k, key) == OfAccount(k, key) /\ k.path[1] = key.path[2]
LikeSameName(k, key) ==
    OverPostgres /\ OfAccount(k, key) /\ LikeName(k.path[1], key.path[2])

(* What the documentation says goes with a record (virtual-networks.md,    *)
(* network-security-groups.md, dns-zones.md, database-sql.md, and the      *)
(* types the changelog counts for a resource group).                       *)
GroupKinds == {"vnet", "subnet", "nsg", "nsgrule", "publicip", "lb", "appgw", "dns:zone",
    "dns:record", "redis", "sqldb:server", "sqldb:db", "pgflex:server", "pgflex:db",
    "dbmysql:server", "dbmysql:db", "blob:account", "blob:armcontainer", "cosmos:account",
    "cosmos:sqldb", "cosmos:container", "sb:namespace", "sb:armqueue", "sb:armtopic",
    "appconfig:store", "acr:registry", "eg:topic", "func"}

Promised(r) == {k \in Keys :
    /\ r.method = "DELETE"
    /\ Below(k, r.target)
    /\ \/ <<k.kind, r.target.kind>> \in ParentKinds
       \/ k.kind = "blob:blob" /\ r.target.kind = "blob:container"
       \/ k.kind \in GroupKinds /\ r.target.kind = "rg"}

-----------------------------------------------------------------------------
(* A DELETE that has succeeded leaves none of the promised records that    *)
(* were there all the time: whatever other clients, and a reset, do        *)
(* meanwhile, only what was written since can remain (DeleteVNet and the   *)
(* other handlers that sweep after they delete).                           *)
DeletionReachesTheSubtree ==
    \A c \in Clients :
        Finished(c) /\ status[c] = "ok" => Promised(request[c]) \intersect window[c].throughout = {}

(* The same of all a group may hold: "deleting a resource group removes    *)
(* all child resources" (website/docs/architecture/overview.md:111).       *)
NothingIsLeftOfAGroup ==
    \A c \in Clients :
        Finished(c) /\ status[c] = "ok" /\ request[c].method = "DELETE" /\ request[c].target.kind = "rg"
        => {k \in window[c].throughout : k.kind \notin DataKinds /\ Below(k, request[c].target)} = {}

(* A record goes only by a DELETE of it, of a record above it or of the    *)
(* account it is named after, never by that of a sibling whose name begins *)
(* the same way (the colon at the end of the prefixes of DeleteByPrefix);  *)
(* or by a reset.  Over PostgreSQL, where DeleteByPrefix escapes no        *)
(* underscore, what LIKE takes for such a record goes too.                 *)
OnlyTheSubtreeGoes ==
    [][\/ Reset
       \/ \A k \in DOMAIN store \ DOMAIN store' : \E c \in Clients :
            LET r == request[c] IN
            /\ r.method = "DELETE"
            /\ \/ k = r.target
               \/ Below(k, r.target) \/ LikeBelow(k, r.target)
               \/ SameName(k, r.target) \/ LikeSameName(k, r.target)]_vars

(* Requests are served one by one.                                         *)
Alone == cast.atOnce = 1

(* Between the requests of one client no child is without the parent its   *)
(* PUT asked for (the Exists of CreateOrUpdateSubnet and the others).      *)
NoOrphans ==
    Alone /\ (\A c \in Clients : ~Running(c)) =>
        \A k \in DOMAIN store : Parents(k) \subseteq DOMAIN store

(* What a GET lists: the children of its record, or the records of its own *)
(* kind below what it is about.                                            *)
Children(keys, r) ==
    {k \in keys : Below(k, r.target) /\ (r.target \in Parents(k) \/ k.kind = r.target.kind)}

(* GET answers one client with the children that are there ("Re-populate   *)
(* subnets from the store", network/handler.go:167) and, but for LIKE, no  *)
(* others.  The list of secrets and the list of containers assert a Go     *)
(* type: they leave out the records JSON has decoded, and only those.      *)
GetAnswersItsChildren ==
    \A c \in Clients :
        LET r == request[c] IN
        Alone /\ Finished(c) /\ status[c] = "ok" /\ r.method = "GET" =>
            /\ \A k \in Children(window[c].throughout, r) : k \in listed[c] \/ store[k].decoded
            /\ \A k \in listed[c] : k \in Children(window[c].sometime, r) \/ LikeBelow(k, r.target)

(* "Survives pod restarts" (website/docs/guides/helm.md:38): a request     *)
(* about a record that is there does not fail, and a list leaves nothing   *)
(* out.                                                                    *)
SurvivesRestarts ==
    \A c \in Clients :
        LET r == request[c] IN
        Finished(c) /\ r.method \in {"GET", "PATCH"} =>
            /\ status[c] = "failed" => r.target \notin DOMAIN store
            /\ Children(DOMAIN store, r) \subseteq listed[c]

(* An address stays with its public IP as long as the record does, over a  *)
(* restart too, if PUTs of it do not overlap (buildResponse takes          *)
(* existingIP); and no two public IPs that one process has put have the    *)
(* same, if they do.                                                       *)
AddressesStay ==
    [][\A k \in DOMAIN store \intersect DOMAIN store' :
            Alone /\ k.kind = "publicip" => store'[k].address = store[k].address]_vars
AddressesDiffer ==
    restarts = 0 => \A j, k \in DOMAIN store :
        j.kind = "publicip" /\ k.kind = "publicip" /\ store[j].address = store[k].address => j = k

(* A deployment recorded as succeeded has put every resource of its        *)
(* template; one whose template has a resource it could not put is         *)
(* recorded as failed, and still recorded (deployments/handler.go:85-138). *)
DeploymentRecordsItsOutcome ==
    \A c \in Clients :
        LET r == request[c] IN
        Alone /\ Finished(c) /\ r.target.kind = "deployment" /\ r.method = "PUT" =>
            /\ r.target \in DOMAIN store
            /\ store[r.target].ok => r.parts \subseteq DOMAIN store

(* The records whose parents are all there are those of a tree, for one    *)
(* client at a time and a backend that takes a prefix for a prefix.        *)
Visible ==
    {k \in DOMAIN store : Alone /\ ~OverPostgres /\ Parents(k) \subseteq DOMAIN store}
Tree == INSTANCE ResourceTree WITH nodes <- Visible
ImplementsResourceTree == Tree!Spec
=============================================================================
