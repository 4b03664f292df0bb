-------------------------- MODULE ArmServer_proofs --------------------------
(***************************************************************************)
(* What holds of ArmServer for any clients, casts of requests, names and   *)
(* bounds, with proofs checked by TLAPS.  The general theorems ask of the  *)
(* requests what their calls must be like; the lemmas at the end show it   *)
(* of the handlers.                                                        *)
(***************************************************************************)
EXTENDS ArmServer, ArmHandlers, FiniteSetTheorems, SequenceTheorems, TLAPS

USE DEF process

(* Whenever call i is made, the record held is the one call g has got, a   *)
(* record with a list.                                                     *)
Fetched(r, g, i) ==
    /\ g \in 1..(i - 1)
    /\ r.calls[g].op = "get" /\ r.calls[g].key.kind \in KindsWithList
    /\ \A j \in (g + 1)..(i - 1) : r.calls[j].op \notin {"get", "look", "address"}
    /\ \A j \in 1..(i - 1) : r.calls[j].skip > 0 => j + r.calls[j].skip + 1 \notin (g + 1)..i
    /\ r.cleanup \notin (g + 1)..i

UsesList(call) ==
    call.op \in {"assign", "encode"} \/ (call.op = "setSame" /\ call.key.kind \in KindsWithList)

(* The calls are a sequence, no early return leaves it, and a list is used *)
(* of a record that has been got.                                          *)
WellFormed(r) ==
    /\ Len(r.calls) \in Nat
    /\ DOMAIN r.calls = 1..Len(r.calls)
    /\ r.cleanup \in 1..(Len(r.calls) + 1)
    /\ \A i \in DOMAIN r.calls :
          /\ r.calls[i].skip \in Nat
          /\ Len(r.calls[i].key.path) \in Nat
          /\ i + r.calls[i].skip <= Len(r.calls)
          /\ UsesList(r.calls[i]) => \E g \in 1..(i - 1) : Fetched(r, g, i)

(* Call i sweeps record k, and no earlier one leaves it out.               *)
SweptAt(r, k, i) ==
    /\ r.calls[i].op = "deleteByPrefix"
    /\ HasPrefix(k, r.calls[i].key)
    /\ \A j \in 1..(i - 1) : j + r.calls[j].skip < i

(* Every promised record is swept.                                         *)
Thorough(r) == \A k \in Promised(r) : \E i \in DOMAIN r.calls : SweptAt(r, k, i)

(* A call deletes nothing but what the request is about.                   *)
Aimed(r, k) == k = r.target \/ Below(k, r.target) \/ SameName(k, r.target)
LikeNames(k, key) ==
    Len(k.path) > Len(key.path) /\ \A i \in DOMAIN key.path : LikeName(k.path[i], key.path[i])
AimedByLike(r, k) ==
    LikeNames(k, r.target) \/ (OfAccount(k, r.target) /\ LikeName(k.path[1], r.target.path[2]))
WellAimed(r) ==
    \A i \in DOMAIN r.calls :
        /\ r.calls[i].op \in {"delete", "drop"} => r.method = "DELETE" /\ Aimed(r, r.calls[i].key)
        /\ r.calls[i].op = "deleteByPrefix" =>
              /\ r.method = "DELETE"
              /\ \A k \in Keys : HasPrefix(k, r.calls[i].key) => Aimed(r, k)
              /\ \A k \in Keys : Like(k, r.calls[i].key) => AimedByLike(r, k)

(* Every request that may be sent is such.                                 *)
AllWellFormed == \A r \in Requests : WellFormed(r)
AllWellAimed == \A r \in Requests : WellAimed(r)
AllThorough == \A r \in Requests : Thorough(r)

LEMMA NoRequestWellFormed == WellFormed(NoRequest)
BY DEF WellFormed, NoRequest, Request

LEMMA RecordsFacts == NoRecord \in Records /\ Plain \in Records
BY DEF NoRecord, Plain, Records, NoAddress, None

-----------------------------------------------------------------------------
(* Type correctness.                                                       *)

PcType ==
    /\ pc \in [Clients -> Nat]
    /\ \A c \in Clients : pc[c] \in 1..(Len(request[c].calls) + 1)
    /\ status \in [Clients -> {"ok", "failed"}]
StoreType ==
    /\ DOMAIN store \subseteq Keys
    /\ \A k \in DOMAIN store : store[k] \in Records
    /\ window \in [Clients -> [throughout : SUBSET Keys, sometime : SUBSET Keys]]

(* The records with a list have an object, in the store and in the hands   *)
(* of a handler that is to use it.                                         *)
ObjectInv ==
    /\ \A k \in DOMAIN store : k.kind \in KindsWithList => store[k].object \in Objects
    /\ \A c \in Clients : \A g \in 1..(pc[c] - 1) :
          Fetched(request[c], g, pc[c]) => held[c].object \in Objects

LEMMA InitType == Init => TypeOK
<1> SUFFICES ASSUME Init PROVE TypeOK
  OBVIOUS
<1>1. DOMAIN store = {}
  BY DEF Init
<1>2. \A c \in Clients : Len(request[c].calls) = 0
  BY DEF Init, NoRequest, Request
<1>3. PcType /\ counter \in Nat
  BY <1>2 DEF Init, PcType
<1>6. resets \in 0..cast.resets /\ restarts \in 0..cast.restarts
  BY CastsAssumption DEF Init
<1>4. window \in [Clients -> [throughout : SUBSET Keys, sometime : SUBSET Keys]]
  BY DEF Init, NoWindow
<1>5. held \in [Clients -> Records]
  BY RecordsFacts DEF Init
<1> QED
  BY <1>1, <1>3, <1>4, <1>5, <1>6 DEF Init, TypeOK, PcType

(* The request of a client, and the call it is at.                         *)
LEMMA CurrentCall ==
  ASSUME TypeOK, AllWellFormed, NEW c \in Clients, Running(c), ~Finished(c)
  PROVE  /\ request[c] \in Requests
         /\ WellFormed(request[c])
         /\ pc[c] \in DOMAIN request[c].calls
         /\ pc[c] \in Nat
<1>1. request[c] \in Requests
  BY DEF TypeOK, Running, Requests
<1>2. WellFormed(request[c])
  BY <1>1 DEF AllWellFormed
<1>3. Len(request[c].calls) \in Nat /\ DOMAIN request[c].calls = 1..Len(request[c].calls)
  BY <1>2 DEF WellFormed
<1>4. pc[c] \in Nat /\ pc[c] \in 1..(Len(request[c].calls) + 1)
  BY DEF TypeOK
<1> QED
  BY <1>1, <1>2, <1>3, <1>4 DEF Finished

LEMMA PcMoves ==
  ASSUME TypeOK, AllWellFormed, NEW c \in Clients, Running(c), ~Finished(c),
         Continue(c) \/ GiveUp(c), request' = request
  PROVE  PcType'
<1>0. /\ WellFormed(request[c]) /\ pc[c] \in DOMAIN request[c].calls /\ pc[c] \in Nat
  BY CurrentCall
<1>1. \E n \in 1..(Len(request[c].calls) + 1) : pc' = [pc EXCEPT ![c] = n]
  <2>1. CASE Continue(c)
    <3>1. pc' = [pc EXCEPT ![c] = pc[c] + 1]
      BY <2>1 DEF Continue
    <3>2. pc[c] + 1 \in 1..(Len(request[c].calls) + 1)
      BY <1>0 DEF WellFormed
    <3> QED
      BY <3>1, <3>2
  <2>2. CASE GiveUp(c) /\ Current(c).skip > 0
    <3>1. pc' = [pc EXCEPT ![c] = pc[c] + 1 + Current(c).skip]
      BY <2>2 DEF GiveUp, TypeOK
    <3>2. Current(c).skip \in Nat /\ pc[c] + Current(c).skip <= Len(request[c].calls)
      BY <1>0 DEF WellFormed, Current
    <3>3. pc[c] + 1 + Current(c).skip \in 1..(Len(request[c].calls) + 1)
      BY <1>0, <3>2 DEF WellFormed
    <3> QED
      BY <3>1, <3>3
  <2>3. CASE GiveUp(c) /\ ~(Current(c).skip > 0)
    BY <1>0, <2>3 DEF GiveUp, WellFormed
  <2> QED
    BY <2>1, <2>2, <2>3
<1>2. PICK n \in 1..(Len(request[c].calls) + 1) : pc' = [pc EXCEPT ![c] = n]
  BY <1>1
<1>3. n \in Nat
  BY <1>0 DEF WellFormed
<1>4. pc' \in [Clients -> Nat]
  BY <1>2, <1>3 DEF TypeOK
<1>5. \A d \in Clients : pc'[d] \in 1..(Len(request'[d].calls) + 1)
  BY <1>2 DEF TypeOK
<1>6. status' \in [Clients -> {"ok", "failed"}]
  BY DEF TypeOK, Continue, GiveUp
<1> QED
  BY <1>4, <1>5, <1>6 DEF PcType

LEMMA BecomesType ==
  ASSUME TypeOK, NEW new, DOMAIN new \subseteq Keys, \A k \in DOMAIN new : new[k] \in Records,
         Becomes(new)
  PROVE  StoreType'
<1>1. \A c \in Clients : Seen(request[c], DOMAIN new) \subseteq Keys
  BY DEF Seen
<1>2. window' \in [Clients -> [throughout : SUBSET Keys, sometime : SUBSET Keys]]
  <2>1. \A c \in Clients : window[c].throughout \in SUBSET Keys /\ window[c].sometime \in SUBSET Keys
    BY DEF TypeOK
  <2> QED
    BY <1>1, <2>1 DEF Becomes
<1> QED
  BY <1>2 DEF Becomes, StoreType

LEMMA WithType ==
  ASSUME TypeOK, NEW key \in Keys, NEW record \in Records
  PROVE  /\ DOMAIN With(key, record) \subseteq Keys
         /\ \A k \in DOMAIN With(key, record) : With(key, record)[k] \in Records
BY DEF With, TypeOK

LEMMA WithoutType ==
  ASSUME TypeOK, NEW keys
  PROVE  /\ DOMAIN Without(keys) \subseteq Keys
         /\ \A k \in DOMAIN Without(keys) : Without(keys)[k] \in Records
BY DEF Without, TypeOK

(* The keys a handler may store, and the record it has got.                *)
LEMMA StoredKey ==
  ASSUME TypeOK, AllWellFormed, NEW c \in Clients, At(c, "set") \/ At(c, "setSame")
  PROVE  Target(c) \in Keys
<1>1. request[c] \in Requests /\ pc[c] \in DOMAIN request[c].calls
  BY CurrentCall DEF At
<1>2. Target(c) \in Written(request[c])
  BY <1>1 DEF At, Target, Current, Written
<1> QED
  BY <1>1, <1>2 DEF Keys, Requests

LEMMA SpareIsFree ==
  ASSUME Objects \ InUse(held) # {}
  PROVE  Spare \in Objects
BY DEF Spare

(* Get and Look leave the request a record, or none.                       *)
LEMMA FindType ==
  ASSUME TypeOK, ObjectInv, NEW c \in Clients, Find(c)
  PROVE  held' \in [Clients -> Records] /\ heap' \in [Objects -> SUBSET Keys]
<1>1. CASE Found(c) /\ OverPostgres /\ Target(c).kind \in KindsWithList
  <2> DEFINE copy == [store[Target(c)] EXCEPT !.object = Spare]
  <2>1. /\ Spare \in Objects
        /\ held' = [held EXCEPT ![c] = copy]
        /\ heap' = [heap EXCEPT ![Spare] = heap[store[Target(c)].object]]
    BY <1>1, SpareIsFree DEF Find
  <2>2. store[Target(c)] \in Records /\ store[Target(c)].object \in Objects
    BY <1>1 DEF Found, TypeOK, ObjectInv
  <2>3. copy \in Records
    BY <2>1, <2>2 DEF Records
  <2>4. heap[store[Target(c)].object] \in SUBSET Keys
    BY <2>2 DEF TypeOK
  <2> QED
    BY <2>1, <2>3, <2>4 DEF TypeOK
<1>2. CASE ~(Found(c) /\ OverPostgres /\ Target(c).kind \in KindsWithList)
  BY <1>2, RecordsFacts DEF Find, Found, TypeOK
<1> QED
  BY <1>1, <1>2

LEMMA ReadsType ==
  ASSUME TypeOK, AllWellFormed, ObjectInv, NEW c \in Clients, Reads(c)
  PROVE  TypeOK'
<1>1. Running(c) /\ ~Finished(c) /\ (Continue(c) \/ GiveUp(c)) /\ request' = request
  BY DEF Reads, DoGet, DoLook, DoAbsent, DoUnlessFound, DoListByPrefix, DoTyped, DoListTyped, At
<1>2. PcType'
  BY <1>1, PcMoves
<1>3. held' \in [Clients -> Records] /\ heap' \in [Objects -> SUBSET Keys]
  BY FindType DEF Reads, DoGet, DoLook, DoAbsent, DoUnlessFound, DoListByPrefix, DoTyped, DoListTyped, TypeOK
<1>4. listed' \in [Clients -> SUBSET Keys]
  BY DEF Reads, DoGet, DoLook, DoAbsent, DoUnlessFound, DoListByPrefix, DoTyped, DoListTyped, TypeOK, Matching
<1>5. UNCHANGED <<cast, restarts, store, counter, window, resets>>
  BY DEF Reads, DoGet, DoLook, DoAbsent, DoUnlessFound, DoListByPrefix, DoTyped, DoListTyped
<1> QED
  BY <1>1, <1>2, <1>3, <1>4, <1>5 DEF TypeOK, PcType

(* A handler that uses a list has a record with one.                       *)
LEMMA HeldObject ==
  ASSUME TypeOK, AllWellFormed, ObjectInv, NEW c \in Clients, Running(c), ~Finished(c),
         UsesList(Current(c))
  PROVE  held[c].object \in Objects
<1>1. WellFormed(request[c]) /\ pc[c] \in DOMAIN request[c].calls
  BY CurrentCall
<1> QED
  BY <1>1 DEF WellFormed, Current, ObjectInv

LEMMA WritesType ==
  ASSUME TypeOK, AllWellFormed, ObjectInv, NEW c \in Clients, Writes(c)
  PROVE  TypeOK'
<1>1. Running(c) /\ ~Finished(c) /\ Continue(c) /\ UNCHANGED <<request, cast, resets, restarts>>
  BY DEF Writes, DoSet, DoSetSame, DoAssign, DoEncode, DoAddress, At
<1>2. PcType'
  BY <1>1, PcMoves
<1>3. CASE DoSet(c)
  <2>1. Target(c) \in Keys
    BY <1>3, StoredKey DEF DoSet
  <2>2. CASE Target(c).kind \in KindsWithList
    <3> DEFINE new == With(Target(c), [Plain EXCEPT !.object = Spare])
    <3>1. Becomes(new) /\ heap' = [heap EXCEPT ![Spare] = listed[c]]
      BY <1>3, <2>2 DEF DoSet
    <3>2. Spare \in Objects
      BY <1>3, <2>2, SpareIsFree DEF DoSet
    <3>3. [Plain EXCEPT !.object = Spare] \in Records
      BY <3>2, RecordsFacts DEF Records
    <3>4. StoreType'
      BY <2>1, <3>1, <3>3, WithType, BecomesType
    <3>5. heap' \in [Objects -> SUBSET Keys]
      BY <3>1, <3>2 DEF TypeOK
    <3> QED
      BY <1>1, <1>2, <1>3, <3>4, <3>5 DEF TypeOK, StoreType, PcType, DoSet
  <2>3. CASE Target(c).kind \notin KindsWithList
    <3> DEFINE record == [Plain EXCEPT
                 !.address = IF Target(c).kind = "publicip" THEN held[c].address ELSE @,
                 !.ok = Target(c).kind = "deployment" => status[c] = "ok",
                 !.decoded = OverPostgres /\ Target(c).kind \in AssertedKinds]
    <3>1. Becomes(With(Target(c), record)) /\ heap' = heap
      BY <1>3, <2>3 DEF DoSet
    <3>2. record \in Records
      <4>1. held[c].address \in Nat /\ Plain \in Records
        BY RecordsFacts DEF TypeOK, Records
      <4>2. /\ (Target(c).kind = "deployment" => status[c] = "ok") \in BOOLEAN
            /\ (OverPostgres /\ Target(c).kind \in AssertedKinds) \in BOOLEAN
        OBVIOUS
      <4> QED
        BY <4>1, <4>2 DEF Records
    <3>3. StoreType'
      BY <2>1, <3>1, <3>2, WithType, BecomesType
    <3> QED
      BY <1>1, <1>2, <1>3, <3>1, <3>3 DEF TypeOK, StoreType, PcType, DoSet
  <2> QED
    BY <2>2, <2>3
<1>4. CASE DoSetSame(c)
  <2>1. Target(c) \in Keys /\ held[c] \in Records
    BY <1>4, StoredKey DEF DoSetSame, TypeOK
  <2>2. StoreType'
    BY <1>4, <2>1, WithType, BecomesType DEF DoSetSame
  <2> QED
    BY <1>1, <1>2, <1>4, <2>2 DEF TypeOK, StoreType, PcType, DoSetSame
<1>5. CASE DoAssign(c)
  BY <1>1, <1>2, <1>5 DEF TypeOK, PcType, DoAssign
<1>6. CASE DoEncode(c)
  <2>1. UNCHANGED <<store, heap, counter, held, window>>
    BY <1>6 DEF DoEncode
  <2>2. heap[held[c].object] \in SUBSET Keys
    BY <1>6, HeldObject DEF TypeOK, DoEncode, At, UsesList, Current
  <2> QED
    BY <1>1, <1>2, <1>6, <2>1, <2>2 DEF TypeOK, PcType, DoEncode
<1>7. CASE DoAddress(c)
  <2>1. counter' \in Nat /\ held' \in [Clients -> Records]
    <3>1. CASE held[c] # NoRecord
      BY <1>7, <3>1 DEF DoAddress, TypeOK
    <3>2. CASE held[c] = NoRecord
      <4>1. counter' = counter + 1 /\ held' = [held EXCEPT ![c].address = counter']
        BY <1>7, <3>2 DEF DoAddress
      <4>2. counter' \in Nat
        BY <4>1 DEF TypeOK
      <4> DEFINE new == [held[c] EXCEPT !.address = counter']
      <4>h. held \in [Clients -> Records]
        BY DEF TypeOK
      <4>3. new \in Records
        BY <4>2, <4>h DEF Records
      <4>4. held' = [held EXCEPT ![c] = new]
        BY <4>1, <4>h
      <4> HIDE DEF new
      <4> QED
        BY <4>2, <4>3, <4>4, <4>h
    <3> QED
      BY <3>1, <3>2
  <2> QED
    BY <1>1, <1>2, <1>7, <2>1 DEF TypeOK, PcType, DoAddress
<1> QED
  BY <1>3, <1>4, <1>5, <1>6, <1>7 DEF Writes

LEMMA DeletesType ==
  ASSUME TypeOK, AllWellFormed, NEW c \in Clients, Deletes(c)
  PROVE  TypeOK'
<1>1. Running(c) /\ ~Finished(c) /\ (Continue(c) \/ GiveUp(c))
  BY DEF Deletes, DoDelete, DoDrop, DoDeleteByPrefix, At
<1>2. UNCHANGED <<cast, restarts, heap, counter, request, held, listed, resets>>
  BY DEF Deletes, DoDelete, DoDrop, DoDeleteByPrefix
<1>3. PcType'
  BY <1>1, <1>2, PcMoves
<1>4. \E keys : Becomes(Without(keys))
  BY DEF Deletes, DoDelete, DoDrop, DoDeleteByPrefix
<1>5. StoreType'
  BY <1>4, WithoutType, BecomesType
<1> QED
  BY <1>2, <1>3, <1>5 DEF TypeOK, PcType, StoreType

LEMMA FailsType ==
  ASSUME TypeOK, AllWellFormed, NEW c \in Clients, Fails(c)
  PROVE  TypeOK'
<1>1. Running(c) /\ ~Finished(c) /\ (Continue(c) \/ GiveUp(c))
  BY DEF Fails, DoMayFail, DoNotRouted, At
<1>2. UNCHANGED <<cast, restarts, store, heap, counter, request, held, listed, window, resets>>
  BY DEF Fails, DoMayFail, DoNotRouted
<1>3. PcType'
  BY <1>1, <1>2, PcMoves
<1> QED
  BY <1>2, <1>3 DEF TypeOK, PcType

LEMMA NoCalls == Len(NoRequest.calls) = 0
BY DEF NoRequest, Request

LEMMA IdleAtStart ==
  ASSUME TypeOK, NEW c \in Clients, ~Running(c)
  PROVE  pc[c] = 1
<1>1. request[c] = NoRequest /\ pc[c] \in 1..(Len(request[c].calls) + 1)
  BY DEF Running, TypeOK
<1> QED
  BY <1>1, NoCalls

LEMMA BeginType ==
  ASSUME TypeOK, AllWellFormed, NEW c \in Clients, NEW r \in cast.requests, Begin(c, r)
  PROVE  TypeOK'
<1>1. pc[c] = 1
  BY IdleAtStart DEF Begin
<1>2. WellFormed(r)
  BY DEF TypeOK, AllWellFormed, Requests
<1>3. request' \in [Clients -> cast.requests \union {NoRequest}]
  BY DEF Begin, TypeOK
<1>4. \A d \in Clients : pc[d] \in 1..(Len(request'[d].calls) + 1)
  BY <1>1, <1>2 DEF Begin, TypeOK, WellFormed
<1>5. window' \in [Clients -> [throughout : SUBSET Keys, sometime : SUBSET Keys]]
  BY DEF Begin, TypeOK, Seen
<1> QED
  BY <1>3, <1>4, <1>5 DEF Begin, TypeOK

LEMMA RespondType ==
  ASSUME TypeOK, NEW c \in Clients, Respond(c)
  PROVE  TypeOK'
<1>1. request' \in [Clients -> cast.requests \union {NoRequest}]
  BY DEF Respond, TypeOK
<1>2. pc' \in [Clients -> Nat] /\ \A d \in Clients : pc'[d] \in 1..(Len(request'[d].calls) + 1)
  <2>1. pc' = [pc EXCEPT ![c] = 1] /\ request' = [request EXCEPT ![c] = NoRequest]
    BY DEF Respond
  <2> QED
    BY <2>1, NoCalls DEF TypeOK
<1>3. /\ status' \in [Clients -> {"ok", "failed"}]
      /\ held' \in [Clients -> Records]
      /\ listed' \in [Clients -> SUBSET Keys]
  BY RecordsFacts DEF Respond, TypeOK
<1>4. window' \in [Clients -> [throughout : SUBSET Keys, sometime : SUBSET Keys]]
  BY DEF Respond, TypeOK, NoWindow
<1>5. heap' \in [Objects -> SUBSET Keys]
  BY DEF Respond, TypeOK
<1> QED
  BY <1>1, <1>2, <1>3, <1>4, <1>5 DEF Respond, TypeOK

LEMMA ResetType == ASSUME TypeOK, Reset PROVE TypeOK'
<1>1. StoreType'
  BY WithoutType, BecomesType DEF Reset
<1>2. resets' \in 0..cast.resets
  BY CastsAssumption DEF Reset, TypeOK
<1> QED
  BY <1>1, <1>2 DEF Reset, TypeOK, StoreType

LEMMA RestartType == ASSUME TypeOK, Restart PROVE TypeOK'
<1> DEFINE new == [k \in DOMAIN store |->
                     [store[k] EXCEPT !.decoded = k.kind \in AssertedKinds]]
<1>0. \A record \in Records, b \in BOOLEAN : [record EXCEPT !.decoded = b] \in Records
  BY DEF Records
<1>1. DOMAIN new \subseteq Keys /\ \A k \in DOMAIN new : new[k] \in Records
  <2>1. ASSUME NEW k \in DOMAIN store
        PROVE  k \in Keys /\ store[k] \in Records /\ (k.kind \in AssertedKinds) \in BOOLEAN
    BY DEF TypeOK
  <2> QED
    BY <1>0, <2>1
<1>2. StoreType'
  BY <1>1, BecomesType DEF Restart
<1>3. restarts' \in 0..cast.restarts
  BY CastsAssumption DEF Restart, TypeOK
<1> QED
  BY <1>2, <1>3 DEF Restart, TypeOK, StoreType

LEMMA NextType ==
  ASSUME TypeOK, AllWellFormed, ObjectInv, [Next]_vars
  PROVE  TypeOK'
<1>1. CASE UNCHANGED vars
  BY <1>1 DEF vars, TypeOK
<1>2. CASE Reset \/ Restart
  BY <1>2, ResetType, RestartType
<1>3. ASSUME NEW c \in Clients, NEW r \in cast.requests, Begin(c, r) PROVE TypeOK'
  BY <1>3, BeginType
<1>4. ASSUME NEW c \in Clients,
             Reads(c) \/ Writes(c) \/ Deletes(c) \/ Fails(c) \/ Respond(c)
      PROVE  TypeOK'
  BY <1>4, ReadsType, WritesType, DeletesType, FailsType, RespondType
<1> QED
  BY <1>1, <1>2, <1>3, <1>4 DEF Next

-----------------------------------------------------------------------------
(* Objects.                                                                *)

(* A record that has been got stays in hand up to the call that uses it:   *)
(* the call before either got it or left it alone.                         *)
LEMMA FetchedStays ==
  ASSUME TypeOK, AllWellFormed, ObjectInv, NEW c \in Clients, Running(c), ~Finished(c),
         request' = request, Continue(c) \/ GiveUp(c),
         NEW g \in 1..(pc'[c] - 1), Fetched(request[c], g, pc'[c])
  PROVE  \/ g = pc[c] /\ ~GiveUp(c)
         \/ /\ held[c].object \in Objects
            /\ ~At(c, "get") /\ ~At(c, "look") /\ ~At(c, "address")
<1> DEFINE r == request[c]
<1>0. WellFormed(r) /\ pc[c] \in DOMAIN r.calls /\ pc[c] \in Nat /\ c \in DOMAIN pc
  BY CurrentCall DEF TypeOK
<1>1. Continue(c) /\ ~GiveUp(c)
  <2>1. SUFFICES ASSUME GiveUp(c) PROVE FALSE
    OBVIOUS
  <2>2. CASE Current(c).skip > 0
    <3>1. pc'[c] = pc[c] + 1 + r.calls[pc[c]].skip
      BY <1>0, <2>1, <2>2 DEF GiveUp, Current
    <3>2. r.calls[pc[c]].skip \in Nat
      BY <1>0 DEF WellFormed
    <3>3. pc[c] \in 1..(pc'[c] - 1) /\ pc'[c] \in (g + 1)..pc'[c]
      <4>1. pc[c] >= 1
        BY DEF TypeOK
      <4> QED
        BY <1>0, <3>1, <3>2, <4>1
    <3> QED
      BY <1>0, <2>2, <3>1, <3>2, <3>3 DEF Fetched, Current
  <2>3. CASE ~(Current(c).skip > 0)
    <3>1. pc'[c] = r.cleanup /\ r.cleanup \in Nat
      BY <1>0, <2>1, <2>3 DEF GiveUp, WellFormed
    <3> QED
      BY <3>1 DEF Fetched
  <2> QED
    BY <2>2, <2>3
<1>2. pc'[c] = pc[c] + 1
  BY <1>0, <1>1 DEF Continue
<1>3. CASE g = pc[c]
  BY <1>1, <1>3
<1>4. CASE g # pc[c]
  <2>1. g \in 1..(pc[c] - 1)
    BY <1>0, <1>2, <1>4
  <2>2. Fetched(r, g, pc[c])
    BY <1>0, <1>2, <2>1 DEF Fetched
  <2>3. r.calls[pc[c]].op \notin {"get", "look", "address"}
    BY <1>0, <1>2, <2>1 DEF Fetched
  <2> QED
    BY <2>1, <2>2, <2>3 DEF ObjectInv, At
<1> QED
  BY <1>3, <1>4

HeldInv == \A c \in Clients : \A g \in 1..(pc[c] - 1) :
              Fetched(request[c], g, pc[c]) => held[c].object \in Objects
StoredInv == \A k \in DOMAIN store : k.kind \in KindsWithList => store[k].object \in Objects

LEMMA StepHeld ==
  ASSUME TypeOK, AllWellFormed, ObjectInv, NEW c \in Clients, Running(c), ~Finished(c),
         request' = request, Continue(c) \/ GiveUp(c),
         \A d \in Clients \ {c} : held'[d] = held[d],
         ~At(c, "get") /\ ~At(c, "look") /\ ~At(c, "address") => held' = held,
         At(c, "get") /\ ~GiveUp(c) /\ Target(c).kind \in KindsWithList => held'[c].object \in Objects
  PROVE  HeldInv'
<1> SUFFICES ASSUME NEW d \in Clients, NEW g \in 1..(pc'[d] - 1), Fetched(request[d], g, pc'[d])
             PROVE  held'[d].object \in Objects
  BY DEF HeldInv
<1>1. CASE d # c
  <2>1. pc'[d] = pc[d] /\ held'[d] = held[d]
    BY <1>1 DEF Continue, GiveUp, TypeOK
  <2> QED
    BY <2>1 DEF ObjectInv
<1>2. CASE d = c /\ g = pc[c] /\ ~GiveUp(c)
  <2>1. At(c, "get") /\ Target(c).kind \in KindsWithList
    BY <1>2 DEF At, Target, Current, Fetched
  <2> QED
    BY <1>2, <2>1
<1>3. CASE d = c /\ ~(g = pc[c] /\ ~GiveUp(c))
  <2>1. held[c].object \in Objects /\ ~At(c, "get") /\ ~At(c, "look") /\ ~At(c, "address")
    BY <1>3, FetchedStays
  <2> QED
    BY <1>3, <2>1
<1> QED
  BY <1>1, <1>2, <1>3

LEMMA ReadsObjects ==
  ASSUME TypeOK, AllWellFormed, ObjectInv, NEW c \in Clients, Reads(c)
  PROVE  ObjectInv'
<1>1. /\ Running(c) /\ ~Finished(c) /\ (Continue(c) \/ GiveUp(c))
      /\ request' = request /\ store' = store
  BY DEF Reads, DoGet, DoLook, DoAbsent, DoUnlessFound, DoListByPrefix, DoTyped, DoListTyped, At
<1>2. \A d \in Clients \ {c} : held'[d] = held[d]
  BY DEF Reads, DoGet, DoLook, DoAbsent, DoUnlessFound, DoListByPrefix, DoTyped, DoListTyped, Find, TypeOK
<1>3. ~At(c, "get") /\ ~At(c, "look") => held' = held
  BY DEF Reads, DoGet, DoLook, DoAbsent, DoUnlessFound, DoListByPrefix, DoTyped, DoListTyped
<1>4. At(c, "get") => DoGet(c)
  BY DEF Reads, DoLook, DoAbsent, DoUnlessFound, DoListByPrefix, DoTyped, DoListTyped, At
<1>5. ASSUME At(c, "get"), ~GiveUp(c), Target(c).kind \in KindsWithList
      PROVE  held'[c].object \in Objects
  <2>1. Find(c) /\ Found(c)
    BY <1>4, <1>5 DEF DoGet
  <2>2. store[Target(c)] \in Records /\ store[Target(c)].object \in Objects
    BY <1>5, <2>1 DEF Found, TypeOK, ObjectInv
  <2>3. CASE OverPostgres
    BY <1>5, <2>1, <2>2, <2>3, SpareIsFree DEF Find, TypeOK, Records
  <2>4. CASE ~OverPostgres
    BY <2>1, <2>2, <2>4 DEF Find, TypeOK
  <2> QED
    BY <2>3, <2>4
<1>6. HeldInv'
  BY <1>1, <1>2, <1>3, <1>5, StepHeld
<1> QED
  BY <1>1, <1>6 DEF ObjectInv, HeldInv

LEMMA WritesObjects ==
  ASSUME TypeOK, AllWellFormed, ObjectInv, NEW c \in Clients, Writes(c)
  PROVE  ObjectInv'
<1>1. Running(c) /\ ~Finished(c) /\ Continue(c) /\ request' = request /\ ~At(c, "get")
  BY DEF Writes, DoSet, DoSetSame, DoAssign, DoEncode, DoAddress, At
<1>2. \A d \in Clients \ {c} : held'[d] = held[d]
  BY DEF Writes, DoSet, DoSetSame, DoAssign, DoEncode, DoAddress, TypeOK
<1>3. ~At(c, "address") => held' = held
  BY DEF Writes, DoSet, DoSetSame, DoAssign, DoEncode, DoAddress
<1>4. HeldInv'
  BY <1>1, <1>2, <1>3, StepHeld
<1>5. StoredInv'
  <2>1. CASE DoSet(c) /\ Target(c).kind \in KindsWithList
    <3> DEFINE record == [Plain EXCEPT !.object = Spare]
    <3>1. store' = With(Target(c), record) /\ Spare \in Objects
      BY <2>1, SpareIsFree DEF DoSet, Becomes
    <3>2. record.object = Spare
      BY DEF Plain
    <3> HIDE DEF record
    <3> QED
      BY <3>1, <3>2 DEF With, ObjectInv, StoredInv
  <2>2. CASE DoSet(c) /\ Target(c).kind \notin KindsWithList
    <3>1. \E record : store' = With(Target(c), record)
      BY <2>2 DEF DoSet, Becomes
    <3> QED
      BY <2>2, <3>1 DEF With, ObjectInv, StoredInv
  <2>3. CASE DoSetSame(c)
    <3>1. store' = With(Target(c), held[c])
      BY <2>3 DEF DoSetSame, Becomes
    <3>2. Target(c).kind \in KindsWithList => held[c].object \in Objects
      BY <1>1, <2>3, HeldObject DEF DoSetSame, At, UsesList, Current, Target
    <3> QED
      BY <3>1, <3>2 DEF With, ObjectInv, StoredInv
  <2>4. CASE DoAssign(c) \/ DoEncode(c) \/ DoAddress(c)
    BY <2>4 DEF DoAssign, DoEncode, DoAddress, ObjectInv, StoredInv
  <2> QED
    BY <2>1, <2>2, <2>3, <2>4 DEF Writes
<1> QED
  BY <1>4, <1>5 DEF ObjectInv, HeldInv, StoredInv

LEMMA OthersObjects ==
  ASSUME TypeOK, AllWellFormed, ObjectInv, NEW c \in Clients, Deletes(c) \/ Fails(c)
  PROVE  ObjectInv'
<1>1. /\ Running(c) /\ ~Finished(c) /\ (Continue(c) \/ GiveUp(c))
      /\ request' = request /\ held' = held /\ ~At(c, "get")
  BY DEF Deletes, DoDelete, DoDrop, DoDeleteByPrefix, Fails, DoMayFail, DoNotRouted, At
<1>2. HeldInv'
  BY <1>1, StepHeld
<1>3. store' = store \/ \E keys : store' = Without(keys)
  BY DEF Deletes, DoDelete, DoDrop, DoDeleteByPrefix, Fails, DoMayFail, DoNotRouted, Becomes
<1>4. StoredInv'
  BY <1>3 DEF Without, ObjectInv, StoredInv
<1> QED
  BY <1>2, <1>4 DEF ObjectInv, HeldInv, StoredInv

LEMMA BeginObjects ==
  ASSUME TypeOK, ObjectInv, NEW c \in Clients, NEW r \in cast.requests, Begin(c, r)
  PROVE  ObjectInv'
<1>1. pc[c] = 1
  BY IdleAtStart DEF Begin
<1>2. HeldInv'
  <2> SUFFICES ASSUME NEW d \in Clients, NEW g \in 1..(pc'[d] - 1), Fetched(request'[d], g, pc'[d])
               PROVE  held'[d].object \in Objects
    BY DEF HeldInv
  <2>1. d # c
    BY <1>1 DEF Begin
  <2>2. request'[d] = request[d] /\ pc' = pc /\ held' = held
    BY <2>1 DEF Begin, TypeOK
  <2> QED
    BY <2>2 DEF ObjectInv
<1> QED
  BY <1>2 DEF Begin, ObjectInv, HeldInv

LEMMA RespondObjects ==
  ASSUME TypeOK, ObjectInv, NEW c \in Clients, Respond(c)
  PROVE  ObjectInv'
<1>1. HeldInv'
  <2> SUFFICES ASSUME NEW d \in Clients, NEW g \in 1..(pc'[d] - 1), Fetched(request'[d], g, pc'[d])
               PROVE  held'[d].object \in Objects
    BY DEF HeldInv
  <2>1. d # c
    BY DEF Respond, TypeOK
  <2>2. request'[d] = request[d] /\ pc'[d] = pc[d] /\ held'[d] = held[d]
    BY <2>1 DEF Respond, TypeOK
  <2> QED
    BY <2>2 DEF ObjectInv
<1> QED
  BY <1>1 DEF Respond, ObjectInv, HeldInv

LEMMA ResetObjects == ASSUME TypeOK, ObjectInv, Reset PROVE ObjectInv'
<1>1. store' = Without(DOMAIN store) /\ UNCHANGED <<request, pc, held>>
  BY DEF Reset, Becomes
<1> QED
  BY <1>1 DEF ObjectInv, Without

LEMMA RestartObjects == ASSUME TypeOK, ObjectInv, Restart PROVE ObjectInv'
<1>1. UNCHANGED <<request, pc, held>>
  BY DEF Restart
<1>2. DOMAIN store' = DOMAIN store /\ \A k \in DOMAIN store : store'[k].object = store[k].object
  BY DEF Restart, Becomes, TypeOK, Records
<1> QED
  BY <1>1, <1>2 DEF ObjectInv

LEMMA NextObjects ==
  ASSUME TypeOK, AllWellFormed, ObjectInv, [Next]_vars
  PROVE  ObjectInv'
<1>1. CASE UNCHANGED vars
  BY <1>1 DEF vars, ObjectInv
<1>2. CASE Reset \/ Restart
  BY <1>2, ResetObjects, RestartObjects
<1>3. ASSUME NEW c \in Clients, NEW r \in cast.requests, Begin(c, r) PROVE ObjectInv'
  BY <1>3, BeginObjects
<1>4. ASSUME NEW c \in Clients,
             Reads(c) \/ Writes(c) \/ Deletes(c) \/ Fails(c) \/ Respond(c)
      PROVE  ObjectInv'
  BY <1>4, ReadsObjects, WritesObjects, OthersObjects, RespondObjects
<1> QED
  BY <1>1, <1>2, <1>3, <1>4 DEF Next

LEMMA InitObjects == Init => ObjectInv
<1> SUFFICES ASSUME Init PROVE ObjectInv
  OBVIOUS
<1>1. DOMAIN store = {} /\ \A c \in Clients : 1..(pc[c] - 1) = {}
  BY DEF Init
<1> QED
  BY <1>1 DEF ObjectInv

(* Every variable has its type and every call its record, for requests     *)
(* that are well formed, as those of the handlers below are.               *)
THEOREM TypeCorrect == AllWellFormed => (Spec => []TypeOK)
<1> SUFFICES ASSUME AllWellFormed PROVE Spec => []TypeOK
  OBVIOUS
<1>1. Init => TypeOK /\ ObjectInv
  BY InitType, InitObjects
<1>2. (TypeOK /\ ObjectInv) /\ [Next]_vars => (TypeOK /\ ObjectInv)'
  BY NextType, NextObjects
<1> QED
  BY <1>1, <1>2, PTL DEF Spec

-----------------------------------------------------------------------------
(* Deletions.                                                              *)

(* A promised record that has been there all the time has its sweep ahead. *)
Ahead(c) ==
    \A k \in Promised(request[c]) \intersect window[c].throughout :
        \E i \in pc[c]..Len(request[c].calls) : SweptAt(request[c], k, i)
SweepInv == \A c \in Clients : status[c] = "ok" => Ahead(c)

LEMMA NothingPromised == Promised(NoRequest) = {}
BY DEF Promised, NoRequest, Request

(* Whatever happens, a window only shrinks.                                *)
LEMMA BecomesShrinks ==
  ASSUME TypeOK, NEW new, Becomes(new), NEW c \in Clients
  PROVE  window'[c].throughout = window[c].throughout \intersect DOMAIN new
BY DEF Becomes

LEMMA Between ==
  ASSUME NEW p \in Nat, NEW i \in Nat, NEW n \in Nat, NEW skip \in Nat, NEW next,
         i \in p..n, i # p, p + skip < i, next = p + 1 \/ next = p + 1 + skip
  PROVE  i \in next..n
OBVIOUS

LEMMA StepAhead ==
  ASSUME TypeOK, AllWellFormed, SweepInv, NEW c \in Clients, Running(c), ~Finished(c),
         request' = request, Continue(c) \/ GiveUp(c),
         \A d \in Clients : window'[d].throughout \subseteq window[d].throughout,
         At(c, "deleteByPrefix") =>
             /\ Continue(c)
             /\ \A k \in window'[c].throughout : ~HasPrefix(k, Target(c))
  PROVE  SweepInv'
<1> SUFFICES ASSUME NEW d \in Clients, status'[d] = "ok",
                    NEW k \in Promised(request[d]) \intersect window'[d].throughout
             PROVE  \E i \in pc'[d]..Len(request[d].calls) : SweptAt(request[d], k, i)
  BY DEF SweepInv, Ahead
<1>0. k \in Promised(request[d]) \intersect window[d].throughout
  OBVIOUS
<1>1. CASE d # c
  <2>1. pc'[d] = pc[d] /\ status'[d] = status[d]
    BY <1>1 DEF Continue, GiveUp, TypeOK
  <2> QED
    BY <1>0, <2>1 DEF SweepInv, Ahead
<1>2. CASE d = c
  <2> DEFINE r == request[c]
             p == pc[c]
  <2>0. WellFormed(r) /\ p \in DOMAIN r.calls /\ p \in Nat
    BY CurrentCall
  <2>1. status[c] = "ok"
    BY <1>2 DEF Continue, GiveUp, TypeOK
  <2>2. PICK i \in p..Len(r.calls) : SweptAt(r, k, i)
    BY <1>0, <1>2, <2>1 DEF SweepInv, Ahead
  <2>3. i \in Nat /\ Len(r.calls) \in Nat /\ p >= 1
    BY <2>0, <2>2 DEF WellFormed
  <2>4. i # p
    <3>1. SUFFICES ASSUME i = p PROVE FALSE
      OBVIOUS
    <3>2. At(c, "deleteByPrefix") /\ HasPrefix(k, Target(c))
      BY <2>2, <3>1 DEF SweptAt, At, Target, Current
    <3> QED
      BY <1>2, <3>2
  <2>5. pc'[c] = p + 1 \/ pc'[c] = p + 1 + r.calls[p].skip
    BY <1>2, <2>0 DEF Continue, GiveUp, Current, TypeOK
  <2>6. p + r.calls[p].skip < i /\ r.calls[p].skip \in Nat
    BY <2>0, <2>2, <2>3, <2>4 DEF SweptAt, WellFormed
  <2> HIDE DEF p, r
  <2>7. i \in pc'[c]..Len(r.calls)
    BY <2>0, <2>2, <2>3, <2>4, <2>5, <2>6, Between
  <2> QED
    BY <1>2, <2>2, <2>7 DEF r
<1> QED
  BY <1>1, <1>2

LEMMA RunSweeps ==
  ASSUME TypeOK, AllWellFormed, SweepInv, NEW c \in Clients,
         Reads(c) \/ Writes(c) \/ Deletes(c) \/ Fails(c)
  PROVE  SweepInv'
<1>1. /\ Running(c) /\ ~Finished(c) /\ (Continue(c) \/ GiveUp(c)) /\ request' = request
      /\ At(c, "deleteByPrefix") => DoDeleteByPrefix(c)
  BY DEF Reads, DoGet, DoLook, DoAbsent, DoUnlessFound, DoListByPrefix, DoTyped, DoListTyped,
         Writes, DoSet, DoSetSame, DoAssign, DoEncode, DoAddress,
         Deletes, DoDelete, DoDrop, DoDeleteByPrefix, Fails, DoMayFail, DoNotRouted, At
<1>2. window' = window \/ \E new : Becomes(new)
  BY DEF Reads, DoGet, DoLook, DoAbsent, DoUnlessFound, DoListByPrefix, DoTyped, DoListTyped,
         Writes, DoSet, DoSetSame, DoAssign, DoEncode, DoAddress,
         Deletes, DoDelete, DoDrop, DoDeleteByPrefix, Fails, DoMayFail, DoNotRouted
<1>3. \A d \in Clients : window'[d].throughout \subseteq window[d].throughout
  BY <1>2, BecomesShrinks
<1>4. ASSUME DoDeleteByPrefix(c)
      PROVE  Continue(c) /\ \A k \in window'[c].throughout : ~HasPrefix(k, Target(c))
  <2>1. Becomes(Without(Matching(DOMAIN store, Target(c))))
    BY <1>4 DEF DoDeleteByPrefix
  <2>2. window'[c].throughout =
          window[c].throughout \intersect DOMAIN Without(Matching(DOMAIN store, Target(c)))
    BY <2>1, BecomesShrinks
  <2> QED
    BY <1>4, <2>2 DEF DoDeleteByPrefix, Without, Matching
<1> QED
  BY <1>1, <1>3, <1>4, StepAhead

LEMMA BeginSweeps ==
  ASSUME TypeOK, AllWellFormed, AllThorough, SweepInv, NEW c \in Clients, NEW r \in cast.requests,
         Begin(c, r)
  PROVE  SweepInv'
<1> SUFFICES ASSUME NEW d \in Clients, status'[d] = "ok",
                    NEW k \in Promised(request'[d]) \intersect window'[d].throughout
             PROVE  \E i \in pc'[d]..Len(request'[d].calls) : SweptAt(request'[d], k, i)
  BY DEF SweepInv, Ahead
<1>1. CASE d # c
  <2>1. /\ pc'[d] = pc[d] /\ status'[d] = status[d] /\ request'[d] = request[d]
        /\ window'[d] = window[d]
    BY <1>1 DEF Begin, TypeOK
  <2> QED
    BY <2>1 DEF SweepInv, Ahead
<1>2. CASE d = c
  <2>1. request'[c] = r /\ pc'[c] = 1
    BY IdleAtStart DEF Begin, TypeOK
  <2>2. r \in Requests
    BY DEF TypeOK, Requests
  <2>3. PICK i \in DOMAIN r.calls : SweptAt(r, k, i)
    BY <1>2, <2>1, <2>2 DEF AllThorough, Thorough
  <2>4. i \in 1..Len(r.calls)
    BY <2>2 DEF AllWellFormed, WellFormed
  <2> QED
    BY <1>2, <2>1, <2>3, <2>4
<1> QED
  BY <1>1, <1>2

LEMMA RespondSweeps ==
  ASSUME TypeOK, SweepInv, NEW c \in Clients, Respond(c)
  PROVE  SweepInv'
<1> SUFFICES ASSUME NEW d \in Clients, status'[d] = "ok",
                    NEW k \in Promised(request'[d]) \intersect window'[d].throughout
             PROVE  \E i \in pc'[d]..Len(request'[d].calls) : SweptAt(request'[d], k, i)
  BY DEF SweepInv, Ahead
<1>1. d # c
  BY NothingPromised DEF Respond, TypeOK
<1>2. /\ pc'[d] = pc[d] /\ status'[d] = status[d] /\ request'[d] = request[d]
      /\ window'[d] = window[d]
  BY <1>1 DEF Respond, TypeOK
<1> QED
  BY <1>2 DEF SweepInv, Ahead

LEMMA ResetSweeps == ASSUME TypeOK, SweepInv, Reset PROVE SweepInv'
<1>1. \A c \in Clients : window'[c].throughout \subseteq window[c].throughout
  BY BecomesShrinks DEF Reset
<1>2. UNCHANGED <<pc, status, request>>
  BY DEF Reset
<1> QED
  BY <1>1, <1>2 DEF SweepInv, Ahead

LEMMA RestartSweeps == ASSUME TypeOK, SweepInv, Restart PROVE SweepInv'
<1>1. \A c \in Clients : window'[c].throughout \subseteq window[c].throughout
  BY BecomesShrinks DEF Restart
<1>2. UNCHANGED <<pc, status, request>>
  BY DEF Restart
<1> QED
  BY <1>1, <1>2 DEF SweepInv, Ahead

LEMMA NextSweeps ==
  ASSUME TypeOK, AllWellFormed, AllThorough, SweepInv, [Next]_vars
  PROVE  SweepInv'
<1>1. CASE UNCHANGED vars
  BY <1>1 DEF vars, SweepInv, Ahead
<1>2. CASE Reset \/ Restart
  BY <1>2, ResetSweeps, RestartSweeps
<1>3. ASSUME NEW c \in Clients, NEW r \in cast.requests, Begin(c, r) PROVE SweepInv'
  BY <1>3, BeginSweeps
<1>4. ASSUME NEW c \in Clients,
             Reads(c) \/ Writes(c) \/ Deletes(c) \/ Fails(c) \/ Respond(c)
      PROVE  SweepInv'
  BY <1>4, RunSweeps, RespondSweeps
<1> QED
  BY <1>1, <1>2, <1>3, <1>4 DEF Next

LEMMA SweepsSuffice ==
  ASSUME TypeOK, AllWellFormed, SweepInv
  PROVE  DeletionReachesTheSubtree
<1> SUFFICES ASSUME NEW c \in Clients, Finished(c), status[c] = "ok",
                    NEW k \in Promised(request[c]) \intersect window[c].throughout
             PROVE  FALSE
  BY DEF DeletionReachesTheSubtree
<1>1. \E i \in pc[c]..Len(request[c].calls) : SweptAt(request[c], k, i)
  BY DEF SweepInv, Ahead
<1>2. request[c] \in Requests
  BY DEF TypeOK, Finished, Running, Requests
<1>3. Len(request[c].calls) \in Nat
  BY <1>2 DEF AllWellFormed, WellFormed
<1> QED
  BY <1>1, <1>3 DEF Finished, TypeOK

(* A deletion that has succeeded leaves nothing that was below the record  *)
(* all the time, however many clients interleave, if every request sweeps  *)
(* what it promises to.                                                    *)
THEOREM DeletionIsThorough ==
  AllWellFormed /\ AllThorough => (Spec => []DeletionReachesTheSubtree)
<1> SUFFICES ASSUME AllWellFormed, AllThorough PROVE Spec => []DeletionReachesTheSubtree
  OBVIOUS
<1>1. Init => TypeOK /\ ObjectInv /\ SweepInv
  <2>1. Init => SweepInv
    BY NothingPromised DEF Init, SweepInv, Ahead
  <2> QED
    BY <2>1, InitType, InitObjects
<1>2. (TypeOK /\ ObjectInv /\ SweepInv) /\ [Next]_vars => (TypeOK /\ ObjectInv /\ SweepInv)'
  BY NextType, NextObjects, NextSweeps
<1>3. TypeOK /\ ObjectInv /\ SweepInv => DeletionReachesTheSubtree
  BY SweepsSuffice
<1> QED
  BY <1>1, <1>2, <1>3, PTL DEF Spec

-----------------------------------------------------------------------------
(* What goes.                                                              *)

Goes(k) == \E c \in Clients :
    /\ request[c].method = "DELETE"
    /\ Aimed(request[c], k) \/ (OverPostgres /\ AimedByLike(request[c], k))

LEMMA DeletesAim ==
  ASSUME TypeOK, AllWellFormed, AllWellAimed, NEW c \in Clients, Deletes(c),
         NEW k \in DOMAIN store \ DOMAIN store'
  PROVE  Goes(k)
<1>1. Running(c) /\ ~Finished(c)
  BY DEF Deletes, DoDelete, DoDrop, DoDeleteByPrefix, At
<1>2. request[c] \in Requests /\ pc[c] \in DOMAIN request[c].calls /\ k \in Keys
  BY <1>1, CurrentCall DEF TypeOK
<1>3. WellAimed(request[c])
  BY <1>2 DEF AllWellAimed
<1>4. CASE DoDelete(c) \/ DoDrop(c)
  <2>1. k = Target(c) /\ Current(c).op \in {"delete", "drop"}
    BY <1>4 DEF DoDelete, DoDrop, Becomes, Without, At, Current
  <2> QED
    BY <1>2, <1>3, <2>1 DEF WellAimed, Goes, Target, Current
<1>5. CASE DoDeleteByPrefix(c)
  <2>1. /\ HasPrefix(k, Target(c)) \/ (OverPostgres /\ Like(k, Target(c)))
        /\ Current(c).op = "deleteByPrefix"
    BY <1>5 DEF DoDeleteByPrefix, Becomes, Without, Matching, At, Current
  <2> QED
    BY <1>2, <1>3, <2>1 DEF WellAimed, Goes, Target, Current
<1> QED
  BY <1>4, <1>5 DEF Deletes

LEMMA NextAims ==
  ASSUME TypeOK, AllWellFormed, AllWellAimed, Next
  PROVE  Reset \/ \A k \in DOMAIN store \ DOMAIN store' : Goes(k)
<1>1. ASSUME NEW c \in Clients, Writes(c) PROVE DOMAIN store \ DOMAIN store' = {}
  BY <1>1 DEF Writes, DoSet, DoSetSame, DoAssign, DoEncode, DoAddress, Becomes, With
<1>3. Restart => DOMAIN store \ DOMAIN store' = {}
  BY DEF Restart, Becomes
<1>2. ASSUME NEW c \in Clients,
             Reads(c) \/ Fails(c) \/ Respond(c) \/ \E r \in cast.requests : Begin(c, r)
      PROVE  store' = store
  BY <1>2 DEF Reads, DoGet, DoLook, DoAbsent, DoUnlessFound, DoListByPrefix, DoTyped, DoListTyped,
              Fails, DoMayFail, DoNotRouted, Respond, Begin
<1> QED
  BY <1>1, <1>2, <1>3, DeletesAim DEF Next

(* Records go only with what a DELETE is about, or by a reset, however     *)
(* many clients interleave.                                                *)
THEOREM DeletionIsAimed ==
  AllWellFormed /\ AllWellAimed => (Spec => OnlyTheSubtreeGoes)
<1> SUFFICES ASSUME AllWellFormed, AllWellAimed PROVE Spec => OnlyTheSubtreeGoes
  OBVIOUS
<1>1. Init => TypeOK /\ ObjectInv
  BY InitType, InitObjects
<1>2. (TypeOK /\ ObjectInv) /\ [Next]_vars => (TypeOK /\ ObjectInv)'
  BY NextType, NextObjects
<1>3. TypeOK /\ [Next]_vars =>
        [\/ Reset
         \/ \A k \in DOMAIN store \ DOMAIN store' : \E c \in Clients :
              LET r == request[c] IN
              /\ r.method = "DELETE"
              /\ \/ k = r.target
                 \/ Below(k, r.target) \/ LikeBelow(k, r.target)
                 \/ SameName(k, r.target) \/ LikeSameName(k, r.target)]_vars
  BY NextAims DEF Goes, Aimed, AimedByLike, LikeNames, LikeBelow, LikeSameName
<1> QED
  BY <1>1, <1>2, <1>3, PTL DEF Spec, OnlyTheSubtreeGoes

-----------------------------------------------------------------------------
(* Addresses.                                                              *)

Giving(r, i, k) ==
    i \in DOMAIN r.calls /\ r.calls[i].op = "set" /\ r.calls[i].key = k /\ k.kind = "publicip"

LEMMA NothingGiven == \A i, k : ~Giving(NoRequest, i, k)
BY DEF Giving, NoRequest, Request

(* A public IP is stored with an address that was chosen after a look at   *)
(* its record, and there is no way in between the three calls.             *)
WellAddressed(r) ==
    \A i \in DOMAIN r.calls :
        /\ r.calls[i].op = "setSame" => r.calls[i].key.kind # "publicip"
        /\ Giving(r, i, r.calls[i].key) =>
              /\ i > 2
              /\ r.calls[i - 2].op = "look" /\ r.calls[i - 2].key = r.calls[i].key
              /\ r.calls[i - 1].op = "address"
              /\ r.cleanup \notin {i - 1, i}
              /\ \A j \in DOMAIN r.calls :
                    r.calls[j].skip > 0 => j + r.calls[j].skip + 1 \notin {i - 1, i}
AllWellAddressed == \A r \in Requests : WellAddressed(r)

(* The request of c has an address in hand that is to be that of k.        *)
Carries(c, k) ==
    \/ Giving(request[c], pc[c], k)
    \/ Giving(request[c], pc[c] + 1, k) /\ held[c] # NoRecord
Stored(k) == k \in DOMAIN store /\ k.kind = "publicip"

(* Address a is that of k, or is to be.                                    *)
Claim(k, a) ==
    \/ Stored(k) /\ store[k].address = a
    \/ \E c \in Clients : Carries(c, k) /\ held[c].address = a

(* Every address has been given, to one public IP.                         *)
ClaimInv ==
    \A k, a : Claim(k, a) => a \in 1..counter /\ \A j : Claim(j, a) => j = k

(* Steps that give no address make no claims.                              *)
LEMMA OldClaims ==
  ASSUME ClaimInv, counter' = counter, \A k, a : Claim(k, a)' => Claim(k, a)
  PROVE  ClaimInv'
BY DEF ClaimInv

LEMMA Moves ==
  ASSUME TypeOK, AllWellFormed, NEW c \in Clients, Running(c), ~Finished(c),
         Continue(c) \/ GiveUp(c)
  PROVE  /\ pc[c] \in DOMAIN request[c].calls
         /\ \/ Continue(c) /\ pc'[c] = pc[c] + 1
            \/ pc'[c] = request[c].cleanup
            \/ /\ request[c].calls[pc[c]].skip > 0
               /\ pc'[c] = pc[c] + request[c].calls[pc[c]].skip + 1
         /\ \A d \in Clients \ {c} : pc'[d] = pc[d]
<1>1. pc[c] \in DOMAIN request[c].calls /\ pc[c] \in Nat /\ WellFormed(request[c])
  BY CurrentCall
<1>2. request[c].calls[pc[c]].skip \in Nat
  BY <1>1 DEF WellFormed
<1>3. CASE Continue(c)
  BY <1>1, <1>3 DEF Continue, TypeOK
<1>4. CASE GiveUp(c) /\ Current(c).skip > 0
  <2>1. pc' = [pc EXCEPT ![c] = pc[c] + 1 + Current(c).skip] /\ pc \in [Clients -> Nat]
    BY <1>4 DEF GiveUp, TypeOK
  <2> QED
    BY <1>1, <1>2, <1>4, <2>1 DEF Current
<1>5. CASE GiveUp(c) /\ ~(Current(c).skip > 0)
  <2>1. pc' = [pc EXCEPT ![c] = request[c].cleanup] /\ pc \in [Clients -> Nat]
    BY <1>5 DEF GiveUp, TypeOK
  <2> QED
    BY <1>1, <2>1
<1> QED
  BY <1>3, <1>4, <1>5

(* A request comes to store a public IP only from the call before.         *)
LEMMA ArrivesInOrder ==
  ASSUME TypeOK, AllWellFormed, AllWellAddressed, NEW c \in Clients, Running(c), ~Finished(c),
         Continue(c) \/ GiveUp(c), NEW k, NEW i \in {pc'[c], pc'[c] + 1}, Giving(request[c], i, k)
  PROVE  /\ Continue(c) /\ pc'[c] = pc[c] + 1 /\ pc[c] \in Nat
         /\ i = pc[c] + 1 => At(c, "address")
         /\ i = pc[c] + 2 => At(c, "look") /\ Target(c) = k
<1> DEFINE r == request[c]
<1>1. r \in Requests /\ pc[c] \in DOMAIN r.calls /\ pc[c] \in Nat /\ WellFormed(r)
  BY CurrentCall
<1>2. /\ i > 2 /\ i \in Nat
      /\ r.calls[i - 2].op = "look" /\ r.calls[i - 2].key = k
      /\ r.calls[i - 1].op = "address"
      /\ r.cleanup \notin {i - 1, i}
      /\ \A j \in DOMAIN r.calls : r.calls[j].skip > 0 => j + r.calls[j].skip + 1 \notin {i - 1, i}
  <2>1. WellAddressed(r) /\ i \in DOMAIN r.calls /\ k = r.calls[i].key /\ Giving(r, i, r.calls[i].key)
    BY <1>1 DEF AllWellAddressed, Giving
  <2>2. i \in Nat
    BY <1>1, <2>1 DEF WellFormed
  <2> QED
    BY <2>1, <2>2 DEF WellAddressed
<1>3. pc'[c] \in {i - 1, i} /\ pc'[c] \in Nat
  <2>1. pc'[c] \in Nat
    BY <1>1, Moves DEF WellFormed
  <2> QED
    BY <1>2, <2>1
<1>4. Continue(c) /\ pc'[c] = pc[c] + 1
  BY <1>1, <1>2, <1>3, Moves
<1> QED
  BY <1>1, <1>2, <1>4 DEF At, Target, Current

(* Only a look and the choice of an address leave one in hand.             *)
LEMMA OthersCarryNothing ==
  ASSUME TypeOK, AllWellFormed, AllWellAddressed, NEW c \in Clients, Running(c), ~Finished(c),
         Continue(c) \/ GiveUp(c), request' = request, NEW k, Carries(c, k)'
  PROVE  /\ At(c, "look") \/ At(c, "address")
         /\ At(c, "address") => Giving(request[c], pc[c] + 1, k)
         /\ At(c, "look") => Target(c) = k /\ held'[c] # NoRecord
<1>1. CASE Giving(request[c], pc'[c], k)
  <2>1. pc'[c] = pc[c] + 1 /\ At(c, "address")
    BY <1>1, ArrivesInOrder
  <2> QED
    BY <1>1, <2>1 DEF At
<1>2. CASE Giving(request[c], pc'[c] + 1, k) /\ held'[c] # NoRecord
  <2>1. pc'[c] = pc[c] + 1 /\ pc[c] \in Nat
    BY <1>2, ArrivesInOrder
  <2>2. At(c, "look") /\ Target(c) = k
    <3>1. pc'[c] + 1 = pc[c] + 2
      BY <2>1
    <3> QED
      BY <1>2, <3>1, ArrivesInOrder
  <2> QED
    BY <1>2, <2>2 DEF At
<1> QED
  BY <1>1, <1>2 DEF Carries

(* What the other clients have in hand.                                    *)
LEMMA OthersKeepTheirs ==
  ASSUME TypeOK, AllWellFormed, NEW c \in Clients, Running(c), ~Finished(c),
         Continue(c) \/ GiveUp(c), request' = request,
         \A d \in Clients \ {c} : held'[d] = held[d],
         NEW d \in Clients \ {c}, NEW k
  PROVE  Carries(d, k)' <=> Carries(d, k)
<1>1. pc'[d] = pc[d]
  BY Moves
<1> QED
  BY <1>1 DEF Carries

(* The steps of a request that store nothing.                              *)
LEMMA KeepsClaims ==
  ASSUME TypeOK, AllWellFormed, AllWellAddressed, ClaimInv, NEW c \in Clients,
         Running(c), ~Finished(c), Continue(c) \/ GiveUp(c), request' = request,
         held' = held, counter' = counter, ~At(c, "look"), ~At(c, "address"),
         \A k : Stored(k)' => Stored(k) /\ store'[k].address = store[k].address
  PROVE  ClaimInv'
<1> SUFFICES ASSUME NEW k, NEW a, Claim(k, a)' PROVE Claim(k, a)
  BY OldClaims
<1>1. \A d \in Clients : Carries(d, k)' => d # c /\ Carries(d, k)
  BY OthersCarryNothing, OthersKeepTheirs
<1> QED
  BY <1>1 DEF Claim

LEMMA ReadsClaims ==
  ASSUME TypeOK, AllWellFormed, AllWellAddressed, ClaimInv, NEW c \in Clients, Reads(c)
  PROVE  ClaimInv'
<1>1. Running(c) /\ ~Finished(c) /\ (Continue(c) \/ GiveUp(c)) /\ request' = request
      /\ counter' = counter /\ store' = store
  BY DEF Reads, DoGet, DoLook, DoAbsent, DoUnlessFound, DoListByPrefix, DoTyped, DoListTyped, At
<1>2. \A d \in Clients \ {c} : held'[d] = held[d]
  BY DEF Reads, DoGet, DoLook, Find, DoAbsent, DoUnlessFound, DoListByPrefix, DoTyped, DoListTyped,
         TypeOK
<1>3. ~At(c, "address") /\ (At(c, "look") => DoLook(c))
  BY DEF Reads, DoGet, DoLook, DoAbsent, DoUnlessFound, DoListByPrefix, DoTyped, DoListTyped, At
<1> SUFFICES ASSUME NEW k, NEW a, Claim(k, a)' PROVE Claim(k, a)
  BY <1>1, OldClaims
<1>4. CASE Stored(k)' /\ store'[k].address = a
  BY <1>1, <1>4 DEF Claim, Stored
<1>5. ASSUME NEW d \in Clients, Carries(d, k)', held'[d].address = a PROVE Claim(k, a)
  <2>1. CASE d # c
    BY <1>1, <1>2, <1>5, <2>1, OthersKeepTheirs DEF Claim
  <2>2. CASE d = c
    <3>1. DoLook(c) /\ Target(c) = k /\ held'[c] # NoRecord
      BY <1>1, <1>3, <1>5, <2>2, OthersCarryNothing
    <3>2. k.kind = "publicip"
      BY <1>5 DEF Carries, Giving
    <3>3. held'[c] = IF Found(c) THEN store[k] ELSE NoRecord
      BY <3>1, <3>2 DEF DoLook, Find, KindsWithList, TypeOK
    <3> QED
      BY <1>5, <2>2, <3>1, <3>2, <3>3 DEF Claim, Stored, Found
  <2> QED
    BY <2>1, <2>2
<1> QED
  BY <1>4, <1>5 DEF Claim

(* The address goes from the hand into the store.                          *)
LEMMA SetClaims ==
  ASSUME TypeOK, AllWellFormed, AllWellAddressed, ClaimInv, NEW c \in Clients, DoSet(c)
  PROVE  ClaimInv'
<1>1. At(c, "set") /\ Running(c) /\ ~Finished(c) /\ Continue(c) /\ request' = request
      /\ held' = held /\ counter' = counter
  BY DEF DoSet, At
<1>2. ~At(c, "look") /\ ~At(c, "address")
  BY <1>1 DEF At
<1>3. pc[c] \in DOMAIN request[c].calls
  BY <1>1, CurrentCall
<1> SUFFICES ASSUME NEW k, NEW a, Claim(k, a)' PROVE Claim(k, a)
  BY <1>1, OldClaims
<1>4. CASE Stored(k)' /\ store'[k].address = a
  <2>1. CASE k = Target(c)
    <3>1. Giving(request[c], pc[c], k)
      BY <1>1, <1>3, <1>4, <2>1 DEF Giving, Stored, At, Target, Current
    <3>2. store'[k].address = held[c].address
      BY <1>4, <2>1 DEF DoSet, Stored, Becomes, With, KindsWithList, Plain
    <3> QED
      BY <1>4, <3>1, <3>2 DEF Claim, Carries
  <2>2. CASE k # Target(c)
    BY <1>4, <2>2 DEF DoSet, Stored, Becomes, With, Claim
  <2> QED
    BY <2>1, <2>2
<1>5. \A d \in Clients : Carries(d, k)' => d # c /\ Carries(d, k)
  BY <1>1, <1>2, OthersCarryNothing, OthersKeepTheirs
<1> QED
  BY <1>1, <1>4, <1>5 DEF Claim

(* The one step that makes a claim of its own: the next number is nobody's.*)
LEMMA AddressClaims ==
  ASSUME TypeOK, AllWellFormed, AllWellAddressed, ClaimInv, NEW c \in Clients, DoAddress(c)
  PROVE  ClaimInv'
<1>1. At(c, "address") /\ Running(c) /\ ~Finished(c) /\ Continue(c) /\ request' = request
      /\ store' = store /\ ~At(c, "look")
  BY DEF DoAddress, At
<1>2. \A d \in Clients \ {c} : held'[d] = held[d]
  BY DEF DoAddress, TypeOK
<1>3. ASSUME NEW d \in Clients \ {c}, NEW k, Carries(d, k)' PROVE Carries(d, k) /\ held'[d] = held[d]
  BY <1>1, <1>2, <1>3, OthersKeepTheirs
<1>4. ASSUME NEW k, Carries(c, k)' PROVE Giving(request[c], pc[c] + 1, k)
  BY <1>1, <1>4, OthersCarryNothing
<1>5. CASE held[c] # NoRecord
  <2>1. counter' = counter /\ held' = held
    BY <1>5 DEF DoAddress
  <2>2. ASSUME NEW k, NEW a, Claim(k, a)' PROVE Claim(k, a)
    <3>1. \A d \in Clients : Carries(d, k)' => Carries(d, k)
      BY <1>3, <1>4, <1>5 DEF Carries
    <3> QED
      BY <1>1, <2>1, <2>2, <3>1 DEF Claim, Stored
  <2> QED
    BY <2>1, <2>2, OldClaims
<1>6. CASE held[c] = NoRecord
  <2>1. counter \in Nat /\ counter' = counter + 1 /\ held'[c].address = counter + 1
    BY <1>6 DEF DoAddress, TypeOK, Records
  <2>2. ASSUME NEW k, NEW a, Claim(k, a)'
        PROVE  Claim(k, a) \/ (a = counter + 1 /\ Giving(request[c], pc[c] + 1, k))
    BY <1>1, <1>3, <1>4, <2>1, <2>2 DEF Claim, Stored
  <2>3. ASSUME NEW k, NEW a, Claim(k, a) PROVE a \in 1..counter
    BY <2>3 DEF ClaimInv
  <2>4. ASSUME NEW k, NEW a, Claim(k, a)', NEW j, Claim(j, a)' PROVE a \in 1..counter' /\ j = k
    <3>1. CASE a = counter + 1
      <4>1. ~Claim(k, a) /\ ~Claim(j, a)
        BY <2>1, <2>3, <3>1
      <4> QED
        BY <2>1, <2>2, <2>4, <3>1, <4>1 DEF Giving
    <3>2. CASE a # counter + 1
      BY <2>1, <2>2, <2>3, <2>4, <3>2 DEF ClaimInv
    <3> QED
      BY <3>1, <3>2
  <2> QED
    BY <2>4 DEF ClaimInv
<1> QED
  BY <1>5, <1>6

LEMMA WritesClaims ==
  ASSUME TypeOK, AllWellFormed, AllWellAddressed, ClaimInv, NEW c \in Clients, Writes(c)
  PROVE  ClaimInv'
<1>1. CASE DoSet(c)
  BY <1>1, SetClaims
<1>2. CASE DoAddress(c)
  BY <1>2, AddressClaims
<1>3. CASE DoSetSame(c) \/ DoAssign(c) \/ DoEncode(c)
  <2>1. Running(c) /\ ~Finished(c) /\ Continue(c) /\ request' = request
        /\ held' = held /\ counter' = counter /\ ~At(c, "look") /\ ~At(c, "address")
    BY <1>3 DEF DoSetSame, DoAssign, DoEncode, At
  <2>2. DoSetSame(c) => Target(c).kind # "publicip"
    BY <2>1, CurrentCall DEF DoSetSame, AllWellAddressed, WellAddressed, At, Target, Current
  <2>3. ASSUME NEW k, Stored(k)' PROVE Stored(k) /\ store'[k].address = store[k].address
    <3>1. CASE DoSetSame(c)
      <4>1. store' = With(Target(c), held[c]) /\ k # Target(c)
        BY <2>2, <2>3, <3>1 DEF DoSetSame, Becomes, Stored
      <4> QED
        BY <2>3, <4>1 DEF With, Stored
    <3>2. CASE DoAssign(c) \/ DoEncode(c)
      <4>1. store' = store
        BY <3>2 DEF DoAssign, DoEncode
      <4> QED
        BY <2>3, <4>1 DEF Stored
    <3> QED
      BY <1>3, <3>1, <3>2
  <2> QED
    BY <2>1, <2>3, KeepsClaims
<1> QED
  BY <1>1, <1>2, <1>3 DEF Writes

LEMMA DeletesClaims ==
  ASSUME TypeOK, AllWellFormed, AllWellAddressed, ClaimInv, NEW c \in Clients,
         Deletes(c) \/ Fails(c)
  PROVE  ClaimInv'
<1>1. Running(c) /\ ~Finished(c) /\ (Continue(c) \/ GiveUp(c)) /\ request' = request
      /\ held' = held /\ counter' = counter /\ ~At(c, "look") /\ ~At(c, "address")
  BY DEF Deletes, DoDelete, DoDrop, DoDeleteByPrefix, Fails, DoMayFail, DoNotRouted, At
<1>2. ASSUME NEW k, Stored(k)' PROVE Stored(k) /\ store'[k].address = store[k].address
  BY <1>2 DEF Deletes, DoDelete, DoDrop, DoDeleteByPrefix, Fails, DoMayFail, DoNotRouted,
              Becomes, Without, Stored
<1> QED
  BY <1>1, <1>2, KeepsClaims

(* A request that begins, or ends, has no address in hand.                 *)
LEMMA TurnsClaims ==
  ASSUME TypeOK, AllWellAddressed, ClaimInv, NEW c \in Clients,
         Respond(c) \/ \E r \in cast.requests : Begin(c, r)
  PROVE  ClaimInv'
<1>1. counter' = counter /\ store' = store
      /\ \A d \in Clients \ {c} : request'[d] = request[d] /\ pc'[d] = pc[d] /\ held'[d] = held[d]
  BY DEF Respond, Begin, TypeOK
<1>2. pc'[c] = 1 /\ (request'[c] = NoRequest \/ request'[c] \in Requests)
  <2>1. CASE Respond(c)
    BY <2>1 DEF Respond, TypeOK
  <2>2. CASE \E r \in cast.requests : Begin(c, r)
    BY <2>2, IdleAtStart DEF Begin, TypeOK, Requests
  <2> QED
    BY <2>1, <2>2
<1>3. ASSUME NEW k PROVE ~Carries(c, k)'
  <2>1. CASE request'[c] = NoRequest
    BY <2>1, NothingGiven DEF Carries
  <2>2. CASE request'[c] \in Requests
    BY <1>2, <2>2 DEF AllWellAddressed, WellAddressed, Carries, Giving
  <2> QED
    BY <1>2, <2>1, <2>2
<1> SUFFICES ASSUME NEW k, NEW a, Claim(k, a)' PROVE Claim(k, a)
  BY <1>1, OldClaims
<1>4. \A d \in Clients : Carries(d, k)' => d # c /\ Carries(d, k)
  BY <1>1, <1>3 DEF Carries
<1> QED
  BY <1>1, <1>4 DEF Claim, Stored

LEMMA ResetClaims == ASSUME ClaimInv, Reset PROVE ClaimInv'
<1> SUFFICES ASSUME NEW k, NEW a, Claim(k, a)' PROVE Claim(k, a)
  BY OldClaims DEF Reset
<1>1. ~Stored(k)'
  BY DEF Reset, Becomes, Without, Stored
<1>2. \A c \in Clients : Carries(c, k)' /\ held'[c].address = a => Carries(c, k) /\ held[c].address = a
  BY DEF Reset, Carries
<1>3. \E c \in Clients : Carries(c, k)' /\ held'[c].address = a
  BY <1>1 DEF Claim
<1> QED
  BY <1>2, <1>3, Zenon DEF Claim

(* A restart begins to count again.                                        *)
FirstLife == restarts = 0 => ClaimInv

LEMMA NextClaims ==
  ASSUME TypeOK, AllWellFormed, AllWellAddressed, FirstLife, [Next]_vars
  PROVE  FirstLife'
<1>1. CASE UNCHANGED vars
  BY <1>1 DEF vars, FirstLife, ClaimInv, Claim, Stored, Carries
<1>2. CASE Restart
  BY <1>2 DEF Restart, TypeOK, FirstLife
<1>3. CASE Reset
  BY <1>3, ResetClaims DEF FirstLife, Reset
<1>4. ASSUME NEW c \in Clients,
             \/ Reads(c) \/ Writes(c) \/ Deletes(c) \/ Fails(c) \/ Respond(c)
             \/ \E r \in cast.requests : Begin(c, r)
      PROVE  FirstLife'
  <2>1. restarts' = restarts
    BY <1>4 DEF Reads, DoGet, DoLook, DoAbsent, DoUnlessFound, DoListByPrefix, DoTyped, DoListTyped,
         Writes, DoSet, DoSetSame, DoAssign, DoEncode, DoAddress, Deletes, DoDelete, DoDrop,
         DoDeleteByPrefix, Fails, DoMayFail, DoNotRouted, Respond, Begin
  <2> QED
    BY <1>4, <2>1, ReadsClaims, WritesClaims, DeletesClaims, TurnsClaims DEF FirstLife
<1> QED
  BY <1>1, <1>2, <1>3, <1>4 DEF Next

LEMMA InitClaims == Init => FirstLife
<1> SUFFICES ASSUME Init PROVE ClaimInv
  BY DEF FirstLife
<1>1. \A k : ~Stored(k)
  BY DEF Init, Stored
<1>2. \A c \in Clients : \A k : ~Carries(c, k)
  BY NothingGiven DEF Init, Carries
<1> QED
  BY <1>1, <1>2 DEF ClaimInv, Claim

(* No two public IPs that one process has put have the same address, for   *)
(* any number of clients whose PUTs overlap: the address is chosen and     *)
(* stored steps apart, and may be stored when the record is there again.   *)
THEOREM AddressesNeverShared ==
  AllWellFormed /\ AllWellAddressed => (Spec => []AddressesDiffer)
<1> SUFFICES ASSUME AllWellFormed, AllWellAddressed PROVE Spec => []AddressesDiffer
  OBVIOUS
<1>1. Init => TypeOK /\ ObjectInv /\ FirstLife
  BY InitType, InitObjects, InitClaims
<1>2. (TypeOK /\ ObjectInv /\ FirstLife) /\ [Next]_vars => (TypeOK /\ ObjectInv /\ FirstLife)'
  BY NextType, NextObjects, NextClaims
<1>3. FirstLife => AddressesDiffer
  BY DEF FirstLife, ClaimInv, Claim, Stored, AddressesDiffer
<1> QED
  BY <1>1, <1>2, <1>3, PTL DEF Spec

(* The PUT of a public IP is such, and so are requests that store none.    *)
LEMMA PutPublicIPAddressed == ASSUME NEW g, NEW p PROVE WellAddressed(PutPublicIP(g, p))
<1> DEFINE r == PutPublicIP(g, p)
           first == Look("publicip", <<g, p>>)
           last == Set("publicip", <<g, p>>)
<1>1. /\ DOMAIN r.calls = 1..3 /\ r.cleanup = 4
      /\ r.calls[1] = first /\ r.calls[2] = Address /\ r.calls[3] = last
  BY DEF PutPublicIP, Request
<1>2. first.op = "look" /\ first.skip = 0 /\ first.key = last.key
  BY DEF Look, Set, Call
<1>3. last.op = "set" /\ last.skip = 0
  BY DEF Set, Call
<1>4. Address.op = "address" /\ Address.skip = 0
  BY DEF Address, Call
<1> HIDE DEF first, last, r
<1>5. WellAddressed(r)
  BY <1>1, <1>2, <1>3, <1>4 DEF WellAddressed, Giving
<1> QED
  BY <1>5 DEF r

StoresNoAddress(r) ==
    \A i \in DOMAIN r.calls : r.calls[i].op \in {"set", "setSame"} => r.calls[i].key.kind # "publicip"

LEMMA NoPublicIPAddressed == ASSUME NEW r, StoresNoAddress(r) PROVE WellAddressed(r)
BY DEF StoresNoAddress, WellAddressed, Giving

-----------------------------------------------------------------------------
(* An address stays, for requests one after the other.                     *)

(* The address in hand is the one the record has, if there is a record.    *)
Kept(c, k) ==
    Stored(k) =>
        /\ Giving(request[c], pc[c], k) => held[c].address = store[k].address
        /\ Giving(request[c], pc[c] + 1, k) => held[c] = store[k]
OneAtATime == \A c, d \in Clients : Running(c) /\ Running(d) => c = d
StayInv ==
    /\ \A k : Stored(k) => store[k] # NoRecord /\ store[k].ok
    /\ Alone => OneAtATime /\ \A c \in Clients : \A k : Kept(c, k)

LEMMA IdleKeep == ASSUME NEW c, ~Running(c), NEW k PROVE Kept(c, k)
BY NothingGiven DEF Kept, Running

(* What a call does is all that happens to the store and the hands.        *)
LEMMA CallsStay ==
  ASSUME TypeOK, AllWellFormed, AllWellAddressed, StayInv, NEW c \in Clients,
         Running(c), ~Finished(c), Continue(c) \/ GiveUp(c), request' = request, cast' = cast,
         \A k : Stored(k)' => store'[k] # NoRecord /\ store'[k].ok,
         \A k : At(c, "look") /\ Target(c) = k /\ Stored(k)' => held'[c] = store'[k],
         \A k : At(c, "address") /\ Giving(request[c], pc[c] + 1, k) /\ Stored(k)' =>
                   held'[c].address = store'[k].address
  PROVE  StayInv'
<1> SUFFICES ASSUME Alone PROVE OneAtATime' /\ \A d \in Clients : \A k : Kept(d, k)'
  BY DEF StayInv, Alone
<1>1. OneAtATime'
  BY DEF StayInv, OneAtATime, Running
<1>2. ASSUME NEW d \in Clients, d # c, NEW k PROVE Kept(d, k)'
  <2>1. request'[d] = NoRequest
    BY <1>2 DEF StayInv, OneAtATime, Running
  <2> QED
    BY <2>1, NothingGiven DEF Kept
<1>3. ASSUME NEW k, Stored(k)', Giving(request[c], pc'[c], k)
      PROVE  held'[c].address = store'[k].address
  <2>1. pc'[c] = pc[c] + 1 /\ At(c, "address")
    BY <1>3, ArrivesInOrder
  <2> QED
    BY <1>3, <2>1
<1>4. ASSUME NEW k, Stored(k)', Giving(request[c], pc'[c] + 1, k)
      PROVE  held'[c] = store'[k]
  <2>1. pc'[c] = pc[c] + 1 /\ pc[c] \in Nat
    BY <1>4, ArrivesInOrder
  <2>2. pc'[c] + 1 = pc[c] + 2
    BY <2>1
  <2> QED
    BY <1>4, <2>2, ArrivesInOrder
<1>5. \A k : Kept(c, k)'
  BY <1>3, <1>4 DEF Kept
<1> QED
  BY <1>1, <1>2, <1>5

LEMMA ReadsStay ==
  ASSUME TypeOK, AllWellFormed, AllWellAddressed, StayInv, NEW c \in Clients, Reads(c)
  PROVE  StayInv'
<1>1. /\ Running(c) /\ ~Finished(c) /\ (Continue(c) \/ GiveUp(c)) /\ request' = request
      /\ store' = store /\ cast' = cast /\ ~At(c, "address") /\ (At(c, "look") => DoLook(c))
  BY DEF Reads, DoGet, DoLook, DoAbsent, DoUnlessFound, DoListByPrefix, DoTyped, DoListTyped, At
<1>2. \A k : Stored(k)' => store'[k] # NoRecord /\ store'[k].ok
  BY <1>1 DEF StayInv, Stored
<1>3. ASSUME NEW k, At(c, "look"), Target(c) = k, Stored(k)' PROVE held'[c] = store'[k]
  BY <1>1, <1>3 DEF DoLook, Find, Found, Stored, KindsWithList, TypeOK
<1> QED
  BY <1>1, <1>2, <1>3, CallsStay

(* A public IP is stored with the address it had.                          *)
LEMMA SetStays ==
  ASSUME TypeOK, AllWellFormed, StayInv, NEW c \in Clients, DoSet(c),
         NEW k, Stored(k)'
  PROVE  /\ store'[k] # NoRecord /\ store'[k].ok
         /\ Alone /\ Stored(k) => store'[k].address = store[k].address
<1>1. At(c, "set") /\ pc[c] \in DOMAIN request[c].calls
  BY CurrentCall DEF DoSet, At
<1>2. CASE k # Target(c)
  <2>1. Stored(k) /\ store'[k] = store[k]
    BY <1>2 DEF DoSet, Stored, Becomes, With
  <2> QED
    BY <2>1 DEF StayInv
<1>3. CASE k = Target(c)
  <2>1. Giving(request[c], pc[c], k)
    BY <1>1, <1>3 DEF Giving, Stored, At, Target, Current
  <2>2. store'[k] = [Plain EXCEPT !.address = held[c].address, !.ok = TRUE,
                                  !.decoded = OverPostgres /\ k.kind \in AssertedKinds]
    BY <1>3 DEF DoSet, Stored, Becomes, With, KindsWithList
  <2>3. store'[k].address = held[c].address /\ store'[k].ok
    BY <2>2 DEF Plain
  <2>4. store'[k] # NoRecord
    BY <2>3 DEF NoRecord
  <2> QED
    BY <2>1, <2>3, <2>4 DEF StayInv, Kept
<1> QED
  BY <1>2, <1>3

LEMMA AddressStays ==
  ASSUME TypeOK, AllWellFormed, AllWellAddressed, StayInv, NEW c \in Clients, DoAddress(c)
  PROVE  StayInv'
<1>1. /\ Running(c) /\ ~Finished(c) /\ Continue(c) /\ request' = request
      /\ store' = store /\ cast' = cast /\ ~At(c, "look")
  BY DEF DoAddress, At
<1>2. \A k : Stored(k)' => store'[k] # NoRecord /\ store'[k].ok
  BY <1>1 DEF StayInv, Stored
<1>3. ASSUME Alone, NEW k, Giving(request[c], pc[c] + 1, k), Stored(k)'
      PROVE  held'[c].address = store'[k].address
  <2>1. Stored(k) /\ held[c] = store[k] /\ held[c] # NoRecord
    BY <1>1, <1>3 DEF StayInv, Kept, Stored
  <2> QED
    BY <1>1, <2>1 DEF DoAddress
<1>4. CASE Alone
  BY <1>1, <1>2, <1>3, <1>4, CallsStay
<1>5. CASE ~Alone
  BY <1>1, <1>2, <1>5 DEF StayInv, Alone
<1> QED
  BY <1>4, <1>5

LEMMA WritesStay ==
  ASSUME TypeOK, AllWellFormed, AllWellAddressed, StayInv, NEW c \in Clients,
         Writes(c) \/ Deletes(c) \/ Fails(c)
  PROVE  /\ StayInv'
         /\ \A k : Alone /\ Stored(k) /\ Stored(k)' => store'[k].address = store[k].address
<1>1. CASE DoAddress(c)
  BY <1>1, AddressStays DEF DoAddress
<1>2. CASE DoSet(c)
  <2>1. Running(c) /\ ~Finished(c) /\ Continue(c) /\ request' = request /\ cast' = cast
        /\ ~At(c, "look") /\ ~At(c, "address")
    BY <1>2 DEF DoSet, At
  <2> QED
    BY <1>2, <2>1, SetStays, CallsStay
<1>3. CASE DoSetSame(c) \/ DoAssign(c) \/ DoEncode(c) \/ Deletes(c) \/ Fails(c)
  <2>1. Running(c) /\ ~Finished(c) /\ (Continue(c) \/ GiveUp(c)) /\ request' = request
        /\ cast' = cast /\ ~At(c, "look") /\ ~At(c, "address")
    BY <1>3 DEF DoSetSame, DoAssign, DoEncode, Deletes, DoDelete, DoDrop, DoDeleteByPrefix,
                Fails, DoMayFail, DoNotRouted, At
  <2>2. DoSetSame(c) => Target(c).kind # "publicip"
    BY <2>1, CurrentCall DEF DoSetSame, AllWellAddressed, WellAddressed, At, Target, Current
  <2>3. ASSUME NEW k, Stored(k)' PROVE Stored(k) /\ store'[k] = store[k]
    <3>1. CASE DoSetSame(c)
      <4>1. store' = With(Target(c), held[c]) /\ k # Target(c)
        BY <2>2, <2>3, <3>1 DEF DoSetSame, Becomes, Stored
      <4> QED
        BY <2>3, <4>1 DEF With, Stored
    <3>2. CASE DoAssign(c) \/ DoEncode(c) \/ Fails(c)
      <4>1. store' = store
        BY <3>2 DEF DoAssign, DoEncode, Fails, DoMayFail, DoNotRouted
      <4> QED
        BY <2>3, <4>1 DEF Stored
    <3>3. CASE Deletes(c)
      BY <2>3, <3>3 DEF Deletes, DoDelete, DoDrop, DoDeleteByPrefix, Becomes, Without, Stored
    <3> QED
      BY <1>3, <3>1, <3>2, <3>3
  <2>4. \A k : Stored(k)' => store'[k] # NoRecord /\ store'[k].ok
    BY <2>3 DEF StayInv
  <2> QED
    BY <2>1, <2>3, <2>4, CallsStay
<1> QED
  BY <1>1, <1>2, <1>3 DEF Writes

(* Only one request runs when it is to be alone.                           *)
(* One client at a time: a request begins only when nothing runs.          *)
LEMMA OnlyOneBegins ==
  ASSUME IsFiniteSet(Clients), Alone, NEW c \in Clients, NEW r, Begin(c, r)
  PROVE  \A d \in Clients : ~Running(d)
<1> DEFINE busy == {d \in Clients : Running(d)}
<1>1. IsFiniteSet(busy)
  BY FS_Subset
<1>2. Cardinality(busy) \in Nat /\ Cardinality(busy) < 1
  BY <1>1, FS_CardinalityType DEF Begin, Alone
<1>3. busy = {}
  BY <1>1, <1>2, FS_EmptySet
<1> QED
  BY <1>3

LEMMA TurnsStay ==
  ASSUME IsFiniteSet(Clients), TypeOK, AllWellAddressed, StayInv, NEW c \in Clients,
         Respond(c) \/ \E r \in cast.requests : Begin(c, r)
  PROVE  StayInv'
<1>1. store' = store /\ cast' = cast
      /\ \A d \in Clients \ {c} : request'[d] = request[d] /\ pc'[d] = pc[d] /\ held'[d] = held[d]
  BY DEF Respond, Begin, TypeOK
<1>2. \A k : Stored(k)' => store'[k] # NoRecord /\ store'[k].ok
  BY <1>1 DEF StayInv, Stored
<1> SUFFICES ASSUME Alone PROVE OneAtATime' /\ \A d \in Clients : \A k : Kept(d, k)'
  BY <1>1, <1>2 DEF StayInv, Alone
<1>3. pc'[c] = 1 /\ (request'[c] = NoRequest \/ request'[c] \in Requests)
  <2>1. CASE Respond(c)
    BY <2>1 DEF Respond, TypeOK
  <2>2. CASE \E r \in cast.requests : Begin(c, r)
    BY <2>2, IdleAtStart DEF Begin, TypeOK, Requests
  <2> QED
    BY <2>1, <2>2
<1>4. \A k : Kept(c, k)'
  <2>1. CASE request'[c] = NoRequest
    BY <2>1, NothingGiven DEF Kept
  <2>2. CASE request'[c] \in Requests
    BY <1>3, <2>2 DEF AllWellAddressed, WellAddressed, Kept, Giving
  <2> QED
    BY <1>3, <2>1, <2>2
<1>5. \A d \in Clients \ {c} : \A k : Kept(d, k)'
  BY <1>1 DEF StayInv, Kept, Stored
<1>6. \A d \in Clients \ {c} : ~Running(d)
  BY OnlyOneBegins DEF StayInv, OneAtATime, Respond, Finished
<1>7. OneAtATime'
  BY <1>1, <1>6 DEF OneAtATime, Running
<1> QED
  BY <1>4, <1>5, <1>7

(* A step of nobody: the reset, and the restart, after which the records   *)
(* are as they were but for their types.                                   *)
LEMMA ProcessStays ==
  ASSUME TypeOK, StayInv, Reset \/ Restart
  PROVE  /\ StayInv'
         /\ \A k : Stored(k)' => Stored(k) /\ store'[k].address = store[k].address
<1>1. CASE Reset
  BY <1>1 DEF Reset, Becomes, Without, Stored, StayInv, Alone, OneAtATime, Running, Kept
<1>2. CASE Restart
  <2>1. ASSUME NEW k, Stored(k)'
        PROVE  /\ Stored(k) /\ store'[k].address = store[k].address
               /\ store'[k] # NoRecord /\ store'[k].ok
    <3>1. k \in DOMAIN store /\ Stored(k)
          /\ store'[k] = [store[k] EXCEPT !.decoded = k.kind \in AssertedKinds]
      BY <1>2, <2>1 DEF Restart, Becomes, Stored
    <3>2. store[k] \in Records
      BY <3>1 DEF TypeOK
    <3>3. store'[k].address = store[k].address /\ store'[k].ok = store[k].ok
      BY <3>1, <3>2 DEF Records
    <3> QED
      BY <3>1, <3>3 DEF StayInv, NoRecord
  <2>2. \A c \in Clients : ~Running(c)'
    BY <1>2 DEF Restart, Running
  <2>3. \A c \in Clients : \A k : Kept(c, k)'
    BY <2>2, NothingGiven DEF Kept, Running
  <2> QED
    BY <2>1, <2>2, <2>3 DEF StayInv, OneAtATime
<1> QED
  BY <1>1, <1>2

LEMMA NextStays ==
  ASSUME IsFiniteSet(Clients), TypeOK, AllWellFormed, AllWellAddressed, StayInv, [Next]_vars
  PROVE  /\ StayInv'
         /\ \A k : Alone /\ Stored(k) /\ Stored(k)' => store'[k].address = store[k].address
<1>1. CASE UNCHANGED vars
  BY <1>1 DEF vars, StayInv, Stored, Alone, OneAtATime, Running, Kept
<1>2. CASE Reset \/ Restart
  BY <1>2, ProcessStays
<1>3. ASSUME NEW c \in Clients, Reads(c) \/ Respond(c) \/ \E r \in cast.requests : Begin(c, r)
      PROVE  StayInv' /\ store' = store
  BY <1>3, ReadsStay, TurnsStay DEF Reads, DoGet, DoLook, DoAbsent, DoUnlessFound, DoListByPrefix,
     DoTyped, DoListTyped, Respond, Begin
<1>4. ASSUME NEW c \in Clients, Writes(c) \/ Deletes(c) \/ Fails(c)
      PROVE  /\ StayInv'
             /\ \A k : Alone /\ Stored(k) /\ Stored(k)' => store'[k].address = store[k].address
  BY <1>4, WritesStay
<1> QED
  BY <1>1, <1>2, <1>3, <1>4 DEF Next

LEMMA InitStays == Init => StayInv
<1> SUFFICES ASSUME Init PROVE StayInv
  OBVIOUS
<1>1. \A k : ~Stored(k)
  BY DEF Init, Stored
<1>2. \A c \in Clients : ~Running(c)
  BY DEF Init, Running
<1> QED
  BY <1>1, <1>2 DEF StayInv, OneAtATime, Kept

(* A public IP keeps its address as long as its record is there, whatever  *)
(* one client asks, over resets and restarts: the PUT that would take a    *)
(* new address has looked, and has found none.                             *)
THEOREM AddressesAlwaysStay ==
  IsFiniteSet(Clients) /\ AllWellFormed /\ AllWellAddressed => (Spec => AddressesStay)
<1> SUFFICES ASSUME IsFiniteSet(Clients), AllWellFormed, AllWellAddressed
             PROVE  Spec => AddressesStay
  OBVIOUS
<1>1. Init => TypeOK /\ ObjectInv /\ StayInv
  BY InitType, InitObjects, InitStays
<1>2. (TypeOK /\ ObjectInv /\ StayInv) /\ [Next]_vars => (TypeOK /\ ObjectInv /\ StayInv)'
  BY NextType, NextObjects, NextStays
<1>3. TypeOK /\ StayInv /\ [Next]_vars =>
        [\A k \in DOMAIN store \intersect DOMAIN store' :
            Alone /\ k.kind = "publicip" => store'[k].address = store[k].address]_vars
  BY NextStays DEF Stored
<1> QED
  BY <1>1, <1>2, <1>3, PTL DEF Spec, AddressesStay

-----------------------------------------------------------------------------
(* Children and their parents, for requests one after the other.           *)

(* Call g has found or stored record p, and p is there when call i is      *)
(* made: nothing in between deletes, and no jump leads in between.         *)
Asked(r, g, i, p) ==
    /\ g \in 1..(i - 1)
    /\ r.calls[g].op \in {"get", "set", "setSame"} /\ r.calls[g].key = p
    /\ \A j \in (g + 1)..i : r.calls[j].op \notin {"delete", "drop", "deleteByPrefix"}
    /\ \A j \in 1..g : r.calls[j].skip > 0 => j + r.calls[j].skip + 1 \notin (g + 1)..i
    /\ r.cleanup \notin (g + 1)..i

(* A child is stored only when its parents have been asked for.            *)
AsksParents(r) ==
    \A i \in DOMAIN r.calls : r.calls[i].op \in {"set", "setSame"} =>
        \A p \in Parents(r.calls[i].key) : \E g \in 1..(i - 1) : Asked(r, g, i, p)

(* The records a call deletes, over a backend with LIKE or without.        *)
Removes(like, call, k) ==
    \/ call.op \in {"delete", "drop"} /\ k = call.key
    \/ call.op = "deleteByPrefix" /\ (HasPrefix(k, call.key) \/ (like /\ Like(k, call.key)))

(* What a deletion leaves without its parent is swept by a call that       *)
(* follows, with nothing but sweeps before it.                             *)
SweptLater(r, like, k, i, j) ==
    /\ Removes(like, r.calls[j], k)
    /\ \A l \in i..j : r.calls[l].op = "deleteByPrefix"
SweepsChildren(r) ==
    \A like \in BOOLEAN, i \in DOMAIN r.calls, k \in Keys : \A p \in Parents(k) :
        Removes(like, r.calls[i], p) =>
            \E j \in (i + 1)..Len(r.calls) : SweptLater(r, like, k, i + 1, j)

(* Requests that are served one by one are such, and no reset comes        *)
(* between their calls: it is the request of another client.               *)
AllTended ==
    \A k \in Casts : k.atOnce = 1 =>
        k.resets = 0 /\ \A r \in k.requests : AsksParents(r) /\ SweepsChildren(r)

(* A parent that has been asked for is there; an orphan is about to be     *)
(* swept.                                                                  *)
Grown(c) ==
    \A i \in DOMAIN request[c].calls : \A g, p :
        Asked(request[c], g, i, p) /\ g < pc[c] /\ pc[c] <= i => p \in DOMAIN store
OrphanSwept(k) ==
    \E c \in Clients : /\ Running(c)
                       /\ \E j \in pc[c]..Len(request[c].calls) :
                             SweptLater(request[c], OverPostgres, k, pc[c], j)
Tended == \A k \in DOMAIN store : Parents(k) \subseteq DOMAIN store \/ OrphanSwept(k)
TreeInv ==
    Alone => /\ OneAtATime
             /\ \A c \in Clients : Running(c) => Grown(c)
             /\ Tended

(* What a call does to the keys of the store.                              *)
LEMMA CallEffect ==
  ASSUME TypeOK, NEW c \in Clients, Reads(c) \/ Writes(c) \/ Deletes(c) \/ Fails(c)
  PROVE  /\ Running(c) /\ ~Finished(c) /\ (Continue(c) \/ GiveUp(c))
         /\ request' = request /\ cast' = cast
         /\ \/ /\ Current(c).op \notin {"set", "setSame", "delete", "drop", "deleteByPrefix"}
               /\ DOMAIN store' = DOMAIN store
               /\ Current(c).op = "get" /\ Current(c).key \notin DOMAIN store => GiveUp(c)
            \/ /\ Current(c).op \in {"set", "setSame"}
               /\ DOMAIN store' = DOMAIN store \union {Current(c).key}
               /\ Continue(c)
            \/ /\ Current(c).op \in {"delete", "drop", "deleteByPrefix"}
               /\ DOMAIN store' = {k \in DOMAIN store : ~Removes(OverPostgres, Current(c), k)}
               /\ Current(c).op = "deleteByPrefix" \/ Current(c).key \in DOMAIN store => Continue(c)
<1>1. CASE Reads(c)
  BY <1>1 DEF Reads, DoGet, DoLook, DoAbsent, DoUnlessFound, DoListByPrefix, DoTyped, DoListTyped, At, Current,
     Target, Found
<1>2. CASE DoAssign(c) \/ DoEncode(c) \/ DoAddress(c) \/ Fails(c)
  BY <1>2 DEF DoAssign, DoEncode, DoAddress, Fails, DoMayFail, DoNotRouted, At, Current
<1>3. CASE DoSet(c)
  <2>1. \E record : Becomes(With(Target(c), record))
    BY <1>3 DEF DoSet
  <2>2. DOMAIN store' = DOMAIN store \union {Current(c).key}
    BY <2>1 DEF Becomes, With, Target
  <2> QED
    BY <1>3, <2>2 DEF DoSet, At, Current
<1>4. CASE DoSetSame(c)
  <2>1. DOMAIN store' = DOMAIN store \union {Current(c).key}
    BY <1>4 DEF DoSetSame, Becomes, With, Target
  <2> QED
    BY <1>4, <2>1 DEF DoSetSame, At, Current
<1>5. CASE DoDelete(c) \/ DoDrop(c)
  <2>1. DOMAIN store' = DOMAIN store \ {Current(c).key} /\ Current(c).op \in {"delete", "drop"}
    BY <1>5 DEF DoDelete, DoDrop, Becomes, Without, Target, Current, At
  <2>2. DOMAIN store' = {k \in DOMAIN store : ~Removes(OverPostgres, Current(c), k)}
    BY <2>1 DEF Removes
  <2> QED
    BY <1>5, <2>1, <2>2 DEF DoDelete, DoDrop, At, Current, Target
<1>6. CASE DoDeleteByPrefix(c)
  <2>1. DOMAIN store' = DOMAIN store \ Matching(DOMAIN store, Current(c).key) /\ Current(c).op = "deleteByPrefix"
    BY <1>6 DEF DoDeleteByPrefix, Becomes, Without, Target, Current, At
  <2>2. DOMAIN store' = {k \in DOMAIN store : ~Removes(OverPostgres, Current(c), k)}
    BY <2>1 DEF Removes, Matching
  <2> QED
    BY <1>6, <2>1, <2>2 DEF DoDeleteByPrefix, At, Current
<1> QED
  BY <1>1, <1>2, <1>3, <1>4, <1>5, <1>6 DEF Writes, Deletes

(* Where a call that has not done its work leads.                          *)
LEMMA GivingUp ==
  ASSUME TypeOK, AllWellFormed, NEW c \in Clients, Running(c), ~Finished(c), GiveUp(c)
  PROVE  \/ pc'[c] = request[c].cleanup
         \/ /\ request[c].calls[pc[c]].skip > 0
            /\ pc'[c] = pc[c] + request[c].calls[pc[c]].skip + 1
<1>1. pc[c] \in DOMAIN request[c].calls /\ pc[c] \in Nat /\ WellFormed(request[c])
  BY CurrentCall
<1>2. request[c].calls[pc[c]].skip \in Nat
  BY <1>1 DEF WellFormed
<1>3. pc \in [Clients -> Nat]
  BY DEF TypeOK
<1>4. CASE Current(c).skip > 0
  <2>1. pc' = [pc EXCEPT ![c] = pc[c] + 1 + Current(c).skip]
    BY <1>3, <1>4 DEF GiveUp
  <2> QED
    BY <1>1, <1>2, <1>3, <1>4, <2>1 DEF Current
<1>5. CASE ~(Current(c).skip > 0)
  BY <1>3, <1>5 DEF GiveUp
<1> QED
  BY <1>4, <1>5

(* A request comes between the two calls only from there, or from the      *)
(* first, which has found or stored its record.                            *)
LEMMA ArrivesAsked ==
  ASSUME TypeOK, AllWellFormed, NEW c \in Clients, Running(c), ~Finished(c), Continue(c) \/ GiveUp(c),
         NEW i \in DOMAIN request[c].calls, NEW g, NEW p, Asked(request[c], g, i, p),
         g < pc'[c], pc'[c] <= i
  PROVE  (g < pc[c] /\ pc[c] <= i) \/ (g = pc[c] /\ ~GiveUp(c))
<1> DEFINE r == request[c]
           n == pc[c]
           m == pc'[c]
           skip == r.calls[n].skip
<1>1. WellFormed(r) /\ n \in DOMAIN r.calls /\ n \in Nat
  BY CurrentCall
<1>2. n \in 1..Len(r.calls) /\ i \in Nat /\ Len(r.calls) \in Nat /\ g \in 1..(i - 1) /\ skip \in Nat
  BY <1>1 DEF WellFormed, Asked
<1>3. r.cleanup \notin (g + 1)..i /\ (n \in 1..g /\ skip > 0 => n + skip + 1 \notin (g + 1)..i)
  BY DEF Asked
<1>4. \/ m = n + 1
      \/ m = r.cleanup
      \/ skip > 0 /\ m = n + skip + 1
  BY Moves
<1>5. r.cleanup \in Nat
  BY <1>1, <1>2 DEF WellFormed
<1>6. GiveUp(c) => m = r.cleanup \/ (skip > 0 /\ m = n + skip + 1)
  BY GivingUp
<1>7. m # r.cleanup
  BY <1>2, <1>3, <1>5
<1>8. ~(n \in 1..g /\ skip > 0 /\ m = n + skip + 1)
  BY <1>2, <1>3
<1> HIDE DEF r, n, m, skip
<1>9. (g < n /\ n <= i) \/ (g = n /\ ~GiveUp(c))
  <2>1. CASE m = n + 1
    BY <1>2, <1>6, <1>7, <1>8, <2>1 DEF m
  <2>2. CASE skip > 0 /\ m = n + skip + 1
    BY <1>2, <1>8, <2>2 DEF m
  <2> QED
    BY <1>4, <1>7, <2>1, <2>2
<1> QED
  BY <1>9 DEF n

(* Nobody but the request that sweeps leaves an orphan behind.             *)
LEMMA OrphansOnlySwept ==
  ASSUME TypeOK, AllWellFormed, TreeInv, Alone, NEW c \in Clients, Running(c),
         Finished(c) \/ Current(c).op # "deleteByPrefix", NEW k \in DOMAIN store
  PROVE  Parents(k) \subseteq DOMAIN store
<1> SUFFICES ASSUME OrphanSwept(k) PROVE FALSE
  BY DEF TreeInv, Tended
<1>1. PICK d \in Clients : Running(d) /\ \E j \in pc[d]..Len(request[d].calls) :
                              SweptLater(request[d], OverPostgres, k, pc[d], j)
  BY DEF OrphanSwept
<1>2. d = c
  BY <1>1 DEF TreeInv, OneAtATime
<1>3. PICK j \in pc[c]..Len(request[c].calls) : SweptLater(request[c], OverPostgres, k, pc[c], j)
  BY <1>1, <1>2
<1>4. request[c] \in Requests /\ pc[c] \in Nat
  BY DEF TypeOK, Running, Requests
<1>5. Len(request[c].calls) \in Nat
  BY <1>4 DEF AllWellFormed, WellFormed
<1>6. ~Finished(c)
  BY <1>3, <1>4, <1>5 DEF Finished
<1>7. Current(c).op = "deleteByPrefix"
  BY <1>3, <1>4, <1>5 DEF SweptLater, Current
<1> QED
  BY <1>6, <1>7

(* What the one request that runs is like.                                 *)
LEMMA TendedRequest ==
  ASSUME TypeOK, AllTended, Alone, NEW c \in Clients, Running(c)
  PROVE  AsksParents(request[c]) /\ SweepsChildren(request[c])
<1>1. request[c] \in cast.requests /\ cast \in Casts
  BY DEF TypeOK, Running
<1> QED
  BY <1>1 DEF AllTended, Alone

LEMMA CallGrown ==
  ASSUME TypeOK, AllWellFormed, TreeInv, Alone, NEW c \in Clients,
         Reads(c) \/ Writes(c) \/ Deletes(c) \/ Fails(c)
  PROVE  Grown(c)'
<1>e. Running(c) /\ ~Finished(c) /\ (Continue(c) \/ GiveUp(c)) /\ request' = request
  BY CallEffect
<1> SUFFICES ASSUME NEW i \in DOMAIN request[c].calls, NEW g, NEW p,
                    Asked(request[c], g, i, p), g < pc'[c], pc'[c] <= i
             PROVE  p \in DOMAIN store'
  BY <1>e DEF Grown
<1>1. (g < pc[c] /\ pc[c] <= i) \/ (g = pc[c] /\ ~GiveUp(c))
  BY <1>e, ArrivesAsked
<1>w. WellFormed(request[c]) /\ pc[c] \in Nat
  BY <1>e, CurrentCall
<1>2. CASE g < pc[c] /\ pc[c] <= i
  <2>1. p \in DOMAIN store
    BY <1>e, <1>2 DEF TreeInv, Grown
  <2>2. pc[c] \in (g + 1)..i
    BY <1>w, <1>2 DEF Asked, WellFormed
  <2>3. Current(c).op \notin {"delete", "drop", "deleteByPrefix"}
    BY <2>2 DEF Asked, Current
  <2> QED
    BY <2>1, <2>3, CallEffect
<1>3. CASE g = pc[c] /\ ~GiveUp(c)
  <2>1. Current(c).op \in {"get", "set", "setSame"} /\ Current(c).key = p
    BY <1>3 DEF Asked, Current
  <2> QED
    BY <1>3, <2>1, CallEffect
<1> QED
  BY <1>1, <1>2, <1>3

(* A record that is put finds its parents.                                 *)
LEMMA PutFindsParents ==
  ASSUME TypeOK, AllWellFormed, AllTended, TreeInv, Alone, NEW c \in Clients, Running(c), ~Finished(c),
         Current(c).op \in {"set", "setSame"}
  PROVE  Parents(Current(c).key) \subseteq DOMAIN store
<1>1. AsksParents(request[c]) /\ pc[c] \in DOMAIN request[c].calls /\ pc[c] \in Nat
  BY TendedRequest, CurrentCall
<1> SUFFICES ASSUME NEW p \in Parents(Current(c).key) PROVE p \in DOMAIN store
  OBVIOUS
<1>2. PICK g \in 1..(pc[c] - 1) : Asked(request[c], g, pc[c], p)
  BY <1>1 DEF AsksParents, Current
<1>3. Grown(c)
  BY DEF TreeInv
<1> QED
  BY <1>1, <1>2, <1>3 DEF Grown

LEMMA CallTended ==
  ASSUME TypeOK, AllWellFormed, AllTended, TreeInv, Alone, NEW c \in Clients,
         Reads(c) \/ Writes(c) \/ Deletes(c) \/ Fails(c)
  PROVE  Tended'
<1>e. Running(c) /\ ~Finished(c) /\ request' = request /\ cast' = cast
  BY CallEffect
<1>w. /\ WellFormed(request[c]) /\ pc[c] \in Nat /\ pc[c] \in DOMAIN request[c].calls
      /\ Len(request[c].calls) \in Nat /\ DOMAIN request[c].calls = 1..Len(request[c].calls)
  BY <1>e, CurrentCall DEF WellFormed
<1>o. Current(c).op # "deleteByPrefix" => \A k \in DOMAIN store : Parents(k) \subseteq DOMAIN store
  BY <1>e, OrphansOnlySwept
<1>1. CASE Current(c).op \in {"set", "setSame"}
  BY <1>e, <1>o, <1>1, CallEffect, PutFindsParents DEF Tended
<1>2. CASE Current(c).op \notin {"set", "setSame", "delete", "drop", "deleteByPrefix"}
  BY <1>o, <1>2, CallEffect DEF Tended
<1>3. CASE Current(c).op \in {"delete", "drop", "deleteByPrefix"}
  <2>1. DOMAIN store' = {k \in DOMAIN store : ~Removes(OverPostgres, Current(c), k)}
    BY <1>3, CallEffect
  <2> SUFFICES ASSUME NEW k \in DOMAIN store', NEW p \in Parents(k), p \notin DOMAIN store'
               PROVE  OrphanSwept(k)'
    BY DEF Tended
  <2>2. k \in DOMAIN store /\ ~Removes(OverPostgres, Current(c), k) /\ k \in Keys
    BY <2>1 DEF TypeOK
  <2>3. \E j \in (pc[c] + 1)..Len(request[c].calls) :
           SweptLater(request[c], OverPostgres, k, pc[c] + 1, j)
    <3>1. CASE p \in DOMAIN store
      <4>1. Removes(OverPostgres, Current(c), p)
        BY <2>1, <3>1
      <4>2. OverPostgres \in BOOLEAN /\ SweepsChildren(request[c])
        BY <1>e, TendedRequest DEF OverPostgres
      <4> QED
        BY <1>w, <2>2, <4>1, <4>2 DEF SweepsChildren, Current
    <3>2. CASE p \notin DOMAIN store
      <4>1. Current(c).op = "deleteByPrefix" /\ OrphanSwept(k)
        BY <1>o, <2>2, <3>2 DEF TreeInv, Tended
      <4>2. PICK d \in Clients : Running(d) /\ \E j \in pc[d]..Len(request[d].calls) :
                                     SweptLater(request[d], OverPostgres, k, pc[d], j)
        BY <4>1 DEF OrphanSwept
      <4>3. d = c
        BY <1>e, <4>2 DEF TreeInv, OneAtATime
      <4>4. PICK j \in pc[c]..Len(request[c].calls) : SweptLater(request[c], OverPostgres, k, pc[c], j)
        BY <4>2, <4>3
      <4>5. j # pc[c]
        BY <2>2, <4>4 DEF SweptLater, Current
      <4>6. j \in (pc[c] + 1)..Len(request[c].calls) /\ \A l \in (pc[c] + 1)..j : l \in pc[c]..j
        BY <1>w, <4>4, <4>5
      <4> QED
        BY <4>4, <4>6 DEF SweptLater
    <3> QED
      BY <3>1, <3>2
  <2>4. Continue(c)
    <3>1. CASE Current(c).op = "deleteByPrefix"
      BY <3>1, CallEffect
    <3>2. CASE Current(c).op \in {"delete", "drop"}
      <4>1. p \in DOMAIN store
        BY <1>o, <2>2, <3>2
      <4>2. Removes(OverPostgres, Current(c), p)
        BY <2>1, <4>1
      <4>3. Current(c).key \in DOMAIN store
        BY <3>2, <4>1, <4>2 DEF Removes
      <4> QED
        BY <3>2, <4>3, CallEffect
    <3> QED
      BY <1>3, <3>1, <3>2
  <2>5. pc'[c] = pc[c] + 1
    BY <1>w, <2>4 DEF Continue, TypeOK
  <2> QED
    BY <1>e, <2>3, <2>5 DEF OrphanSwept, OverPostgres, Running
<1> QED
  BY <1>1, <1>2, <1>3

LEMMA CallTree ==
  ASSUME TypeOK, AllWellFormed, AllTended, TreeInv, NEW c \in Clients,
         Reads(c) \/ Writes(c) \/ Deletes(c) \/ Fails(c)
  PROVE  TreeInv'
<1>e. Running(c) /\ request' = request /\ cast' = cast
  BY CallEffect
<1> SUFFICES ASSUME Alone PROVE OneAtATime' /\ (\A d \in Clients : Running(d)' => Grown(d)') /\ Tended'
  BY <1>e DEF TreeInv, Alone
<1>1. OneAtATime'
  BY <1>e DEF TreeInv, OneAtATime, Running
<1>2. ASSUME NEW d \in Clients, Running(d)' PROVE d = c
  BY <1>e, <1>2 DEF TreeInv, OneAtATime, Running
<1> QED
  BY <1>1, <1>2, CallGrown, CallTended

(* Nothing runs: nothing is an orphan.                                     *)
LEMMA IdleTree ==
  ASSUME TreeInv, Alone, \A c \in Clients : ~Running(c), NEW k \in DOMAIN store
  PROVE  Parents(k) \subseteq DOMAIN store
BY DEF TreeInv, Tended, OrphanSwept

LEMMA TurnTree ==
  ASSUME IsFiniteSet(Clients), TypeOK, AllWellFormed, AllTended, TreeInv,
         \/ Reset \/ Restart
         \/ \E c \in Clients : Respond(c) \/ \E r \in cast.requests : Begin(c, r)
  PROVE  /\ TreeInv'
         /\ Alone => DOMAIN store' = DOMAIN store
<1>e. cast' = cast
  BY DEF Reset, Restart, Respond, Begin
<1> SUFFICES ASSUME Alone
             PROVE  /\ OneAtATime' /\ (\A d \in Clients : Running(d)' => Grown(d)') /\ Tended'
                    /\ DOMAIN store' = DOMAIN store
  BY <1>e DEF TreeInv, Alone
<1>1. ASSUME NEW c \in Clients, NEW r \in cast.requests, Begin(c, r)
      PROVE  /\ OneAtATime' /\ (\A d \in Clients : Running(d)' => Grown(d)') /\ Tended'
             /\ DOMAIN store' = DOMAIN store
  <2>1. /\ \A d \in Clients : ~Running(d)
        /\ store' = store /\ pc' = pc /\ pc[c] = 1
        /\ \A d \in Clients : d # c => ~Running(d)'
    BY <1>1, OnlyOneBegins, IdleAtStart DEF Begin, Running, TypeOK
  <2>2. Grown(c)'
    BY <2>1 DEF Grown, Asked
  <2>3. Tended'
    BY <2>1, IdleTree DEF Tended
  <2> QED
    BY <2>1, <2>2, <2>3 DEF OneAtATime
<1>2. ASSUME NEW c \in Clients, Respond(c)
      PROVE  /\ OneAtATime' /\ (\A d \in Clients : Running(d)' => Grown(d)') /\ Tended'
             /\ DOMAIN store' = DOMAIN store
  <2>1. store' = store /\ Finished(c) /\ Running(c)
    BY <1>2 DEF Respond, Finished
  <2>2. \A d \in Clients : ~Running(d)'
    BY <1>2, <2>1 DEF Respond, Running, TreeInv, OneAtATime, TypeOK
  <2>3. Tended'
    BY <2>1, OrphansOnlySwept DEF Tended
  <2> QED
    BY <2>1, <2>2, <2>3 DEF OneAtATime
<1>3. ASSUME Restart
      PROVE  /\ OneAtATime' /\ (\A d \in Clients : Running(d)' => Grown(d)') /\ Tended'
             /\ DOMAIN store' = DOMAIN store
  <2>1. DOMAIN store' = DOMAIN store /\ \A d \in Clients : ~Running(d) /\ ~Running(d)'
    BY <1>3 DEF Restart, Becomes, Running
  <2> QED
    BY <2>1, IdleTree DEF OneAtATime, Tended
<1>4. ~Reset
  <2>1. cast.resets = 0
    BY DEF AllTended, TypeOK, Alone
  <2> QED
    BY <2>1 DEF Reset, TypeOK
<1> QED
  BY <1>1, <1>2, <1>3, <1>4

LEMMA NextTree ==
  ASSUME IsFiniteSet(Clients), TypeOK, AllWellFormed, AllTended, TreeInv, [Next]_vars
  PROVE  TreeInv'
<1>1. CASE UNCHANGED vars
  BY <1>1 DEF vars, TreeInv, Alone, OneAtATime, Running, Grown, Tended, OrphanSwept, OverPostgres
<1>2. ASSUME NEW c \in Clients, Reads(c) \/ Writes(c) \/ Deletes(c) \/ Fails(c) PROVE TreeInv'
  BY <1>2, CallTree
<1>3. CASE \/ Reset \/ Restart
           \/ \E c \in Clients : Respond(c) \/ \E r \in cast.requests : Begin(c, r)
  BY <1>3, TurnTree
<1> QED
  BY <1>1, <1>2, <1>3 DEF Next

LEMMA InitTree == Init => TreeInv
<1> SUFFICES ASSUME Init PROVE TreeInv
  OBVIOUS
<1>1. \A c \in Clients : ~Running(c)
  BY DEF Init, Running
<1>2. DOMAIN store = {}
  BY DEF Init
<1> QED
  BY <1>1, <1>2 DEF TreeInv, OneAtATime, Tended

(* Between the requests of one client no record is without its parent, if  *)
(* every PUT of a child asks for the parent and every DELETE of a parent   *)
(* sweeps the children.                                                    *)
THEOREM NoneOrphaned ==
  IsFiniteSet(Clients) /\ AllWellFormed /\ AllTended => (Spec => []NoOrphans)
<1> SUFFICES ASSUME IsFiniteSet(Clients), AllWellFormed, AllTended PROVE Spec => []NoOrphans
  OBVIOUS
<1>1. Init => TypeOK /\ ObjectInv /\ TreeInv
  BY InitType, InitObjects, InitTree
<1>2. (TypeOK /\ ObjectInv /\ TreeInv) /\ [Next]_vars => (TypeOK /\ ObjectInv /\ TreeInv)'
  BY NextType, NextObjects, NextTree
<1>3. TreeInv => NoOrphans
  BY IdleTree DEF NoOrphans
<1> QED
  BY <1>1, <1>2, <1>3, PTL DEF Spec

(* A parent has no parent of its own.                                      *)
LEMMA OneLevel == ASSUME NEW k, NEW p \in Parents(k) PROVE Parents(p) = {}
<1>1. p.kind \in {"vnet", "nsg", "dns:zone", "sqldb:server", "pgflex:server", "dbmysql:server", "queue:meta"}
  BY DEF Parents, ParentKinds, Key
<1>2. \A q \in ParentKinds : q[1] # p.kind
  BY <1>1 DEF ParentKinds
<1> QED
  BY <1>2 DEF Parents

(* Records that go, go with what is visible below them.                    *)
LEMMA Removing ==
  ASSUME cast' = cast, DOMAIN store' \subseteq DOMAIN store
  PROVE  [Tree!Next]_Visible
<1>1. Visible' \subseteq Visible
  BY DEF Visible, Alone, OverPostgres
<1>2. CASE Visible' = Visible
  BY <1>2
<1>3. CASE Visible' # Visible
  <2> DEFINE S == Visible \ Visible'
  <2>1. Visible' = Visible \ S
    BY <1>1
  <2>2. ASSUME NEW k \in Visible, NEW p \in Parents(k) \intersect S PROVE k \in S
    <3>1. Parents(p) = {}
      BY OneLevel
    <3>2. p \notin DOMAIN store'
      BY <2>2, <3>1 DEF Visible, Alone, OverPostgres
    <3> QED
      BY <2>2, <3>2 DEF Visible
  <2>3. Tree!Remove(S)
    BY <2>1, <2>2 DEF Tree!Remove
  <2> QED
    BY <2>3 DEF Tree!Next
<1> QED
  BY <1>2, <1>3

LEMMA Putting ==
  ASSUME TypeOK, AllWellFormed, AllTended, TreeInv, TypeOK', NEW c \in Clients,
         Reads(c) \/ Writes(c) \/ Deletes(c) \/ Fails(c), Current(c).op \in {"set", "setSame"}
  PROVE  [Tree!Next]_Visible
<1> DEFINE key == Current(c).key
<1>e. Running(c) /\ ~Finished(c) /\ cast' = cast /\ DOMAIN store' = DOMAIN store \union {key}
  BY CallEffect
<1>1. CASE ~Alone \/ OverPostgres
  BY <1>e, <1>1 DEF Visible, Alone, OverPostgres
<1>2. CASE Alone /\ ~OverPostgres
  <2>1. Parents(key) \subseteq DOMAIN store
    BY <1>e, <1>2, PutFindsParents
  <2>2. \A k \in DOMAIN store : Parents(k) \subseteq DOMAIN store
    BY <1>e, <1>2, OrphansOnlySwept
  <2>3. Visible = DOMAIN store /\ Visible' = DOMAIN store \union {key}
    BY <1>e, <1>2, <2>1, <2>2 DEF Visible, Alone, OverPostgres
  <2>4. CASE key \in DOMAIN store
    BY <2>3, <2>4
  <2>5. CASE key \notin DOMAIN store
    <3>1. key \in Keys
      BY <1>e DEF TypeOK
    <3>2. Tree!Create(key)
      BY <2>1, <2>3, <2>5, <3>1 DEF Tree!Create
    <3>3. key \in Visible' \ Visible
      BY <2>3, <2>5
    <3> QED
      BY <3>2, <3>3 DEF Tree!Next
  <2> QED
    BY <2>4, <2>5
<1> QED
  BY <1>1, <1>2

LEMMA NextRefinesTree ==
  ASSUME IsFiniteSet(Clients), TypeOK, AllWellFormed, AllTended, TreeInv, TypeOK', [Next]_vars
  PROVE  [Tree!Next]_Visible
<1>1. CASE UNCHANGED vars
  BY <1>1 DEF vars, Visible, Alone, OverPostgres
<1>2. ASSUME NEW c \in Clients, Reads(c) \/ Writes(c) \/ Deletes(c) \/ Fails(c) PROVE [Tree!Next]_Visible
  <2>1. CASE Current(c).op \in {"set", "setSame"}
    BY <1>2, <2>1, Putting
  <2>2. CASE Current(c).op \notin {"set", "setSame"}
    BY <1>2, <2>2, CallEffect, Removing
  <2> QED
    BY <2>1, <2>2
<1>3. CASE \/ Reset \/ Restart
           \/ \E c \in Clients : Respond(c) \/ \E r \in cast.requests : Begin(c, r)
  <2>1. cast' = cast
    BY <1>3 DEF Reset, Restart, Respond, Begin
  <2>2. CASE Alone
    BY <1>3, <2>1, <2>2, TurnTree, Removing
  <2>3. CASE ~Alone
    BY <2>1, <2>3 DEF Visible, Alone
  <2> QED
    BY <2>2, <2>3
<1> QED
  BY <1>1, <1>2, <1>3 DEF Next

(* For one client, over a map in memory or a file, the records are those   *)
(* of a tree: a child appears only under its parent, records appear one at *)
(* a time, and nothing goes without all that is below it.                  *)
THEOREM RecordsFormATree ==
  IsFiniteSet(Clients) /\ AllWellFormed /\ AllTended => (Spec => ImplementsResourceTree)
<1> SUFFICES ASSUME IsFiniteSet(Clients), AllWellFormed, AllTended PROVE Spec => ImplementsResourceTree
  OBVIOUS
<1>1. Init => TypeOK /\ ObjectInv /\ TreeInv
  BY InitType, InitObjects, InitTree
<1>2. (TypeOK /\ ObjectInv /\ TreeInv) /\ [Next]_vars => (TypeOK /\ ObjectInv /\ TreeInv)'
  BY NextType, NextObjects, NextTree
<1>3. Init => Tree!Init
  BY DEF Init, Tree!Init, Visible
<1>4. TypeOK /\ TreeInv /\ TypeOK' /\ [Next]_vars => [Tree!Next]_Visible
  BY NextRefinesTree
<1> QED
  BY <1>1, <1>2, <1>3, <1>4, PTL DEF Spec, ImplementsResourceTree, Tree!Spec

-----------------------------------------------------------------------------
(* Deployments, for requests one after the other.                         *)

(* No call is left out on the way to call i: none skips past it.           *)
Leads(r, i) == \A j \in 1..(i - 1) : j + r.calls[j].skip < i

IsDeployment(r) == r.target.kind = "deployment" /\ r.method = "PUT"
FailsHere(call) == call.op = "notRouted" /\ call.skip = 0

(* A deployment puts its parts, or has one the router does not know; then, *)
(* whether or not it has failed, it is recorded.                           *)
Recorded(r) ==
    LET n == Len(r.calls) IN
    /\ n \in DOMAIN r.calls /\ r.calls[n].op = "set" /\ r.calls[n].key = r.target
    /\ Leads(r, n) /\ r.cleanup <= n
    /\ \A i \in DOMAIN r.calls : r.calls[i].op \notin {"delete", "drop", "deleteByPrefix"}
    /\ \A p \in r.parts : \E i \in 1..(n - 1) :
          /\ Leads(r, i)
          /\ (r.calls[i].op = "set" /\ r.calls[i].key = p) \/ FailsHere(r.calls[i])
AllRecorded ==
    \A k \in Casts : k.atOnce = 1 =>
        k.resets = 0 /\ \A r \in k.requests : IsDeployment(r) => Recorded(r)

(* What a deployment that runs has done so far.                            *)
Progress(c) ==
    LET r == request[c] IN
    /\ status[c] = "failed" => r.cleanup <= pc[c]
    /\ status[c] = "ok" =>
          \A i \in DOMAIN r.calls : i < pc[c] /\ Leads(r, i) =>
              /\ r.calls[i].op = "set" => r.calls[i].key \in DOMAIN store
              /\ ~FailsHere(r.calls[i])
    /\ Finished(c) => r.target \in DOMAIN store /\ (store[r.target].ok => status[c] = "ok")
OutcomeInv ==
    Alone => /\ OneAtATime
             /\ \A c \in Clients : IF Running(c) THEN IsDeployment(request[c]) => Progress(c)
                                                ELSE status[c] = "ok"

LEMMA RecordedRequest ==
  ASSUME TypeOK, AllRecorded, Alone, NEW c \in Clients, Running(c), IsDeployment(request[c])
  PROVE  Recorded(request[c])
<1>1. request[c] \in cast.requests /\ cast \in Casts
  BY DEF TypeOK, Running
<1> QED
  BY <1>1 DEF AllRecorded, Alone

LEMMA NotRoutedFails ==
  ASSUME NEW c \in Clients, Reads(c) \/ Writes(c) \/ Deletes(c) \/ Fails(c), Current(c).op = "notRouted"
  PROVE  GiveUp(c)
BY DEF Reads, Writes, Deletes, Fails, DoGet, DoLook, DoAbsent, DoUnlessFound, DoListByPrefix, DoTyped, DoListTyped,
       DoSet, DoSetSame, DoAssign, DoEncode, DoAddress, DoDelete, DoDrop, DoDeleteByPrefix, DoMayFail, DoNotRouted,
       At, Current

(* Where the call leads: to the next, past those it skips, or to cleanup.  *)
LEMMA WhereTo ==
  ASSUME TypeOK, AllWellFormed, NEW c \in Clients, Running(c), ~Finished(c), Continue(c) \/ GiveUp(c)
  PROVE  \/ pc'[c] = pc[c] + 1 /\ status'[c] = status[c] /\ Continue(c)
         \/ /\ pc'[c] = pc[c] + 1 + Current(c).skip /\ status'[c] = status[c]
            /\ Current(c).skip \in Nat /\ Current(c).skip > 0
         \/ pc'[c] = request[c].cleanup /\ status'[c] = "failed"
<1>1. Current(c).skip \in Nat
  BY CurrentCall DEF WellFormed, Current
<1> QED
  BY <1>1 DEF Continue, GiveUp, TypeOK

(* The call a deployment is about to make is behind it after the step only *)
(* if it was made.                                                         *)
LEMMA NoneLeftOut ==
  ASSUME NEW r, WellFormed(r), NEW p \in DOMAIN r.calls, NEW q,
         \/ q = p + 1
         \/ q = p + 1 + r.calls[p].skip,
         NEW i \in DOMAIN r.calls, Leads(r, i), i < q
  PROVE  i < p \/ i = p
<1>1. i \in Nat /\ p \in Nat /\ p >= 1 /\ r.calls[p].skip \in Nat
  BY DEF WellFormed
<1>2. p < i => p + r.calls[p].skip < i
  BY <1>1 DEF Leads
<1> QED
  BY <1>1, <1>2

LEMMA SetRecordsOutcome ==
  ASSUME TypeOK, NEW c \in Clients, Reads(c) \/ Writes(c) \/ Deletes(c) \/ Fails(c),
         Current(c).op = "set", Target(c).kind = "deployment"
  PROVE  /\ Target(c) \in DOMAIN store' /\ status' = status
         /\ store'[Target(c)].ok => status[c] = "ok"
<1>1. DoSet(c)
  BY DEF Reads, Writes, Deletes, Fails, DoGet, DoLook, DoAbsent, DoUnlessFound, DoListByPrefix, DoTyped, DoListTyped,
         DoSetSame, DoAssign, DoEncode, DoAddress, DoDelete, DoDrop, DoDeleteByPrefix, DoMayFail, DoNotRouted,
         At, Current
<1>2. Target(c).kind \notin KindsWithList /\ Target(c).kind # "publicip"
  BY DEF KindsWithList
<1>3. PICK record : store' = With(Target(c), record) /\ record.ok = (status[c] = "ok")
  <2> DEFINE record == [Plain EXCEPT
                        !.address = IF Target(c).kind = "publicip" THEN held[c].address ELSE @,
                        !.ok = Target(c).kind = "deployment" => status[c] = "ok",
                        !.decoded = OverPostgres /\ Target(c).kind \in AssertedKinds]
  <2>1. store' = With(Target(c), record)
    BY <1>1, <1>2 DEF DoSet, Becomes
  <2>2. record.ok = (status[c] = "ok")
    BY DEF Plain
  <2> HIDE DEF record
  <2> QED
    BY <2>1, <2>2
<1>4. Target(c) \in DOMAIN store' /\ store'[Target(c)] = record
  BY <1>3 DEF With
<1> QED
  BY <1>1, <1>3, <1>4 DEF DoSet, Continue

LEMMA CallProgress ==
  ASSUME TypeOK, AllWellFormed, AllRecorded, OutcomeInv, Alone, NEW c \in Clients,
         Reads(c) \/ Writes(c) \/ Deletes(c) \/ Fails(c), IsDeployment(request[c])
  PROVE  Progress(c)'
<1> DEFINE r == request[c]
           p == pc[c]
           q == pc'[c]
           n == Len(r.calls)
<1>e. Running(c) /\ ~Finished(c) /\ (Continue(c) \/ GiveUp(c)) /\ request' = request
  BY CallEffect
<1>w. /\ WellFormed(r) /\ p \in DOMAIN r.calls /\ p \in Nat /\ n \in Nat /\ DOMAIN r.calls = 1..n
      /\ Recorded(r) /\ Current(c) = r.calls[p] /\ Progress(c)
  BY <1>e, CurrentCall, RecordedRequest DEF WellFormed, Current, OutcomeInv
<1>1. \/ q = p + 1 /\ status'[c] = status[c] /\ Continue(c)
      \/ /\ q = p + 1 + r.calls[p].skip /\ status'[c] = status[c]
         /\ r.calls[p].skip \in Nat /\ r.calls[p].skip > 0
      \/ q = r.cleanup /\ status'[c] = "failed"
  BY <1>e, <1>w, WhereTo
<1>k. r.cleanup \in Nat
  BY <1>w DEF WellFormed
<1>d. /\ r.calls[p].op \notin {"delete", "drop", "deleteByPrefix"}
      /\ DOMAIN store \subseteq DOMAIN store'
      /\ r.calls[p].op = "set" => r.calls[p].key \in DOMAIN store' /\ Continue(c)
      /\ r.calls[p].op = "notRouted" => GiveUp(c)
  BY <1>w, CallEffect, NotRoutedFails DEF Recorded
<1> HIDE DEF r, p, q, n
<1>p. status[c] = "failed" => r.cleanup <= p
  BY <1>w DEF Progress, r, p
<1>2. status'[c] = "failed" => r.cleanup <= q
  BY <1>w, <1>1, <1>k, <1>p
<1>3. ASSUME status'[c] = "ok", NEW i \in DOMAIN r.calls, i < q, Leads(r, i)
      PROVE  /\ r.calls[i].op = "set" => r.calls[i].key \in DOMAIN store'
             /\ ~FailsHere(r.calls[i])
  <2>1. status[c] = "ok" /\ (i < p \/ i = p)
    BY <1>w, <1>1, <1>3, NoneLeftOut
  <2>2. CASE i < p
    BY <1>w, <1>d, <1>3, <2>1, <2>2 DEF Progress, r, p
  <2>3. CASE i = p
    <3>1. GiveUp(c) /\ Current(c).skip = 0 => status'[c] = "failed"
      BY <1>e DEF GiveUp, TypeOK
    <3> QED
      BY <1>w, <1>d, <1>3, <2>3, <3>1 DEF FailsHere
  <2> QED
    BY <2>1, <2>2, <2>3
<1>4. ASSUME q > n
      PROVE  r.target \in DOMAIN store' /\ (store'[r.target].ok => status'[c] = "ok")
  <2>1. p = n
    <3>1. p < n => p + r.calls[p].skip < n
      BY <1>w DEF Recorded, Leads, n
    <3>2. r.cleanup <= n
      BY <1>w DEF Recorded, n
    <3>3. ~(p < n)
      BY <1>w, <1>1, <1>4, <1>k, <3>1, <3>2
    <3> QED
      BY <1>w, <3>3
  <2>2. Current(c).op = "set" /\ Target(c) = r.target /\ Target(c).kind = "deployment"
    BY <1>w, <2>1 DEF Recorded, Target, IsDeployment, n, r
  <2> QED
    BY <2>2, SetRecordsOutcome
<1> QED
  BY <1>e, <1>2, <1>3, <1>4 DEF Progress, Finished, Running, r, q, n

LEMMA CallOutcome ==
  ASSUME TypeOK, AllWellFormed, AllRecorded, OutcomeInv, NEW c \in Clients,
         Reads(c) \/ Writes(c) \/ Deletes(c) \/ Fails(c)
  PROVE  OutcomeInv'
<1>e. Running(c) /\ request' = request /\ cast' = cast /\ (Continue(c) \/ GiveUp(c))
  BY CallEffect
<1> SUFFICES ASSUME Alone
             PROVE  /\ OneAtATime'
                    /\ \A d \in Clients : IF Running(d)' THEN IsDeployment(request'[d]) => Progress(d)'
                                                         ELSE status'[d] = "ok"
  BY <1>e DEF OutcomeInv, Alone
<1>1. OneAtATime'
  BY <1>e DEF OutcomeInv, OneAtATime, Running
<1>2. ASSUME NEW d \in Clients, d # c PROVE ~Running(d)' /\ status'[d] = "ok"
  <2>1. ~Running(d) /\ ~Running(d)' /\ status[d] = "ok"
    BY <1>e, <1>2 DEF OutcomeInv, OneAtATime, Running
  <2>2. status'[d] = status[d]
    BY <1>e, <1>2 DEF Continue, GiveUp, TypeOK
  <2> QED
    BY <2>1, <2>2
<1>3. Running(c)' /\ (IsDeployment(request'[c]) => Progress(c)')
  BY <1>e, CallProgress DEF Running
<1> QED
  BY <1>1, <1>2, <1>3

LEMMA TurnOutcome ==
  ASSUME IsFiniteSet(Clients), TypeOK, AllWellFormed, AllRecorded, OutcomeInv,
         \/ Reset \/ Restart
         \/ \E c \in Clients : Respond(c) \/ \E r \in cast.requests : Begin(c, r)
  PROVE  OutcomeInv'
<1>e. cast' = cast
  BY DEF Reset, Restart, Respond, Begin
<1> SUFFICES ASSUME Alone
             PROVE  /\ OneAtATime'
                    /\ \A d \in Clients : IF Running(d)' THEN IsDeployment(request'[d]) => Progress(d)'
                                                         ELSE status'[d] = "ok"
  BY <1>e DEF OutcomeInv, Alone
<1>1. ASSUME NEW c \in Clients, NEW r \in cast.requests, Begin(c, r)
      PROVE  /\ OneAtATime'
             /\ \A d \in Clients : IF Running(d)' THEN IsDeployment(request'[d]) => Progress(d)'
                                                  ELSE status'[d] = "ok"
  <2>1. \A d \in Clients : ~Running(d) /\ status[d] = "ok"
    BY <1>1, OnlyOneBegins DEF OutcomeInv
  <2>2. status' = status /\ pc' = pc /\ pc[c] = 1 /\ request'[c] = r /\ \A d \in Clients : d # c => ~Running(d)'
    BY <1>1, <2>1, IdleAtStart DEF Begin, Running, TypeOK
  <2>3. WellFormed(r) /\ r \in cast.requests /\ cast \in Casts
    BY <1>1 DEF AllWellFormed, Requests, TypeOK
  <2>4. ASSUME IsDeployment(r) PROVE Progress(c)'
    <3>1. Recorded(r)
      BY <2>3, <2>4 DEF AllRecorded, Alone
    <3>2. ~Finished(c)'
      <4>1. Len(r.calls) \in Nat /\ Len(r.calls) \in DOMAIN r.calls /\ DOMAIN r.calls = 1..Len(r.calls)
        BY <2>3, <3>1 DEF WellFormed, Recorded
      <4> QED
        BY <2>2, <4>1 DEF Finished
    <3>3. \A i \in DOMAIN r.calls : ~(i < 1)
      BY <2>3 DEF WellFormed
    <3>4. status'[c] = "ok"
      BY <2>1, <2>2
    <3> QED
      BY <2>2, <3>2, <3>3, <3>4 DEF Progress
  <2>5. OneAtATime'
    BY <2>2 DEF OneAtATime
  <2> QED
    BY <2>1, <2>2, <2>4, <2>5
<1>2. ASSUME NEW c \in Clients, Respond(c)
      PROVE  /\ OneAtATime'
             /\ \A d \in Clients : IF Running(d)' THEN IsDeployment(request'[d]) => Progress(d)'
                                                  ELSE status'[d] = "ok"
  <2>1. Running(c) /\ ~Running(c)' /\ status'[c] = "ok"
    BY <1>2 DEF Respond, Finished, Running, TypeOK
  <2>2. ASSUME NEW d \in Clients, d # c PROVE ~Running(d)' /\ status'[d] = "ok"
    BY <1>2, <2>1, <2>2 DEF Respond, Running, OutcomeInv, OneAtATime, TypeOK
  <2>3. \A d \in Clients : ~Running(d)' /\ status'[d] = "ok"
    BY <2>1, <2>2
  <2> QED
    BY <2>3 DEF OneAtATime
<1>3. ASSUME Restart
      PROVE  /\ OneAtATime'
             /\ \A d \in Clients : IF Running(d)' THEN IsDeployment(request'[d]) => Progress(d)'
                                                  ELSE status'[d] = "ok"
  <2>1. \A d \in Clients : ~Running(d)' /\ status'[d] = "ok"
    BY <1>3 DEF Restart, Running, OutcomeInv
  <2> QED
    BY <2>1 DEF OneAtATime
<1>4. ~Reset
  <2>1. cast.resets = 0
    BY DEF AllRecorded, TypeOK, Alone
  <2> QED
    BY <2>1 DEF Reset, TypeOK
<1> QED
  BY <1>1, <1>2, <1>3, <1>4

LEMMA NextOutcome ==
  ASSUME IsFiniteSet(Clients), TypeOK, AllWellFormed, AllRecorded, OutcomeInv, [Next]_vars
  PROVE  OutcomeInv'
<1>1. CASE UNCHANGED vars
  BY <1>1 DEF vars, OutcomeInv, Alone, OneAtATime, Running, Progress, Finished
<1>2. ASSUME NEW c \in Clients, Reads(c) \/ Writes(c) \/ Deletes(c) \/ Fails(c) PROVE OutcomeInv'
  BY <1>2, CallOutcome
<1>3. CASE \/ Reset \/ Restart
           \/ \E c \in Clients : Respond(c) \/ \E r \in cast.requests : Begin(c, r)
  BY <1>3, TurnOutcome
<1> QED
  BY <1>1, <1>2, <1>3 DEF Next

LEMMA InitOutcome == Init => OutcomeInv
<1> SUFFICES ASSUME Init PROVE OutcomeInv
  OBVIOUS
<1>1. \A c \in Clients : ~Running(c) /\ status[c] = "ok"
  BY DEF Init, Running
<1> QED
  BY <1>1 DEF OutcomeInv, OneAtATime

(* A record that says the deployment has succeeded is one of which every   *)
(* part was put.                                                           *)
LEMMA OutcomeHolds ==
  ASSUME TypeOK, AllWellFormed, AllRecorded, OutcomeInv
  PROVE  DeploymentRecordsItsOutcome
<1> SUFFICES ASSUME NEW c \in Clients, Alone, Finished(c), IsDeployment(request[c])
             PROVE  /\ request[c].target \in DOMAIN store
                    /\ store[request[c].target].ok => request[c].parts \subseteq DOMAIN store
  BY DEF DeploymentRecordsItsOutcome, IsDeployment
<1>1. Running(c) /\ Recorded(request[c]) /\ Progress(c)
  BY RecordedRequest DEF Finished, OutcomeInv
<1>2. WellFormed(request[c]) /\ pc[c] \in Nat
  BY <1>1 DEF AllWellFormed, TypeOK, Running, Requests
<1>3. ASSUME store[request[c].target].ok, NEW p \in request[c].parts
      PROVE  p \in DOMAIN store
  <2>1. PICK i \in 1..(Len(request[c].calls) - 1) :
          /\ Leads(request[c], i)
          /\ (request[c].calls[i].op = "set" /\ request[c].calls[i].key = p) \/ FailsHere(request[c].calls[i])
    BY <1>1 DEF Recorded
  <2>2. i \in DOMAIN request[c].calls /\ i < pc[c]
    BY <1>2, <2>1 DEF WellFormed, Finished
  <2>3. status[c] = "ok"
    BY <1>1, <1>3 DEF Progress
  <2> QED
    BY <1>1, <2>1, <2>2, <2>3 DEF Progress
<1> QED
  BY <1>1, <1>3 DEF Progress

(* A deployment recorded as succeeded has put every resource of its        *)
(* template, and one that has failed is recorded as such, for any template *)
(* whose calls are those of resources put one after the other              *)
(* (CreateOrUpdateDeployment goes on to Store.Set after the first resource *)
(* that fails).                                                            *)
THEOREM DeploymentsAreRecorded ==
  IsFiniteSet(Clients) /\ AllWellFormed /\ AllRecorded => (Spec => []DeploymentRecordsItsOutcome)
<1> SUFFICES ASSUME IsFiniteSet(Clients), AllWellFormed, AllRecorded
             PROVE  Spec => []DeploymentRecordsItsOutcome
  OBVIOUS
<1>1. Init => TypeOK /\ ObjectInv /\ OutcomeInv
  BY InitType, InitObjects, InitOutcome
<1>2. (TypeOK /\ ObjectInv /\ OutcomeInv) /\ [Next]_vars => (TypeOK /\ ObjectInv /\ OutcomeInv)'
  BY NextType, NextObjects, NextOutcome
<1>3. TypeOK /\ OutcomeInv => DeploymentRecordsItsOutcome
  BY OutcomeHolds
<1> QED
  BY <1>1, <1>2, <1>3, PTL DEF Spec

-----------------------------------------------------------------------------
(* What a GET answers, for requests one after the other.                   *)

(* The keys a GET is about, as Children has them.                          *)
IsChild(k, r) == Below(k, r.target) /\ (r.target \in Parents(k) \/ k.kind = r.target.kind)
ListsChildren(r, prefix) ==
    \A k \in Keys : /\ HasPrefix(k, prefix) <=> IsChild(k, r)
                    /\ Like(k, prefix) => LikeNames(k, r.target)

(* The list is got by call l, assigned to the record and encoded with it;  *)
(* or it is what the last call lists; or there is none.                    *)
Relists(r, l) ==
    /\ l \in DOMAIN r.calls /\ Len(r.calls) = l + 2 /\ Leads(r, l)
    /\ r.calls[l].op = "listByPrefix" /\ ListsChildren(r, r.calls[l].key)
    /\ r.calls[l + 1].op = "assign" /\ r.calls[l + 2].op = "encode"
ListsTyped(r) ==
    LET n == Len(r.calls) IN
    /\ n \in DOMAIN r.calls /\ Leads(r, n)
    /\ r.calls[n].op = "listTyped" /\ ListsChildren(r, r.calls[n].key)
    /\ r.calls[n].key.kind \in AssertedKinds
ListsNothing(r) ==
    /\ \A i \in DOMAIN r.calls : r.calls[i].op \notin {"listByPrefix", "listTyped", "assign", "encode", "set"}
    /\ \A k \in Keys : ~IsChild(k, r)

ReadsOnly(r) ==
    \A i \in DOMAIN r.calls : r.calls[i].op \notin {"set", "setSame", "delete", "drop", "deleteByPrefix"}
Answers(r) == ReadsOnly(r) /\ ((\E l : Relists(r, l)) \/ ListsTyped(r) \/ ListsNothing(r))
AllAnswer ==
    \A k \in Casts : k.atOnce = 1 =>
        k.resets = 0 /\ \A r \in k.requests : r.method = "GET" => Answers(r)

(* What a GET that runs has seen, and listed.                              *)
Lists(c) ==
    LET r == request[c] IN
    /\ \A l : Relists(r, l) =>
          LET there == Matching(DOMAIN store, r.calls[l].key) IN
          /\ pc[c] = l + 1 => listed[c] = there
          /\ pc[c] = l + 2 => heap[held[c].object] = there
          /\ pc[c] = l + 3 => listed[c] = there
    /\ ListsTyped(r) /\ Finished(c) =>
          listed[c] = {k \in Matching(DOMAIN store, r.calls[Len(r.calls)].key) : IsStruct(k)}
    /\ ListsNothing(r) => listed[c] = {}
Sees(c) ==
    LET below == {k \in DOMAIN store : Below(k, request[c].target)}
    IN window[c].throughout = below /\ window[c].sometime = below
AnswerInv ==
    Alone => /\ OneAtATime
             /\ \A c \in Clients :
                   IF Running(c)
                   THEN request[c].method = "GET" => Sees(c) /\ (status[c] = "ok" => Lists(c))
                   ELSE listed[c] = {}

LEMMA AnsweringRequest ==
  ASSUME TypeOK, AllAnswer, Alone, NEW c \in Clients, Running(c), request[c].method = "GET"
  PROVE  Answers(request[c])
<1>1. request[c] \in cast.requests /\ cast \in Casts
  BY DEF TypeOK, Running
<1> QED
  BY <1>1 DEF AllAnswer, Alone

(* What the calls of a GET do to its list.                                 *)
LEMMA ListEffect ==
  ASSUME TypeOK, NEW c \in Clients, Reads(c) \/ Writes(c) \/ Deletes(c) \/ Fails(c),
         Current(c).op \notin {"set", "setSame", "delete", "drop", "deleteByPrefix"}
  PROVE  /\ store' = store /\ window' = window
         /\ Current(c).op \in {"listByPrefix", "listTyped", "assign", "encode"} => Continue(c)
         /\ Current(c).op \notin {"listByPrefix", "listTyped", "assign", "encode"} => listed' = listed
         /\ Current(c).op = "listByPrefix" => listed'[c] = Matching(DOMAIN store, Target(c))
         /\ Current(c).op = "listTyped" =>
               listed'[c] = {k \in Matching(DOMAIN store, Target(c)) : IsStruct(k)}
         /\ Current(c).op = "assign" /\ held[c].object \in Objects =>
               held' = held /\ heap'[held[c].object] = listed[c]
         /\ Current(c).op = "encode" => listed'[c] = heap[held[c].object]
<1>t. listed \in [Clients -> SUBSET Keys] /\ heap \in [Objects -> SUBSET Keys]
  BY DEF TypeOK
<1>1. CASE DoGet(c) \/ DoLook(c) \/ DoAbsent(c) \/ DoUnlessFound(c) \/ DoTyped(c) \/ Fails(c) \/ DoAddress(c)
  BY <1>1 DEF DoGet, DoLook, DoAbsent, DoUnlessFound, DoTyped, Fails, DoMayFail, DoNotRouted, DoAddress, At, Current
<1>2. CASE DoListByPrefix(c)
  BY <1>2, <1>t DEF DoListByPrefix, At, Current
<1>3. CASE DoListTyped(c)
  BY <1>3, <1>t DEF DoListTyped, At, Current
<1>4. CASE DoAssign(c)
  BY <1>4, <1>t DEF DoAssign, At, Current
<1>5. CASE DoEncode(c)
  BY <1>5, <1>t DEF DoEncode, At, Current
<1>6. CASE DoSet(c) \/ DoSetSame(c) \/ Deletes(c)
  BY <1>6 DEF DoSet, DoSetSame, Deletes, DoDelete, DoDrop, DoDeleteByPrefix, At, Current
<1> QED
  BY <1>1, <1>2, <1>3, <1>4, <1>5, <1>6 DEF Reads, Writes

(* One of the last calls of a request is reached only from the one before. *)
LEMMA OneByOne ==
  ASSUME NEW r, WellFormed(r), NEW l, l \in DOMAIN r.calls, Leads(r, l),
         NEW p \in DOMAIN r.calls, NEW q, q = p + 1 \/ q = p + 1 + r.calls[p].skip, l < q
  PROVE  l <= p /\ p < q /\ l \in Nat /\ p \in Nat /\ q \in Nat
<1>1. l < p \/ l = p
  BY NoneLeftOut
<1>2. l \in Nat /\ p \in Nat /\ r.calls[p].skip \in Nat
  BY DEF WellFormed
<1> QED
  BY <1>1, <1>2

LEMMA CallLists ==
  ASSUME TypeOK, AllWellFormed, ObjectInv, AllAnswer, AnswerInv, Alone, NEW c \in Clients,
         Reads(c) \/ Writes(c) \/ Deletes(c) \/ Fails(c), request[c].method = "GET"
  PROVE  Sees(c)' /\ (status'[c] = "ok" => Lists(c)')
<1> DEFINE r == request[c]
           p == pc[c]
           q == pc'[c]
<1>e. Running(c) /\ ~Finished(c) /\ (Continue(c) \/ GiveUp(c)) /\ request' = request /\ cast' = cast
  BY CallEffect
<1>w. /\ WellFormed(r) /\ p \in DOMAIN r.calls /\ p \in Nat /\ Current(c) = r.calls[p] /\ Answers(r)
      /\ Sees(c) /\ (status[c] = "ok" => Lists(c))
  BY <1>e, CurrentCall, AnsweringRequest DEF Current, AnswerInv
<1>o. Current(c).op \notin {"set", "setSame", "delete", "drop", "deleteByPrefix"}
  BY <1>w DEF Answers, ReadsOnly
<1>s. store' = store /\ window' = window
  BY <1>o, ListEffect
<1>1. \/ q = p + 1 /\ status'[c] = status[c] /\ Continue(c)
      \/ /\ q = p + 1 + r.calls[p].skip /\ status'[c] = status[c]
         /\ r.calls[p].skip \in Nat /\ r.calls[p].skip > 0
      \/ q = r.cleanup /\ status'[c] = "failed"
  BY <1>e, <1>w, WhereTo
<1> HIDE DEF r, p, q
<1>2. Sees(c)'
  BY <1>w, <1>e, <1>s DEF Sees, r
<1>3. ASSUME status'[c] = "ok" PROVE Lists(c)'
  <2>1. Lists(c) /\ (q = p + 1 \/ q = p + 1 + r.calls[p].skip)
    BY <1>w, <1>1, <1>3
  <2>c. Continue(c) => q = p + 1
    BY DEF Continue, TypeOK, p, q
  <2>2. ASSUME NEW l, Relists(r, l)
        PROVE  LET there == Matching(DOMAIN store, r.calls[l].key) IN
               /\ q = l + 1 => listed'[c] = there
               /\ q = l + 2 => heap'[held'[c].object] = there
               /\ q = l + 3 => listed'[c] = there
    <3> DEFINE there == Matching(DOMAIN store, r.calls[l].key)
    <3>1. /\ p = l + 1 => listed[c] = there
          /\ p = l + 2 => heap[held[c].object] = there
      BY <2>1, <2>2 DEF Lists, r, p
    <3>2. l < q => l <= p /\ p < q /\ l \in Nat /\ p \in Nat /\ q \in Nat
      BY <1>w, <2>1, <2>2, OneByOne DEF Relists
    <3>3. l \in Nat
      BY <1>w, <2>2 DEF Relists, WellFormed
    <3>4. /\ r.calls[l].op = "listByPrefix" /\ r.calls[l + 1].op = "assign" /\ r.calls[l + 2].op = "encode"
      BY <2>2 DEF Relists
    <3>5. /\ p = l => q = l + 1 /\ listed'[c] = there
          /\ p = l + 1 => q = l + 2
          /\ p = l + 2 => q = l + 3 /\ listed'[c] = heap[held[c].object]
      <4>1. ASSUME p = l PROVE q = l + 1 /\ listed'[c] = there
        BY <1>w, <1>o, <2>c, <3>4, <4>1, ListEffect DEF Target
      <4>2. ASSUME p = l + 1 PROVE q = l + 2
        <5>1. q = p + 1
          BY <1>w, <1>o, <2>c, <3>4, <4>2, ListEffect
        <5> QED
          BY <5>1, <4>2, <3>3
      <4>3. ASSUME p = l + 2 PROVE q = l + 3 /\ listed'[c] = heap[held[c].object]
        <5>1. q = p + 1 /\ listed'[c] = heap[held[c].object]
          BY <1>w, <1>o, <2>c, <3>4, <4>3, ListEffect
        <5> QED
          BY <5>1, <4>3, <3>3
      <4> QED
        BY <4>1, <4>2, <4>3
    <3>6. p = l + 1 => heap'[held'[c].object] = listed[c]
      <4>1. p = l + 1 => UsesList(Current(c))
        BY <1>w, <3>4 DEF UsesList
      <4>2. p = l + 1 => held[c].object \in Objects
        BY <1>e, <4>1, HeldObject
      <4> QED
        BY <1>w, <1>o, <3>4, <4>2, ListEffect
    <3> HIDE DEF there
    <3>7. /\ q = l + 1 => p = l
          /\ q = l + 2 => p = l + 1
          /\ q = l + 3 => p = l + 2
      BY <3>2, <3>3, <3>5
    <3> QED
      BY <3>1, <3>5, <3>6, <3>7 DEF there
  <2>3. ASSUME ListsTyped(r), q > Len(r.calls)
        PROVE  listed'[c] = {k \in Matching(DOMAIN store, r.calls[Len(r.calls)].key) : IsStruct(k)}
    <3> DEFINE n == Len(r.calls)
    <3>1. n \in DOMAIN r.calls /\ Leads(r, n) /\ r.calls[n].op = "listTyped"
      BY <2>3 DEF ListsTyped
    <3>2. n \in Nat /\ p \in 1..n /\ n < q
      BY <1>w, <2>3 DEF WellFormed
    <3> HIDE DEF n
    <3>3. n <= p
      BY <1>w, <2>1, <3>1, <3>2, OneByOne
    <3>4. p = n
      BY <3>2, <3>3
    <3> QED
      BY <1>w, <1>o, <3>1, <3>4, ListEffect DEF Target, n
  <2>4. ASSUME ListsNothing(r) PROVE listed'[c] = {}
    <3>1. Current(c).op \notin {"listByPrefix", "listTyped", "assign", "encode"} /\ listed[c] = {}
      BY <1>w, <2>1, <2>4 DEF ListsNothing, Lists, r
    <3> QED
      BY <1>o, <3>1, ListEffect
  <2>5. \A k : Matching(DOMAIN store, k)' = Matching(DOMAIN store, k)
    BY <1>e, <1>s DEF Matching, OverPostgres
  <2>6. request'[c] = r /\ store' = store /\ (Finished(c)' => q > Len(r.calls))
    BY <1>e, <1>s DEF Finished, r, q
  <2> QED
    BY <2>2, <2>3, <2>4, <2>5, <2>6 DEF Lists, IsStruct, q
<1> QED
  BY <1>2, <1>3

Attends(c) ==
    IF Running(c)
    THEN request[c].method = "GET" => Sees(c) /\ (status[c] = "ok" => Lists(c))
    ELSE listed[c] = {}

LEMMA CallAnswer ==
  ASSUME TypeOK, AllWellFormed, ObjectInv, AllAnswer, AnswerInv, NEW c \in Clients,
         Reads(c) \/ Writes(c) \/ Deletes(c) \/ Fails(c)
  PROVE  AnswerInv'
<1>e. Running(c) /\ request' = request /\ cast' = cast
  BY CallEffect
<1> SUFFICES ASSUME Alone PROVE OneAtATime' /\ \A d \in Clients : Attends(d)'
  BY <1>e DEF AnswerInv, Alone, Attends
<1>1. OneAtATime'
  BY <1>e DEF AnswerInv, OneAtATime, Running
<1>2. ASSUME NEW d \in Clients, d # c PROVE Attends(d)'
  <2>1. ~Running(d) /\ ~Running(d)' /\ listed[d] = {}
    BY <1>e, <1>2 DEF AnswerInv, OneAtATime, Running
  <2>2. listed'[d] = listed[d]
    BY <1>2 DEF Reads, Writes, Deletes, Fails, DoGet, DoLook, DoAbsent, DoUnlessFound, DoListByPrefix, DoTyped,
           DoListTyped, DoSet, DoSetSame, DoAssign, DoEncode, DoAddress, DoDelete, DoDrop, DoDeleteByPrefix,
           DoMayFail, DoNotRouted, TypeOK
  <2> QED
    BY <2>1, <2>2 DEF Attends
<1>3. Attends(c)'
  BY <1>e, CallLists DEF Running, Attends
<1> QED
  BY <1>1, <1>2, <1>3

LEMMA BeginAnswer ==
  ASSUME IsFiniteSet(Clients), TypeOK, AllWellFormed, AllAnswer, AnswerInv, Alone,
         NEW c \in Clients, NEW r \in cast.requests, Begin(c, r)
  PROVE  OneAtATime' /\ \A d \in Clients : Attends(d)'
<1>1. \A d \in Clients : ~Running(d) /\ listed[d] = {}
  BY OnlyOneBegins DEF AnswerInv
<1>2. /\ listed' = listed /\ store' = store /\ pc' = pc /\ pc[c] = 1 /\ request'[c] = r
      /\ \A d \in Clients : d # c => ~Running(d)'
      /\ window'[c] = [throughout |-> Seen(r, DOMAIN store), sometime |-> Seen(r, DOMAIN store)]
  BY <1>1, IdleAtStart DEF Begin, Running, TypeOK
<1>3. WellFormed(r)
  BY DEF AllWellFormed, Requests, TypeOK
<1>4. ASSUME r.method = "GET" PROVE Sees(c)'
  BY <1>2, <1>4 DEF Sees, Seen
<1>5. Lists(c)'
  <2>1. ASSUME NEW l, Relists(r, l) PROVE 1 # l + 1 /\ 1 # l + 2 /\ 1 # l + 3
    BY <1>3, <2>1 DEF Relists, WellFormed
  <2>2. ListsTyped(r) => ~Finished(c)'
    BY <1>2, <1>3 DEF ListsTyped, Finished, WellFormed
  <2>3. listed'[c] = {} /\ pc'[c] = 1
    BY <1>1, <1>2
  <2> QED
    BY <1>2, <2>1, <2>2, <2>3 DEF Lists
<1>6. \A d \in Clients : Attends(d)'
  BY <1>1, <1>2, <1>4, <1>5 DEF Attends
<1> QED
  BY <1>2, <1>6 DEF OneAtATime

LEMMA TurnAnswer ==
  ASSUME IsFiniteSet(Clients), TypeOK, AllWellFormed, AllAnswer, AnswerInv,
         \/ Reset \/ Restart
         \/ \E c \in Clients : Respond(c) \/ \E r \in cast.requests : Begin(c, r)
  PROVE  AnswerInv'
<1>e. cast' = cast
  BY DEF Reset, Restart, Respond, Begin
<1> SUFFICES ASSUME Alone PROVE OneAtATime' /\ \A d \in Clients : Attends(d)'
  BY <1>e DEF AnswerInv, Alone, Attends
<1>1. ASSUME NEW c \in Clients, NEW r \in cast.requests, Begin(c, r)
      PROVE  OneAtATime' /\ \A d \in Clients : Attends(d)'
  BY <1>1, BeginAnswer
<1>2. ASSUME NEW c \in Clients, Respond(c)
      PROVE  OneAtATime' /\ \A d \in Clients : Attends(d)'
  <2>1. Running(c) /\ ~Running(c)' /\ listed'[c] = {}
    BY <1>2 DEF Respond, Finished, Running, TypeOK
  <2>2. ASSUME NEW d \in Clients, d # c PROVE ~Running(d)' /\ listed'[d] = {}
    BY <1>2, <2>1, <2>2 DEF Respond, Running, AnswerInv, OneAtATime, TypeOK
  <2>3. \A d \in Clients : ~Running(d)' /\ listed'[d] = {}
    BY <2>1, <2>2
  <2> QED
    BY <2>3 DEF OneAtATime, Attends
<1>3. ASSUME Restart
      PROVE  OneAtATime' /\ \A d \in Clients : Attends(d)'
  <2>1. \A d \in Clients : ~Running(d)' /\ listed'[d] = {}
    BY <1>3 DEF Restart, Running, AnswerInv
  <2> QED
    BY <2>1 DEF OneAtATime, Attends
<1>4. ~Reset
  <2>1. cast.resets = 0
    BY DEF AllAnswer, TypeOK, Alone
  <2> QED
    BY <2>1 DEF Reset, TypeOK
<1> QED
  BY <1>1, <1>2, <1>3, <1>4

LEMMA NextAnswer ==
  ASSUME IsFiniteSet(Clients), TypeOK, AllWellFormed, ObjectInv, AllAnswer, AnswerInv, [Next]_vars
  PROVE  AnswerInv'
<1>1. CASE UNCHANGED vars
  <2>1. /\ UNCHANGED <<cast, store, heap, request, pc, status, held, listed, window>>
        /\ \A k : Matching(DOMAIN store, k)' = Matching(DOMAIN store, k)
    BY <1>1 DEF vars, Matching, OverPostgres
  <2>2. \A c \in Clients : Sees(c)' = Sees(c) /\ Lists(c)' = Lists(c) /\ Running(c)' = Running(c)
    BY <2>1 DEF Sees, Lists, IsStruct, Finished, Running
  <2> QED
    BY <2>1, <2>2 DEF AnswerInv, Alone, OneAtATime
<1>2. ASSUME NEW c \in Clients, Reads(c) \/ Writes(c) \/ Deletes(c) \/ Fails(c) PROVE AnswerInv'
  BY <1>2, CallAnswer
<1>3. CASE \/ Reset \/ Restart
           \/ \E c \in Clients : Respond(c) \/ \E r \in cast.requests : Begin(c, r)
  BY <1>3, TurnAnswer
<1> QED
  BY <1>1, <1>2, <1>3 DEF Next

LEMMA InitAnswer == Init => AnswerInv
<1> SUFFICES ASSUME Init PROVE AnswerInv
  OBVIOUS
<1>1. \A c \in Clients : ~Running(c) /\ listed[c] = {}
  BY DEF Init, Running
<1> QED
  BY <1>1 DEF AnswerInv, OneAtATime

(* A list of the children there are is the list of the children seen.      *)
LEMMA ListIsAnswer ==
  ASSUME TypeOK, NEW c \in Clients, Sees(c), NEW prefix, ListsChildren(request[c], prefix)
  PROVE  /\ \A k \in Children(window[c].throughout, request[c]) : k \in Matching(DOMAIN store, prefix)
         /\ \A k \in Matching(DOMAIN store, prefix) :
               k \in Children(window[c].sometime, request[c]) \/ LikeBelow(k, request[c].target)
<1>1. DOMAIN store \subseteq Keys
  BY DEF TypeOK
<1>2. ASSUME NEW k \in Children(window[c].throughout, request[c]) PROVE k \in Matching(DOMAIN store, prefix)
  <2>1. k \in DOMAIN store /\ IsChild(k, request[c])
    BY <1>2 DEF Children, Sees, IsChild
  <2> QED
    BY <1>1, <2>1 DEF ListsChildren, Matching
<1>3. ASSUME NEW k \in Matching(DOMAIN store, prefix)
      PROVE  k \in Children(window[c].sometime, request[c]) \/ LikeBelow(k, request[c].target)
  <2>1. k \in DOMAIN store /\ k \in Keys /\ (HasPrefix(k, prefix) \/ (OverPostgres /\ Like(k, prefix)))
    BY <1>1, <1>3 DEF Matching
  <2>2. CASE HasPrefix(k, prefix)
    BY <2>1, <2>2 DEF ListsChildren, IsChild, Sees, Children
  <2>3. CASE OverPostgres /\ Like(k, prefix)
    BY <2>1, <2>3 DEF ListsChildren, LikeNames, LikeBelow
  <2> QED
    BY <2>1, <2>2, <2>3
<1> QED
  BY <1>2, <1>3

LEMMA AnswerHolds ==
  ASSUME TypeOK, AllWellFormed, AllAnswer, AnswerInv
  PROVE  GetAnswersItsChildren
<1> SUFFICES ASSUME NEW c \in Clients, Alone, Finished(c), status[c] = "ok", request[c].method = "GET"
             PROVE  /\ \A k \in Children(window[c].throughout, request[c]) : k \in listed[c] \/ store[k].decoded
                    /\ \A k \in listed[c] : k \in Children(window[c].sometime, request[c])
                                            \/ LikeBelow(k, request[c].target)
  BY DEF GetAnswersItsChildren
<1>1. Running(c) /\ Answers(request[c]) /\ Sees(c) /\ Lists(c)
  BY AnsweringRequest DEF Finished, AnswerInv
<1>2. WellFormed(request[c]) /\ pc[c] \in Nat /\ pc[c] \in 1..(Len(request[c].calls) + 1)
  BY <1>1 DEF AllWellFormed, TypeOK, Running, Requests
<1>3. ASSUME NEW l, Relists(request[c], l)
      PROVE  /\ listed[c] = Matching(DOMAIN store, request[c].calls[l].key)
             /\ ListsChildren(request[c], request[c].calls[l].key)
  <2>1. pc[c] = l + 3
    <3>1. Len(request[c].calls) = l + 2 /\ l \in Nat
      BY <1>2, <1>3 DEF Relists, WellFormed
    <3> QED
      BY <1>2, <3>1 DEF Finished
  <2> QED
    BY <1>1, <1>3, <2>1 DEF Lists, Relists
<1>4. CASE \E l : Relists(request[c], l)
  BY <1>1, <1>3, <1>4, ListIsAnswer
<1>5. CASE ListsTyped(request[c])
  <2> DEFINE prefix == request[c].calls[Len(request[c].calls)].key
             there == Matching(DOMAIN store, prefix)
  <2>1. /\ ListsChildren(request[c], prefix) /\ listed[c] = {k \in there : IsStruct(k)}
        /\ prefix.kind \in AssertedKinds
    BY <1>1, <1>5 DEF ListsTyped, Lists
  <2>2. /\ \A k \in Children(window[c].throughout, request[c]) : k \in there
        /\ \A k \in there :
              k \in Children(window[c].sometime, request[c]) \/ LikeBelow(k, request[c].target)
    BY <1>1, <2>1, ListIsAnswer
  <2>3. \A k \in there : k.kind \in AssertedKinds
    BY <2>1 DEF Matching, HasPrefix, Like
  <2> HIDE DEF there, prefix
  <2> QED
    BY <2>1, <2>2, <2>3 DEF IsStruct
<1>6. CASE ListsNothing(request[c])
  <2>1. listed[c] = {}
    BY <1>1, <1>6 DEF Lists
  <2>2. DOMAIN store \subseteq Keys /\ \A k \in Keys : ~IsChild(k, request[c])
    BY <1>6 DEF TypeOK, ListsNothing
  <2>3. Children(window[c].throughout, request[c]) = {}
    BY <1>1, <2>2 DEF Sees, Children, IsChild
  <2> QED
    BY <2>1, <2>3
<1> QED
  BY <1>1, <1>4, <1>5, <1>6 DEF Answers

(* A GET answers one client with the children that are there and, but for  *)
(* LIKE, no others, for any requests that list what is below their record  *)
(* (GetVNet, GetNSG), of a kind that is stored as a struct if the list     *)
(* asserts one: then records that JSON has decoded are left out, and only  *)
(* those (ListSecrets, listContainersXML).                                 *)
THEOREM GetsAnswerTheirChildren ==
  IsFiniteSet(Clients) /\ AllWellFormed /\ AllAnswer => (Spec => []GetAnswersItsChildren)
<1> SUFFICES ASSUME IsFiniteSet(Clients), AllWellFormed, AllAnswer
             PROVE  Spec => []GetAnswersItsChildren
  OBVIOUS
<1>1. Init => TypeOK /\ ObjectInv /\ AnswerInv
  BY InitType, InitObjects, InitAnswer
<1>2. (TypeOK /\ ObjectInv /\ AnswerInv) /\ [Next]_vars => (TypeOK /\ ObjectInv /\ AnswerInv)'
  BY NextType, NextObjects, NextAnswer
<1>3. TypeOK /\ AnswerInv => GetAnswersItsChildren
  BY AnswerHolds
<1> QED
  BY <1>1, <1>2, <1>3, PTL DEF Spec

-----------------------------------------------------------------------------
(* The requests of the handlers are such.                                  *)

LEMMA OnlyDeletesPromise == ASSUME NEW r, r.method # "DELETE" PROVE Thorough(r)
BY DEF Thorough, Promised

LEMMA PutPlainSound ==
  ASSUME NEW kind, NEW path, Len(path) \in Nat
  PROVE  WellFormed(PutPlain(kind, path)) /\ WellAimed(PutPlain(kind, path))
BY DEF PutPlain, Request, Look, Set, Call, Key, WellFormed, WellAimed, UsesList

LEMMA DeletePlainSound ==
  ASSUME NEW kind, NEW path, Len(path) \in Nat
  PROVE  WellFormed(DeletePlain(kind, path)) /\ WellAimed(DeletePlain(kind, path))
BY DEF DeletePlain, Request, Delete, Call, Key, WellFormed, WellAimed, UsesList, Aimed

LEMMA PutBlindSound ==
  ASSUME NEW kind, NEW path, Len(path) \in Nat
  PROVE  WellFormed(PutBlind(kind, path)) /\ WellAimed(PutBlind(kind, path))
BY DEF PutBlind, Request, Set, Call, Key, WellFormed, WellAimed, UsesList

LEMMA PatchSound ==
  ASSUME NEW kind, NEW path, Len(path) \in Nat, kind \notin KindsWithList
  PROVE  WellFormed(Patch(kind, path)) /\ WellAimed(Patch(kind, path))
BY DEF Patch, Request, Get, SetSame, Call, Key, WellFormed, WellAimed, UsesList

(* A DELETE that sweeps the children of one kind, as those of VNets,       *)
(* security groups, zones and database servers.                            *)
Cascade(kind, child, g, n) == Request("DELETE", kind, <<g, n>>,
    <<Delete(kind, <<g, n>>), DeleteByPrefix(child, <<g, n, "">>)>>)

LEMMA KeysHavePaths == AllWellFormed => \A k \in Keys : Len(k.path) \in Nat
BY DEF AllWellFormed, WellFormed, Keys, Written, Requests

LEMMA Numbers ==
  /\ \A n \in Nat : n >= 3 <=> n > 2
  /\ \A n : n = 3 => \A i : i \in 1..(n - 1) <=> i = 1 \/ i = 2
OBVIOUS

LEMMA HasPrefixOfThree ==
  ASSUME NEW k, Len(k.path) \in Nat, NEW prefix,
         Len(prefix.path) = 3, prefix.path[3] = ""
  PROVE  HasPrefix(k, prefix) <=>
           /\ k.kind = prefix.kind /\ Len(k.path) > 2
           /\ k.path[1] = prefix.path[1] /\ k.path[2] = prefix.path[2]
<1>1. Begins(k.path[3], prefix.path[3])
  BY DEF Begins
<1> QED
  BY <1>1, Numbers DEF HasPrefix

LEMMA BelowTwo ==
  ASSUME NEW k, NEW key, Len(key.path) = 2, DOMAIN key.path = 1..2
  PROVE  Below(k, key) <=>
           Len(k.path) > 2 /\ k.path[1] = key.path[1] /\ k.path[2] = key.path[2]
<1>1. \A i : i \in DOMAIN key.path <=> i = 1 \/ i = 2
  OBVIOUS
<1> QED
  BY <1>1 DEF Below

LEMMA PrefixIsBelow ==
  ASSUME NEW k, Len(k.path) \in Nat, NEW kind, NEW child, NEW g, NEW n
  PROVE  /\ HasPrefix(k, Key(child, <<g, n, "">>)) => Below(k, Key(kind, <<g, n>>))
         /\ Below(k, Key(kind, <<g, n>>)) /\ k.kind = child => HasPrefix(k, Key(child, <<g, n, "">>))
<1> DEFINE prefix == Key(child, <<g, n, "">>)
<1>p. /\ prefix.kind = child /\ Len(prefix.path) = 3 /\ prefix.path[3] = ""
      /\ prefix.path[1] = g /\ prefix.path[2] = n
  BY DEF Key
<1> HIDE DEF prefix
<1>q. HasPrefix(k, prefix) <=> k.kind = child /\ Len(k.path) > 2 /\ k.path[1] = g /\ k.path[2] = n
  BY <1>p, HasPrefixOfThree
<1>1. HasPrefix(k, Key(child, <<g, n, "">>)) <=>
        k.kind = child /\ Len(k.path) > 2 /\ k.path[1] = g /\ k.path[2] = n
  BY <1>q DEF prefix
<1>2. Below(k, Key(kind, <<g, n>>)) <=> Len(k.path) > 2 /\ k.path[1] = g /\ k.path[2] = n
  BY BelowTwo DEF Key
<1> QED
  BY <1>1, <1>2

(* The same of LIKE.                                                       *)
LEMMA LikeIsLikeBelow ==
  ASSUME NEW k, Len(k.path) \in Nat, NEW kind, NEW child, NEW g, NEW n
  PROVE  Like(k, Key(child, <<g, n, "">>)) => LikeNames(k, Key(kind, <<g, n>>))
<1> DEFINE prefix == Key(child, <<g, n, "">>)
           key == Key(kind, <<g, n>>)
<1>1. /\ Len(prefix.path) = 3 /\ prefix.path[1] = g /\ prefix.path[2] = n
      /\ Len(key.path) = 2 /\ DOMAIN key.path = 1..2 /\ key.path[1] = g /\ key.path[2] = n
  BY DEF Key
<1>2. SUFFICES ASSUME Like(k, prefix) PROVE LikeNames(k, key)
  OBVIOUS
<1> HIDE DEF prefix, key
<1>3. Len(k.path) > 2 /\ LikeName(k.path[1], g) /\ LikeName(k.path[2], n)
  BY <1>1, <1>2, Numbers DEF Like
<1>4. \A i : i \in DOMAIN key.path <=> i = 1 \/ i = 2
  BY <1>1
<1> QED
  BY <1>1, <1>3, <1>4 DEF LikeNames

(* Calls that skip nothing and use no list.                                *)
PlainCall(call) == call.skip = 0 /\ Len(call.key.path) \in Nat /\ ~UsesList(call)

LEMMA PlainCallsSound ==
  ASSUME NEW method, NEW kind, NEW path, NEW calls,
         Len(calls) \in Nat, DOMAIN calls = 1..Len(calls),
         \A i \in DOMAIN calls : PlainCall(calls[i])
  PROVE  WellFormed(Request(method, kind, path, calls))
<1> DEFINE r == Request(method, kind, path, calls)
<1>1. r.calls = calls /\ r.cleanup = Len(calls) + 1
  BY DEF Request
<1> HIDE DEF r
<1> QED
  BY <1>1 DEF PlainCall, WellFormed, r

LEMMA PlainCalls ==
  ASSUME NEW kind, NEW path, Len(path) \in Nat
  PROVE  /\ PlainCall(Delete(kind, path)) /\ PlainCall(Drop(kind, path))
         /\ PlainCall(DeleteByPrefix(kind, path)) /\ PlainCall(ListByPrefix(kind, path))
         /\ PlainCall(Get(kind, path)) /\ PlainCall(Look(kind, path)) /\ PlainCall(Set(kind, path))
         /\ PlainCall(MayFail) /\ PlainCall(Address)
BY DEF PlainCall, UsesList, Delete, Drop, DeleteByPrefix, ListByPrefix, Get, Look, Set, MayFail, Address, Call, Key

LEMMA CascadeSound ==
  ASSUME NEW kind, NEW child, NEW g, NEW n
  PROVE  WellFormed(Cascade(kind, child, g, n))
<1>1. PlainCall(Delete(kind, <<g, n>>)) /\ PlainCall(DeleteByPrefix(child, <<g, n, "">>))
  BY PlainCalls
<1>2. ASSUME NEW a, NEW b, PlainCall(a), PlainCall(b)
      PROVE  WellFormed(Request("DELETE", kind, <<g, n>>, <<a, b>>))
  BY <1>2, PlainCallsSound
<1> QED
  BY <1>1, <1>2 DEF Cascade

IsPair(calls, a, b) == DOMAIN calls = 1..2 /\ calls[1] = a /\ calls[2] = b

LEMMA PairOfCalls == ASSUME NEW a, NEW b PROVE IsPair(<<a, b>>, a, b)
BY DEF IsPair

LEMMA UpToTwo ==
  /\ 2 \in 1..2 /\ 1 + 0 < 2
  /\ (\A i \in 1..2 : i = 1 \/ i = 2) /\ (\A j \in 1..(2 - 1) : j = 1)
OBVIOUS

(* A cascade deletes the record itself, then everything below it.          *)
CascadeShape(r, kind, child, g, n) ==
    /\ r.method = "DELETE" /\ r.target = Key(kind, <<g, n>>)
    /\ DOMAIN r.calls = 1..2
    /\ r.calls[1].op = "delete" /\ r.calls[1].key = r.target /\ r.calls[1].skip = 0
    /\ r.calls[2].op = "deleteByPrefix" /\ r.calls[2].key = Key(child, <<g, n, "">>)

LEMMA CascadeFields ==
  ASSUME NEW kind, NEW child, NEW g, NEW n
  PROVE  CascadeShape(Cascade(kind, child, g, n), kind, child, g, n)
<1> DEFINE a == Delete(kind, <<g, n>>)
           b == DeleteByPrefix(child, <<g, n, "">>)
           r == Cascade(kind, child, g, n)
<1>1. r.method = "DELETE" /\ r.target = Key(kind, <<g, n>>) /\ r.calls = <<a, b>>
  BY DEF Cascade, Request
<1>2. a.op = "delete" /\ a.key = Key(kind, <<g, n>>) /\ a.skip = 0
  BY DEF Delete, Call
<1>3. b.op = "deleteByPrefix" /\ b.key = Key(child, <<g, n, "">>)
  BY DEF DeleteByPrefix, Call
<1>4. IsPair(r.calls, a, b)
  BY <1>1, PairOfCalls, Zenon
<1> HIDE DEF a, b, r
<1>5. CascadeShape(r, kind, child, g, n)
  BY <1>1, <1>2, <1>3, <1>4 DEF IsPair, CascadeShape
<1> QED
  BY <1>5 DEF r

LEMMA CascadeAims ==
  ASSUME AllWellFormed, NEW kind, NEW child, NEW g, NEW n,
         NEW r, r = Cascade(kind, child, g, n)
  PROVE  WellAimed(r)
<1>1. CascadeShape(r, kind, child, g, n)
  BY CascadeFields, Zenon
<1>2. \A k \in Keys : HasPrefix(k, Key(child, <<g, n, "">>)) => Below(k, Key(kind, <<g, n>>))
  BY KeysHavePaths, PrefixIsBelow
<1>3. \A k \in Keys : Like(k, Key(child, <<g, n, "">>)) => LikeNames(k, Key(kind, <<g, n>>))
  BY KeysHavePaths, LikeIsLikeBelow
<1>4. \A i \in DOMAIN r.calls : i = 1 \/ i = 2
  BY <1>1, UpToTwo DEF CascadeShape
<1>5. Aimed(r, r.calls[1].key)
  BY <1>1 DEF CascadeShape, Aimed
<1>6. /\ \A k \in Keys : HasPrefix(k, r.calls[2].key) => Aimed(r, k)
      /\ \A k \in Keys : Like(k, r.calls[2].key) => AimedByLike(r, k)
  BY <1>1, <1>2, <1>3 DEF CascadeShape, Aimed, AimedByLike
<1> QED
  BY <1>1, <1>4, <1>5, <1>6 DEF WellAimed, CascadeShape

LEMMA CascadeThorough ==
  ASSUME AllWellFormed, NEW kind, NEW child, NEW g, NEW n,
         NEW r, r = Cascade(kind, child, g, n), \A k \in Promised(r) : k.kind = child
  PROVE  Thorough(r)
<1>1. CascadeShape(r, kind, child, g, n)
  BY CascadeFields, Zenon
<1>2. ASSUME NEW k \in Promised(r) PROVE SweptAt(r, k, 2)
  <2>1. k \in Keys /\ Below(k, Key(kind, <<g, n>>)) /\ k.kind = child
    BY <1>1 DEF Promised, CascadeShape
  <2>2. HasPrefix(k, Key(child, <<g, n, "">>))
    BY <2>1, KeysHavePaths, PrefixIsBelow
  <2> QED
    BY <1>1, <2>2, UpToTwo, Zenon DEF SweptAt, CascadeShape
<1>3. 2 \in DOMAIN r.calls
  BY <1>1, UpToTwo, Zenon DEF CascadeShape
<1> QED
  BY <1>2, <1>3 DEF Thorough

(* The children of the seven kinds of records that have a cascade.         *)
LEMMA CascadesThorough ==
  ASSUME AllWellFormed, NEW g, NEW n
  PROVE  /\ Thorough(Cascade("vnet", "subnet", g, n))
         /\ Thorough(Cascade("nsg", "nsgrule", g, n))
         /\ Thorough(Cascade("dns:zone", "dns:record", g, n))
         /\ Thorough(Cascade("sqldb:server", "sqldb:db", g, n))
         /\ Thorough(Cascade("pgflex:server", "pgflex:db", g, n))
         /\ Thorough(Cascade("dbmysql:server", "dbmysql:db", g, n))
         /\ Thorough(Cascade("queue:meta", "queue:msg", g, n))
<1>1. ASSUME NEW kind, NEW child, <<child, kind>> \in ParentKinds,
             kind \notin {"rg", "blob:container"}
      PROVE  \A k \in Promised(Cascade(kind, child, g, n)) : k.kind = child
  BY <1>1 DEF Promised, Cascade, Request, Key, ParentKinds
<1>2. ASSUME NEW kind, NEW child, <<child, kind>> \in ParentKinds,
             kind \notin {"rg", "blob:container"}
      PROVE  Thorough(Cascade(kind, child, g, n))
  BY <1>1, <1>2, CascadeThorough
<1> QED
  BY <1>2 DEF ParentKinds

(* DeleteGroup: the group first, then a sweep for each kind of its list.   *)
SweepKind(kind, g) == DeleteByPrefix(kind, <<g, "">>)

SweepsOf(kinds, g) == [i \in DOMAIN kinds |-> SweepKind(kinds[i], g)]

LEMMA SweepFields ==
  \A kind, g : LET call == SweepKind(kind, g) IN
               call.op = "deleteByPrefix" /\ call.key = Key(kind, <<g, "">>) /\ call.skip = 0
BY DEF SweepKind, DeleteByPrefix, Call

(* One call, then a sweep for each kind.                                   *)
SweepsAfter(calls, first, kinds, g) ==
    /\ DOMAIN calls = 1..(Len(kinds) + 1)
    /\ calls[1] = first
    /\ \A i \in DOMAIN kinds : calls[i + 1] = SweepKind(kinds[i], g)

LEMMA SweepList ==
  ASSUME NEW first, NEW kinds, DOMAIN kinds = 1..Len(kinds), Len(kinds) \in Nat, NEW g
  PROVE  SweepsAfter(<<first>> \o SweepsOf(kinds, g), first, kinds, g)
<1> DEFINE sweeps == SweepsOf(kinds, g)
           Values == {first} \union {sweeps[i] : i \in DOMAIN kinds}
<1>1. DOMAIN kinds = 1..Len(kinds) /\ Len(kinds) \in Nat
  OBVIOUS
<1>2. sweeps \in Seq(Values) /\ Len(sweeps) = Len(kinds)
  BY <1>1 DEF SweepsOf
<1>3. <<first>> \in Seq(Values) /\ Len(<<first>>) = 1 /\ <<first>>[1] = first
  OBVIOUS
<1>4. \A i \in DOMAIN kinds : sweeps[i] = SweepKind(kinds[i], g)
  BY DEF SweepsOf
<1> HIDE DEF sweeps, Values
<1>5. SweepsAfter(<<first>> \o sweeps, first, kinds, g)
  BY <1>1, <1>2, <1>3, <1>4 DEF SweepsAfter
<1> QED
  BY <1>5 DEF sweeps

(* The list of DeleteGroup has every kind a group is said to take along.   *)
Swept(kind) == \E i \in DOMAIN GroupSweeps : GroupSweeps[i] = kind

LEMMA SweepsEveryKind == \A kind \in GroupKinds : Swept(kind)
<1>1. /\ Swept("vnet") /\ Swept("subnet") /\ Swept("nsg")
      /\ Swept("nsgrule") /\ Swept("publicip") /\ Swept("lb")
      /\ Swept("appgw")
  BY DEF Swept, GroupSweeps
<1>2. /\ Swept("dns:zone") /\ Swept("dns:record") /\ Swept("redis")
      /\ Swept("sqldb:server") /\ Swept("sqldb:db") /\ Swept("pgflex:server")
      /\ Swept("pgflex:db")
  BY DEF Swept, GroupSweeps
<1>3. /\ Swept("dbmysql:server") /\ Swept("dbmysql:db") /\ Swept("blob:account")
      /\ Swept("blob:armcontainer") /\ Swept("cosmos:account") /\ Swept("cosmos:sqldb")
      /\ Swept("cosmos:container")
  BY DEF Swept, GroupSweeps
<1>4. /\ Swept("sb:namespace") /\ Swept("sb:armqueue") /\ Swept("sb:armtopic")
      /\ Swept("appconfig:store") /\ Swept("acr:registry") /\ Swept("eg:topic")
      /\ Swept("func")
  BY DEF Swept, GroupSweeps
<1> QED
  BY <1>1, <1>2, <1>3, <1>4, Zenon DEF GroupKinds

LEMMA SweepsNumbered == DOMAIN GroupSweeps = 1..Len(GroupSweeps) /\ Len(GroupSweeps) \in Nat
BY DEF GroupSweeps

LEMMA HasGroupPrefix ==
  ASSUME NEW k, Len(k.path) \in Nat, NEW kind, NEW g,
         k.kind = kind, Below(k, Key("rg", <<g>>))
  PROVE  HasPrefix(k, Key(kind, <<g, "">>))
<1>1. Len(k.path) > 1 /\ k.path[1] = g
  BY DEF Below, Key
<1>2. Key(kind, <<g, "">>).kind = kind /\ Key(kind, <<g, "">>).path = <<g, "">>
  BY DEF Key
<1>3. Begins(k.path[2], "")
  BY DEF Begins
<1>4. Len(<<g, "">>) = 2 /\ <<g, "">>[1] = g /\ <<g, "">>[2] = ""
  OBVIOUS
<1>5. Len(k.path) >= 2 /\ \A i \in 1..(2 - 1) : i = 1
  BY <1>1
<1> QED
  BY <1>1, <1>2, <1>3, <1>4, <1>5, Zenon DEF HasPrefix

GroupShape(r, g) ==
    /\ r.method = "DELETE" /\ r.target = Key("rg", <<g>>)
    /\ DOMAIN r.calls = 1..(Len(GroupSweeps) + 1)
    /\ r.calls[1].skip = 0 /\ r.calls[1].op = "delete" /\ r.calls[1].key = r.target
    /\ \A i \in DOMAIN GroupSweeps : r.calls[i + 1] = SweepKind(GroupSweeps[i], g)

LEMMA GroupFields == ASSUME NEW g PROVE GroupShape(DeleteGroup(g), g)
<1> DEFINE first == Delete("rg", <<g>>)
           calls == <<first>> \o SweepsOf(GroupSweeps, g)
           r == DeleteGroup(g)
<1>1. r.method = "DELETE" /\ r.target = Key("rg", <<g>>) /\ r.calls = calls
  BY DEF DeleteGroup, Request, SweepKind, SweepsOf
<1>2. first.skip = 0 /\ first.op = "delete" /\ first.key = Key("rg", <<g>>)
  BY DEF Delete, Call
<1>3. SweepsAfter(calls, first, GroupSweeps, g)
  BY SweepList, SweepsNumbered, Zenon
<1> HIDE DEF first, calls, r
<1>4. GroupShape(r, g)
  BY <1>1, <1>2, <1>3, Zenon DEF GroupShape, SweepsAfter
<1> QED
  BY <1>4 DEF r

LEMMA GroupThorough ==
  ASSUME AllWellFormed, NEW g, NEW r, r = DeleteGroup(g)
  PROVE  Thorough(r)
<1>1. GroupShape(r, g)
  BY GroupFields, Zenon
<1>2. ASSUME NEW k \in Promised(r) PROVE \E i \in DOMAIN r.calls : SweptAt(r, k, i)
  <2>1. k \in Keys /\ Below(k, Key("rg", <<g>>)) /\ k.kind \in GroupKinds
    BY <1>1 DEF Promised, GroupShape, Key, ParentKinds
  <2>2. PICK i \in DOMAIN GroupSweeps : GroupSweeps[i] = k.kind
    BY <2>1, SweepsEveryKind DEF Swept
  <2>3. Len(GroupSweeps) \in Nat /\ DOMAIN GroupSweeps = 1..Len(GroupSweeps) /\ i \in Nat
    BY <2>2, SweepsNumbered
  <2>4. HasPrefix(k, Key(k.kind, <<g, "">>))
    BY <2>1, KeysHavePaths, HasGroupPrefix
  <2>5. /\ r.calls[i + 1].op = "deleteByPrefix"
        /\ r.calls[i + 1].key = Key(k.kind, <<g, "">>)
    <3>1. r.calls[i + 1] = SweepKind(k.kind, g)
      BY <1>1, <2>2 DEF GroupShape
    <3> QED
      BY <3>1, SweepFields, Zenon
  <2>6. ASSUME NEW j \in 1..((i + 1) - 1) PROVE j + r.calls[j].skip < i + 1
    <3>1. CASE j = 1
      BY <1>1, <2>3, <3>1 DEF GroupShape
    <3>2. CASE j # 1
      <4>1. j - 1 \in DOMAIN GroupSweeps /\ (j - 1) + 1 = j /\ j < i + 1
        BY <2>3, <3>2
      <4>2. r.calls[j] = SweepKind(GroupSweeps[j - 1], g)
        BY <1>1, <4>1 DEF GroupShape
      <4>3. r.calls[j].skip = 0
        BY <4>2, SweepFields, Zenon
      <4> QED
        BY <2>3, <4>1, <4>3
    <3> QED
      BY <3>1, <3>2
  <2>7. i + 1 \in DOMAIN r.calls
    BY <1>1, <2>2, <2>3 DEF GroupShape
  <2>8. SweptAt(r, k, i + 1)
    BY <2>4, <2>5, <2>6 DEF SweptAt
  <2> QED
    BY <2>7, <2>8
<1> QED
  BY <1>2 DEF Thorough

(* DeleteContainer: whether or not the account asks for a signature, the   *)
(* blobs are swept.                                                        *)
ContainerShape(r, a, c) ==
    /\ r.method = "DELETE" /\ r.target = Key("blob:container", <<a, c>>)
    /\ DOMAIN r.calls = 1..4
    /\ r.calls[1].skip = 1 /\ r.calls[2].skip = 0 /\ r.calls[3].skip = 0
    /\ r.calls[4].op = "deleteByPrefix" /\ r.calls[4].key = Key("blob:blob", <<a, c, "">>)

LEMMA FourCalls ==
  ASSUME NEW w, NEW x, NEW y, NEW z, NEW calls, calls = <<w, x>> \o <<y, z>>
  PROVE  /\ DOMAIN calls = 1..4
         /\ calls[1] = w /\ calls[2] = x /\ calls[3] = y /\ calls[4] = z
<1> DEFINE Values == {w, x, y, z}
           p == <<w, x>>
           q == <<y, z>>
<1>1. p \in Seq(Values) /\ Len(p) = 2 /\ p[1] = w /\ p[2] = x
  OBVIOUS
<1>2. q \in Seq(Values) /\ Len(q) = 2 /\ q[1] = y /\ q[2] = z
  OBVIOUS
<1>3. calls = p \o q
  OBVIOUS
<1> HIDE DEF p, q, Values
<1> QED
  BY <1>1, <1>2, <1>3

LEMMA ContainerFields ==
  ASSUME NEW a, NEW c PROVE ContainerShape(DeleteContainer(a, c), a, c)
<1> DEFINE first == GetOrSkip("blob:sharedkeyctx", <<a>>, 1)
           third == Drop("blob:container", <<a, c>>)
           last == DeleteByPrefix("blob:blob", <<a, c, "">>)
           r == DeleteContainer(a, c)
<1>1. /\ r.method = "DELETE" /\ r.target = Key("blob:container", <<a, c>>)
      /\ r.calls = <<first, MayFail>> \o <<third, last>>
  BY DEF DeleteContainer, Request, blobSharedKeyAuth
<1>2. first.skip = 1 /\ MayFail.skip = 0 /\ third.skip = 0
  BY DEF GetOrSkip, MayFail, Drop, Call
<1>3. last.op = "deleteByPrefix" /\ last.key = Key("blob:blob", <<a, c, "">>)
  BY DEF DeleteByPrefix, Call
<1> HIDE DEF first, third, last, r
<1>5. /\ DOMAIN r.calls = 1..4 /\ r.calls[1] = first /\ r.calls[2] = MayFail
      /\ r.calls[3] = third /\ r.calls[4] = last
  <2> DEFINE calls == r.calls
  <2>1. calls = <<first, MayFail>> \o <<third, last>>
    BY <1>1
  <2> HIDE DEF calls
  <2>2. /\ DOMAIN calls = 1..4 /\ calls[1] = first /\ calls[2] = MayFail
        /\ calls[3] = third /\ calls[4] = last
    BY <2>1, FourCalls
  <2> QED
    BY <2>2 DEF calls
<1>6. ContainerShape(r, a, c)
  BY <1>1, <1>2, <1>3, <1>5, Zenon DEF ContainerShape
<1> QED
  BY <1>6 DEF r

LEMMA ContainerThorough ==
  ASSUME AllWellFormed, NEW a, NEW c, NEW r, r = DeleteContainer(a, c)
  PROVE  Thorough(r)
<1>1. ContainerShape(r, a, c)
  BY ContainerFields, Zenon
<1>2. ASSUME NEW k \in Promised(r) PROVE SweptAt(r, k, 4)
  <2>1. k \in Keys /\ Below(k, Key("blob:container", <<a, c>>)) /\ k.kind = "blob:blob"
    <3>1. r.target = Key("blob:container", <<a, c>>)
      BY <1>1, Zenon DEF ContainerShape
    <3>2. r.target.kind = "blob:container"
      BY <3>1 DEF Key
    <3> QED
      BY <3>1, <3>2 DEF Promised, ParentKinds
  <2>2. HasPrefix(k, Key("blob:blob", <<a, c, "">>))
    BY <2>1, KeysHavePaths, PrefixIsBelow
  <2>3. \A j \in 1..(4 - 1) : j = 1 \/ j = 2 \/ j = 3
    OBVIOUS
  <2>4. 1 + 1 < 4 /\ 2 + 0 < 4 /\ 3 + 0 < 4
    OBVIOUS
  <2> QED
    BY <1>1, <2>2, <2>3, <2>4, Zenon DEF SweptAt, ContainerShape
<1>3. 4 \in 1..4
  OBVIOUS
<1> QED
  BY <1>1, <1>2, <1>3, Zenon DEF Thorough, ContainerShape

-----------------------------------------------------------------------------
(* The DELETE requests of the handlers: of a record that nothing is said   *)
(* to go with, or one of those that sweep.                                 *)
SweepingKinds == {"rg", "blob:container", "vnet", "nsg", "dns:zone", "sqldb:server",
    "pgflex:server", "dbmysql:server", "queue:meta"}

CascadingDelete(r, g, n) ==
    r \in {DeleteVNet(g, n), DeleteNSG(g, n), DeleteZone(g, n),
           DeleteSqlServer(g, n), DeletePgServer(g, n), DeleteMySqlServer(g, n), DeleteQueue(g, n)}

SweepingDelete(r) ==
    \/ \E g, n : CascadingDelete(r, g, n)
    \/ \E g : r = DeleteGroup(g)
    \/ \E a, c : r = DeleteContainer(a, c)

DeletesOfTheHandlers ==
    \A r \in Requests :
        r.method = "DELETE" /\ r.target.kind \in SweepingKinds => SweepingDelete(r)

LEMMA HandlersAreThorough ==
  AllWellFormed /\ DeletesOfTheHandlers => AllThorough
<1> SUFFICES ASSUME AllWellFormed, DeletesOfTheHandlers, NEW r \in Requests
             PROVE  Thorough(r)
  BY DEF AllThorough
<1>1. CASE r.method # "DELETE"
  BY <1>1, OnlyDeletesPromise
<1>2. CASE r.target.kind \notin SweepingKinds
  BY <1>2 DEF Thorough, Promised, SweepingKinds, ParentKinds
<1>3. CASE r.method = "DELETE" /\ r.target.kind \in SweepingKinds
  <2>1. SweepingDelete(r)
    BY <1>3 DEF DeletesOfTheHandlers
  <2>2. ASSUME NEW g, NEW n, CascadingDelete(r, g, n) PROVE Thorough(r)
    <3>1. \/ r = Cascade("vnet", "subnet", g, n) \/ r = Cascade("nsg", "nsgrule", g, n)
          \/ r = Cascade("dns:zone", "dns:record", g, n)
          \/ r = Cascade("sqldb:server", "sqldb:db", g, n)
          \/ r = Cascade("pgflex:server", "pgflex:db", g, n)
          \/ r = Cascade("dbmysql:server", "dbmysql:db", g, n)
          \/ r = Cascade("queue:meta", "queue:msg", g, n)
      BY <2>2, Zenon DEF CascadingDelete, Cascade, DeleteVNet, DeleteNSG, DeleteZone, DeleteSqlServer,
                         DeletePgServer, DeleteMySqlServer, DeleteQueue
    <3>2. /\ Thorough(Cascade("vnet", "subnet", g, n)) /\ Thorough(Cascade("nsg", "nsgrule", g, n))
          /\ Thorough(Cascade("dns:zone", "dns:record", g, n))
          /\ Thorough(Cascade("sqldb:server", "sqldb:db", g, n))
          /\ Thorough(Cascade("pgflex:server", "pgflex:db", g, n))
          /\ Thorough(Cascade("dbmysql:server", "dbmysql:db", g, n))
          /\ Thorough(Cascade("queue:meta", "queue:msg", g, n))
      BY CascadesThorough, Zenon
    <3> QED
      BY <3>1, <3>2, Zenon
  <2>3. ASSUME NEW g, r = DeleteGroup(g) PROVE Thorough(r)
    BY <2>3, GroupThorough
  <2>4. ASSUME NEW a, NEW c, r = DeleteContainer(a, c) PROVE Thorough(r)
    BY <2>4, ContainerThorough
  <2>5. CASE \E g, n : CascadingDelete(r, g, n)
    <3>1. PICK g, n : CascadingDelete(r, g, n)
      BY <2>5, Zenon
    <3> QED
      BY <2>2, <3>1, Zenon
  <2>6. CASE \E g : r = DeleteGroup(g)
    BY <2>3, <2>6, Zenon
  <2>7. CASE \E a, c : r = DeleteContainer(a, c)
    BY <2>4, <2>7, Zenon
  <2> QED
    BY <2>1, <2>5, <2>6, <2>7, Zenon DEF SweepingDelete
<1> QED
  BY <1>1, <1>2, <1>3

-----------------------------------------------------------------------------
(* The children the handlers store, and the parents they delete.           *)

ChildKinds == {q[1] : q \in ParentKinds}
RootKinds == {q[2] : q \in ParentKinds}

(* A key with a parent, and the names it shares with it.                   *)
ChildOf(k, parent, g, n) ==
    /\ <<k.kind, parent>> \in ParentKinds
    /\ SubSeq(k.path, 1, 2) = <<g, n>>
    /\ Len(k.path) > 2 /\ k.path[1] = g /\ k.path[2] = n

LEMMA OneParentKind ==
  ASSUME NEW kind, NEW p \in ParentKinds, NEW q \in ParentKinds, p[1] = kind, q[1] = kind
  PROVE  p[2] = q[2]
BY DEF ParentKinds

LEMMA ParentOfChild ==
  ASSUME NEW k, NEW parent, NEW g, NEW n, ChildOf(k, parent, g, n)
  PROVE  Parents(k) = {Key(parent, <<g, n>>)}
<1> DEFINE pair == <<k.kind, parent>>
<1>1. pair \in ParentKinds /\ pair[1] = k.kind /\ pair[2] = parent
  BY DEF ChildOf
<1>2. \A q \in ParentKinds : q[1] = k.kind => q[2] = parent
  BY <1>1, OneParentKind
<1>3. SubSeq(k.path, 1, 2) = <<g, n>>
  BY DEF ChildOf
<1> HIDE DEF pair
<1> QED
  BY <1>1, <1>2, <1>3 DEF Parents

LEMMA NamesBelow ==
  ASSUME NEW S, NEW names \in Seq(S), Len(names) = 2, NEW rest \in Seq(S), Len(rest) > 0,
         NEW path, path = names \o rest
  PROVE  Len(path) > 2 /\ path[1] = names[1] /\ path[2] = names[2] /\ SubSeq(path, 1, 2) = names
<1>1. path \in Seq(S) /\ Len(path) > 2 /\ path[1] = names[1] /\ path[2] = names[2]
  <2>1. Len(rest) \in Nat
    OBVIOUS
  <2>2. /\ names \o rest \in Seq(S) /\ Len(names \o rest) = Len(names) + Len(rest)
        /\ \A i \in 1..(Len(names) + Len(rest)) : (names \o rest)[i] = IF i <= Len(names) THEN names[i] ELSE rest[i - Len(names)]
    BY ConcatProperties, Zenon
  <2>3. /\ path \in Seq(S) /\ Len(path) = 2 + Len(rest)
        /\ \A i \in 1..(2 + Len(rest)) : path[i] = IF i <= 2 THEN names[i] ELSE rest[i - 2]
    BY <2>2
  <2> QED
    BY <2>1, <2>3
<1> DEFINE first == SubSeq(path, 1, 2)
<1>2. \A i \in 1..2 : path[i] \in S
  BY <1>1
<1>3. /\ first \in Seq(S) /\ Len(first) = 2
      /\ \A i \in 1..2 : first[i] = path[i]
  BY <1>2, SubSeqProperties
<1> HIDE DEF first
<1>4. \A i \in 1..2 : first[i] = names[i]
  <2>1. \A i \in 1..2 : i = 1 \/ i = 2
    OBVIOUS
  <2> QED
    BY <1>1, <1>3, <2>1
<1>5. first = names
  BY <1>3, <1>4, SeqEqual
<1> QED
  BY <1>1, <1>5 DEF first

LEMMA ChildKeys ==
  ASSUME NEW kind, NEW parent, <<kind, parent>> \in ParentKinds, NEW g, NEW n, NEW s, NEW t
  PROVE  /\ ChildOf(Key(kind, <<g, n>> \o <<s>>), parent, g, n)
         /\ ChildOf(Key(kind, <<g, n>> \o <<s, t>>), parent, g, n)
<1> DEFINE S == {g, n, s, t}
           names == <<g, n>>
           one == <<s>>
           two == <<s, t>>
<1>1. /\ names \in Seq(S) /\ Len(names) = 2 /\ names[1] = g /\ names[2] = n
      /\ one \in Seq(S) /\ Len(one) > 0 /\ two \in Seq(S) /\ Len(two) > 0
  OBVIOUS
<1>n. names = <<g, n>>
  OBVIOUS
<1> HIDE DEF S, names, one, two
<1> DEFINE p == names \o one
           q == names \o two
<1>p. p = names \o one /\ q = names \o two
  OBVIOUS
<1> HIDE DEF p, q
<1>2. Len(p) > 2 /\ p[1] = g /\ p[2] = n /\ SubSeq(p, 1, 2) = names
  BY <1>p, <1>1, NamesBelow, Zenon
<1>3. Len(q) > 2 /\ q[1] = g /\ q[2] = n /\ SubSeq(q, 1, 2) = names
  BY <1>p, <1>1, NamesBelow, Zenon
<1>4. ChildOf(Key(kind, p), parent, g, n) /\ ChildOf(Key(kind, q), parent, g, n)
  BY <1>2, <1>3, <1>n DEF ChildOf, Key
<1> QED
  BY <1>4 DEF p, q, one, two, names

(* The calls of a request that stores children of the one record p, which  *)
(* its call f has got or stored; nothing it does deletes.                  *)
Adopts(r, f, parent, g, n) ==
    /\ f \in DOMAIN r.calls
    /\ r.calls[f].op \in {"get", "set", "setSame"} /\ r.calls[f].key = Key(parent, <<g, n>>)
    /\ r.cleanup = Len(r.calls) + 1
    /\ \A j \in DOMAIN r.calls :
          /\ j <= f => r.calls[j].skip = 0
          /\ r.calls[j].op \notin {"delete", "drop", "deleteByPrefix"}
          /\ r.calls[j].op \in {"set", "setSame"} =>
                \/ r.calls[j].key.kind \notin ChildKinds
                \/ f < j /\ ChildOf(r.calls[j].key, parent, g, n)

LEMMA NoParents == ASSUME NEW k, k.kind \notin ChildKinds PROVE Parents(k) = {}
BY DEF Parents, ChildKinds

LEMMA AdoptsAsks ==
  ASSUME NEW r, WellFormed(r), NEW f, NEW parent, NEW g, NEW n, Adopts(r, f, parent, g, n)
  PROVE  AsksParents(r)
<1>1. /\ Len(r.calls) \in Nat /\ DOMAIN r.calls = 1..Len(r.calls) /\ f \in 1..Len(r.calls)
  BY DEF WellFormed, Adopts
<1> SUFFICES ASSUME NEW i \in DOMAIN r.calls, r.calls[i].op \in {"set", "setSame"},
                    NEW p \in Parents(r.calls[i].key)
             PROVE  \E e \in 1..(i - 1) : Asked(r, e, i, p)
  BY DEF AsksParents
<1>2. f < i /\ ChildOf(r.calls[i].key, parent, g, n)
  BY NoParents DEF Adopts
<1>3. p = Key(parent, <<g, n>>)
  BY <1>2, ParentOfChild
<1>4. f \in 1..(i - 1)
  BY <1>1, <1>2
<1>5. r.calls[f].op \in {"get", "set", "setSame"} /\ r.calls[f].key = p
  BY <1>3 DEF Adopts
<1>6. \A j \in (f + 1)..i : r.calls[j].op \notin {"delete", "drop", "deleteByPrefix"}
  <2>1. \A j \in (f + 1)..i : j \in DOMAIN r.calls
    BY <1>1
  <2> QED
    BY <2>1 DEF Adopts
<1>7. \A j \in 1..f : r.calls[j].skip = 0
  BY <1>1 DEF Adopts
<1>8. r.cleanup \notin (f + 1)..i
  BY <1>1 DEF Adopts
<1>9. Asked(r, f, i, p)
  BY <1>4, <1>5, <1>6, <1>7, <1>8 DEF Asked
<1> QED
  BY <1>4, <1>9

(* The requests that store a child, and those that delete a parent.        *)
StoresNoChild(r) ==
    \A i \in DOMAIN r.calls : r.calls[i].op \in {"set", "setSame"} => r.calls[i].key.kind \notin ChildKinds
RemovesNoParent(r) ==
    \A i \in DOMAIN r.calls :
        r.calls[i].op \in {"delete", "drop", "deleteByPrefix"} => r.calls[i].key.kind \notin RootKinds

ChildPut(r, g, n, s) ==
    \/ r \in {PutSubnet(g, n, s), PutRule(g, n, s), PutSqlDatabase(g, n, s), PutPgDatabase(g, n, s),
              PutMySqlDatabase(g, n, s), SendMessage(g, n, s), PutZone(g, n)}
    \/ \E t : r = PutRecordSet(g, n, t, s)

(* A deployment makes the calls of its resources, of which those of a zone *)
(* store records: it is asked to be as it should.                          *)
StoresBelowParents(r) ==
    /\ AsksParents(r)
    /\ \A k \in Written(r) : k.kind \in ChildKinds => \E parent, g, n : ChildOf(k, parent, g, n)

ServedAlone == UNION {k.requests : k \in {asked \in Casts : asked.atOnce = 1}}

ChildrenOfTheHandlers ==
    /\ \A r \in Requests :
          StoresNoChild(r) \/ (\E g, n, s : ChildPut(r, g, n, s)) \/ StoresBelowParents(r)
    /\ \A r \in ServedAlone :
          \/ RemovesNoParent(r)
          \/ \E g, n : CascadingDelete(r, g, n)
          \/ \E g : r = DeleteGroup(g)

LEMMA NoChildAsks == ASSUME NEW r, StoresNoChild(r) PROVE AsksParents(r)
BY NoParents DEF StoresNoChild, AsksParents

(* A call that stores a child of the record with these names, or no child; *)
(* none deletes.                                                           *)
Harmless(call, parent, g, n) ==
    /\ call.op \notin {"delete", "drop", "deleteByPrefix"}
    /\ call.op \in {"set", "setSame"} =>
         call.key.kind \notin ChildKinds \/ ChildOf(call.key, parent, g, n)
Root(call, parent, g, n) ==
    call.op \in {"get", "set", "setSame"} /\ call.key = Key(parent, <<g, n>>) /\ call.skip = 0

LEMMA ThreeCalls ==
  ASSUME NEW x, NEW y, NEW z
  PROVE  LET calls == <<x, y, z>>
         IN DOMAIN calls = 1..3 /\ Len(calls) = 3 /\ calls[1] = x /\ calls[2] = y /\ calls[3] = z
OBVIOUS

LEMMA KindsApart == ParentKinds \intersect (RootKinds \X RootKinds) = {} /\ ChildKinds \intersect RootKinds = {}
BY DEF ParentKinds, RootKinds, ChildKinds

(* The record is got by the first call.                                    *)
LEMMA AdoptsFirst ==
  ASSUME NEW r, NEW parent, NEW g, NEW n, parent \in RootKinds,
         Len(r.calls) \in Nat \ {0}, DOMAIN r.calls = 1..Len(r.calls), r.cleanup = Len(r.calls) + 1,
         Root(r.calls[1], parent, g, n),
         \A i \in DOMAIN r.calls : Harmless(r.calls[i], parent, g, n)
  PROVE  Adopts(r, 1, parent, g, n)
<1>1. parent \notin ChildKinds /\ r.calls[1].key.kind = parent
  BY KindsApart DEF Root, Key
<1>2. 1 \in DOMAIN r.calls /\ \A j \in DOMAIN r.calls : (j <= 1 => j = 1) /\ (j # 1 => 1 < j)
  OBVIOUS
<1>3. ASSUME NEW j \in DOMAIN r.calls, r.calls[j].op \in {"set", "setSame"}
      PROVE  r.calls[j].key.kind \notin ChildKinds \/ (1 < j /\ ChildOf(r.calls[j].key, parent, g, n))
  BY <1>1, <1>2, <1>3 DEF Harmless
<1> QED
  BY <1>1, <1>2, <1>3 DEF Adopts, Root, Harmless

LEMMA AdoptsSecond ==
  ASSUME NEW r, NEW parent, NEW g, NEW n, parent \in RootKinds,
         Len(r.calls) \in Nat, 2 <= Len(r.calls), DOMAIN r.calls = 1..Len(r.calls), r.cleanup = Len(r.calls) + 1,
         Root(r.calls[2], parent, g, n), r.calls[1].skip = 0, r.calls[1].op \notin {"set", "setSame"},
         \A i \in DOMAIN r.calls : Harmless(r.calls[i], parent, g, n)
  PROVE  Adopts(r, 2, parent, g, n)
<1>1. parent \notin ChildKinds /\ r.calls[2].key.kind = parent
  BY KindsApart DEF Root, Key
<1>2. 2 \in DOMAIN r.calls /\ \A j \in DOMAIN r.calls : (j <= 2 => j = 1 \/ j = 2) /\ (j # 1 /\ j # 2 => 2 < j)
  OBVIOUS
<1>3. ASSUME NEW j \in DOMAIN r.calls, r.calls[j].op \in {"set", "setSame"}
      PROVE  r.calls[j].key.kind \notin ChildKinds \/ (2 < j /\ ChildOf(r.calls[j].key, parent, g, n))
  BY <1>1, <1>2, <1>3 DEF Harmless
<1> QED
  BY <1>1, <1>2, <1>3 DEF Adopts, Root, Harmless

LEMMA HarmlessCalls ==
  ASSUME NEW parent \in RootKinds, NEW g, NEW n
  PROVE  /\ Root(Get(parent, <<g, n>>), parent, g, n) /\ Root(Set(parent, <<g, n>>), parent, g, n)
         /\ \A kind, path, skip :
               /\ Harmless(Get(kind, path), parent, g, n) /\ Harmless(Look(kind, path), parent, g, n)
               /\ Harmless(ListByPrefix(kind, path), parent, g, n)
               /\ Harmless(GetOrSkip(kind, path, skip), parent, g, n)
               /\ Harmless(SkipIfFound(skip), parent, g, n)
               /\ ChildOf(Key(kind, path), parent, g, n) => Harmless(Set(kind, path), parent, g, n)
         /\ Harmless(Set(parent, <<g, n>>), parent, g, n) /\ Harmless(SetSame(parent, <<g, n>>), parent, g, n)
         /\ Harmless(Assign, parent, g, n) /\ Harmless(MayFail, parent, g, n)
<1>1. parent \notin ChildKinds
  BY KindsApart
<1>2. ASSUME NEW kind, NEW path, NEW skip
      PROVE  /\ Harmless(Get(kind, path), parent, g, n) /\ Harmless(Look(kind, path), parent, g, n)
             /\ Harmless(ListByPrefix(kind, path), parent, g, n)
             /\ Harmless(GetOrSkip(kind, path, skip), parent, g, n)
             /\ Harmless(SkipIfFound(skip), parent, g, n)
  BY DEF Harmless, Get, Look, ListByPrefix, GetOrSkip, SkipIfFound, Call
<1>3. ASSUME NEW kind, NEW path, ChildOf(Key(kind, path), parent, g, n)
      PROVE  Harmless(Set(kind, path), parent, g, n)
  BY <1>3 DEF Harmless, Set, Call
<1>4. Harmless(Assign, parent, g, n) /\ Harmless(MayFail, parent, g, n)
  BY DEF Harmless, Assign, MayFail, Call
<1>5. Harmless(Set(parent, <<g, n>>), parent, g, n) /\ Harmless(SetSame(parent, <<g, n>>), parent, g, n)
  BY <1>1 DEF Harmless, Set, SetSame, Call, Key
<1>6. Root(Get(parent, <<g, n>>), parent, g, n) /\ Root(Set(parent, <<g, n>>), parent, g, n)
  BY DEF Root, Get, Set, Call
<1> QED
  BY <1>2, <1>3, <1>4, <1>5, <1>6, Zenon

(* Up to seven calls, the first of which gets the parent.                  *)
Adopting(calls, parent, g, n) ==
    /\ Len(calls) \in Nat \ {0} /\ DOMAIN calls = 1..Len(calls)
    /\ Root(calls[1], parent, g, n)
    /\ \A i \in DOMAIN calls : Harmless(calls[i], parent, g, n)

LEMMA AdoptingRequest ==
  ASSUME NEW calls, NEW parent \in RootKinds, NEW g, NEW n, Adopting(calls, parent, g, n),
         NEW kind, NEW path, NEW method
  PROVE  Adopts(Request(method, kind, path, calls), 1, parent, g, n)
<1> DEFINE r == Request(method, kind, path, calls)
<1>1. r.calls = calls /\ r.cleanup = Len(r.calls) + 1
  BY DEF Request
<1> HIDE DEF r
<1>2. Adopts(r, 1, parent, g, n)
  BY <1>1, AdoptsFirst DEF Adopting
<1> QED
  BY <1>2 DEF r

LEMMA TwoOrThree ==
  ASSUME NEW parent, NEW g, NEW n, NEW x, NEW y, NEW z, Root(x, parent, g, n),
         Harmless(x, parent, g, n), Harmless(y, parent, g, n), Harmless(z, parent, g, n)
  PROVE  Adopting(<<x, y>>, parent, g, n) /\ Adopting(<<x, y, z>>, parent, g, n)
BY DEF Adopting

LEMMA Five ==
  ASSUME NEW parent, NEW g, NEW n, NEW v, NEW w, NEW x, NEW y, NEW z, Root(v, parent, g, n),
         Harmless(v, parent, g, n), Harmless(w, parent, g, n), Harmless(x, parent, g, n),
         Harmless(y, parent, g, n), Harmless(z, parent, g, n)
  PROVE  Adopting(<<v, w, x, y, z>>, parent, g, n)
BY DEF Adopting

LEMMA Together ==
  ASSUME NEW parent, NEW g, NEW n, NEW Values, NEW p \in Seq(Values), NEW q \in Seq(Values),
         Adopting(p, parent, g, n), \A i \in DOMAIN q : Harmless(q[i], parent, g, n)
  PROVE  Adopting(p \o q, parent, g, n)
<1> DEFINE s == p \o q
<1>2. s = p \o q
  OBVIOUS
<1> HIDE DEF s
<1>3. /\ Len(s) = Len(p) + Len(q) /\ DOMAIN s = 1..Len(s)
      /\ \A i \in DOMAIN s : s[i] = IF i <= Len(p) THEN p[i] ELSE q[i - Len(p)]
  BY <1>2
<1>4. \A i \in DOMAIN s : i \in DOMAIN p \/ (i > Len(p) /\ i - Len(p) \in DOMAIN q)
  BY <1>3 DEF Adopting
<1> QED
  BY <1>2, <1>3, <1>4 DEF Adopting

LEMMA PutChildAdopts ==
  ASSUME NEW parent \in RootKinds, NEW g, NEW n, NEW kind, NEW names,
         ChildOf(Key(kind, <<g, n>> \o names), parent, g, n)
  PROVE  /\ Adopting(PutChild(parent, <<g, n>>, kind, names).calls, parent, g, n)
         /\ Adopts(PutChild(parent, <<g, n>>, kind, names), 1, parent, g, n)
<1> DEFINE path == <<g, n>> \o names
           x == Get(parent, <<g, n>>)
           y == Look(kind, path)
           z == Set(kind, path)
           calls == <<x, y, z>>
<1>1. Root(x, parent, g, n) /\ Harmless(x, parent, g, n) /\ Harmless(y, parent, g, n) /\ Harmless(z, parent, g, n)
  BY HarmlessCalls, Zenon
<1>2. PutChild(parent, <<g, n>>, kind, names) = Request("PUT", kind, path, calls)
  BY DEF PutChild
<1>3. Request("PUT", kind, path, calls).calls = calls
  BY DEF Request
<1> HIDE DEF x, y, z, path
<1>4. Adopting(calls, parent, g, n)
  BY <1>1, TwoOrThree, Zenon
<1> HIDE DEF calls
<1> QED
  BY <1>2, <1>3, <1>4, AdoptingRequest, Zenon

LEMMA DatabasePutAdopts ==
  ASSUME NEW parent \in RootKinds, NEW g, NEW n, NEW kind, NEW path, ChildOf(Key(kind, path), parent, g, n)
  PROVE  Adopts(Request("PUT", kind, path,
             <<Get(parent, <<g, n>>), Look(kind, path), SkipIfFound(1), MayFail, Set(kind, path)>>), 1, parent, g, n)
<1> DEFINE v == Get(parent, <<g, n>>)
           w == Look(kind, path)
           x == SkipIfFound(1)
           z == Set(kind, path)
           calls == <<v, w, x, MayFail, z>>
<1>1. /\ Root(v, parent, g, n) /\ Harmless(v, parent, g, n) /\ Harmless(w, parent, g, n)
      /\ Harmless(x, parent, g, n) /\ Harmless(MayFail, parent, g, n) /\ Harmless(z, parent, g, n)
  BY HarmlessCalls, Zenon
<1> HIDE DEF v, w, x, z
<1>2. Adopting(calls, parent, g, n)
  BY <1>1, Five, Zenon
<1> HIDE DEF calls
<1>3. Adopts(Request("PUT", kind, path, calls), 1, parent, g, n)
  BY <1>2, AdoptingRequest, Zenon
<1> QED
  BY <1>3 DEF calls, v, w, x, z

LEMMA MessageAdopts ==
  ASSUME NEW parent \in RootKinds, NEW g, NEW n, NEW kind, NEW path, ChildOf(Key(kind, path), parent, g, n)
  PROVE  Adopts(Request("POST", kind, path, <<Get(parent, <<g, n>>), Set(kind, path)>>), 1, parent, g, n)
<1> DEFINE x == Get(parent, <<g, n>>)
           y == Set(kind, path)
           calls == <<x, y>>
<1>1. Root(x, parent, g, n) /\ Harmless(x, parent, g, n) /\ Harmless(y, parent, g, n)
  BY HarmlessCalls, Zenon
<1> HIDE DEF x, y
<1>2. Adopting(calls, parent, g, n)
  BY <1>1, TwoOrThree, Zenon
<1> HIDE DEF calls
<1>3. Adopts(Request("POST", kind, path, calls), 1, parent, g, n)
  BY <1>2, AdoptingRequest, Zenon
<1> QED
  BY <1>3 DEF calls, x, y

LEMMA SubnetAdopts ==
  ASSUME NEW g, NEW n, NEW s, ChildOf(Key("subnet", <<g, n>> \o <<s>>), "vnet", g, n), "vnet" \in RootKinds
  PROVE  Adopts(PutSubnet(g, n, s), 1, "vnet", g, n)
<1> DEFINE p == PutChild("vnet", <<g, n>>, "subnet", <<s>>).calls
           a == GetOrSkip("vnet", <<g, n>>, 3)
           b == ListByPrefix("subnet", <<g, n, "">>)
           d == SetSame("vnet", <<g, n>>)
           q == <<a, b, Assign, d>>
           x == Get("vnet", <<g, n>>)
           y == Look("subnet", <<g, n>> \o <<s>>)
           z == Set("subnet", <<g, n>> \o <<s>>)
           Values == {a, b, Assign, d, x, y, z}
<1>1. Adopting(p, "vnet", g, n)
  BY PutChildAdopts, Zenon
<1>2. /\ Harmless(a, "vnet", g, n) /\ Harmless(b, "vnet", g, n) /\ Harmless(Assign, "vnet", g, n)
      /\ Harmless(d, "vnet", g, n)
  BY HarmlessCalls, Zenon
<1>3. p = <<x, y, z>>
  BY DEF PutChild, Request
<1>4. PutSubnet(g, n, s) = Request("PUT", "subnet", <<g, n, s>>, p \o q)
  BY DEF PutSubnet, updateVNetSubnets
<1> HIDE DEF p, a, b, d, x, y, z
<1>5. p \in Seq(Values) /\ q \in Seq(Values)
  BY <1>3
<1>6. \A i \in DOMAIN q : Harmless(q[i], "vnet", g, n)
  BY <1>2
<1> HIDE DEF q, Values
<1>7. Adopting(p \o q, "vnet", g, n)
  BY <1>1, <1>5, <1>6, Together, Zenon
<1> QED
  BY <1>4, <1>7, AdoptingRequest, Zenon

LEMMA SixCalls ==
  ASSUME NEW parent \in RootKinds, NEW g, NEW n, NEW u, NEW v, NEW w, NEW x, NEW y, NEW z,
         u.skip = 0, u.op \notin {"set", "setSame"}, Root(v, parent, g, n),
         Harmless(u, parent, g, n), Harmless(v, parent, g, n), Harmless(w, parent, g, n),
         Harmless(x, parent, g, n), Harmless(y, parent, g, n), Harmless(z, parent, g, n),
         NEW kind, NEW path
  PROVE  Adopts(Request("PUT", kind, path, <<u, v, w, x, y, z>>), 2, parent, g, n)
<1> DEFINE calls == <<u, v, w, x, y, z>>
           r == Request("PUT", kind, path, calls)
<1>1. /\ Len(calls) \in Nat /\ 2 <= Len(calls) /\ DOMAIN calls = 1..Len(calls)
      /\ calls[1] = u /\ calls[2] = v /\ \A i \in DOMAIN calls : Harmless(calls[i], parent, g, n)
  OBVIOUS
<1> HIDE DEF calls
<1>2. r.calls = calls /\ r.cleanup = Len(calls) + 1
  BY DEF Request
<1> HIDE DEF r
<1>3. Adopts(r, 2, parent, g, n)
  BY <1>1, <1>2, AdoptsSecond
<1> QED
  BY <1>3 DEF r, calls

LEMMA ZoneAdopts ==
  ASSUME NEW g, NEW n, "dns:zone" \in RootKinds,
         ChildOf(Key("dns:record", <<g, n, "SOA", "@">>), "dns:zone", g, n),
         ChildOf(Key("dns:record", <<g, n, "NS", "@">>), "dns:zone", g, n)
  PROVE  Adopts(PutZone(g, n), 2, "dns:zone", g, n)
<1> DEFINE u == Look("dns:zone", <<g, n>>)
           v == Set("dns:zone", <<g, n>>)
           w == SkipIfFound(3)
           x == Set("dns:record", <<g, n, "SOA", "@">>)
           y == Set("dns:record", <<g, n, "NS", "@">>)
<1>1. /\ Root(v, "dns:zone", g, n) /\ Harmless(u, "dns:zone", g, n) /\ Harmless(v, "dns:zone", g, n)
      /\ Harmless(w, "dns:zone", g, n) /\ Harmless(x, "dns:zone", g, n) /\ Harmless(y, "dns:zone", g, n)
  BY HarmlessCalls, Zenon
<1>2. u.skip = 0 /\ u.op \notin {"set", "setSame"}
  BY DEF Look, Call
<1>3. PutZone(g, n) = Request("PUT", "dns:zone", <<g, n>>, <<u, v, w, x, y, v>>)
  BY DEF PutZone
<1> HIDE DEF u, v, w, x, y
<1> QED
  BY <1>1, <1>2, <1>3, SixCalls, Zenon

LEMMA ChildPutAdopts ==
  ASSUME NEW r, NEW g, NEW n, NEW s, ChildPut(r, g, n, s)
  PROVE  \E f, parent : Adopts(r, f, parent, g, n)
<1>0. /\ <<"subnet", "vnet">> \in ParentKinds /\ <<"nsgrule", "nsg">> \in ParentKinds
      /\ <<"dns:record", "dns:zone">> \in ParentKinds /\ <<"sqldb:db", "sqldb:server">> \in ParentKinds
      /\ <<"pgflex:db", "pgflex:server">> \in ParentKinds /\ <<"dbmysql:db", "dbmysql:server">> \in ParentKinds
      /\ <<"queue:msg", "queue:meta">> \in ParentKinds
  BY DEF ParentKinds
<1>p. /\ "vnet" \in RootKinds /\ "nsg" \in RootKinds /\ "dns:zone" \in RootKinds /\ "sqldb:server" \in RootKinds
      /\ "pgflex:server" \in RootKinds /\ "dbmysql:server" \in RootKinds /\ "queue:meta" \in RootKinds
  BY DEF RootKinds, ParentKinds
<1>c. \A kind, parent, t, u : <<kind, parent>> \in ParentKinds =>
        /\ ChildOf(Key(kind, <<g, n>> \o <<t>>), parent, g, n)
        /\ ChildOf(Key(kind, <<g, n>> \o <<t, u>>), parent, g, n)
  BY ChildKeys, Zenon
<1>d. \A kind, parent, t, u : <<kind, parent>> \in ParentKinds =>
        /\ ChildOf(Key(kind, <<g, n, t>>), parent, g, n)
        /\ ChildOf(Key(kind, <<g, n, t, u>>), parent, g, n)
  <2>1. ASSUME NEW t, NEW u
        PROVE  <<g, n, t>> = <<g, n>> \o <<t>> /\ <<g, n, t, u>> = <<g, n>> \o <<t, u>>
    OBVIOUS
  <2> QED
    BY <1>c, <2>1, Zenon
<1>1. CASE r = PutSubnet(g, n, s)
  BY <1>0, <1>p, <1>c, <1>1, SubnetAdopts, Zenon
<1>2. CASE r = PutRule(g, n, s)
  BY <1>0, <1>p, <1>c, <1>2, PutChildAdopts, Zenon DEF PutRule
<1>3. CASE r = PutSqlDatabase(g, n, s)
  BY <1>0, <1>p, <1>c, <1>3, PutChildAdopts, Zenon DEF PutSqlDatabase
<1>4. CASE r = PutPgDatabase(g, n, s)
  BY <1>0, <1>p, <1>d, <1>4, DatabasePutAdopts, Zenon DEF PutPgDatabase
<1>5. CASE r = PutMySqlDatabase(g, n, s)
  BY <1>0, <1>p, <1>d, <1>5, DatabasePutAdopts, Zenon DEF PutMySqlDatabase
<1>6. CASE r = SendMessage(g, n, s)
  BY <1>0, <1>p, <1>d, <1>6, MessageAdopts, Zenon DEF SendMessage
<1>7. CASE r = PutZone(g, n)
  BY <1>0, <1>p, <1>d, <1>7, ZoneAdopts, Zenon
<1>8. ASSUME NEW t, r = PutRecordSet(g, n, t, s) PROVE \E f, parent : Adopts(r, f, parent, g, n)
  BY <1>0, <1>p, <1>c, <1>8, PutChildAdopts, Zenon DEF PutRecordSet
<1> QED
  BY <1>1, <1>2, <1>3, <1>4, <1>5, <1>6, <1>7, <1>8, Zenon DEF ChildPut

(* Every child that may be stored has the names of its parent before its   *)
(* own.                                                                    *)
LEMMA ChildrenHaveParents ==
  ASSUME AllWellFormed, ChildrenOfTheHandlers, NEW k \in Keys, k.kind \in ChildKinds
  PROVE  \E parent, g, n : ChildOf(k, parent, g, n)
<1>1. PICK r \in Requests : k \in Written(r)
  BY DEF Keys
<1>2. PICK i \in DOMAIN r.calls : r.calls[i].op \in {"set", "setSame"} /\ r.calls[i].key = k
  BY <1>1 DEF Written
<1>3. ~StoresNoChild(r)
  BY <1>2 DEF StoresNoChild
<1>4. CASE StoresBelowParents(r)
  BY <1>1, <1>4 DEF StoresBelowParents
<1>5. CASE \E g, n, s : ChildPut(r, g, n, s)
  <2>1. PICK g, n, s : ChildPut(r, g, n, s)
    BY <1>5
  <2>2. PICK f, parent : Adopts(r, f, parent, g, n)
    BY <2>1, ChildPutAdopts, Zenon
  <2> QED
    BY <1>2, <2>2 DEF Adopts
<1> QED
  BY <1>3, <1>4, <1>5 DEF ChildrenOfTheHandlers

(* A child of the record p: the kinds go together and so do the names.     *)
LEMMA ChildOfParent ==
  ASSUME AllWellFormed, ChildrenOfTheHandlers, NEW k \in Keys, NEW p \in Parents(k)
  PROVE  /\ <<k.kind, p.kind>> \in ParentKinds
         /\ \E g, n : /\ p = Key(p.kind, <<g, n>>)
                      /\ Len(k.path) > 2 /\ k.path[1] = g /\ k.path[2] = n
<1>1. k.kind \in ChildKinds
  BY DEF Parents, ChildKinds
<1>2. PICK parent, g, n : ChildOf(k, parent, g, n)
  BY <1>1, ChildrenHaveParents, Zenon
<1>3. p = Key(parent, <<g, n>>)
  BY <1>2, ParentOfChild
<1>4. p.kind = parent
  BY <1>3 DEF Key
<1> QED
  BY <1>2, <1>3, <1>4 DEF ChildOf

LEMMA NoParentSwept ==
  ASSUME AllWellFormed, ChildrenOfTheHandlers, NEW r, RemovesNoParent(r) PROVE SweepsChildren(r)
<1> SUFFICES ASSUME NEW like \in BOOLEAN, NEW i \in DOMAIN r.calls, NEW k \in Keys, NEW p \in Parents(k),
                    Removes(like, r.calls[i], p)
             PROVE  FALSE
  BY DEF SweepsChildren
<1>1. p.kind \in RootKinds
  <2>1. <<k.kind, p.kind>> \in ParentKinds
    BY ChildOfParent, Zenon
  <2>2. <<k.kind, p.kind>>[2] \in RootKinds
    BY <2>1, Zenon DEF RootKinds
  <2> QED
    BY <2>2
<1>2. r.calls[i].op \in {"delete", "drop", "deleteByPrefix"} /\ r.calls[i].key.kind = p.kind
  BY DEF Removes, HasPrefix, Like
<1> QED
  BY <1>1, <1>2 DEF RemovesNoParent

LEMMA OneChildKind ==
  ASSUME NEW p \in ParentKinds, NEW q \in ParentKinds, p[2] = q[2]
  PROVE  p[1] = q[1]
BY DEF ParentKinds

LEMMA CascadeSweepsChildren ==
  ASSUME AllWellFormed, ChildrenOfTheHandlers, NEW kind, NEW child, NEW g, NEW n,
         <<child, kind>> \in ParentKinds, NEW r, r = Cascade(kind, child, g, n)
  PROVE  SweepsChildren(r)
<1>1. CascadeShape(r, kind, child, g, n)
  BY CascadeFields, Zenon
<1> SUFFICES ASSUME NEW like \in BOOLEAN, NEW i \in DOMAIN r.calls, NEW k \in Keys, NEW p \in Parents(k),
                    Removes(like, r.calls[i], p)
             PROVE  \E j \in (i + 1)..Len(r.calls) : SweptLater(r, like, k, i + 1, j)
  BY DEF SweepsChildren
<1>2. <<k.kind, p.kind>> \in ParentKinds /\ p.kind \in RootKinds
  <2>1. <<k.kind, p.kind>> \in ParentKinds
    BY ChildOfParent, Zenon
  <2>2. <<k.kind, p.kind>>[2] \in RootKinds
    BY <2>1, Zenon DEF RootKinds
  <2> QED
    BY <2>1, <2>2
<1>3. child \in ChildKinds /\ child \notin RootKinds
  <2>1. child \in ChildKinds
    BY DEF ChildKinds
  <2> QED
    BY <2>1, KindsApart
<1>4. i = 1
  <2>1. CASE i = 2
    <3>1. Key(child, <<g, n, "">>).kind = child
      BY DEF Key
    <3>2. p.kind = child
      BY <1>1, <2>1, <3>1 DEF CascadeShape, Removes, HasPrefix, Like
    <3> QED
      BY <1>2, <1>3, <3>2
  <2> QED
    BY <1>1, <2>1, UpToTwo DEF CascadeShape
<1>5. p = Key(kind, <<g, n>>)
  BY <1>1, <1>4 DEF CascadeShape, Removes
<1>6. k.kind = child
  <2>1. p.kind = kind
    BY <1>5 DEF Key
  <2>2. <<k.kind, kind>> \in ParentKinds /\ <<child, kind>> \in ParentKinds
    BY <1>2, <2>1
  <2>3. <<k.kind, kind>>[2] = <<child, kind>>[2]
    OBVIOUS
  <2>4. <<k.kind, kind>>[1] = <<child, kind>>[1]
    BY <2>2, <2>3, OneChildKind, Zenon
  <2> QED
    BY <2>4
<1>7. Below(k, Key(kind, <<g, n>>))
  <2>1. PICK a, b : p = Key(p.kind, <<a, b>>) /\ Len(k.path) > 2 /\ k.path[1] = a /\ k.path[2] = b
    BY ChildOfParent, Zenon
  <2>2. a = g /\ b = n
    BY <1>5, <2>1 DEF Key
  <2>3. LET key == Key(kind, <<g, n>>) IN
        Len(key.path) = 2 /\ DOMAIN key.path = 1..2 /\ key.path[1] = g /\ key.path[2] = n
    BY DEF Key
  <2> QED
    BY <2>1, <2>2, <2>3, BelowTwo
<1>8. HasPrefix(k, Key(child, <<g, n, "">>))
  BY <1>6, <1>7, KeysHavePaths, PrefixIsBelow
<1>9. Removes(like, r.calls[2], k)
  BY <1>1, <1>8 DEF CascadeShape, Removes
<1>10. Len(r.calls) = 2 /\ \A l \in 2..2 : l = 2
  <2>1. Len(r.calls) \in Nat /\ 1..Len(r.calls) = 1..2
    BY <1>1, CascadeSound DEF CascadeShape, WellFormed
  <2>2. ASSUME NEW m \in Nat, 1..m = 1..2 PROVE m = 2
    <3>1. 2 \in 1..m /\ 3 \notin 1..m
      BY <2>2
    <3> QED
      BY <3>1
  <2>3. Len(r.calls) = 2
    BY <2>1, <2>2, Zenon
  <2> QED
    BY <2>3
<1>11. SweptLater(r, like, k, 2, 2)
  BY <1>1, <1>9, <1>10 DEF SweptLater, CascadeShape
<1> QED
  BY <1>4, <1>10, <1>11

(* The list of DeleteGroup has the kind of the children after that of the  *)
(* parents, if it has that of the parents.                                 *)
SweptInOrder(child, parent) ==
    \E i, j \in DOMAIN GroupSweeps : i < j /\ GroupSweeps[i] = parent /\ GroupSweeps[j] = child

LEMMA NoKindTwice == \A i, j \in DOMAIN GroupSweeps : GroupSweeps[i] = GroupSweeps[j] => i = j
BY DEF GroupSweeps

LEMMA ChildrenSweptAfter ==
  /\ \A q \in ParentKinds : q[2] # "queue:meta" => SweptInOrder(q[1], q[2])
  /\ \A i \in DOMAIN GroupSweeps : GroupSweeps[i] # "queue:meta"
<1>1. SweptInOrder("subnet", "vnet") /\ SweptInOrder("nsgrule", "nsg") /\ SweptInOrder("dns:record", "dns:zone")
  BY DEF SweptInOrder, GroupSweeps
<1>2. /\ SweptInOrder("sqldb:db", "sqldb:server") /\ SweptInOrder("pgflex:db", "pgflex:server")
      /\ SweptInOrder("dbmysql:db", "dbmysql:server")
  BY DEF SweptInOrder, GroupSweeps
<1>3. \A i \in DOMAIN GroupSweeps : GroupSweeps[i] # "queue:meta"
  BY DEF GroupSweeps
<1> QED
  BY <1>1, <1>2, <1>3 DEF ParentKinds

LEMMA GroupPrefix ==
  ASSUME NEW k, Len(k.path) \in Nat, NEW kind, NEW g
  PROVE  /\ HasPrefix(k, Key(kind, <<g, "">>)) <=> k.kind = kind /\ Len(k.path) >= 2 /\ k.path[1] = g
         /\ Like(k, Key(kind, <<g, "">>)) <=> k.kind = kind /\ Len(k.path) >= 2 /\ LikeName(k.path[1], g)
<1> DEFINE prefix == Key(kind, <<g, "">>)
<1>1. /\ prefix.kind = kind /\ Len(prefix.path) = 2
      /\ prefix.path[1] = g /\ prefix.path[2] = ""
  BY DEF Key
<1> HIDE DEF prefix
<1>2. Begins(k.path[2], "")
  BY DEF Begins
<1>3. \A i : i \in 1..(2 - 1) <=> i = 1
  OBVIOUS
<1>4. /\ HasPrefix(k, prefix) <=> k.kind = kind /\ Len(k.path) >= 2 /\ k.path[1] = g
      /\ Like(k, prefix) <=> k.kind = kind /\ Len(k.path) >= 2 /\ LikeName(k.path[1], g)
  BY <1>1, <1>2, <1>3 DEF HasPrefix, Like
<1> QED
  BY <1>4 DEF prefix

LEMMA GroupCalls ==
  ASSUME NEW r, NEW g, GroupShape(r, g), NEW i \in DOMAIN r.calls, i # 1
  PROVE  /\ i - 1 \in DOMAIN GroupSweeps /\ i \in Nat
         /\ r.calls[i].op = "deleteByPrefix" /\ r.calls[i].key = Key(GroupSweeps[i - 1], <<g, "">>)
<1>1. i - 1 \in DOMAIN GroupSweeps /\ (i - 1) + 1 = i /\ i \in Nat
  BY SweepsNumbered DEF GroupShape
<1>2. r.calls[i] = SweepKind(GroupSweeps[i - 1], g)
  BY <1>1 DEF GroupShape
<1> QED
  BY <1>1, <1>2, SweepFields, Zenon

LEMMA GroupSweepsChildren ==
  ASSUME AllWellFormed, ChildrenOfTheHandlers, NEW g, NEW r \in Requests, r = DeleteGroup(g)
  PROVE  SweepsChildren(r)
<1>1. GroupShape(r, g)
  BY GroupFields, Zenon
<1> SUFFICES ASSUME NEW like \in BOOLEAN, NEW i \in DOMAIN r.calls, NEW k \in Keys, NEW p \in Parents(k),
                    Removes(like, r.calls[i], p)
             PROVE  \E j \in (i + 1)..Len(r.calls) : SweptLater(r, like, k, i + 1, j)
  BY DEF SweepsChildren
<1>2. <<k.kind, p.kind>> \in ParentKinds
  BY ChildOfParent, Zenon
<1>3. PICK a, b : p = Key(p.kind, <<a, b>>) /\ Len(k.path) > 2 /\ k.path[1] = a /\ k.path[2] = b
  BY ChildOfParent, Zenon
<1>4. p.path = <<a, b>> /\ Len(p.path) = 2 /\ p.path[1] = a
  BY <1>3 DEF Key
<1>5. i # 1
  <2>1. <<k.kind, p.kind>>[2] \in RootKinds
    BY <1>2, Zenon DEF RootKinds
  <2>2. "rg" \notin RootKinds
    BY DEF RootKinds, ParentKinds
  <2>3. i = 1 => p.kind = "rg"
    BY <1>1 DEF GroupShape, Removes, Key
  <2> QED
    BY <2>1, <2>2, <2>3
<1> DEFINE e == i - 1
<1>6. /\ e \in DOMAIN GroupSweeps /\ i \in Nat /\ i = e + 1
      /\ r.calls[i].op = "deleteByPrefix" /\ r.calls[i].key = Key(GroupSweeps[e], <<g, "">>)
  <2>1. /\ e \in DOMAIN GroupSweeps /\ i \in Nat
        /\ r.calls[i].op = "deleteByPrefix" /\ r.calls[i].key = Key(GroupSweeps[e], <<g, "">>)
    BY <1>1, <1>5, GroupCalls, Zenon
  <2>2. i \in Nat => i = e + 1
    OBVIOUS
  <2> HIDE DEF e
  <2> QED
    BY <2>1, <2>2
<1> HIDE DEF e
<1>7. /\ p.kind = GroupSweeps[e]
      /\ k.path[1] = g \/ (like /\ LikeName(k.path[1], g))
  <2>1. \/ HasPrefix(p, Key(GroupSweeps[e], <<g, "">>))
        \/ like /\ Like(p, Key(GroupSweeps[e], <<g, "">>))
    BY <1>6 DEF Removes
  <2>2. Len(p.path) \in Nat
    BY <1>4
  <2>3. \/ p.kind = GroupSweeps[e] /\ p.path[1] = g
        \/ p.kind = GroupSweeps[e] /\ like /\ LikeName(p.path[1], g)
    BY <2>1, <2>2, GroupPrefix, Zenon
  <2> QED
    BY <1>3, <1>4, <2>3, Zenon
<1>8. PICK x, y \in DOMAIN GroupSweeps : x < y /\ GroupSweeps[x] = p.kind /\ GroupSweeps[y] = k.kind
  <2> DEFINE q == <<k.kind, p.kind>>
  <2>1. q[2] # "queue:meta" /\ q[1] = k.kind /\ q[2] = p.kind
    BY <1>6, <1>7, ChildrenSweptAfter
  <2> HIDE DEF q
  <2>2. q \in ParentKinds
    BY <1>2 DEF q
  <2> QED
    BY <2>1, <2>2, ChildrenSweptAfter DEF SweptInOrder
<1>9. x = e
  BY <1>6, <1>7, <1>8, NoKindTwice
<1>10. /\ Len(GroupSweeps) \in Nat /\ y \in Nat /\ e \in Nat
       /\ Len(r.calls) \in Nat /\ DOMAIN r.calls = 1..Len(r.calls) /\ y + 1 \in DOMAIN r.calls
  <2>1. Len(r.calls) \in Nat /\ DOMAIN r.calls = 1..Len(r.calls)
    BY DEF AllWellFormed, WellFormed, Requests
  <2>2. y + 1 \in 1..(Len(GroupSweeps) + 1) /\ y \in Nat /\ e \in Nat /\ Len(GroupSweeps) \in Nat
    <3> DEFINE m == Len(GroupSweeps)
    <3>1. m \in Nat /\ y \in 1..m /\ e \in 1..m
      BY <1>6, <1>8, SweepsNumbered
    <3> HIDE DEF m
    <3>2. y + 1 \in 1..(m + 1) /\ y \in Nat /\ e \in Nat /\ m \in Nat
      BY <3>1
    <3> QED
      BY <3>2 DEF m
  <2> QED
    BY <1>1, <2>1, <2>2 DEF GroupShape
<1>m. e < y /\ i = e + 1 /\ i \in DOMAIN r.calls
  BY <1>6, <1>8, <1>9
<1> DEFINE last == Len(r.calls)
<1>l. last \in Nat /\ DOMAIN r.calls = 1..last
  BY <1>10
<1>11. y + 1 \in (i + 1)..last
  <2> HIDE DEF last
  <2> QED
    BY <1>m, <1>l, <1>10
<1>12. ASSUME NEW l \in (i + 1)..(y + 1) PROVE r.calls[l].op = "deleteByPrefix"
  <2>1. l \in DOMAIN r.calls /\ l # 1
    <3> HIDE DEF last
    <3> QED
      BY <1>m, <1>l, <1>10
  <2> QED
    BY <1>1, <2>1, GroupCalls
<1>13. Removes(like, r.calls[y + 1], k)
  <2>1. y + 1 # 1 /\ (y + 1) - 1 = y
    BY <1>8, <1>10, SweepsNumbered
  <2>2. /\ r.calls[y + 1].op = "deleteByPrefix"
        /\ r.calls[y + 1].key = Key(k.kind, <<g, "">>)
    BY <1>1, <1>8, <1>10, <2>1, GroupCalls
  <2>3. Len(k.path) \in Nat
    BY KeysHavePaths
  <2>4. Len(k.path) >= 2
    BY <1>3, <2>3
  <2>5. HasPrefix(k, Key(k.kind, <<g, "">>)) \/ (like /\ Like(k, Key(k.kind, <<g, "">>)))
    BY <1>7, <2>3, <2>4, GroupPrefix
  <2> QED
    BY <2>2, <2>5 DEF Removes
<1> QED
  BY <1>11, <1>12, <1>13 DEF SweptLater

(* No reset comes between the calls of a request that is served alone: it  *)
(* is the request of another client.                                       *)
ResetsApart == \A k \in Casts : k.atOnce = 1 => k.resets = 0

LEMMA HandlersTend ==
  AllWellFormed /\ ChildrenOfTheHandlers /\ ResetsApart => AllTended
<1> SUFFICES ASSUME AllWellFormed, ChildrenOfTheHandlers, ResetsApart,
                    NEW k \in Casts, k.atOnce = 1, NEW r \in k.requests
             PROVE  AsksParents(r) /\ SweepsChildren(r)
  BY DEF AllTended, ResetsApart
<1>1. r \in Requests /\ r \in ServedAlone /\ WellFormed(r)
  BY DEF Requests, ServedAlone, AllWellFormed
<1>2. AsksParents(r)
  <2>1. ASSUME NEW g, NEW n, NEW s, ChildPut(r, g, n, s) PROVE AsksParents(r)
    BY <1>1, <2>1, ChildPutAdopts, AdoptsAsks, Zenon
  <2>2. CASE StoresNoChild(r)
    BY <2>2, NoChildAsks
  <2>3. CASE StoresBelowParents(r)
    BY <2>3 DEF StoresBelowParents
  <2> QED
    BY <1>1, <2>1, <2>2, <2>3, Zenon DEF ChildrenOfTheHandlers
<1>3. SweepsChildren(r)
  <2>1. CASE RemovesNoParent(r)
    BY <2>1, NoParentSwept
  <2>2. ASSUME NEW g, NEW n, CascadingDelete(r, g, n) PROVE SweepsChildren(r)
    <3>1. \/ r = Cascade("vnet", "subnet", g, n) \/ r = Cascade("nsg", "nsgrule", g, n)
          \/ r = Cascade("dns:zone", "dns:record", g, n)
          \/ r = Cascade("sqldb:server", "sqldb:db", g, n)
          \/ r = Cascade("pgflex:server", "pgflex:db", g, n)
          \/ r = Cascade("dbmysql:server", "dbmysql:db", g, n)
          \/ r = Cascade("queue:meta", "queue:msg", g, n)
      BY <2>2, Zenon DEF CascadingDelete, Cascade, DeleteVNet, DeleteNSG, DeleteZone, DeleteSqlServer,
                         DeletePgServer, DeleteMySqlServer, DeleteQueue
    <3>2. /\ <<"subnet", "vnet">> \in ParentKinds /\ <<"nsgrule", "nsg">> \in ParentKinds
          /\ <<"dns:record", "dns:zone">> \in ParentKinds /\ <<"sqldb:db", "sqldb:server">> \in ParentKinds
          /\ <<"pgflex:db", "pgflex:server">> \in ParentKinds /\ <<"dbmysql:db", "dbmysql:server">> \in ParentKinds
          /\ <<"queue:msg", "queue:meta">> \in ParentKinds
      BY DEF ParentKinds
    <3> QED
      BY <3>1, <3>2, CascadeSweepsChildren, Zenon
  <2>3. ASSUME NEW g, r = DeleteGroup(g) PROVE SweepsChildren(r)
    BY <1>1, <2>3, GroupSweepsChildren, Zenon
  <2> QED
    BY <1>1, <2>1, <2>2, <2>3, Zenon DEF ChildrenOfTheHandlers
<1> QED
  BY <1>2, <1>3

-----------------------------------------------------------------------------
(* Induction over a list, and the calls of a template as one list after    *)
(* the other.                                                              *)

(* The natural numbers are well-founded.                                   *)
LEMMA LeastNumber ==
  ASSUME NEW T, T \subseteq Nat, T # {}
  PROVE  \E x \in T : \A y \in T : x <= y
<1> DEFINE less == OpToRel(<, Nat)
<1>1. \A y, x \in Nat : y < x => <<y, x>> \in less
  BY DEF OpToRel
<1>2. IsWellFoundedOn(less, Nat)
  BY NatLessThanWellFounded
<1> HIDE DEF less
<1>3. PICK x \in T : \A y \in T : <<y, x>> \notin less
  BY <1>2, WFMin, Zenon
<1>4. \A y \in T : x \in Nat /\ y \in Nat /\ ~(y < x)
  BY <1>1, <1>3
<1> QED
  BY <1>3, <1>4

(* The first n resources' calls, one after the other.                      *)
Chain(f, resources, n) ==
    f = [i \in 0..n |-> IF i = 0 THEN <<>> ELSE f[i - 1] \o resources[i].calls]

LEMMA ChainExists == ASSUME NEW resources, NEW n \in Nat PROVE \E f : Chain(f, resources, n)
<1> DEFINE T == {m \in Nat : ~ \E f : Chain(f, resources, m)}
<1>1. SUFFICES ASSUME T # {} PROVE FALSE
  OBVIOUS
<1>2. PICK m \in T : \A y \in T : m <= y
  BY <1>1, LeastNumber
<1>3. CASE m = 0
  <2>1. Chain([i \in 0..0 |-> <<>>], resources, 0)
    BY DEF Chain
  <2> QED
    BY <1>2, <1>3, <2>1
<1>4. CASE m # 0
  <2>1. m - 1 \in Nat /\ m - 1 \notin T
    BY <1>2, <1>4
  <2>2. PICK f : Chain(f, resources, m - 1)
    BY <2>1
  <2> DEFINE g == [i \in 0..m |-> IF i = m THEN f[m - 1] \o resources[m].calls ELSE f[i]]
  <2>3. Chain(g, resources, m)
    <3>1. /\ DOMAIN f = 0..(m - 1)
          /\ \A i \in 0..(m - 1) : f[i] = IF i = 0 THEN <<>> ELSE f[i - 1] \o resources[i].calls
      BY <2>1, <2>2 DEF Chain
    <3>2. ASSUME NEW i \in 0..m
          PROVE  g[i] = IF i = 0 THEN <<>> ELSE g[i - 1] \o resources[i].calls
      <4>1. i = m => i - 1 \in 0..(m - 1) /\ i - 1 # m /\ i # 0
        BY <1>4
      <4>2. i # m => i \in 0..(m - 1) /\ (i # 0 => i - 1 \in 0..(m - 1) /\ i - 1 # m)
        OBVIOUS
      <4>3. CASE i = m
        <5>1. m \in 0..m /\ m - 1 \in 0..m /\ m - 1 # m /\ m # 0
          BY <1>4
        <5>2. g[m] = f[m - 1] \o resources[m].calls /\ g[m - 1] = f[m - 1]
          BY <5>1, Zenon
        <5> QED
          BY <4>3, <5>1, <5>2, Zenon
      <4>4. CASE i # m
        BY <3>1, <4>2, <4>4
      <4> QED
        BY <4>3, <4>4
    <3> QED
      BY <3>2, Zenon DEF Chain
  <2> QED
    BY <1>2, <2>3
<1> QED
  BY <1>3, <1>4

LEMMA CallsOfChain ==
  ASSUME NEW resources, Len(resources) \in Nat
  PROVE  \E f : Chain(f, resources, Len(resources)) /\ CallsOf(resources) = f[Len(resources)]
<1> DEFINE first == CHOOSE f : Chain(f, resources, Len(resources))
<1>1. Chain(first, resources, Len(resources))
  BY ChainExists
<1>2. CallsOf(resources) = first[Len(resources)]
  BY DEF CallsOf, Chain
<1> QED
  BY <1>1, <1>2

-----------------------------------------------------------------------------
(* What is asked of one request (Sound), and of the requests of which it is*)
(* easily seen (Simple).                                                   *)

Deep(k) ==
    /\ k.kind \in KindsWithList => Len(k.path) = 2
    /\ k.kind = "blob:blob" => Len(k.path) = 3

(* A call that stores no child and no address, sweeps nothing, and deletes *)
(* at most what the request is about, which has no children.               *)
SimpleCall(method, target, call) ==
    /\ call.skip \in Nat /\ Len(call.key.path) \in Nat /\ ~UsesList(call)
    /\ call.op # "deleteByPrefix"
    /\ call.op \in {"set", "setSame"} =>
          call.key.kind \notin ChildKinds \union {"publicip"} /\ Deep(call.key)
    /\ call.op \in {"delete", "drop"} =>
          /\ method = "DELETE" /\ call.key.kind \notin RootKinds
          /\ call.key = target \/ SameName(call.key, target)

Simple(r) ==
    /\ Len(r.calls) \in Nat /\ DOMAIN r.calls = 1..Len(r.calls)
    /\ r.cleanup = Len(r.calls) + 1
    /\ \A i \in DOMAIN r.calls :
          SimpleCall(r.method, r.target, r.calls[i]) /\ i + r.calls[i].skip <= Len(r.calls)
    /\ r.method = "DELETE" => r.target.kind \notin SweepingKinds
    /\ r.method = "PUT" => r.target.kind # "deployment"

(* What a key in the store is like.                                        *)
Storable(k) ==
    /\ Deep(k)
    /\ k.kind \in ChildKinds => \E parent, g, n : ChildOf(k, parent, g, n)

Sound(r) ==
    /\ WellFormed(r) /\ (AllWellFormed => WellAimed(r)) /\ WellAddressed(r) /\ AsksParents(r)
    /\ \A k \in Written(r) : Storable(k)
    /\ r.method = "DELETE" /\ r.target.kind \in SweepingKinds => SweepingDelete(r)
    /\ \/ RemovesNoParent(r)
       \/ \E g, n : CascadingDelete(r, g, n)
       \/ \E g : r = DeleteGroup(g)
    /\ IsDeployment(r) => Recorded(r)

LEMMA SimpleIsSound == ASSUME NEW r, Simple(r) PROVE Sound(r)
<1>1. WellFormed(r)
  BY DEF Simple, SimpleCall, WellFormed
<1>2. WellAimed(r)
  BY DEF Simple, SimpleCall, WellAimed, Aimed
<1>3. StoresNoAddress(r)
  BY DEF Simple, SimpleCall, StoresNoAddress
<1>4. StoresNoChild(r)
  BY DEF Simple, SimpleCall, StoresNoChild
<1>5. \A k \in Written(r) : Storable(k)
  BY DEF Simple, SimpleCall, Written, Storable
<1>6. RemovesNoParent(r)
  BY DEF Simple, SimpleCall, RemovesNoParent
<1>7. ~IsDeployment(r) /\ (r.method = "DELETE" => r.target.kind \notin SweepingKinds)
  BY DEF Simple, IsDeployment
<1> QED
  BY <1>1, <1>2, <1>3, <1>4, <1>5, <1>6, <1>7, NoPublicIPAddressed, NoChildAsks DEF Sound

Fits(kind, path) ==
    kind \notin ChildKinds \union {"publicip"} /\ Deep(Key(kind, path))

LEMMA SimpleCalls ==
  ASSUME NEW method, NEW target, NEW kind, NEW path, Len(path) \in Nat
  PROVE  /\ SimpleCall(method, target, Get(kind, path)) /\ SimpleCall(method, target, Look(kind, path))
         /\ SimpleCall(method, target, Absent(kind, path)) /\ SimpleCall(method, target, ListByPrefix(kind, path))
         /\ SimpleCall(method, target, ListTyped(kind, path)) /\ SimpleCall(method, target, MayFail)
         /\ SimpleCall(method, target, Typed)
         /\ Fits(kind, path) => SimpleCall(method, target, Set(kind, path))
         /\ Fits(kind, path) /\ kind \notin KindsWithList => SimpleCall(method, target, SetSame(kind, path))
         /\ method = "DELETE" /\ kind \notin RootKinds /\ target = Key(kind, path) =>
              SimpleCall(method, target, Delete(kind, path)) /\ SimpleCall(method, target, Drop(kind, path))
         /\ \A skip \in Nat : SimpleCall(method, target, GetOrSkip(kind, path, skip))
<1>1. /\ SimpleCall(method, target, Get(kind, path)) /\ SimpleCall(method, target, Look(kind, path))
      /\ SimpleCall(method, target, Absent(kind, path)) /\ SimpleCall(method, target, ListByPrefix(kind, path))
      /\ SimpleCall(method, target, ListTyped(kind, path))
      /\ \A skip \in Nat : SimpleCall(method, target, GetOrSkip(kind, path, skip))
  BY DEF SimpleCall, UsesList, Get, Look, Absent, ListByPrefix, ListTyped, GetOrSkip, Call, Key
<1>2. SimpleCall(method, target, MayFail) /\ SimpleCall(method, target, Typed)
  BY DEF SimpleCall, UsesList, MayFail, Typed, Call, Key
<1>3. Fits(kind, path) => SimpleCall(method, target, Set(kind, path))
  BY DEF SimpleCall, UsesList, Fits, Set, Call, Key
<1>4. Fits(kind, path) /\ kind \notin KindsWithList => SimpleCall(method, target, SetSame(kind, path))
  BY DEF SimpleCall, UsesList, Fits, SetSame, Call, Key
<1>5. method = "DELETE" /\ kind \notin RootKinds /\ target = Key(kind, path) =>
              SimpleCall(method, target, Delete(kind, path)) /\ SimpleCall(method, target, Drop(kind, path))
  BY DEF SimpleCall, UsesList, Delete, Drop, Call, Key
<1> QED
  BY <1>1, <1>2, <1>3, <1>4, <1>5

-----------------------------------------------------------------------------
(* PUTs of a record that nothing stands above or below.                    *)

(* The calls of a simple request.                                          *)
SimpleList(method, target, calls) ==
    /\ Len(calls) \in Nat /\ DOMAIN calls = 1..Len(calls)
    /\ \A i \in DOMAIN calls :
          SimpleCall(method, target, calls[i]) /\ i + calls[i].skip <= Len(calls)

LEMMA SimpleLists ==
  ASSUME NEW method, NEW target, NEW x, NEW y, NEW z, NEW w,
         SimpleCall(method, target, x) /\ x.skip = 0
  PROVE  /\ SimpleList(method, target, <<x>>)
         /\ SimpleCall(method, target, y) /\ y.skip = 0 =>
              /\ SimpleList(method, target, <<x, y>>)
              /\ SimpleCall(method, target, z) /\ z.skip = 0 => SimpleList(method, target, <<x, y, z>>)
BY DEF SimpleList

LEMMA SimpleRequest ==
  ASSUME NEW method, NEW kind, NEW path, NEW calls, SimpleList(method, Key(kind, path), calls),
         method = "DELETE" => kind \notin SweepingKinds,
         method = "PUT" => kind # "deployment"
  PROVE  Simple(Request(method, kind, path, calls))
BY DEF SimpleList, Simple, Request, Key

LEMMA NoSkips ==
  ASSUME NEW kind, NEW path
  PROVE  /\ Get(kind, path).skip = 0 /\ Look(kind, path).skip = 0 /\ Absent(kind, path).skip = 0
         /\ ListByPrefix(kind, path).skip = 0 /\ ListTyped(kind, path).skip = 0 /\ MayFail.skip = 0
         /\ Typed.skip = 0 /\ Set(kind, path).skip = 0 /\ SetSame(kind, path).skip = 0
         /\ Delete(kind, path).skip = 0 /\ Drop(kind, path).skip = 0 /\ DeleteByPrefix(kind, path).skip = 0
         /\ Address.skip = 0 /\ Assign.skip = 0 /\ Encode.skip = 0
BY DEF Get, Look, Absent, ListByPrefix, ListTyped, MayFail, Typed, Set, SetSame, Delete, Drop, DeleteByPrefix,
       Address, Assign, Encode, Call

LEMMA SimplePuts ==
  ASSUME NEW kind, NEW path, Len(path) \in Nat, Fits(kind, path), kind # "deployment"
  PROVE  Simple(PutPlain(kind, path)) /\ Simple(PutBlind(kind, path))
<1> DEFINE key == Key(kind, path)
           look == Look(kind, path)
           set == Set(kind, path)
<1>1. /\ SimpleCall("PUT", key, look) /\ look.skip = 0
      /\ SimpleCall("PUT", key, set) /\ set.skip = 0
  BY SimpleCalls, NoSkips
<1> HIDE DEF look, set
<1>2. SimpleList("PUT", key, <<look, set>>) /\ SimpleList("PUT", key, <<set>>)
  BY <1>1, SimpleLists, Zenon
<1> QED
  BY <1>2, SimpleRequest DEF PutPlain, PutBlind, look, set

LEMMA SimpleDeletes ==
  ASSUME NEW kind, NEW path, Len(path) \in Nat, kind \notin RootKinds \union SweepingKinds
  PROVE  Simple(DeletePlain(kind, path)) /\ Simple(DeleteBlind(kind, path))
<1> DEFINE key == Key(kind, path)
           delete == Delete(kind, path)
           drop == Drop(kind, path)
<1>1. /\ SimpleCall("DELETE", key, delete) /\ delete.skip = 0
      /\ SimpleCall("DELETE", key, drop) /\ drop.skip = 0
  BY SimpleCalls, NoSkips
<1> HIDE DEF delete, drop
<1>2. SimpleList("DELETE", key, <<delete>>) /\ SimpleList("DELETE", key, <<drop>>)
  BY <1>1, SimpleLists, Zenon
<1> QED
  BY <1>2, SimpleRequest DEF DeletePlain, DeleteBlind, delete, drop

LEMMA SimplePatches ==
  ASSUME NEW kind, NEW path, Len(path) \in Nat, Fits(kind, path), kind \notin KindsWithList
  PROVE  Simple(Patch(kind, path))
<1> DEFINE key == Key(kind, path)
           get == Get(kind, path)
           set == SetSame(kind, path)
<1>1. /\ SimpleCall("PATCH", key, get) /\ get.skip = 0
      /\ SimpleCall("PATCH", key, set) /\ set.skip = 0
  BY SimpleCalls, NoSkips
<1> HIDE DEF get, set
<1>2. SimpleList("PATCH", key, <<get, set>>)
  BY <1>1, SimpleLists, Zenon
<1> QED
  BY <1>2, SimpleRequest DEF Patch, get, set

LEMMA SimpleSettings ==
  ASSUME NEW kind, NEW g, NEW n, Fits(kind, <<g, n>>), kind # "deployment"
  PROVE  Simple(UpdateSetting(kind, g, n))
<1> DEFINE key == Key(kind, <<g, n>>)
           get == Get("func", <<g, n>>)
           set == Set(kind, <<g, n>>)
<1>1. /\ SimpleCall("PUT", key, get) /\ get.skip = 0
      /\ SimpleCall("PUT", key, set) /\ set.skip = 0
  BY SimpleCalls, NoSkips
<1> HIDE DEF get, set
<1>2. SimpleList("PUT", key, <<get, set>>)
  BY <1>1, SimpleLists, Zenon
<1> QED
  BY <1>2, SimpleRequest DEF UpdateSetting, get, set
-----------------------------------------------------------------------------
(* PUTs that look and store, or only store.                                *)
PlainPuts(g, n, s, t) ==
    {PutVNet(g, n), PutLoadBalancer(g, n), PutBackendAddressPool(g, n, s), PutProbe(g, n, s),
     PutLoadBalancingRule(g, n, s), PutAppGateway(g, n), PutSqlServer(g, n), PutPgServer(g, n),
     PutMySqlServer(g, n), PutCosmosAccount(g, n), PutCosmosDatabase(g, n, s),
     PutCosmosContainer(g, n, s, t), PutConfigStore(g, n), PutRegistry(g, n), PutEventTopic(g, n),
     PutNamespace(g, n), PutArmQueue(g, n, s), PutArmTopic(g, n, s), PutContainerApp(g, n),
     PutJob(g, n), PutManagedEnvironment(g, n), PutServerFarm(g, n), PutSlot(g, n, s), PutGroup(g)}
BlindPuts(g, n, s, t) ==
    {ReplaceDocument(g, n, s, t), PutArmContainer(g, n, s), UpsertEntity(g, n, s, t),
     SetSecret(g, n), SetKeyValue(g, n)}

LEMMA PlainPutsSimple ==
  ASSUME NEW g, NEW n, NEW s, NEW t,
         NEW r \in PlainPuts(g, n, s, t) \union BlindPuts(g, n, s, t)
  PROVE  Simple(r)
<1> DEFINE Good(kind, path) == Simple(PutPlain(kind, path)) /\ Simple(PutBlind(kind, path))
<1>1. ASSUME NEW kind, NEW path, Len(path) \in Nat, kind # "deployment",
             kind \notin {"subnet", "nsgrule", "dns:record", "sqldb:db", "pgflex:db", "dbmysql:db",
                          "queue:msg", "publicip", "nsg", "blob:blob"},
             kind = "vnet" => Len(path) = 2
      PROVE  Good(kind, path)
  <2>1. Fits(kind, path)
    BY <1>1 DEF Fits, Deep, Key, ChildKinds, ParentKinds, KindsWithList
  <2> QED
    BY <1>1, <2>1, SimplePuts
<1> HIDE DEF Good
<1>2. /\ Good("vnet", <<g, n>>) /\ Good("lb", <<g, n>>) /\ Good("lb:bap", <<g, n, s>>)
      /\ Good("lb:probe", <<g, n, s>>) /\ Good("lb:rule", <<g, n, s>>) /\ Good("appgw", <<g, n>>)
      /\ Good("sqldb:server", <<g, n>>) /\ Good("pgflex:server", <<g, n>>)
      /\ Good("dbmysql:server", <<g, n>>) /\ Good("cosmos:account", <<g, n>>)
      /\ Good("cosmos:sqldb", <<g, n, s>>) /\ Good("cosmos:container", <<g, n, s, t>>)
  BY <1>1
<1>3. /\ Good("appconfig:store", <<g, n>>) /\ Good("acr:registry", <<g, n>>)
      /\ Good("eg:topic", <<g, n>>) /\ Good("sb:namespace", <<g, n>>)
      /\ Good("sb:armqueue", <<g, n, s>>) /\ Good("sb:armtopic", <<g, n, s>>)
      /\ Good("containerapp", <<g, n>>) /\ Good("containerjob", <<g, n>>)
      /\ Good("managedenv", <<g, n>>) /\ Good("serverfarm", <<g, n>>) /\ Good("slot", <<g, n, s>>)
      /\ Good("rg", <<g>>)
  BY <1>1
<1>4. /\ Good("cosmos", <<g, n, s, t>>) /\ Good("blob:armcontainer", <<g, n, s>>)
      /\ Good("table", <<g, n, s, t>>) /\ Good("kv", <<g, n>>) /\ Good("appconfig", <<g, n>>)
  BY <1>1
<1>5. CASE r \in PlainPuts(g, n, s, t)
  BY <1>2, <1>3, <1>5 DEF Good, PlainPuts, PutVNet, PutLoadBalancer, PutBackendAddressPool, PutProbe,
       PutLoadBalancingRule, PutAppGateway, PutSqlServer, PutPgServer, PutMySqlServer, PutCosmosAccount,
       PutCosmosDatabase, PutCosmosContainer, PutConfigStore, PutRegistry, PutEventTopic, PutNamespace,
       PutArmQueue, PutArmTopic, PutContainerApp, PutJob, PutManagedEnvironment, PutServerFarm, PutSlot, PutGroup
<1>6. CASE r \in BlindPuts(g, n, s, t)
  BY <1>4, <1>6 DEF Good, BlindPuts, ReplaceDocument, PutArmContainer, UpsertEntity, SetSecret, SetKeyValue
<1> QED
  BY <1>5, <1>6

-----------------------------------------------------------------------------
(* Deletes of one record, changes in place, and the other simple PUTs.     *)

(* DELETEs of a record that nothing is said to go with, and requests that  *)
(* change a record in place.                                               *)
PlainDeletes(g, n, s, t) ==
    {DeleteRule(g, n, s), DeleteRecordSet(g, n, s, t), DeleteLoadBalancer(g, n),
     DeleteBackendAddressPool(g, n, s), DeleteProbe(g, n, s), DeleteLoadBalancingRule(g, n, s),
     DeleteAppGateway(g, n), DeletePublicIP(g, n), DeleteSqlDatabase(g, n, s),
     DeletePgDatabase(g, n, s), DeleteMySqlDatabase(g, n, s), DeleteCache(g, n),
     DeleteCosmosAccount(g, n), DeleteCosmosDatabase(g, n, s), DeleteCosmosContainer(g, n, s, t),
     DeleteArmContainer(g, n, s), DeleteConfigStore(g, n), DeleteRegistry(g, n),
     DeleteEventTopic(g, n), DeleteArmQueue(g, n, s), DeleteArmTopic(g, n, s),
     DeleteContainerApp(g, n), DeleteJob(g, n), DeleteManagedEnvironment(g, n),
     DeleteServerFarm(g, n), DeleteSite(g, n), DeleteSlot(g, n, s), DeleteIdentity(g, n),
     DeleteDeployment(g, n)}
BlindDeletes(g, n, s, t) ==
    {DeleteDocument(g, n, s, t), DeleteEntity(g, n, s, t), DeleteSecret(g, n), DeleteKeyValue(g, n)}
Patches(g, n) ==
    {StartContainerApp(g, n), StopContainerApp(g, n), UpdateContainerApp(g, n), StartJob(g, n),
     StopJob(g, n), UpdateJob(g, n), StopExecution(g, n), StopMultipleExecutions(g, n),
     UpdateConfig(g, n), UpdateAppSettings(g, n)}
Settings(g, n) ==
    {UpdateBasicPublishing(g, n), UpdateScmAllowed(g, n), UpdateFtpAllowed(g, n),
     UpdateAuthSettings(g, n), UpdateBackupSettings(g, n), UpdateLogsSettings(g, n),
     UpdateSlotConfigNames(g, n), UpdateMetadata(g, n), UpdatePushSettings(g, n),
     UpdateAuthSettingsV2(g, n)}

LEMMA PlainDeletesSimple ==
  ASSUME NEW g, NEW n, NEW s, NEW t,
         NEW r \in PlainDeletes(g, n, s, t) \union BlindDeletes(g, n, s, t)
  PROVE  Simple(r)
<1> DEFINE Good(kind, path) == Simple(DeletePlain(kind, path)) /\ Simple(DeleteBlind(kind, path))
<1>1. ASSUME NEW kind, NEW path, Len(path) \in Nat,
             kind \notin {"vnet", "nsg", "dns:zone", "sqldb:server", "pgflex:server", "dbmysql:server",
                          "queue:meta", "rg", "blob:container"}
      PROVE  Good(kind, path)
  <2>1. kind \notin RootKinds \union SweepingKinds
    BY <1>1 DEF RootKinds, SweepingKinds, ParentKinds
  <2> QED
    BY <1>1, <2>1, SimpleDeletes
<1> HIDE DEF Good
<1>2. /\ Good("nsgrule", <<g, n, s>>) /\ Good("dns:record", <<g, n, s, t>>) /\ Good("lb", <<g, n>>)
      /\ Good("lb:bap", <<g, n, s>>) /\ Good("lb:probe", <<g, n, s>>) /\ Good("lb:rule", <<g, n, s>>)
      /\ Good("appgw", <<g, n>>) /\ Good("publicip", <<g, n>>) /\ Good("sqldb:db", <<g, n, s>>)
      /\ Good("pgflex:db", <<g, n, s>>) /\ Good("dbmysql:db", <<g, n, s>>) /\ Good("redis", <<g, n>>)
      /\ Good("cosmos:account", <<g, n>>) /\ Good("cosmos:sqldb", <<g, n, s>>)
      /\ Good("cosmos:container", <<g, n, s, t>>)
  BY <1>1
<1>3. /\ Good("blob:armcontainer", <<g, n, s>>) /\ Good("appconfig:store", <<g, n>>)
      /\ Good("acr:registry", <<g, n>>) /\ Good("eg:topic", <<g, n>>) /\ Good("sb:armqueue", <<g, n, s>>)
      /\ Good("sb:armtopic", <<g, n, s>>) /\ Good("containerapp", <<g, n>>)
      /\ Good("containerjob", <<g, n>>) /\ Good("managedenv", <<g, n>>) /\ Good("serverfarm", <<g, n>>)
      /\ Good("func", <<g, n>>) /\ Good("slot", <<g, n, s>>) /\ Good("msi:identity", <<g, n>>)
      /\ Good("deployment", <<g, n>>)
  BY <1>1
<1>4. /\ Good("cosmos", <<g, n, s, t>>) /\ Good("table", <<g, n, s, t>>) /\ Good("kv", <<g, n>>)
      /\ Good("appconfig", <<g, n>>)
  BY <1>1
<1>5. CASE r \in PlainDeletes(g, n, s, t)
  BY <1>2, <1>3, <1>5 DEF Good, PlainDeletes, DeleteRule, DeleteRecordSet, DeleteLoadBalancer,
       DeleteBackendAddressPool, DeleteProbe, DeleteLoadBalancingRule, DeleteAppGateway, DeletePublicIP,
       DeleteSqlDatabase, DeletePgDatabase, DeleteMySqlDatabase, DeleteCache, DeleteCosmosAccount,
       DeleteCosmosDatabase, DeleteCosmosContainer, DeleteArmContainer, DeleteConfigStore, DeleteRegistry,
       DeleteEventTopic, DeleteArmQueue, DeleteArmTopic, DeleteContainerApp, DeleteJob,
       DeleteManagedEnvironment, DeleteServerFarm, DeleteSite, DeleteSlot, DeleteIdentity, DeleteDeployment
<1>6. CASE r \in BlindDeletes(g, n, s, t)
  BY <1>4, <1>6 DEF Good, BlindDeletes, DeleteDocument, DeleteEntity, DeleteSecret, DeleteKeyValue
<1> QED
  BY <1>5, <1>6

LEMMA PatchesSimple == ASSUME NEW g, NEW n, NEW r \in Patches(g, n) PROVE Simple(r)
<1>1. ASSUME NEW kind \in {"containerapp", "containerjob", "func"}
      PROVE  Simple(Patch(kind, <<g, n>>))
  <2>1. Fits(kind, <<g, n>>) /\ kind \notin KindsWithList
    BY DEF Fits, Deep, Key, ChildKinds, ParentKinds, KindsWithList
  <2> QED
    BY <2>1, SimplePatches
<1> QED
  BY <1>1 DEF Patches, StartContainerApp, StopContainerApp, UpdateContainerApp, StartJob, StopJob, UpdateJob,
              StopExecution, StopMultipleExecutions, UpdateConfig, UpdateAppSettings

LEMMA SettingsSimple == ASSUME NEW g, NEW n, NEW r \in Settings(g, n) PROVE Simple(r)
<1>1. ASSUME NEW kind \in {"webapp:basicpublishingcredentialspolicies", "webapp:scmallowed",
                           "webapp:ftpassigned", "webapp:auth", "webapp:backup", "webapp:logs",
                           "webapp:slotconfignames", "webapp:metadata", "webapp:pushsettings", "webapp:authv2"}
      PROVE  Simple(UpdateSetting(kind, g, n))
  <2>1. Fits(kind, <<g, n>>) /\ kind # "deployment"
    BY DEF Fits, Deep, Key, ChildKinds, ParentKinds, KindsWithList
  <2> QED
    BY <2>1, SimpleSettings
<1> QED
  BY <1>1 DEF Settings, UpdateBasicPublishing, UpdateScmAllowed, UpdateFtpAllowed, UpdateAuthSettings,
              UpdateBackupSettings, UpdateLogsSettings, UpdateSlotConfigNames, UpdateMetadata,
              UpdatePushSettings, UpdateAuthSettingsV2
-----------------------------------------------------------------------------
(* The other simple requests.                                              *)
OtherPuts(g, n) ==
    {PutNSG(g, n), PutCache(g, n), PutStorageAccount(g, n), PutSite(g, n), PutIdentity(g, n),
     CreateQueue(g, n), CreateContainerAppSecrets(g, n), PatchGroup(g)}

LEMMA OneAndOne == ASSUME NEW g, NEW n PROVE Len(<<g>> \o <<n>>) = 2
<1> DEFINE S == {g, n}
           p == <<g>>
           q == <<n>>
<1>1. p \in Seq(S) /\ q \in Seq(S) /\ Len(p) = 1 /\ Len(q) = 1
  OBVIOUS
<1> HIDE DEF S, p, q
<1>2. Len(p \o q) = Len(p) + Len(q)
  BY <1>1, ConcatProperties, Zenon
<1>3. Len(p \o q) = 1 + 1
  BY <1>1, <1>2
<1> QED
  BY <1>3 DEF p, q

LEMMA OtherPutsSimple == ASSUME NEW g, NEW n, NEW r \in OtherPuts(g, n) PROVE Simple(r)
<1>c. ASSUME NEW method, NEW target, NEW kind, NEW path, Len(path) \in Nat
      PROVE  /\ SimpleCall(method, target, Get(kind, path)) /\ SimpleCall(method, target, Look(kind, path))
             /\ SimpleCall(method, target, Absent(kind, path)) /\ SimpleCall(method, target, ListByPrefix(kind, path))
             /\ SimpleCall(method, target, MayFail) /\ SimpleCall(method, target, Typed)
             /\ Fits(kind, path) => SimpleCall(method, target, Set(kind, path))
             /\ Fits(kind, path) /\ kind \notin KindsWithList => SimpleCall(method, target, SetSame(kind, path))
  BY <1>c, SimpleCalls
<1>l. /\ Len(<<g>>) \in Nat /\ Len(<<n>>) \in Nat /\ Len(<<g, n>>) \in Nat
      /\ Len(<<g, n, "">>) \in Nat /\ Len(<<g>> \o <<n>>) \in Nat
  BY OneAndOne
<1>f. /\ Fits("nsg", <<g, n>>) /\ Fits("redis", <<g, n>>) /\ Fits("blob:account", <<g, n>>)
      /\ Fits("blob:sharedkeyctx", <<n>>) /\ Fits("func", <<g, n>>) /\ Fits("func", <<n>>)
      /\ Fits("msi:identity", <<g>> \o <<n>>) /\ Fits("queue:meta", <<g, n>>)
      /\ Fits("containerapp", <<g, n>>) /\ Fits("rg", <<g>>)
  BY DEF Fits, Deep, Key, ChildKinds, ParentKinds, KindsWithList
<1>w. "containerapp" \notin KindsWithList /\ "rg" \notin KindsWithList
  BY DEF KindsWithList
<1>1. CASE r = PutNSG(g, n)
  <2> DEFINE x == Look("nsg", <<g, n>>)
             y == ListByPrefix("nsgrule", <<g, n, "">>)
             z == Set("nsg", <<g, n>>)
             key == Key("nsg", <<g, n>>)
  <2>1. /\ SimpleCall("PUT", key, x) /\ SimpleCall("PUT", key, y) /\ SimpleCall("PUT", key, z)
        /\ x.skip = 0 /\ y.skip = 0 /\ z.skip = 0
    BY <1>c, <1>l, <1>f, NoSkips
  <2> HIDE DEF x, y, z
  <2>2. SimpleList("PUT", key, <<x, y, z>>)
    BY <2>1, SimpleLists, Zenon
  <2> QED
    BY <1>1, <2>2, SimpleRequest DEF PutNSG, x, y, z
<1>2. CASE r = PutCache(g, n)
  <2> DEFINE y == Look("redis", <<g, n>>)
             z == Set("redis", <<g, n>>)
             key == Key("redis", <<g, n>>)
  <2>1. /\ SimpleCall("PUT", key, MayFail) /\ SimpleCall("PUT", key, y) /\ SimpleCall("PUT", key, z)
        /\ MayFail.skip = 0 /\ y.skip = 0 /\ z.skip = 0
    BY <1>c, <1>l, <1>f, NoSkips
  <2> HIDE DEF y, z
  <2>2. SimpleList("PUT", key, <<MayFail, y, z>>)
    BY <2>1, SimpleLists, Zenon
  <2> QED
    BY <1>2, <2>2, SimpleRequest DEF PutCache, y, z
<1>3. CASE r = PutStorageAccount(g, n)
  <2> DEFINE y == Set("blob:account", <<g, n>>)
             z == Set("blob:sharedkeyctx", <<n>>)
             key == Key("blob:account", <<g, n>>)
  <2>1. SimpleCall("PUT", key, y) /\ SimpleCall("PUT", key, z) /\ y.skip = 0 /\ z.skip = 0
    BY <1>c, <1>l, <1>f, NoSkips
  <2> HIDE DEF y, z
  <2>2. SimpleList("PUT", key, <<y, z>>)
    BY <2>1, SimpleLists, Zenon
  <2> QED
    BY <1>3, <2>2, SimpleRequest DEF PutStorageAccount, y, z
<1>4. CASE r = PutSite(g, n)
  <2> DEFINE x == Look("func", <<g, n>>)
             y == Set("func", <<g, n>>)
             z == Set("func", <<n>>)
             key == Key("func", <<g, n>>)
  <2>1. /\ SimpleCall("PUT", key, x) /\ SimpleCall("PUT", key, y) /\ SimpleCall("PUT", key, z)
        /\ x.skip = 0 /\ y.skip = 0 /\ z.skip = 0
    BY <1>c, <1>l, <1>f, NoSkips
  <2> HIDE DEF x, y, z
  <2>2. SimpleList("PUT", key, <<x, y, z>>)
    BY <2>1, SimpleLists, Zenon
  <2> QED
    BY <1>4, <2>2, SimpleRequest DEF PutSite, x, y, z
<1>5. CASE r = PutIdentity(g, n)
  <2> DEFINE path == <<g>> \o <<n>>
             x == Get("rg", <<g>>)
             y == Look("msi:identity", path)
             z == Set("msi:identity", path)
             key == Key("msi:identity", path)
  <2>1. /\ SimpleCall("PUT", key, x) /\ SimpleCall("PUT", key, y) /\ SimpleCall("PUT", key, z)
        /\ x.skip = 0 /\ y.skip = 0 /\ z.skip = 0
    BY <1>c, <1>l, <1>f, NoSkips
  <2>d. r = Request("PUT", "msi:identity", path, <<x, y, z>>)
    BY <1>5 DEF PutIdentity, PutChild
  <2> HIDE DEF x, y, z
  <2>2. SimpleList("PUT", key, <<x, y, z>>)
    BY <2>1, SimpleLists, Zenon
  <2> HIDE DEF path
  <2> QED
    BY <2>d, <2>2, SimpleRequest
<1>6. CASE r = CreateQueue(g, n)
  <2> DEFINE y == Absent("queue:meta", <<g, n>>)
             z == Set("queue:meta", <<g, n>>)
             key == Key("queue:meta", <<g, n>>)
  <2>1. SimpleCall("PUT", key, y) /\ SimpleCall("PUT", key, z) /\ y.skip = 0 /\ z.skip = 0
    BY <1>c, <1>l, <1>f, NoSkips
  <2> HIDE DEF y, z
  <2>2. SimpleList("PUT", key, <<y, z>>)
    BY <2>1, SimpleLists, Zenon
  <2> QED
    BY <1>6, <2>2, SimpleRequest DEF CreateQueue, y, z
<1>7. CASE r = CreateContainerAppSecrets(g, n)
  <2> DEFINE x == Get("containerapp", <<g, n>>)
             z == SetSame("containerapp", <<g, n>>)
             key == Key("containerapp", <<g, n>>)
  <2>1. SimpleCall("POST", key, x) /\ SimpleCall("POST", key, z) /\ x.skip = 0 /\ z.skip = 0
    BY <1>c, <1>l, <1>f, <1>w, NoSkips
  <2> HIDE DEF x, z
  <2>2. SimpleList("POST", key, <<x, x, z>>)
    BY <2>1, SimpleLists, Zenon
  <2> QED
    BY <1>7, <2>2, SimpleRequest DEF CreateContainerAppSecrets, x, z
<1>8. CASE r = PatchGroup(g)
  <2> DEFINE x == Get("rg", <<g>>)
             z == SetSame("rg", <<g>>)
             key == Key("rg", <<g>>)
  <2>1. /\ SimpleCall("PATCH", key, x) /\ SimpleCall("PATCH", key, Typed) /\ SimpleCall("PATCH", key, z)
        /\ x.skip = 0 /\ Typed.skip = 0 /\ z.skip = 0
    BY <1>c, <1>l, <1>f, <1>w, NoSkips
  <2> HIDE DEF x, z
  <2>2. SimpleList("PATCH", key, <<x, Typed, z>>)
    BY <2>1, SimpleLists, Zenon
  <2> QED
    BY <1>8, <2>2, SimpleRequest DEF PatchGroup, x, z
<1> QED
  BY <1>1, <1>2, <1>3, <1>4, <1>5, <1>6, <1>7, <1>8 DEF OtherPuts

-----------------------------------------------------------------------------
(* Requests about blobs and documents, sites with their settings, and the  *)
(* simple GETs.                                                            *)

(* Calls one after the other.                                              *)
LEMMA Joined ==
  ASSUME NEW S, NEW p \in Seq(S), NEW q \in Seq(S), NEW calls, calls = p \o q
  PROVE  /\ calls \in Seq(S) /\ Len(calls) = Len(p) + Len(q) /\ DOMAIN calls = 1..(Len(p) + Len(q))
         /\ \A i \in 1..Len(p) : calls[i] = p[i]
         /\ \A i \in 1..Len(q) : calls[Len(p) + i] = q[i]
<1>1. Len(p) \in Nat /\ Len(q) \in Nat
  OBVIOUS
<1>2. /\ calls \in Seq(S) /\ Len(calls) = Len(p) + Len(q)
      /\ \A i \in 1..(Len(p) + Len(q)) : calls[i] = IF i <= Len(p) THEN p[i] ELSE q[i - Len(p)]
  BY ConcatProperties, Zenon
<1>3. DOMAIN calls = 1..(Len(p) + Len(q))
  BY <1>2
<1> QED
  BY <1>1, <1>2, <1>3

(* A signature may be asked for first.                                     *)
LEMMA SignedCalls ==
  ASSUME NEW w, NEW x, NEW y, NEW z, NEW one, NEW two,
         one = <<w, x>> \o <<y>>, two = <<w, x>> \o <<y, z>>
  PROVE  /\ Len(one) = 3 /\ DOMAIN one = 1..3 /\ one[1] = w /\ one[2] = x /\ one[3] = y
         /\ Len(two) = 4 /\ DOMAIN two = 1..4 /\ two[1] = w /\ two[2] = x /\ two[3] = y /\ two[4] = z
<1> DEFINE Values == {w, x, y, z}
           p == <<w, x>>
           q == <<y>>
           s == <<y, z>>
<1>1. /\ p \in Seq(Values) /\ Len(p) = 2 /\ p[1] = w /\ p[2] = x
      /\ q \in Seq(Values) /\ Len(q) = 1 /\ q[1] = y
      /\ s \in Seq(Values) /\ Len(s) = 2 /\ s[1] = y /\ s[2] = z
  OBVIOUS
<1>2. one = p \o q /\ two = p \o s
  OBVIOUS
<1> HIDE DEF p, q, s, Values
<1>3. /\ Len(one) = 2 + 1 /\ DOMAIN one = 1..(2 + 1)
      /\ \A i \in 1..2 : one[i] = p[i]
      /\ \A i \in 1..1 : one[2 + i] = q[i]
  BY <1>1, <1>2, Joined
<1>4. /\ Len(two) = 2 + 2 /\ DOMAIN two = 1..(2 + 2)
      /\ \A i \in 1..2 : two[i] = p[i]
      /\ \A i \in 1..2 : two[2 + i] = s[i]
  BY <1>1, <1>2, Joined
<1> QED
  BY <1>1, <1>3, <1>4

LEMMA SignedSimple ==
  ASSUME NEW method, NEW target, NEW a, NEW x, NEW y, SimpleCall(method, target, x) /\ x.skip = 0
  PROVE  /\ SimpleList(method, target, blobSharedKeyAuth(a) \o <<x>>)
         /\ SimpleCall(method, target, y) /\ y.skip = 0 =>
              SimpleList(method, target, blobSharedKeyAuth(a) \o <<x, y>>)
<1> DEFINE v == GetOrSkip("blob:sharedkeyctx", <<a>>, 1)
           one == <<v, MayFail>> \o <<x>>
           two == <<v, MayFail>> \o <<x, y>>
<1>p. Len(<<a>>) \in Nat /\ 1 \in Nat
  OBVIOUS
<1>v. v.skip = 1
  BY DEF GetOrSkip, Call
<1>1. /\ SimpleCall(method, target, v) /\ v.skip = 1
      /\ SimpleCall(method, target, MayFail) /\ MayFail.skip = 0
  BY <1>p, <1>v, SimpleCalls, NoSkips, Zenon
<1>2. blobSharedKeyAuth(a) = <<v, MayFail>>
  BY DEF blobSharedKeyAuth
<1> HIDE DEF v
<1>3. /\ Len(one) = 3 /\ DOMAIN one = 1..3 /\ one[1] = v /\ one[2] = MayFail /\ one[3] = x
      /\ Len(two) = 4 /\ DOMAIN two = 1..4 /\ two[1] = v /\ two[2] = MayFail /\ two[3] = x /\ two[4] = y
  BY SignedCalls
<1> HIDE DEF one, two
<1>4. SimpleList(method, target, one)
  BY <1>1, <1>3 DEF SimpleList
<1>5. SimpleCall(method, target, y) /\ y.skip = 0 => SimpleList(method, target, two)
  BY <1>1, <1>3 DEF SimpleList
<1> QED
  BY <1>2, <1>4, <1>5 DEF one, two

(* Requests about blobs, and about documents.                              *)
Contents(g, n, s, t) ==
    {CreateContainer(g, n), UploadBlob(g, n, s), DeleteBlob(g, n, s), DeleteStorageAccount(g, n),
     CreateDocument(g, n, s, t)}

LEMMA ContentsSimple ==
  ASSUME NEW g, NEW n, NEW s, NEW t, NEW r \in Contents(g, n, s, t) PROVE Simple(r)
<1>l. Len(<<n>>) \in Nat /\ Len(<<g, n>>) \in Nat /\ Len(<<g, n, s>>) \in Nat /\ Len(<<g, n, s, t>>) \in Nat
  OBVIOUS
<1>f. Fits("blob:container", <<g, n>>) /\ Fits("blob:blob", <<g, n, s>>) /\ Fits("cosmos", <<g, n, s, t>>)
  BY DEF Fits, Deep, Key, ChildKinds, ParentKinds, KindsWithList
<1>w. /\ "blob:blob" \notin RootKinds \union SweepingKinds
      /\ "blob:account" \notin RootKinds \union SweepingKinds /\ "blob:sharedkeyctx" \notin RootKinds
  BY DEF RootKinds, ParentKinds, SweepingKinds
<1>1. CASE r = CreateContainer(g, n)
  <2> DEFINE x == Set("blob:container", <<g, n>>)
             key == Key("blob:container", <<g, n>>)
  <2>1. SimpleCall("PUT", key, x) /\ x.skip = 0
    BY <1>l, <1>f, SimpleCalls, NoSkips
  <2> HIDE DEF x
  <2>2. SimpleList("PUT", key, blobSharedKeyAuth(g) \o <<x>>)
    BY <2>1, SignedSimple, Zenon
  <2> QED
    BY <1>1, <2>2, SimpleRequest DEF CreateContainer, x
<1>2. CASE r = UploadBlob(g, n, s)
  <2> DEFINE x == Set("blob:blob", <<g, n, s>>)
             key == Key("blob:blob", <<g, n, s>>)
  <2>1. SimpleCall("PUT", key, x) /\ x.skip = 0
    BY <1>l, <1>f, SimpleCalls, NoSkips
  <2> HIDE DEF x
  <2>2. SimpleList("PUT", key, blobSharedKeyAuth(g) \o <<x>>)
    BY <2>1, SignedSimple, Zenon
  <2> QED
    BY <1>2, <2>2, SimpleRequest DEF UploadBlob, x
<1>3. CASE r = DeleteBlob(g, n, s)
  <2> DEFINE x == Drop("blob:blob", <<g, n, s>>)
             key == Key("blob:blob", <<g, n, s>>)
  <2>1. SimpleCall("DELETE", key, x) /\ x.skip = 0
    BY <1>l, <1>w, SimpleCalls, NoSkips
  <2> HIDE DEF x
  <2>2. SimpleList("DELETE", key, blobSharedKeyAuth(g) \o <<x>>)
    BY <2>1, SignedSimple, Zenon
  <2> QED
    BY <1>3, <1>w, <2>2, SimpleRequest DEF DeleteBlob, x
<1>4. CASE r = DeleteStorageAccount(g, n)
  <2> DEFINE x == Delete("blob:account", <<g, n>>)
             y == Drop("blob:sharedkeyctx", <<n>>)
             key == Key("blob:account", <<g, n>>)
  <2>1. SimpleCall("DELETE", key, x) /\ x.skip = 0 /\ y.skip = 0
    BY <1>l, <1>w, SimpleCalls, NoSkips
  <2>2. SameName(y.key, key)
    BY DEF Drop, Call, Key, SameName, OfAccount, DataKinds
  <2>3. SimpleCall("DELETE", key, y)
    BY <1>l, <1>w, <2>1, <2>2 DEF SimpleCall, UsesList, Drop, Call, Key
  <2> HIDE DEF x, y
  <2>4. SimpleList("DELETE", key, <<x, y>>)
    BY <2>1, <2>3, SimpleLists, Zenon
  <2> QED
    BY <1>4, <1>w, <2>4, SimpleRequest DEF DeleteStorageAccount, x, y
<1>5. CASE r = CreateDocument(g, n, s, t)
  <2> DEFINE x == Absent("cosmos", <<g, n, s, t>>)
             y == Set("cosmos", <<g, n, s, t>>)
             key == Key("cosmos", <<g, n, s, t>>)
  <2>1. SimpleCall("POST", key, x) /\ x.skip = 0 /\ SimpleCall("POST", key, y) /\ y.skip = 0
    BY <1>l, <1>f, SimpleCalls, NoSkips
  <2> HIDE DEF x, y
  <2>2. SimpleList("POST", key, <<x, y>>)
    BY <2>1, SimpleLists, Zenon
  <2> QED
    BY <1>5, <2>2, SimpleRequest DEF CreateDocument, x, y
<1> QED
  BY <1>1, <1>2, <1>3, <1>4, <1>5 DEF Contents

(* Some entries beside a site.                                             *)
LEMMA FirstAndRest ==
  ASSUME NEW first, NEW S, NEW rest \in Seq(S), NEW calls, calls = <<first>> \o rest
  PROVE  LET m == Len(rest)
         IN /\ Len(calls) = m + 1 /\ DOMAIN calls = 1..(m + 1) /\ calls[1] = first
            /\ \A i \in 1..m : calls[i + 1] = rest[i]
<1> DEFINE Values == {first} \union S
           p == <<first>>
           m == Len(rest)
<1>1. p \in Seq(Values) /\ Len(p) = 1 /\ p[1] = first
  OBVIOUS
<1>2. rest \in Seq(Values) /\ m \in Nat
  OBVIOUS
<1>3. calls = p \o rest
  OBVIOUS
<1> HIDE DEF p, Values
<1>4. /\ Len(calls) = 1 + m /\ DOMAIN calls = 1..(1 + m)
      /\ \A i \in 1..1 : calls[i] = p[i]
      /\ \A i \in 1..m : calls[1 + i] = rest[i]
  BY <1>1, <1>2, <1>3, Joined
<1> HIDE DEF m
<1>5. /\ Len(calls) = m + 1 /\ DOMAIN calls = 1..(m + 1) /\ calls[1] = first
      /\ \A i \in 1..m : calls[i + 1] = rest[i]
  BY <1>1, <1>2, <1>4
<1> QED
  BY <1>5 DEF m

IsList(names) == Len(names) \in Nat /\ DOMAIN names = 1..Len(names)

LEMMA EntriesSimple ==
  ASSUME NEW g, NEW n, NEW names, IsList(names),
         NEW r \in {UpdateAzureStorageAccounts(g, n, names), UpdateConnectionStrings(g, n, names)}
  PROVE  Simple(r)
<1>1. ASSUME NEW kind \in {"webapp:storage", "webapp:connectionstrings"}
      PROVE  Simple(UpdateEntries(kind, g, n, names))
  <2> DEFINE first == Get("func", <<g, n>>)
             rest == [i \in DOMAIN names |-> Set(kind, <<g, n, names[i]>>)]
             calls == <<first>> \o rest
             key == Key(kind, <<g, n>>)
  <2>1. SimpleCall("PUT", key, first) /\ first.skip = 0
    BY SimpleCalls, NoSkips
  <2>2. ASSUME NEW i \in DOMAIN names
        PROVE  SimpleCall("PUT", key, rest[i]) /\ rest[i].skip = 0
    <3>1. Fits(kind, <<g, n, names[i]>>)
      BY DEF Fits, Deep, Key, ChildKinds, ParentKinds, KindsWithList
    <3> DEFINE set == Set(kind, <<g, n, names[i]>>)
    <3>2. SimpleCall("PUT", key, set) /\ set.skip = 0
      BY <3>1, SimpleCalls, NoSkips
    <3> QED
      BY <3>2
  <2> DEFINE S == {Set(kind, <<g, n, names[i]>>) : i \in DOMAIN names}
  <2>3. rest \in Seq(S) /\ Len(rest) = Len(names) /\ DOMAIN rest = 1..Len(names) /\ Len(names) \in Nat
    BY DEF IsList
  <2>c. calls = <<first>> \o rest
    OBVIOUS
  <2> HIDE DEF first, rest, S, calls
  <2>4. /\ Len(calls) = Len(names) + 1 /\ DOMAIN calls = 1..(Len(names) + 1) /\ calls[1] = first
        /\ \A i \in 1..Len(names) : calls[i + 1] = rest[i]
    BY <2>3, <2>c, FirstAndRest
  <2>5. ASSUME NEW i \in DOMAIN calls PROVE SimpleCall("PUT", key, calls[i]) /\ calls[i].skip = 0
    <3>1. i = 1 \/ (i - 1 \in 1..Len(names) /\ i = (i - 1) + 1)
      BY <2>3, <2>4
    <3> QED
      BY <2>1, <2>2, <2>3, <2>4, <3>1 DEF IsList
  <2>6. SimpleList("PUT", key, calls)
    BY <2>3, <2>4, <2>5 DEF SimpleList
  <2> QED
    BY <2>6, SimpleRequest DEF UpdateEntries, calls, first, rest
<1> QED
  BY <1>1 DEF UpdateAzureStorageAccounts, UpdateConnectionStrings

(* Requests that read records whose Go type matters.                       *)
PlainGets(g, n, s) == {DownloadBlob(g, n, s), listContainersXML(g), ListSecrets(g)}

LEMMA PlainGetsSimple == ASSUME NEW g, NEW n, NEW s, NEW r \in PlainGets(g, n, s) PROVE Simple(r)
<1>l. Len(<<"">>) \in Nat /\ Len(<<g, n, s>>) \in Nat /\ Len(<<g, "">>) \in Nat
  OBVIOUS
<1>1. CASE r = DownloadBlob(g, n, s)
  <2> DEFINE x == Get("blob:blob", <<g, n, s>>)
             key == Key("blob:blob", <<g, n, s>>)
  <2>1. SimpleCall("GET", key, x) /\ x.skip = 0 /\ SimpleCall("GET", key, Typed) /\ Typed.skip = 0
    BY <1>l, SimpleCalls, NoSkips
  <2> HIDE DEF x
  <2>2. SimpleList("GET", key, blobSharedKeyAuth(g) \o <<x, Typed>>)
    BY <2>1, SignedSimple, Zenon
  <2> QED
    BY <1>1, <2>2, SimpleRequest DEF DownloadBlob, x
<1>2. CASE r = listContainersXML(g)
  <2> DEFINE x == ListTyped("blob:container", <<g, "">>)
             key == Key("blob:container", <<g>>)
  <2>1. SimpleCall("GET", key, x) /\ x.skip = 0
    BY <1>l, SimpleCalls, NoSkips
  <2> HIDE DEF x
  <2>2. SimpleList("GET", key, blobSharedKeyAuth(g) \o <<x>>)
    BY <2>1, SignedSimple, Zenon
  <2> QED
    BY <1>2, <2>2, SimpleRequest DEF listContainersXML, x
<1>3. CASE r = ListSecrets(g)
  <2> DEFINE x == ListTyped("kv", <<g, "">>)
             key == Key("kv", <<g>>)
  <2>1. SimpleCall("GET", key, x) /\ x.skip = 0
    BY <1>l, SimpleCalls, NoSkips
  <2> HIDE DEF x
  <2>2. SimpleList("GET", key, <<x>>)
    BY <2>1, SimpleLists, Zenon
  <2> QED
    BY <1>3, <2>2, SimpleRequest DEF ListSecrets, x
<1> QED
  BY <1>1, <1>2, <1>3 DEF PlainGets

LEMMA NameCheckSimple == Simple(CheckNameAvailability)
<1> DEFINE x == ListTyped("acr:registry", <<"">>)
           key == Key("acr:registry", <<>>)
<1>1. Len(<<"">>) \in Nat /\ Len(<<>>) \in Nat
  OBVIOUS
<1>2. SimpleCall("POST", key, x) /\ x.skip = 0
  BY <1>1, SimpleCalls, NoSkips
<1> HIDE DEF x
<1>3. SimpleList("POST", key, <<x>>)
  BY <1>2, SimpleLists, Zenon
<1> QED
  BY <1>3, SimpleRequest DEF CheckNameAvailability, x

-----------------------------------------------------------------------------
(* The PUTs of children, which ask for the parent first.                   *)

(* A call that needs no record in hand and stores no address.             *)
Tame(call) ==
    /\ call.skip \in Nat /\ Len(call.key.path) \in Nat /\ ~UsesList(call)
    /\ call.op \in {"set", "setSame"} => call.key.kind # "publicip" /\ Deep(call.key)

TameList(calls) ==
    /\ Len(calls) \in Nat /\ DOMAIN calls = 1..Len(calls)
    /\ \A i \in DOMAIN calls : Tame(calls[i]) /\ i + calls[i].skip <= Len(calls)

LEMMA TameCalls ==
  ASSUME NEW kind, NEW path, Len(path) \in Nat
  PROVE  /\ Tame(Get(kind, path)) /\ Tame(Look(kind, path)) /\ Tame(MayFail)
         /\ \A skip \in Nat : Tame(SkipIfFound(skip))
         /\ kind \notin {"publicip", "vnet", "nsg", "blob:blob"} => Tame(Set(kind, path))
<1>1. /\ Tame(Get(kind, path)) /\ Tame(Look(kind, path)) /\ Tame(MayFail)
      /\ \A skip \in Nat : Tame(SkipIfFound(skip))
  BY DEF Tame, UsesList, Get, Look, MayFail, SkipIfFound, Call, Key
<1>2. kind \notin {"publicip", "vnet", "nsg", "blob:blob"} => Tame(Set(kind, path))
  BY DEF Tame, UsesList, Deep, KindsWithList, Set, Call, Key
<1> QED
  BY <1>1, <1>2

LEMMA TameWellFormed ==
  ASSUME NEW method, NEW kind, NEW path, NEW calls, TameList(calls)
  PROVE  WellFormed(Request(method, kind, path, calls))
<1> DEFINE r == Request(method, kind, path, calls)
<1>1. r.calls = calls /\ r.cleanup = Len(calls) + 1
  BY DEF Request
<1> HIDE DEF r
<1> QED
  BY <1>1 DEF TameList, Tame, WellFormed, r

(* What adopts is sound.                                                   *)
LEMMA AdoptsIsSound ==
  ASSUME NEW r, NEW f, NEW parent, NEW g, NEW n, Adopts(r, f, parent, g, n), WellFormed(r),
         \A i \in DOMAIN r.calls : r.calls[i].op \in {"set", "setSame"} =>
             r.calls[i].key.kind # "publicip" /\ Deep(r.calls[i].key),
         r.method # "DELETE", ~IsDeployment(r)
  PROVE  Sound(r)
<1>1. WellAimed(r)
  BY DEF Adopts, WellAimed
<1>2. WellAddressed(r)
  BY NoPublicIPAddressed DEF StoresNoAddress
<1>3. AsksParents(r)
  BY AdoptsAsks
<1>4. ASSUME NEW k \in Written(r) PROVE Storable(k)
  <2>1. PICK i \in DOMAIN r.calls : r.calls[i].op \in {"set", "setSame"} /\ r.calls[i].key = k
    BY DEF Written
  <2> QED
    BY <2>1 DEF Adopts, Storable
<1>5. RemovesNoParent(r)
  BY DEF Adopts, RemovesNoParent
<1> QED
  BY <1>1, <1>2, <1>3, <1>4, <1>5 DEF Sound

LEMMA TameIsSound ==
  ASSUME NEW r, NEW f, NEW parent, NEW g, NEW n, Adopts(r, f, parent, g, n),
         NEW method, NEW kind, NEW path, NEW calls, TameList(calls),
         r = Request(method, kind, path, calls), method # "DELETE", kind # "deployment"
  PROVE  Sound(r)
<1>1. WellFormed(r)
  BY TameWellFormed
<1>2. r.calls = calls /\ r.method = method /\ r.target.kind = kind
  BY DEF Request, Key
<1>3. \A i \in DOMAIN r.calls : r.calls[i].op \in {"set", "setSame"} =>
             r.calls[i].key.kind # "publicip" /\ Deep(r.calls[i].key)
  BY <1>2 DEF TameList, Tame
<1> QED
  BY <1>1, <1>2, <1>3, AdoptsIsSound DEF IsDeployment

LEMMA TameLists ==
  ASSUME NEW u, NEW v, NEW w, NEW x, NEW y, NEW z,
         Tame(u), Tame(v), Tame(x), Tame(y), Tame(z), u.skip = 0, v.skip = 0, x.skip = 0, y.skip = 0, z.skip = 0
  PROVE  /\ TameList(<<u, v>>) /\ TameList(<<u, v, x>>)
         /\ Tame(w) /\ w.skip = 1 => TameList(<<u, v, w, x, y>>)
         /\ Tame(w) /\ w.skip = 3 => TameList(<<u, v, w, x, y, z>>)
BY DEF TameList

LEMMA TwoAndMore ==
  ASSUME NEW g, NEW n, NEW s, NEW t
  PROVE  Len(<<g, n>> \o <<s>>) = 3 /\ Len(<<g, n>> \o <<s, t>>) = 4
<1> DEFINE S == {g, n, s, t}
           p == <<g, n>>
           q == <<s>>
           u == <<s, t>>
<1>1. /\ p \in Seq(S) /\ q \in Seq(S) /\ u \in Seq(S)
      /\ Len(p) = 2 /\ Len(q) = 1 /\ Len(u) = 2
  OBVIOUS
<1> HIDE DEF S, p, q, u
<1>2. Len(p \o q) = Len(p) + Len(q) /\ Len(p \o u) = Len(p) + Len(u)
  BY <1>1, ConcatProperties, Zenon
<1>3. Len(p \o q) = 3 /\ Len(p \o u) = 4
  BY <1>1, <1>2
<1> QED
  BY <1>3 DEF p, q, u

LEMMA ChildPutsSound ==
  ASSUME NEW r, NEW g, NEW n, NEW s, ChildPut(r, g, n, s), r # PutSubnet(g, n, s)
  PROVE  Sound(r)
<1>a. PICK f, parent : Adopts(r, f, parent, g, n)
  BY ChildPutAdopts, Zenon
<1>1. ASSUME NEW kind, kind \notin {"publicip", "vnet", "nsg", "blob:blob", "deployment"},
             NEW root, NEW names, Len(<<g, n>> \o names) \in Nat, r = PutChild(root, <<g, n>>, kind, names)
      PROVE  Sound(r)
  <2> DEFINE path == <<g, n>> \o names
             u == Get(root, <<g, n>>)
             v == Look(kind, path)
             x == Set(kind, path)
  <2>1. Tame(u) /\ Tame(v) /\ Tame(x)
    BY <1>1, TameCalls
  <2>2. u.skip = 0 /\ v.skip = 0 /\ x.skip = 0
    BY NoSkips
  <2>3. r = Request("PUT", kind, path, <<u, v, x>>)
    BY <1>1 DEF PutChild
  <2> HIDE DEF u, v, x, path
  <2>4. TameList(<<u, v, x>>)
    BY <2>1, <2>2, TameLists, Zenon
  <2> QED
    BY <1>a, <1>1, <2>3, <2>4, TameIsSound
<1>2. ASSUME NEW kind, kind \notin {"publicip", "vnet", "nsg", "blob:blob", "deployment"}, NEW root,
             r = Request("PUT", kind, <<g, n, s>>,
                   <<Get(root, <<g, n>>), Look(kind, <<g, n, s>>), SkipIfFound(1), MayFail, Set(kind, <<g, n, s>>)>>)
      PROVE  Sound(r)
  <2> DEFINE path == <<g, n, s>>
             u == Get(root, <<g, n>>)
             v == Look(kind, path)
             w == SkipIfFound(1)
             y == Set(kind, path)
  <2>1. Tame(u) /\ Tame(v) /\ Tame(w) /\ Tame(MayFail) /\ Tame(y)
    BY <1>2, TameCalls
  <2>2. u.skip = 0 /\ v.skip = 0 /\ MayFail.skip = 0 /\ y.skip = 0 /\ w.skip = 1
    BY NoSkips DEF SkipIfFound, Call
  <2>3. r = Request("PUT", kind, path, <<u, v, w, MayFail, y>>)
    BY <1>2
  <2> HIDE DEF u, v, w, y, path
  <2>4. TameList(<<u, v, w, MayFail, y>>)
    BY <2>1, <2>2, TameLists, Zenon
  <2> QED
    BY <1>a, <1>2, <2>3, <2>4, TameIsSound
<1>3. CASE r = SendMessage(g, n, s)
  <2> DEFINE path == <<g, n, s>>
             u == Get("queue:meta", <<g, n>>)
             v == Set("queue:msg", path)
  <2>1. Tame(u) /\ Tame(v)
    BY TameCalls
  <2>2. u.skip = 0 /\ v.skip = 0
    BY NoSkips
  <2>3. r = Request("POST", "queue:msg", path, <<u, v>>)
    BY <1>3 DEF SendMessage
  <2> HIDE DEF u, v, path
  <2>4. TameList(<<u, v>>)
    BY <2>1, <2>2, TameLists, Zenon
  <2> QED
    BY <1>a, <2>3, <2>4, TameIsSound
<1>4. CASE r = PutZone(g, n)
  <2> DEFINE path == <<g, n>>
             u == Look("dns:zone", path)
             v == Set("dns:zone", path)
             w == SkipIfFound(3)
             x == Set("dns:record", <<g, n, "SOA", "@">>)
             y == Set("dns:record", <<g, n, "NS", "@">>)
  <2>1. Tame(u) /\ Tame(v) /\ Tame(w) /\ Tame(x) /\ Tame(y)
    BY TameCalls
  <2>2. u.skip = 0 /\ v.skip = 0 /\ x.skip = 0 /\ y.skip = 0 /\ w.skip = 3
    BY NoSkips DEF SkipIfFound, Call
  <2>3. r = Request("PUT", "dns:zone", path, <<u, v, w, x, y, v>>)
    BY <1>4 DEF PutZone
  <2> HIDE DEF u, v, w, x, y, path
  <2>4. TameList(<<u, v, w, x, y, v>>)
    BY <2>1, <2>2, TameLists, Zenon
  <2> QED
    BY <1>a, <2>3, <2>4, TameIsSound
<1>5. Len(<<g, n>> \o <<s>>) \in Nat /\ \A t : Len(<<g, n>> \o <<t, s>>) \in Nat
  BY TwoAndMore
<1>6. CASE r = PutRule(g, n, s)
  BY <1>1, <1>5, <1>6 DEF PutRule
<1>7. CASE r = PutSqlDatabase(g, n, s)
  BY <1>1, <1>5, <1>7 DEF PutSqlDatabase
<1>8. ASSUME NEW t, r = PutRecordSet(g, n, t, s) PROVE Sound(r)
  BY <1>1, <1>5, <1>8 DEF PutRecordSet
<1>9. CASE r = PutPgDatabase(g, n, s) \/ r = PutMySqlDatabase(g, n, s)
  BY <1>2, <1>9 DEF PutPgDatabase, PutMySqlDatabase
<1> QED
  BY <1>3, <1>4, <1>6, <1>7, <1>8, <1>9, Zenon DEF ChildPut

-----------------------------------------------------------------------------
(* The PUT of a public IP, cascades, and the DELETE of a group.            *)

(* The PUT of a public IP.                                                 *)
LEMMA PutPublicIPSound == ASSUME NEW g, NEW p PROVE Sound(PutPublicIP(g, p))
<1> DEFINE r == PutPublicIP(g, p)
           x == Look("publicip", <<g, p>>)
           z == Set("publicip", <<g, p>>)
           calls == <<x, Address, z>>
<1>1. PlainCall(x) /\ PlainCall(Address) /\ PlainCall(z)
  BY PlainCalls
<1>2. /\ x.op = "look" /\ z.op = "set" /\ z.key.kind = "publicip" /\ Address.op = "address"
      /\ Address.skip = 0
  BY DEF Look, Set, Address, Call, Key
<1>3. r = Request("PUT", "publicip", <<g, p>>, calls) /\ r.method = "PUT" /\ r.target.kind = "publicip"
  BY DEF PutPublicIP, Request, Key
<1>4. r.calls = calls
  BY DEF PutPublicIP, Request
<1> HIDE DEF x, z, r
<1>5. Len(calls) = 3 /\ DOMAIN calls = 1..3 /\ \A i \in DOMAIN calls : PlainCall(calls[i])
  BY <1>1
<1>6. \A i \in DOMAIN calls :
         /\ calls[i].op \notin {"delete", "drop", "deleteByPrefix", "setSame"}
         /\ calls[i].op = "set" => calls[i].key.kind = "publicip"
  BY <1>2
<1> HIDE DEF calls
<1>7. WellFormed(r)
  BY <1>3, <1>5, PlainCallsSound
<1>8. WellAimed(r) /\ RemovesNoParent(r)
  BY <1>4, <1>6 DEF WellAimed, RemovesNoParent
<1>9. StoresNoChild(r)
  BY <1>4, <1>6 DEF StoresNoChild, ChildKinds, ParentKinds
<1>10. \A k \in Written(r) : Storable(k)
  BY <1>4, <1>6 DEF Written, Storable, Deep, KindsWithList, ChildKinds, ParentKinds
<1>11. WellAddressed(r)
  BY PutPublicIPAddressed DEF r
<1>12. r.method # "DELETE" /\ ~IsDeployment(r)
  BY <1>3 DEF IsDeployment
<1>13. Sound(r)
  BY <1>7, <1>8, <1>9, <1>10, <1>11, <1>12, NoChildAsks DEF Sound
<1> QED
  BY <1>13 DEF r

(* Requests that store nothing.                                            *)
StoresNothing(r) == \A i \in DOMAIN r.calls : r.calls[i].op \notin {"set", "setSame"}

LEMMA StoresNothingSound ==
  ASSUME NEW r, StoresNothing(r), WellFormed(r), AllWellFormed => WellAimed(r), r.method # "PUT",
         r.method = "DELETE" /\ r.target.kind \in SweepingKinds => SweepingDelete(r),
         RemovesNoParent(r) \/ (\E g, n : CascadingDelete(r, g, n)) \/ (\E g : r = DeleteGroup(g))
  PROVE  Sound(r)
<1>1. StoresNoAddress(r) /\ StoresNoChild(r)
  BY DEF StoresNothing, StoresNoAddress, StoresNoChild
<1>2. \A k \in Written(r) : Storable(k)
  BY DEF StoresNothing, Written
<1>3. ~IsDeployment(r)
  BY DEF IsDeployment
<1> QED
  BY <1>1, <1>2, <1>3, NoPublicIPAddressed, NoChildAsks DEF Sound

LEMMA CascadeIsSound ==
  ASSUME NEW g, NEW n, NEW r, CascadingDelete(r, g, n) PROVE Sound(r)
<1>1. PICK kind, child : r = Cascade(kind, child, g, n)
  BY Zenon DEF CascadingDelete, Cascade, DeleteVNet, DeleteNSG, DeleteZone, DeleteSqlServer,
               DeletePgServer, DeleteMySqlServer, DeleteQueue
<1>2. CascadeShape(r, kind, child, g, n) /\ WellFormed(r)
  BY <1>1, CascadeFields, CascadeSound, Zenon
<1>3. AllWellFormed => WellAimed(r)
  BY <1>1, CascadeAims, Zenon
<1>4. StoresNothing(r)
  <2>1. \A i \in 1..2 : i = 1 \/ i = 2
    OBVIOUS
  <2> QED
    BY <1>2, <2>1 DEF CascadeShape, StoresNothing
<1>5. r.method = "DELETE"
  BY <1>2 DEF CascadeShape
<1>6. SweepingDelete(r) /\ \E h, m : CascadingDelete(r, h, m)
  BY Zenon DEF SweepingDelete
<1> QED
  BY <1>2, <1>3, <1>4, <1>5, <1>6, StoresNothingSound

LEMMA GroupIsSound == ASSUME NEW g, NEW r, r = DeleteGroup(g) PROVE Sound(r)
<1> DEFINE first == Delete("rg", <<g>>)
           sweeps == SweepsOf(GroupSweeps, g)
           calls == <<first>> \o sweeps
           S == {SweepKind(GroupSweeps[i], g) : i \in DOMAIN GroupSweeps}
           m == Len(GroupSweeps)
<1>1. /\ r.method = "DELETE" /\ r.target = Key("rg", <<g>>)
      /\ r = Request("DELETE", "rg", <<g>>, calls) /\ r.calls = calls
  BY DEF DeleteGroup, Request, SweepKind, SweepsOf
<1>2. PlainCall(first) /\ first.op = "delete" /\ first.key = r.target
  BY <1>1, PlainCalls DEF Delete, Call
<1>3. m \in Nat /\ DOMAIN GroupSweeps = 1..m
  BY SweepsNumbered
<1>4. /\ sweeps \in Seq(S) /\ Len(sweeps) = m
      /\ \A i \in 1..m : sweeps[i] = SweepKind(GroupSweeps[i], g)
  BY <1>3 DEF SweepsOf
<1>5. \A kind : /\ PlainCall(SweepKind(kind, g)) /\ SweepKind(kind, g).op = "deleteByPrefix"
                /\ SweepKind(kind, g).key = Key(kind, <<g, "">>)
  BY PlainCalls, SweepFields DEF SweepKind
<1>c. calls = <<first>> \o sweeps
  OBVIOUS
<1> HIDE DEF first, sweeps, calls, S, m
<1>6. /\ Len(calls) = m + 1 /\ DOMAIN calls = 1..(m + 1) /\ calls[1] = first
      /\ \A i \in 1..m : calls[i + 1] = sweeps[i]
  BY <1>4, <1>c, FirstAndRest
<1>7. ASSUME NEW i \in DOMAIN calls
      PROVE  \/ i = 1 /\ calls[i] = first
             \/ \E kind : calls[i] = SweepKind(kind, g)
  <2>1. i = 1 \/ (i - 1 \in 1..m /\ i = (i - 1) + 1)
    BY <1>3, <1>6
  <2> QED
    BY <1>4, <1>6, <2>1
<1>8. WellFormed(r)
  <2>0. Len(calls) \in Nat /\ DOMAIN calls = 1..Len(calls)
    BY <1>3, <1>6
  <2>1. \A i \in DOMAIN calls : PlainCall(calls[i])
    BY <1>2, <1>5, <1>7, Zenon
  <2> QED
    BY <1>1, <2>0, <2>1, PlainCallsSound, Zenon
<1>9. StoresNothing(r)
  BY <1>1, <1>2, <1>5, <1>7 DEF StoresNothing
<1>10. ASSUME AllWellFormed PROVE WellAimed(r)
  <2>1. ASSUME NEW k \in Keys, NEW kind
        PROVE  /\ HasPrefix(k, Key(kind, <<g, "">>)) => Below(k, r.target)
               /\ Like(k, Key(kind, <<g, "">>)) => LikeNames(k, r.target)
    <3>1. Len(k.path) \in Nat
      BY <1>10, KeysHavePaths
    <3>2. r.target.path = <<g>>
      BY <1>1 DEF Key
    <3>3. Len(r.target.path) = 1 /\ DOMAIN r.target.path = {1} /\ r.target.path[1] = g
      BY <3>2
    <3>4. /\ HasPrefix(k, Key(kind, <<g, "">>)) <=> k.kind = kind /\ Len(k.path) >= 2 /\ k.path[1] = g
          /\ Like(k, Key(kind, <<g, "">>)) <=> k.kind = kind /\ Len(k.path) >= 2 /\ LikeName(k.path[1], g)
      BY <3>1, GroupPrefix
    <3>5. Len(k.path) >= 2 => Len(k.path) > 1
      BY <3>1
    <3> QED
      BY <3>3, <3>4, <3>5 DEF Below, LikeNames
  <2>2. ASSUME NEW i \in DOMAIN r.calls
        PROVE  /\ r.calls[i].op \in {"delete", "drop"} => Aimed(r, r.calls[i].key)
               /\ r.calls[i].op = "deleteByPrefix" => \E kind : r.calls[i].key = Key(kind, <<g, "">>)
    <3>1. CASE calls[i] = first
      <4>1. calls[i].key = r.target /\ calls[i].op = "delete"
        BY <1>2, <3>1
      <4> QED
        BY <1>1, <4>1 DEF Aimed
    <3>2. CASE \E kind : calls[i] = SweepKind(kind, g)
      BY <1>1, <1>5, <3>2
    <3> QED
      BY <1>1, <1>7, <3>1, <3>2, Zenon
  <2> QED
    BY <1>1, <2>1, <2>2 DEF WellAimed, Aimed, AimedByLike
<1>11. SweepingDelete(r)
  BY DEF SweepingDelete
<1> QED
  BY <1>1, <1>8, <1>9, <1>10, <1>11, StoresNothingSound

-----------------------------------------------------------------------------
(* The other DELETEs, and the GETs that list again.                        *)

(* A call that stores nothing, removes no parent and deletes what the      *)
(* request is about.                                                       *)
Removal(r, call) ==
    /\ call.op \notin {"set", "setSame"}
    /\ call.op \in {"delete", "drop", "deleteByPrefix"} =>
          r.method = "DELETE" /\ call.key.kind \notin RootKinds
    /\ call.op \in {"delete", "drop"} => Aimed(r, call.key)
    /\ call.op = "deleteByPrefix" /\ AllWellFormed => \A k \in Keys :
          /\ HasPrefix(k, call.key) => Aimed(r, k)
          /\ Like(k, call.key) => AimedByLike(r, k)

LEMMA RemovalsSound ==
  ASSUME NEW r, WellFormed(r), \A i \in DOMAIN r.calls : Removal(r, r.calls[i]), r.method # "PUT",
         r.method = "DELETE" /\ r.target.kind \in SweepingKinds => SweepingDelete(r)
  PROVE  Sound(r)
<1>1. StoresNothing(r)
  BY DEF Removal, StoresNothing
<1>2. RemovesNoParent(r)
  BY DEF Removal, RemovesNoParent
<1>3. AllWellFormed => WellAimed(r)
  BY DEF Removal, WellAimed
<1> QED
  BY <1>1, <1>2, <1>3, StoresNothingSound

LEMMA Reading ==
  ASSUME NEW r, NEW kind, NEW path
  PROVE  /\ Removal(r, Get(kind, path)) /\ Removal(r, ListByPrefix(kind, path))
         /\ \A skip : Removal(r, GetOrSkip(kind, path, skip))
         /\ Removal(r, MayFail) /\ Removal(r, Assign) /\ Removal(r, Encode)
BY DEF Removal, Get, ListByPrefix, GetOrSkip, MayFail, Assign, Encode, Call

LEMMA RemovingAtTarget ==
  ASSUME NEW r, NEW kind, kind \notin RootKinds, NEW path, r.method = "DELETE"
  PROVE  /\ r.target = Key(kind, path) => Removal(r, Delete(kind, path)) /\ Removal(r, Drop(kind, path))
         /\ (AllWellFormed => \A k \in Keys : /\ HasPrefix(k, Key(kind, path)) => Aimed(r, k)
                                              /\ Like(k, Key(kind, path)) => AimedByLike(r, k))
            => Removal(r, DeleteByPrefix(kind, path))
<1>1. Key(kind, path).kind = kind
  BY DEF Key
<1>2. /\ Delete(kind, path).op = "delete" /\ Delete(kind, path).key = Key(kind, path)
      /\ Drop(kind, path).op = "drop" /\ Drop(kind, path).key = Key(kind, path)
      /\ DeleteByPrefix(kind, path).op = "deleteByPrefix" /\ DeleteByPrefix(kind, path).key = Key(kind, path)
  BY DEF Delete, Drop, DeleteByPrefix, Call
<1>3. r.target = Key(kind, path) => Aimed(r, Key(kind, path))
  BY DEF Aimed
<1> QED
  BY <1>1, <1>2, <1>3 DEF Removal

(* Below two names.                                                        *)
LEMMA SweepsBelowTwo ==
  ASSUME NEW r, NEW kind, NEW child, NEW g, NEW n, r.method = "DELETE", r.target = Key(kind, <<g, n>>),
         child \notin RootKinds
  PROVE  Removal(r, DeleteByPrefix(child, <<g, n, "">>))
<1>1. ASSUME AllWellFormed, NEW k \in Keys
      PROVE  /\ HasPrefix(k, Key(child, <<g, n, "">>)) => Aimed(r, k)
             /\ Like(k, Key(child, <<g, n, "">>)) => AimedByLike(r, k)
  BY <1>1, KeysHavePaths, PrefixIsBelow, LikeIsLikeBelow DEF Aimed, AimedByLike
<1> QED
  BY <1>1, RemovingAtTarget

LEMMA NoRoots ==
  /\ "blob:container" \notin RootKinds /\ "blob:blob" \notin RootKinds /\ "queue:msg" \notin RootKinds
  /\ "sb:namespace" \notin RootKinds /\ "sb:queue" \notin RootKinds /\ "sb:topic" \notin RootKinds
  /\ "subnet" \notin RootKinds
BY DEF RootKinds, ParentKinds

LEMMA ContainerIsSound == ASSUME NEW a, NEW c, NEW r, r = DeleteContainer(a, c) PROVE Sound(r)
<1> DEFINE w == GetOrSkip("blob:sharedkeyctx", <<a>>, 1)
           y == Drop("blob:container", <<a, c>>)
           z == DeleteByPrefix("blob:blob", <<a, c, "">>)
           key == Key("blob:container", <<a, c>>)
           calls == <<w, MayFail>> \o <<y, z>>
<1>1. r.method = "DELETE" /\ r.target = key /\ r.calls = calls /\ r.cleanup = Len(calls) + 1
  BY DEF DeleteContainer, Request, blobSharedKeyAuth, Key
<1>2. w.skip = 1 /\ ~UsesList(w) /\ Len(w.key.path) \in Nat
  BY DEF GetOrSkip, UsesList, Call, Key
<1>l. Len(<<a, c>>) \in Nat /\ Len(<<a, c, "">>) \in Nat
  OBVIOUS
<1>p. PlainCall(MayFail) /\ PlainCall(y) /\ PlainCall(z)
  BY <1>l, PlainCalls, Zenon
<1>3. Removal(r, w) /\ Removal(r, MayFail) /\ Removal(r, y) /\ Removal(r, z)
  BY <1>1, NoRoots, Reading, RemovingAtTarget, SweepsBelowTwo, Zenon
<1> HIDE DEF w, y, z, key
<1>4. /\ Len(calls) = 4 /\ DOMAIN calls = 1..4 /\ calls[1] = w /\ calls[2] = MayFail
      /\ calls[3] = y /\ calls[4] = z
  BY SignedCalls
<1> HIDE DEF calls
<1>c. \A i \in DOMAIN calls : i = 1 \/ i = 2 \/ i = 3 \/ i = 4
  BY <1>4
<1>5. \A i \in DOMAIN calls :
         calls[i].skip \in Nat /\ i + calls[i].skip <= 4 /\ ~UsesList(calls[i]) /\ Len(calls[i].key.path) \in Nat
  BY <1>2, <1>p, <1>4, <1>c DEF PlainCall
<1>6. WellFormed(r)
  BY <1>1, <1>4, <1>5 DEF WellFormed
<1>7. \A i \in DOMAIN r.calls : Removal(r, r.calls[i])
  BY <1>1, <1>3, <1>4, <1>c, Zenon
<1>8. SweepingDelete(r)
  BY DEF SweepingDelete
<1> QED
  BY <1>1, <1>6, <1>7, <1>8, RemovalsSound

(* Three plain calls that remove, or two.                                  *)
LEMMA PlainRemovals ==
  ASSUME NEW method, NEW kind, kind \notin SweepingKinds, NEW path, NEW r, NEW x, NEW y, NEW z,
         method # "PUT", r.method = method, r.target.kind = kind,
         PlainCall(x), PlainCall(y), PlainCall(z), Removal(r, x), Removal(r, y), Removal(r, z),
         NEW calls, calls = <<x, y>> \/ calls = <<x, y, z>>,
         r = Request(method, kind, path, calls), r.calls = calls
  PROVE  Sound(r)
<1>1. Len(calls) \in Nat /\ DOMAIN calls = 1..Len(calls)
  OBVIOUS
<1>2. \A i \in DOMAIN calls : calls[i] = x \/ calls[i] = y \/ calls[i] = z
  OBVIOUS
<1>3. WellFormed(r)
  <2>1. \A i \in DOMAIN calls : PlainCall(calls[i])
    BY <1>2
  <2> QED
    BY <1>1, <2>1, PlainCallsSound, Zenon
<1>4. \A i \in DOMAIN r.calls : Removal(r, r.calls[i])
  BY <1>2, Zenon
<1> QED
  BY <1>3, <1>4, RemovalsSound, Zenon

LEMMA NamespaceIsSound == ASSUME NEW g, NEW n, NEW r, r = DeleteNamespace(g, n) PROVE Sound(r)
<1> DEFINE x == Delete("sb:namespace", <<g, n>>)
           y == DeleteByPrefix("sb:queue", <<n, "">>)
           z == DeleteByPrefix("sb:topic", <<n, "">>)
           key == Key("sb:namespace", <<g, n>>)
           calls == <<x, y, z>>
<1>1. /\ r.method = "DELETE" /\ r.target = key
      /\ r.calls = calls /\ r = Request("DELETE", "sb:namespace", <<g, n>>, calls)
  BY DEF DeleteNamespace, Request
<1>k. key.kind = "sb:namespace" /\ key.path[2] = n
  BY DEF Key
<1>t. r.target.kind = "sb:namespace" /\ r.target.path[2] = n
  BY <1>1, <1>k, Zenon
<1>2. PlainCall(x) /\ PlainCall(y) /\ PlainCall(z)
  BY PlainCalls
<1> DEFINE sweeps(kind) == \A k \in Keys :
              /\ HasPrefix(k, Key(kind, <<n, "">>)) => Aimed(r, k)
              /\ Like(k, Key(kind, <<n, "">>)) => AimedByLike(r, k)
<1>s. ASSUME AllWellFormed, NEW kind \in {"sb:queue", "sb:topic"}
      PROVE  sweeps(kind)
  <2> SUFFICES ASSUME NEW k \in Keys
               PROVE  /\ HasPrefix(k, Key(kind, <<n, "">>)) => Aimed(r, k)
                      /\ Like(k, Key(kind, <<n, "">>)) => AimedByLike(r, k)
    OBVIOUS
  <2>1. Len(k.path) \in Nat
    BY <1>s, KeysHavePaths
  <2>2. k.kind = kind => OfAccount(k, r.target)
    BY <1>t DEF OfAccount, DataKinds
  <2>3. /\ HasPrefix(k, Key(kind, <<n, "">>)) => k.kind = kind /\ k.path[1] = n
        /\ Like(k, Key(kind, <<n, "">>)) => k.kind = kind /\ LikeName(k.path[1], n)
    BY <2>1, GroupPrefix, Zenon
  <2> QED
    BY <1>t, <2>2, <2>3, Zenon DEF SameName, Aimed, AimedByLike
<1>3. Removal(r, x) /\ Removal(r, y) /\ Removal(r, z)
  <2>1. AllWellFormed => sweeps("sb:queue") /\ sweeps("sb:topic")
    BY <1>s
  <2> QED
    BY <1>1, <2>1, NoRoots, RemovingAtTarget, Zenon
<1> HIDE DEF x, y, z, key
<1>c. "sb:namespace" \notin SweepingKinds
  BY DEF SweepingKinds
<1> QED
  BY <1>1, <1>t, <1>2, <1>3, <1>c, PlainRemovals, Zenon

LEMMA ClearIsSound == ASSUME NEW a, NEW q, NEW r, r = ClearMessages(a, q) PROVE Sound(r)
<1> DEFINE x == Get("queue:meta", <<a, q>>)
           y == DeleteByPrefix("queue:msg", <<a, q, "">>)
           key == Key("queue:msg", <<a, q>>)
           calls == <<x, y>>
<1>1. /\ r.method = "DELETE" /\ r.target = key
      /\ r.calls = calls /\ r = Request("DELETE", "queue:msg", <<a, q>>, calls)
  BY DEF ClearMessages, Request
<1>k. key.kind = "queue:msg"
  BY DEF Key
<1>t. r.target.kind = "queue:msg"
  BY <1>1, <1>k, Zenon
<1>2. PlainCall(x) /\ PlainCall(y)
  BY PlainCalls
<1>3. Removal(r, x) /\ Removal(r, y)
  BY <1>1, NoRoots, Reading, SweepsBelowTwo, Zenon
<1> HIDE DEF x, y, key
<1>c. "queue:msg" \notin SweepingKinds
  BY DEF SweepingKinds
<1> QED
  BY <1>1, <1>t, <1>2, <1>3, <1>c, PlainRemovals, Zenon

(* A request whose third and fourth calls use the list of the record its   *)
(* first has got.                                                          *)
LEMMA ListWellFormed ==
  ASSUME NEW r, NEW x, NEW y, NEW u, NEW v, NEW calls, r.calls = calls, r.cleanup = 5,
         Len(calls) = 4, DOMAIN calls = 1..4,
         calls[1] = x, calls[2] = y, calls[3] = u, calls[4] = v,
         x.op = "get", x.key.kind \in KindsWithList, y.op = "listByPrefix", u.op = "assign",
         PlainCall(x), PlainCall(y), u.skip = 0, v.skip = 0,
         Len(u.key.path) \in Nat, Len(v.key.path) \in Nat
  PROVE  WellFormed(r)
<1>c. \A i \in DOMAIN calls : i = 1 \/ i = 2 \/ i = 3 \/ i = 4
  OBVIOUS
<1>5. Fetched(r, 1, 3) /\ Fetched(r, 1, 4)
  <2>1. r.calls[1].op = "get" /\ r.calls[1].key.kind \in KindsWithList /\ r.cleanup = 5
    OBVIOUS
  <2>2. r.calls[2].op = "listByPrefix" /\ r.calls[3].op = "assign"
    OBVIOUS
  <2>3. r.calls[1].skip = 0 /\ r.calls[2].skip = 0 /\ r.calls[3].skip = 0
    BY DEF PlainCall
  <2>4. \A j \in 1..3 : j = 1 \/ j = 2 \/ j = 3
    OBVIOUS
  <2>5. \A j \in (1 + 1)..(3 - 1) : j = 2
    OBVIOUS
  <2>6. \A j \in (1 + 1)..(4 - 1) : j = 2 \/ j = 3
    OBVIOUS
  <2>7. 1 \in 1..(3 - 1) /\ 1 \in 1..(4 - 1) /\ 5 \notin (1 + 1)..3 /\ 5 \notin (1 + 1)..4
    OBVIOUS
  <2>8. /\ \A j \in 1..(3 - 1) : ~(r.calls[j].skip > 0)
        /\ \A j \in 1..(4 - 1) : ~(r.calls[j].skip > 0)
    BY <2>3, <2>4
  <2> QED
    BY <2>1, <2>2, <2>5, <2>6, <2>7, <2>8 DEF Fetched
<1>6. WellFormed(r)
  <2>1. ASSUME NEW i \in DOMAIN calls
        PROVE  /\ calls[i].skip = 0 /\ Len(calls[i].key.path) \in Nat
               /\ UsesList(calls[i]) => i = 3 \/ i = 4
    BY <1>c DEF PlainCall
  <2>2. 1 \in 1..(3 - 1) /\ 1 \in 1..(4 - 1)
    OBVIOUS
  <2>3. \A i \in DOMAIN r.calls : UsesList(r.calls[i]) => \E e \in 1..(i - 1) : Fetched(r, e, i)
    BY <1>5, <2>1, <2>2
  <2> QED
    BY <2>1, <2>3 DEF WellFormed
<1> QED
  BY <1>6

(* The GETs that list the children again.                                  *)
LEMMA FourParts ==
  ASSUME NEW x, NEW y, NEW u, NEW v, NEW calls, calls = <<x, y, u, v>>
  PROVE  /\ Len(calls) = 4 /\ DOMAIN calls = 1..4
         /\ calls[1] = x /\ calls[2] = y /\ calls[3] = u /\ calls[4] = v
         /\ \A i \in DOMAIN calls : i = 1 \/ i = 2 \/ i = 3 \/ i = 4
OBVIOUS

Relisting(kind, child, g, n) == Request("GET", kind, <<g, n>>,
    <<Get(kind, <<g, n>>), ListByPrefix(child, <<g, n, "">>), Assign, Encode>>)

LEMMA RelistingIsSound ==
  ASSUME NEW kind \in KindsWithList, NEW child, NEW g, NEW n, NEW r, r = Relisting(kind, child, g, n)
  PROVE  Sound(r)
<1> DEFINE x == Get(kind, <<g, n>>)
           y == ListByPrefix(child, <<g, n, "">>)
           u == Assign
           v == Encode
           calls == <<x, y, u, v>>
<1>1. r.method = "GET" /\ r.calls = calls /\ r.cleanup = Len(calls) + 1
  BY DEF Relisting, Request, Key
<1>2. /\ x.op = "get" /\ x.key.kind = kind /\ y.op = "listByPrefix" /\ u.op = "assign" /\ u.skip = 0
      /\ v.skip = 0 /\ Len(u.key.path) \in Nat /\ Len(v.key.path) \in Nat
  BY DEF Get, ListByPrefix, Assign, Encode, Call, Key
<1>p. PlainCall(x) /\ PlainCall(y)
  BY PlainCalls
<1>3. Removal(r, x) /\ Removal(r, y) /\ Removal(r, u) /\ Removal(r, v)
  BY Reading
<1>d. calls = <<x, y, u, v>>
  OBVIOUS
<1> HIDE DEF x, y, u, v, calls
<1>4. /\ Len(calls) = 4 /\ DOMAIN calls = 1..4
      /\ calls[1] = x /\ calls[2] = y /\ calls[3] = u /\ calls[4] = v
      /\ \A i \in DOMAIN calls : i = 1 \/ i = 2 \/ i = 3 \/ i = 4
  BY <1>d, FourParts
<1>5. 4 + 1 = 5
  OBVIOUS
<1>6. WellFormed(r)
  <2>1. r.cleanup = 5 /\ x.key.kind \in KindsWithList /\ r.calls = calls
    BY <1>1, <1>2, <1>4, <1>5
  <2> QED
    BY <1>2, <1>p, <1>4, <2>1, ListWellFormed
<1>7. \A i \in DOMAIN r.calls : Removal(r, r.calls[i])
  BY <1>1, <1>3, <1>4, Zenon
<1>8. r.method # "PUT" /\ r.method # "DELETE"
  BY <1>1, Zenon
<1> QED
  BY <1>6, <1>7, <1>8, RemovalsSound, Zenon

LEMMA GetsSound == ASSUME NEW g, NEW n, NEW r \in {GetVNet(g, n), GetNSG(g, n)} PROVE Sound(r)
<1>1. "vnet" \in KindsWithList /\ "nsg" \in KindsWithList
  BY DEF KindsWithList
<1> QED
  BY <1>1, RelistingIsSound, Zenon DEF GetVNet, GetNSG, Relisting

-----------------------------------------------------------------------------
(* The list of subnets in the record of a VNet (updateVNetSubnets).        *)

(* The last four calls of a request that got the list of a VNet again:     *)
(* they start after call e.                                                *)
EndsRelisting(r, e) ==
    LET c == r.calls IN
    /\ e \in Nat /\ Len(c) = e + 4 /\ DOMAIN c = 1..(e + 4) /\ r.cleanup = e + 5
    /\ \A i \in 1..e : PlainCall(c[i])
    /\ c[e + 1].op = "get" /\ c[e + 1].key.kind \in KindsWithList /\ c[e + 1].skip = 3
    /\ c[e + 2].op = "listByPrefix" /\ c[e + 2].skip = 0
    /\ c[e + 3].op = "assign" /\ c[e + 3].skip = 0
    /\ c[e + 4].op = "setSame" /\ c[e + 4].skip = 0
    /\ \A i \in 1..(e + 4) : Len(c[i].key.path) \in Nat

LEMMA RelistsWellFormed == ASSUME NEW r, NEW e, EndsRelisting(r, e) PROVE WellFormed(r)
<1> DEFINE c == r.calls
<1>1. /\ e \in Nat /\ Len(c) = e + 4 /\ DOMAIN c = 1..(e + 4) /\ r.cleanup = e + 5
      /\ \A i \in 1..e : PlainCall(c[i])
      /\ c[e + 1].op = "get" /\ c[e + 1].key.kind \in KindsWithList /\ c[e + 1].skip = 3
      /\ c[e + 2].op = "listByPrefix" /\ c[e + 2].skip = 0
      /\ c[e + 3].op = "assign" /\ c[e + 3].skip = 0
      /\ c[e + 4].op = "setSame" /\ c[e + 4].skip = 0
      /\ \A i \in 1..(e + 4) : Len(c[i].key.path) \in Nat
  BY DEF EndsRelisting
<1>2. \A i \in 1..(e + 4) : i \in 1..e \/ i = e + 1 \/ i = e + 2 \/ i = e + 3 \/ i = e + 4
  BY <1>1
<1>3. \A i \in 1..(e + 4) : c[i].skip = 0 \/ (i = e + 1 /\ c[i].skip = 3)
  BY <1>1, <1>2 DEF PlainCall
<1>4. \A i \in 1..(e + 4) : UsesList(c[i]) => i = e + 3 \/ i = e + 4
  BY <1>1, <1>2 DEF PlainCall, UsesList
<1> HIDE DEF c
<1>5. ASSUME NEW i \in {e + 3, e + 4} PROVE e + 1 \in 1..(i - 1) /\ Fetched(r, e + 1, i)
  <2>1. e + 1 \in 1..(i - 1)
    BY <1>1
  <2>2. \A j \in ((e + 1) + 1)..(i - 1) : j = e + 2 \/ j = e + 3
    BY <1>1
  <2>3. \A j \in ((e + 1) + 1)..(i - 1) : c[j].op \notin {"get", "look", "address"}
    BY <1>1, <2>2
  <2>4. \A j \in 1..(i - 1) : c[j].skip > 0 => j + c[j].skip + 1 \notin ((e + 1) + 1)..i
    <3>1. \A j \in 1..(i - 1) : j \in 1..(e + 4)
      BY <1>1
    <3> QED
      BY <1>1, <1>3, <3>1
  <2>5. r.cleanup \notin ((e + 1) + 1)..i
    BY <1>1
  <2> QED
    BY <1>1, <2>1, <2>3, <2>4, <2>5 DEF Fetched, c
<1>6. \A i \in DOMAIN c : c[i].skip \in Nat /\ Len(c[i].key.path) \in Nat /\ i + c[i].skip <= Len(c)
  BY <1>1, <1>3
<1>7. \A i \in DOMAIN c : UsesList(c[i]) => \E g \in 1..(i - 1) : Fetched(r, g, i)
  BY <1>1, <1>4, <1>5, Zenon
<1>8. Len(c) \in Nat /\ DOMAIN c = 1..Len(c) /\ r.cleanup \in 1..(Len(c) + 1)
  BY <1>1
<1>9. r.calls = c
  BY DEF c
<1> QED
  BY <1>6, <1>7, <1>8, <1>9, Zenon DEF WellFormed

(* One list of calls after the other.                                      *)
Follows(calls, p, q) == calls = p \o q

Parts(calls, p, q) ==
    /\ Len(calls) = Len(p) + Len(q) /\ DOMAIN calls = 1..(Len(p) + Len(q))
    /\ \A i \in 1..Len(p) : calls[i] = p[i]
    /\ \A i \in 1..Len(q) : calls[Len(p) + i] = q[i]

LEMMA FollowsJoined ==
  ASSUME NEW S, NEW p \in Seq(S), NEW q \in Seq(S), NEW calls, Follows(calls, p, q)
  PROVE  calls \in Seq(S) /\ Parts(calls, p, q)
<1> DEFINE m == Len(p)
           n == Len(q)
<1>1. m \in Nat /\ n \in Nat
  OBVIOUS
<1>2. /\ calls \in Seq(S) /\ Len(calls) = m + n
      /\ \A i \in 1..(m + n) : calls[i] = IF i <= m THEN p[i] ELSE q[i - m]
  BY ConcatProperties, Zenon DEF Follows
<1>3. DOMAIN calls = 1..(m + n)
  BY <1>2
<1> HIDE DEF m, n
<1>4. \A i \in 1..m : calls[i] = p[i]
  BY <1>1, <1>2
<1>5. \A i \in 1..n : calls[m + i] = q[i]
  <2> SUFFICES ASSUME NEW i \in 1..n PROVE calls[m + i] = q[i]
    OBVIOUS
  <2>1. m + i \in 1..(m + n) /\ ~(m + i <= m) /\ (m + i) - m = i
    BY <1>1
  <2> QED
    BY <1>2, <2>1
<1> QED
  BY <1>2, <1>3, <1>4, <1>5 DEF m, n, Parts

(* A request is some plain calls, then updateVNetSubnets.                  *)
Updates(calls, p, m, key) ==
    /\ \A i \in 1..m : calls[i] = p[i]
    /\ \A i \in DOMAIN calls : i > m =>
          /\ calls[i].op \in {"set", "setSame"} => calls[i].key = key
          /\ calls[i].op \notin {"set", "delete", "drop", "deleteByPrefix"}

LEMMA UpdateRelists ==
  ASSUME NEW r, NEW p, NEW m \in Nat, NEW g, NEW v, NEW S, p \in Seq(S), Len(p) = m,
         \A i \in 1..m : PlainCall(p[i]), NEW calls,
         Follows(calls, p, updateVNetSubnets(g, v)), r.calls = calls, r.cleanup = Len(calls) + 1
  PROVE  EndsRelisting(r, m) /\ Updates(calls, p, m, Key("vnet", <<g, v>>))
<1> DEFINE a == GetOrSkip("vnet", <<g, v>>, 3)
           b == ListByPrefix("subnet", <<g, v, "">>)
           d == Assign
           f == SetSame("vnet", <<g, v>>)
           q == <<a, b, d, f>>
           T == S \union {a, b, d, f}
<1>1. /\ a.op = "get" /\ a.key.kind \in KindsWithList /\ a.skip = 3 /\ Len(a.key.path) \in Nat
      /\ b.op = "listByPrefix" /\ b.skip = 0 /\ Len(b.key.path) \in Nat
      /\ d.op = "assign" /\ d.skip = 0 /\ Len(d.key.path) \in Nat
      /\ f.op = "setSame" /\ f.skip = 0 /\ Len(f.key.path) \in Nat /\ f.key = Key("vnet", <<g, v>>)
  BY DEF GetOrSkip, ListByPrefix, Assign, SetSame, Call, Key, KindsWithList
<1>2. Follows(calls, p, q)
  BY DEF updateVNetSubnets
<1> HIDE DEF a, b, d, f
<1>3. q \in Seq(T) /\ Len(q) = 4 /\ q[1] = a /\ q[2] = b /\ q[3] = d /\ q[4] = f
  OBVIOUS
<1>4. p \in Seq(T)
  OBVIOUS
<1> HIDE DEF q, T
<1>5. /\ Len(calls) = m + 4 /\ DOMAIN calls = 1..(m + 4)
      /\ \A i \in 1..m : calls[i] = p[i]
      /\ \A i \in 1..4 : calls[m + i] = q[i]
  <2>1. Parts(calls, p, q)
    BY <1>2, <1>3, <1>4, FollowsJoined
  <2> QED
    BY <1>3, <2>1 DEF Parts
<1>6. calls[m + 1] = a /\ calls[m + 2] = b /\ calls[m + 3] = d /\ calls[m + 4] = f
  BY <1>3, <1>5
<1>7. \A i \in 1..(m + 4) : i \in 1..m \/ (i > m /\ (i = m + 1 \/ i = m + 2 \/ i = m + 3 \/ i = m + 4))
  OBVIOUS
<1>8. \A i \in 1..(m + 4) : Len(calls[i].key.path) \in Nat
  BY <1>1, <1>5, <1>6, <1>7 DEF PlainCall
<1>9. EndsRelisting(r, m)
  BY <1>1, <1>5, <1>6, <1>8 DEF EndsRelisting
<1>10. \A i \in DOMAIN calls : i > m => i = m + 1 \/ i = m + 2 \/ i = m + 3 \/ i = m + 4
  BY <1>5
<1> QED
  BY <1>1, <1>5, <1>6, <1>9, <1>10 DEF Updates

LEMMA DeleteSubnetSound == ASSUME NEW g, NEW v, NEW s, NEW r, r = DeleteSubnet(g, v, s) PROVE Sound(r)
<1> DEFINE x == Delete("subnet", <<g, v, s>>)
           p == <<x>>
           calls == p \o updateVNetSubnets(g, v)
           key == Key("subnet", <<g, v, s>>)
           vnet == Key("vnet", <<g, v>>)
           S == {x}
<1>1. r.method = "DELETE" /\ r.target = key /\ r.calls = calls /\ r.cleanup = Len(calls) + 1
  BY DEF DeleteSubnet, Request
<1>2. PlainCall(x) /\ x.op = "delete" /\ x.key = key /\ key.kind = "subnet"
  BY PlainCalls DEF Delete, Call, Key
<1>v. Storable(vnet) /\ vnet.kind \notin ChildKinds \union {"publicip"}
  BY DEF Storable, Deep, Key, ChildKinds, ParentKinds
<1> HIDE DEF x, key, vnet
<1>3. p \in Seq(S) /\ Len(p) = 1 /\ p[1] = x
  OBVIOUS
<1>c. Follows(calls, p, updateVNetSubnets(g, v))
  BY DEF Follows
<1> HIDE DEF p, S, calls
<1>4. \A i \in 1..1 : PlainCall(p[i])
  BY <1>2, <1>3
<1>n. 1 \in Nat
  OBVIOUS
<1>u. EndsRelisting(r, 1) /\ Updates(calls, p, 1, vnet)
  BY <1>1, <1>3, <1>4, <1>c, <1>n, UpdateRelists DEF vnet
<1>5. /\ EndsRelisting(r, 1)
      /\ \A i \in 1..1 : calls[i] = p[i]
      /\ \A i \in DOMAIN calls : i > 1 /\ calls[i].op \in {"set", "setSame"} => calls[i].key = vnet
      /\ \A i \in DOMAIN calls : i > 1 => calls[i].op \notin {"set", "delete", "drop", "deleteByPrefix"}
  BY <1>u DEF Updates
<1>6. DOMAIN calls = 1..5 /\ \A i \in 1..5 : i = 1 \/ i > 1
  BY <1>1, <1>5 DEF EndsRelisting
<1>7. calls[1].op = "delete" /\ calls[1].key = key
  BY <1>2, <1>3, <1>5
<1>8. WellFormed(r)
  BY <1>5, RelistsWellFormed
<1>9. \A i \in DOMAIN calls :
        /\ calls[i].op \in {"set", "setSame"} => calls[i].key = vnet
        /\ calls[i].op \in {"delete", "drop", "deleteByPrefix"} => calls[i].op = "delete" /\ calls[i].key = key
  BY <1>5, <1>6, <1>7
<1>10. WellAimed(r)
  BY <1>1, <1>9 DEF WellAimed, Aimed
<1>11. WellAddressed(r) /\ AsksParents(r)
  BY <1>1, <1>9, <1>v, NoPublicIPAddressed, NoChildAsks DEF StoresNoAddress, StoresNoChild
<1>12. \A k \in Written(r) : Storable(k)
  BY <1>1, <1>9, <1>v DEF Written
<1>13. RemovesNoParent(r)
  BY <1>1, <1>2, <1>9, NoRoots DEF RemovesNoParent
<1>14. r.target.kind \notin SweepingKinds /\ ~IsDeployment(r)
  BY <1>1, <1>2 DEF SweepingKinds, IsDeployment
<1> QED
  BY <1>8, <1>10, <1>11, <1>12, <1>13, <1>14 DEF Sound

LEMMA PutSubnetSound == ASSUME NEW g, NEW v, NEW s, NEW r, r = PutSubnet(g, v, s) PROVE Sound(r)
<1> DEFINE path == <<g, v>> \o <<s>>
           x == Get("vnet", <<g, v>>)
           y == Look("subnet", path)
           z == Set("subnet", path)
           p == <<x, y, z>>
           calls == p \o updateVNetSubnets(g, v)
           vnet == Key("vnet", <<g, v>>)
           subnet == Key("subnet", path)
           S == {x, y, z}
<1>p. Len(path) \in Nat
  BY TwoAndMore
<1>1. r.method = "PUT" /\ r.target.kind = "subnet" /\ r.calls = calls /\ r.cleanup = Len(calls) + 1
  BY DEF PutSubnet, PutChild, Request, Key
<1> HIDE DEF path
<1>2. PlainCall(x) /\ PlainCall(y) /\ PlainCall(z)
  BY <1>p, PlainCalls
<1>3. x.op = "get" /\ y.op = "look" /\ z.op = "set" /\ z.key = subnet
  BY DEF Get, Look, Set, Call
<1>v. vnet.kind # "publicip" /\ Deep(vnet) /\ subnet.kind # "publicip" /\ Deep(subnet)
  BY DEF Deep, Key, KindsWithList
<1> HIDE DEF x, y, z, vnet, subnet
<1>4. p \in Seq(S) /\ Len(p) = 3 /\ p[1] = x /\ p[2] = y /\ p[3] = z
  OBVIOUS
<1>c. Follows(calls, p, updateVNetSubnets(g, v))
  BY DEF Follows
<1> HIDE DEF p, S, calls
<1>5. \A i \in 1..3 : PlainCall(p[i])
  BY <1>2, <1>4
<1>n. 3 \in Nat
  OBVIOUS
<1>u. EndsRelisting(r, 3) /\ Updates(calls, p, 3, vnet)
  BY <1>1, <1>4, <1>5, <1>c, <1>n, UpdateRelists DEF vnet
<1>6. /\ EndsRelisting(r, 3)
      /\ \A i \in 1..3 : calls[i] = p[i]
      /\ \A i \in DOMAIN calls : i > 3 /\ calls[i].op \in {"set", "setSame"} => calls[i].key = vnet
  BY <1>u DEF Updates
<1>7. DOMAIN calls = 1..7 /\ \A i \in 1..7 : i = 1 \/ i = 2 \/ i = 3 \/ i > 3
  BY <1>1, <1>6 DEF EndsRelisting
<1>8. \A i \in DOMAIN calls : calls[i].op \in {"set", "setSame"} => calls[i].key = vnet \/ calls[i].key = subnet
  BY <1>3, <1>4, <1>6, <1>7
<1>9. WellFormed(r)
  BY <1>6, RelistsWellFormed
<1>10. PICK f, parent : Adopts(r, f, parent, g, v)
  <2>1. ChildPut(r, g, v, s)
    BY DEF ChildPut
  <2> QED
    BY <2>1, ChildPutAdopts, Zenon
<1>11. \A i \in DOMAIN r.calls : r.calls[i].op \in {"set", "setSame"} =>
             r.calls[i].key.kind # "publicip" /\ Deep(r.calls[i].key)
  BY <1>1, <1>8, <1>v
<1>12. r.method # "DELETE" /\ ~IsDeployment(r)
  BY <1>1 DEF IsDeployment
<1> QED
  BY <1>9, <1>10, <1>11, <1>12, AdoptsIsSound

-----------------------------------------------------------------------------
(* Calls of requests put one after the other.                              *)

(* No jump lands on one of the calls from a to b.                          *)
Unskipped(c, a, b) == \A j \in DOMAIN c : c[j].skip > 0 => j + c[j].skip + 1 \notin a..b

(* The calls of requests that can be put one after the other: a record     *)
(* that asks for an address, or for a parent, has its calls together.      *)
Calm(call, len, i) ==
    /\ call.skip \in Nat /\ Len(call.key.path) \in Nat /\ i + call.skip <= len
    /\ ~UsesList(call) /\ call.op \notin {"setSame", "delete", "drop", "deleteByPrefix"}
    /\ call.op = "set" => Storable(call.key)
AddressReady(c, i) ==
    /\ i > 2 /\ c[i - 2].op = "look" /\ c[i - 2].key = c[i].key /\ c[i - 1].op = "address"
    /\ Unskipped(c, i - 1, i)
ParentReady(c, i) ==
    \E g \in 1..(i - 1) : /\ c[g].op = "set" /\ Parents(c[i].key) \subseteq {c[g].key}
                          /\ Unskipped(c, g + 1, i)
Ready(c, i) ==
    c[i].op = "set" => /\ c[i].key.kind = "publicip" => AddressReady(c, i)
                       /\ c[i].key.kind \in ChildKinds => ParentReady(c, i)
Composable(c) ==
    /\ \E S : c \in Seq(S)
    /\ \A i \in DOMAIN c : Calm(c[i], Len(c), i) /\ Ready(c, i)

(* The record is put, or the calls fail.                                   *)
Reaches(c, i) == \A j \in 1..(i - 1) : j + c[j].skip < i
PutsAt(c, i, k) == Reaches(c, i) /\ ((c[i].op = "set" /\ c[i].key = k) \/ FailsHere(c[i]))
Puts(c, k) == \E i \in DOMAIN c : PutsAt(c, i, k)

LEMMA SequenceShape == ASSUME NEW S, NEW c \in Seq(S) PROVE Len(c) \in Nat /\ DOMAIN c = 1..Len(c)
OBVIOUS

(* Each of two lists keeps its calls where they were, one after the other. *)
LEMMA StaysUnskipped ==
  ASSUME NEW c, NEW p, NEW q, NEW m \in Nat, NEW n \in Nat, Len(p) = m, Len(q) = n,
         DOMAIN p = 1..m, DOMAIN q = 1..n, Parts(c, p, q),
         \A i \in 1..m : p[i].skip \in Nat /\ i + p[i].skip <= m,
         \A i \in 1..n : q[i].skip \in Nat,
         NEW a \in Nat, NEW b \in Nat, 2 <= a
  PROVE  /\ Unskipped(p, a, b) /\ b <= m => Unskipped(c, a, b)
         /\ Unskipped(q, a, b) => Unskipped(c, m + a, m + b)
<1>1. /\ DOMAIN c = 1..(m + n)
      /\ \A i \in 1..m : c[i] = p[i]
      /\ \A i \in 1..n : c[m + i] = q[i]
  BY DEF Parts
<1>2. ASSUME NEW j \in 1..(m + n)
      PROVE  j \in 1..m \/ \E l \in 1..n : j = m + l
  <2>1. j <= m \/ (j - m \in 1..n /\ j = m + (j - m))
    OBVIOUS
  <2> QED
    BY <2>1
<1>3. ASSUME Unskipped(p, a, b), b <= m PROVE Unskipped(c, a, b)
  <2> SUFFICES ASSUME NEW j \in 1..(m + n), c[j].skip > 0 PROVE j + c[j].skip + 1 \notin a..b
    BY <1>1 DEF Unskipped
  <2>1. CASE j \in 1..m
    BY <1>1, <1>3, <2>1 DEF Unskipped
  <2>2. ASSUME NEW l \in 1..n, j = m + l PROVE j + c[j].skip + 1 \notin a..b
    <3>1. c[j].skip \in Nat /\ j > m
      BY <1>1, <2>2
    <3> QED
      BY <1>3, <3>1
  <2> QED
    BY <1>2, <2>1, <2>2
<1>4. ASSUME Unskipped(q, a, b) PROVE Unskipped(c, m + a, m + b)
  <2> SUFFICES ASSUME NEW j \in 1..(m + n), c[j].skip > 0 PROVE j + c[j].skip + 1 \notin (m + a)..(m + b)
    BY <1>1 DEF Unskipped
  <2>1. CASE j \in 1..m
    <3>1. c[j].skip \in Nat /\ j + c[j].skip <= m
      BY <1>1, <2>1
    <3> QED
      BY <3>1
  <2>2. ASSUME NEW l \in 1..n, j = m + l PROVE j + c[j].skip + 1 \notin (m + a)..(m + b)
    <3>1. c[j].skip = q[l].skip /\ q[l].skip \in Nat
      BY <1>1, <2>2
    <3>2. l + q[l].skip + 1 \notin a..b
      BY <1>4, <3>1 DEF Unskipped
    <3> QED
      BY <2>2, <3>1, <3>2
  <2> QED
    BY <1>2, <2>1, <2>2
<1> QED
  BY <1>3, <1>4

LEMMA ComposesFirst ==
  ASSUME NEW c, NEW p, NEW q, NEW m \in Nat, NEW n \in Nat, Len(p) = m, Len(q) = n,
         DOMAIN p = 1..m, DOMAIN q = 1..n, Parts(c, p, q),
         \A i \in 1..m : Calm(p[i], m, i) /\ Ready(p, i),
         \A i \in 1..n : Calm(q[i], n, i) /\ Ready(q, i),
         NEW i \in 1..m
  PROVE  Calm(c[i], m + n, i) /\ Ready(c, i)
<1>1. \A j \in 1..m : c[j] = p[j]
  BY DEF Parts
<1>2. Calm(c[i], m + n, i)
  BY <1>1 DEF Calm
<1>3. ASSUME NEW a \in Nat, 2 <= a, Unskipped(p, a, i) PROVE Unskipped(c, a, i)
  <2>1. /\ \A j \in 1..m : p[j].skip \in Nat /\ j + p[j].skip <= m
        /\ \A j \in 1..n : q[j].skip \in Nat
    BY DEF Calm
  <2>2. i <= m /\ i \in Nat
    OBVIOUS
  <2>3. \A j \in 1..n : q[j].skip \in Nat
    BY <2>1
  <2>4. \A j \in 1..m : p[j].skip \in Nat /\ j + p[j].skip <= m
    BY <2>1
  <2> QED
    BY <1>3, <2>2, <2>3, <2>4, StaysUnskipped, Zenon
<1>4. ASSUME AddressReady(p, i) PROVE AddressReady(c, i)
  <2>1. i - 1 \in 1..m /\ i - 2 \in 1..m /\ 2 <= i - 1
    BY <1>4 DEF AddressReady
  <2> QED
    BY <1>1, <1>3, <1>4, <2>1 DEF AddressReady
<1>5. ASSUME ParentReady(p, i) PROVE ParentReady(c, i)
  <2>1. PICK g \in 1..(i - 1) : p[g].op = "set" /\ Parents(p[i].key) \subseteq {p[g].key} /\ Unskipped(p, g + 1, i)
    BY <1>5 DEF ParentReady
  <2>2. g \in 1..m /\ g + 1 \in Nat /\ 2 <= g + 1
    OBVIOUS
  <2>3. Unskipped(c, g + 1, i)
    BY <1>3, <2>1, <2>2
  <2> QED
    BY <1>1, <2>1, <2>2, <2>3 DEF ParentReady
<1> QED
  BY <1>1, <1>2, <1>4, <1>5 DEF Ready

LEMMA ComposesSecond ==
  ASSUME NEW c, NEW p, NEW q, NEW m \in Nat, NEW n \in Nat, Len(p) = m, Len(q) = n,
         DOMAIN p = 1..m, DOMAIN q = 1..n, Parts(c, p, q),
         \A i \in 1..m : Calm(p[i], m, i) /\ Ready(p, i),
         \A i \in 1..n : Calm(q[i], n, i) /\ Ready(q, i),
         NEW i \in 1..n
  PROVE  Calm(c[m + i], m + n, m + i) /\ Ready(c, m + i)
<1>1. \A j \in 1..n : c[m + j] = q[j]
  BY DEF Parts
<1>2. Calm(c[m + i], m + n, m + i)
  <2>1. c[m + i] = q[i] /\ Calm(q[i], n, i)
    BY <1>1
  <2> QED
    BY <2>1 DEF Calm
<1>3. ASSUME NEW a \in Nat, 2 <= a, Unskipped(q, a, i) PROVE Unskipped(c, m + a, m + i)
  <2>1. /\ \A j \in 1..m : p[j].skip \in Nat /\ j + p[j].skip <= m
        /\ \A j \in 1..n : q[j].skip \in Nat
    BY DEF Calm
  <2> QED
    BY <1>3, <2>1, StaysUnskipped
<1>4. ASSUME AddressReady(q, i) PROVE AddressReady(c, m + i)
  <2>1. i - 1 \in 1..n /\ i - 2 \in 1..n /\ 2 <= i - 1 /\ m + (i - 1) = (m + i) - 1 /\ m + (i - 2) = (m + i) - 2
        /\ m + i > 2 /\ i - 1 \in Nat
    BY <1>4 DEF AddressReady
  <2>2. Unskipped(c, m + (i - 1), m + i)
    BY <1>3, <1>4, <2>1 DEF AddressReady
  <2>3. c[m + i] = q[i] /\ c[(m + i) - 1] = q[i - 1] /\ c[(m + i) - 2] = q[i - 2]
    BY <1>1, <2>1
  <2>4. Unskipped(c, (m + i) - 1, m + i)
    BY <2>1, <2>2
  <2> QED
    BY <1>4, <2>1, <2>3, <2>4 DEF AddressReady
<1>5. ASSUME ParentReady(q, i) PROVE ParentReady(c, m + i)
  <2>1. PICK g \in 1..(i - 1) : q[g].op = "set" /\ Parents(q[i].key) \subseteq {q[g].key} /\ Unskipped(q, g + 1, i)
    BY <1>5 DEF ParentReady
  <2>2. g \in 1..n /\ g + 1 \in Nat /\ 2 <= g + 1 /\ m + (g + 1) = (m + g) + 1 /\ m + g \in 1..((m + i) - 1)
    OBVIOUS
  <2>3. Unskipped(c, m + (g + 1), m + i)
    BY <1>3, <2>1, <2>2
  <2>4. c[m + i] = q[i] /\ c[m + g] = q[g]
    BY <1>1, <2>2
  <2>5. Unskipped(c, (m + g) + 1, m + i)
    BY <2>2, <2>3
  <2> QED
    BY <2>1, <2>2, <2>4, <2>5 DEF ParentReady
<1> QED
  BY <1>1, <1>2, <1>4, <1>5 DEF Ready

LEMMA Composed ==
  ASSUME NEW p, NEW q, Composable(p), Composable(q), NEW c, Follows(c, p, q)
  PROVE  /\ Composable(c) /\ Parts(c, p, q)
         /\ \A k : Puts(p, k) \/ Puts(q, k) => Puts(c, k)
<1> DEFINE m == Len(p)
           n == Len(q)
<1>1. PICK P : p \in Seq(P)
  BY DEF Composable
<1>2. PICK Q : q \in Seq(Q)
  BY DEF Composable
<1>3. p \in Seq(P \union Q) /\ q \in Seq(P \union Q)
  BY <1>1, <1>2
<1>4. c \in Seq(P \union Q) /\ Parts(c, p, q)
  BY <1>3, FollowsJoined
<1>5. m \in Nat /\ n \in Nat /\ DOMAIN p = 1..m /\ DOMAIN q = 1..n
  BY <1>1, <1>2, SequenceShape
<1>6. /\ \A i \in 1..m : Calm(p[i], m, i) /\ Ready(p, i)
      /\ \A i \in 1..n : Calm(q[i], n, i) /\ Ready(q, i)
  BY <1>5 DEF Composable
<1>l. Len(p) = m /\ Len(q) = n
  OBVIOUS
<1> HIDE DEF m, n
<1>7. DOMAIN c = 1..(m + n) /\ Len(c) = m + n
  BY <1>4, <1>l DEF Parts
<1>8. \A i \in 1..(m + n) : i \in 1..m \/ \E l \in 1..n : i = m + l
  <2> SUFFICES ASSUME NEW i \in 1..(m + n), i \notin 1..m PROVE \E l \in 1..n : i = m + l
    OBVIOUS
  <2>1. i - m \in 1..n /\ i = m + (i - m)
    BY <1>5
  <2> QED
    BY <2>1
<1>9. \A i \in 1..m : Calm(c[i], m + n, i) /\ Ready(c, i)
  BY <1>4, <1>5, <1>6, <1>l, ComposesFirst
<1>10. \A i \in 1..n : Calm(c[m + i], m + n, m + i) /\ Ready(c, m + i)
  BY <1>4, <1>5, <1>6, <1>l, ComposesSecond
<1>11. Composable(c)
  <2>1. \A i \in DOMAIN c : Calm(c[i], Len(c), i) /\ Ready(c, i)
    BY <1>7, <1>8, <1>9, <1>10
  <2> QED
    BY <1>4, <2>1 DEF Composable
<1>12. /\ \A i \in 1..m : c[i] = p[i]
       /\ \A i \in 1..n : c[m + i] = q[i]
  BY <1>4, <1>l DEF Parts
<1>13. ASSUME NEW k, Puts(p, k) PROVE Puts(c, k)
  <2>1. PICK i \in 1..m : PutsAt(p, i, k)
    BY <1>5, <1>13 DEF Puts
  <2>2. c[i] = p[i] /\ \A j \in 1..(i - 1) : c[j] = p[j]
    BY <1>5, <1>12
  <2>3. PutsAt(c, i, k)
    BY <2>1, <2>2 DEF PutsAt, Reaches
  <2>4. i \in DOMAIN c
    BY <1>5, <1>7
  <2> QED
    BY <2>3, <2>4 DEF Puts
<1>14. ASSUME NEW k, Puts(q, k) PROVE Puts(c, k)
  <2>1. PICK i \in 1..n : PutsAt(q, i, k)
    BY <1>5, <1>14 DEF Puts
  <2>2. c[m + i] = q[i]
    BY <1>12
  <2>3. ASSUME NEW j \in 1..((m + i) - 1) PROVE j + c[j].skip < m + i
    <3>1. CASE j \in 1..m
      <4>1. c[j] = p[j] /\ p[j].skip \in Nat /\ j + p[j].skip <= m
        BY <1>6, <1>12, <3>1 DEF Calm
      <4> QED
        BY <1>5, <3>1, <4>1
    <3>2. CASE j \notin 1..m
      <4>1. j - m \in 1..(i - 1) /\ j = m + (j - m) /\ j - m \in 1..n
        BY <1>5, <3>2
      <4>2. c[j] = q[j - m]
        BY <1>12, <4>1
      <4>3. (j - m) + q[j - m].skip < i /\ q[j - m].skip \in Nat
        BY <1>6, <2>1, <4>1 DEF PutsAt, Reaches, Calm
      <4> QED
        BY <1>5, <4>1, <4>2, <4>3
    <3> QED
      BY <3>1, <3>2
  <2>4. PutsAt(c, m + i, k)
    BY <2>1, <2>2, <2>3 DEF PutsAt, Reaches
  <2>5. m + i \in DOMAIN c
    BY <1>5, <1>7
  <2> QED
    BY <2>4, <2>5 DEF Puts
<1> QED
  BY <1>4, <1>11, <1>13, <1>14

-----------------------------------------------------------------------------
(* The PUTs a template is made of.                                         *)

(* Calls that are composable wherever they stand.                          *)
Quiet(call) ==
    /\ PlainCall(call) /\ call.op \notin {"setSame", "delete", "drop", "deleteByPrefix"}
    /\ call.op = "set" => call.key.kind \notin ChildKinds \union {"publicip"} /\ Deep(call.key)
LastsWith(calls, n, k) ==
    /\ \E S : calls \in Seq(S)
    /\ n \in Nat /\ Len(calls) = n /\ \A i \in 1..n : Quiet(calls[i])
    /\ \E i \in 1..n : (calls[i].op = "set" /\ calls[i].key = k) \/ FailsHere(calls[i])

LEMMA QuietComposes ==
  ASSUME NEW calls, NEW n, NEW k, LastsWith(calls, n, k)
  PROVE  Composable(calls) /\ Puts(calls, k)
<1>1. DOMAIN calls = 1..n /\ n \in Nat /\ Len(calls) = n /\ \A i \in 1..n : Quiet(calls[i])
  BY SequenceShape DEF LastsWith
<1>2. \A i \in 1..n : Calm(calls[i], n, i)
  <2> SUFFICES ASSUME NEW i \in 1..n PROVE Calm(calls[i], n, i)
    OBVIOUS
  <2>1. Quiet(calls[i])
    BY <1>1
  <2> QED
    BY <1>1, <2>1 DEF Quiet, PlainCall, Calm, Storable
<1>3. \A i \in 1..n : Ready(calls, i)
  BY <1>1 DEF Ready, Quiet
<1>4. Composable(calls)
  BY <1>1, <1>2, <1>3 DEF LastsWith, Composable
<1>5. PICK i \in 1..n : (calls[i].op = "set" /\ calls[i].key = k) \/ FailsHere(calls[i])
  BY DEF LastsWith
<1>6. Reaches(calls, i)
  BY <1>1 DEF Reaches, Quiet, PlainCall
<1> QED
  BY <1>1, <1>4, <1>5, <1>6 DEF Puts, PutsAt

LEMMA QuietCalls ==
  ASSUME NEW kind, NEW path, Len(path) \in Nat
  PROVE  /\ Quiet(Get(kind, path)) /\ Quiet(Look(kind, path)) /\ Quiet(ListByPrefix(kind, path))
         /\ Quiet(MayFail) /\ Quiet(NotRouted)
         /\ Fits(kind, path) => Quiet(Set(kind, path))
<1>1. Quiet(Get(kind, path)) /\ Quiet(Look(kind, path)) /\ Quiet(ListByPrefix(kind, path))
  BY DEF Quiet, PlainCall, UsesList, Get, Look, ListByPrefix, Call, Key
<1>2. Quiet(MayFail) /\ Quiet(NotRouted)
  <2>1. Len(<<>>) \in Nat
    OBVIOUS
  <2> QED
    BY <2>1 DEF Quiet, PlainCall, UsesList, MayFail, NotRouted, Call, Key
<1>3. Fits(kind, path) => Quiet(Set(kind, path))
  BY DEF Quiet, PlainCall, UsesList, Fits, Set, Call, Key
<1> QED
  BY <1>1, <1>2, <1>3

(* Lists of one, two or three calls, one of which puts the record.         *)
LEMMA ShortLists ==
  ASSUME NEW x, NEW y, NEW z, NEW k, Quiet(x), (x.op = "set" /\ x.key = k) \/ FailsHere(x)
  PROVE  /\ LastsWith(<<x>>, 1, k)
         /\ Quiet(y) => LastsWith(<<y, x>>, 2, k) /\ LastsWith(<<x, y>>, 2, k)
         /\ Quiet(y) /\ Quiet(z) => LastsWith(<<y, z, x>>, 3, k) /\ LastsWith(<<y, x, z>>, 3, k)
<1>1. LastsWith(<<x>>, 1, k)
  <2> DEFINE p == <<x>>
  <2>1. p \in Seq({x}) /\ Len(p) = 1 /\ p[1] = x
    OBVIOUS
  <2>2. \A i \in 1..1 : i = 1
    OBVIOUS
  <2> HIDE DEF p
  <2>3. LastsWith(p, 1, k)
    BY <2>1, <2>2 DEF LastsWith
  <2> QED
    BY <2>3 DEF p
<1>2. ASSUME Quiet(y) PROVE LastsWith(<<y, x>>, 2, k) /\ LastsWith(<<x, y>>, 2, k)
  <2> DEFINE p == <<y, x>>
             q == <<x, y>>
  <2>1. /\ p \in Seq({x, y}) /\ Len(p) = 2 /\ p[1] = y /\ p[2] = x
        /\ q \in Seq({x, y}) /\ Len(q) = 2 /\ q[1] = x /\ q[2] = y
    OBVIOUS
  <2>2. \A i \in 1..2 : i = 1 \/ i = 2
    OBVIOUS
  <2> HIDE DEF p, q
  <2>3. LastsWith(p, 2, k) /\ LastsWith(q, 2, k)
    BY <1>2, <2>1, <2>2 DEF LastsWith
  <2> QED
    BY <2>3 DEF p, q
<1>3. ASSUME Quiet(y), Quiet(z) PROVE LastsWith(<<y, z, x>>, 3, k) /\ LastsWith(<<y, x, z>>, 3, k)
  <2> DEFINE p == <<y, z, x>>
             q == <<y, x, z>>
  <2>1. /\ p \in Seq({x, y, z}) /\ Len(p) = 3 /\ p[1] = y /\ p[2] = z /\ p[3] = x
        /\ q \in Seq({x, y, z}) /\ Len(q) = 3 /\ q[1] = y /\ q[2] = x /\ q[3] = z
    OBVIOUS
  <2>2. \A i \in 1..3 : i = 1 \/ i = 2 \/ i = 3
    OBVIOUS
  <2> HIDE DEF p, q
  <2>3. LastsWith(p, 3, k) /\ LastsWith(q, 3, k)
    BY <1>3, <2>1, <2>2 DEF LastsWith
  <2> QED
    BY <2>3 DEF p, q
<1> QED
  BY <1>1, <1>2, <1>3

(* What a deployment may put.                                              *)
DeployedPlain(g, n) ==
    {PutVNet(g, n), PutLoadBalancer(g, n), PutAppGateway(g, n), PutSqlServer(g, n), PutPgServer(g, n),
     PutMySqlServer(g, n), PutCosmosAccount(g, n), PutConfigStore(g, n), PutRegistry(g, n),
     PutEventTopic(g, n), PutNamespace(g, n), PutContainerApp(g, n), PutJob(g, n),
     PutManagedEnvironment(g, n), PutServerFarm(g, n)}
DeployedOther(g, n) ==
    {PutNSG(g, n), PutCache(g, n), PutStorageAccount(g, n), PutSite(g, n), PutIdentity(g, n)}
Deployable(r) ==
    \/ \E g, n : r \in DeployedPlain(g, n) \union DeployedOther(g, n)
                       \union {PutPublicIP(g, n), PutZone(g, n)}
    \/ \E kind, path : r = NestedResource(kind, path)

PutsItself(r) == Composable(r.calls) /\ Puts(r.calls, r.target)

LEMMA LastingRequest ==
  ASSUME NEW kind, NEW path, NEW calls, NEW n, LastsWith(calls, n, Key(kind, path))
  PROVE  PutsItself(Request("PUT", kind, path, calls))
<1> DEFINE r == Request("PUT", kind, path, calls)
<1>1. r.calls = calls /\ r.target = Key(kind, path)
  BY DEF Request
<1> QED
  BY <1>1, QuietComposes DEF PutsItself

LEMMA SetPuts ==
  ASSUME NEW kind, NEW path
  PROVE  Set(kind, path).op = "set" /\ Set(kind, path).key = Key(kind, path)
BY DEF Set, Call

LEMMA PlainPutsItself ==
  ASSUME NEW kind, NEW path, Len(path) \in Nat, Fits(kind, path)
  PROVE  PutsItself(PutPlain(kind, path))
<1> DEFINE x == Set(kind, path)
           y == Look(kind, path)
           key == Key(kind, path)
<1>1. Quiet(x) /\ Quiet(y) /\ x.op = "set" /\ x.key = key
  BY QuietCalls, SetPuts
<1> HIDE DEF x, y, key
<1>2. LastsWith(<<y, x>>, 2, key)
  BY <1>1, ShortLists
<1> QED
  BY <1>2, LastingRequest DEF PutPlain, x, y, key

LEMMA DeployedPlainly ==
  ASSUME NEW g, NEW n, NEW r \in DeployedPlain(g, n) PROVE PutsItself(r)
<1> DEFINE Good(kind) == PutsItself(PutPlain(kind, <<g, n>>))
<1>1. ASSUME NEW kind,
             kind \notin {"subnet", "nsgrule", "dns:record", "sqldb:db", "pgflex:db", "dbmysql:db",
                          "queue:msg", "publicip", "blob:blob"}
      PROVE  Good(kind)
  <2>1. Len(<<g, n>>) = 2
    OBVIOUS
  <2>2. Fits(kind, <<g, n>>)
    BY <1>1, <2>1 DEF Fits, Deep, Key, ChildKinds, ParentKinds, KindsWithList
  <2> QED
    BY <2>1, <2>2, PlainPutsItself
<1> HIDE DEF Good
<1>2. /\ Good("vnet") /\ Good("lb") /\ Good("appgw") /\ Good("sqldb:server") /\ Good("pgflex:server")
      /\ Good("dbmysql:server") /\ Good("cosmos:account") /\ Good("appconfig:store")
      /\ Good("acr:registry") /\ Good("eg:topic") /\ Good("sb:namespace") /\ Good("containerapp")
      /\ Good("containerjob") /\ Good("managedenv") /\ Good("serverfarm")
  BY <1>1
<1> QED
  BY <1>2 DEF Good, DeployedPlain, PutVNet, PutLoadBalancer, PutAppGateway, PutSqlServer, PutPgServer,
       PutMySqlServer, PutCosmosAccount, PutConfigStore, PutRegistry, PutEventTopic, PutNamespace,
       PutContainerApp, PutJob, PutManagedEnvironment, PutServerFarm

LEMMA LongerPuts ==
  ASSUME NEW kind, NEW path, Len(path) \in Nat, Fits(kind, path), NEW y, NEW z, Quiet(y), Quiet(z), NEW calls,
         calls \in {<<y, z, Set(kind, path)>>, <<y, Set(kind, path), z>>, <<Set(kind, path), z>>}
  PROVE  PutsItself(Request("PUT", kind, path, calls))
<1> DEFINE x == Set(kind, path)
           key == Key(kind, path)
<1>1. Quiet(x) /\ x.op = "set" /\ x.key = key
  BY QuietCalls, SetPuts
<1>2. calls \in {<<y, z, x>>, <<y, x, z>>, <<x, z>>}
  OBVIOUS
<1> HIDE DEF x, key
<1>3. LastsWith(<<y, z, x>>, 3, key) /\ LastsWith(<<y, x, z>>, 3, key) /\ LastsWith(<<x, z>>, 2, key)
  BY <1>1, ShortLists
<1>4. LastsWith(calls, 3, key) \/ LastsWith(calls, 2, key)
  BY <1>2, <1>3, Zenon
<1> QED
  BY <1>4, LastingRequest DEF key

LEMMA DeployedOtherwise ==
  ASSUME NEW g, NEW n, NEW r \in DeployedOther(g, n) PROVE PutsItself(r)
<1> DEFINE path == <<g, n>>
           identity == <<g>> \o <<n>>
           rules == <<g, n, "">>
           site == <<n>>
           group == <<g>>
<1>1. Len(path) = 2 /\ Len(site) = 1 /\ Len(group) = 1 /\ Len(rules) = 3 /\ Len(identity) = 2
  BY OneAndOne
<1> HIDE DEF path, identity, rules, site, group
<1>2. /\ Fits("nsg", path) /\ Fits("redis", path) /\ Fits("blob:account", path)
      /\ Fits("blob:sharedkeyctx", site) /\ Fits("func", path) /\ Fits("func", site)
      /\ Fits("msi:identity", identity)
  BY <1>1 DEF Fits, Deep, Key, ChildKinds, ParentKinds, KindsWithList
<1>3. /\ Quiet(Look("nsg", path)) /\ Quiet(ListByPrefix("nsgrule", rules)) /\ Quiet(MayFail)
      /\ Quiet(Look("redis", path)) /\ Quiet(Look("func", path)) /\ Quiet(Set("func", site))
      /\ Quiet(Set("blob:sharedkeyctx", site)) /\ Quiet(Get("rg", group))
      /\ Quiet(Look("msi:identity", identity))
  <2>1. Len(path) \in Nat /\ Len(site) \in Nat /\ Len(group) \in Nat /\ Len(rules) \in Nat
        /\ Len(identity) \in Nat
    BY <1>1
  <2> QED
    BY <1>2, <2>1, QuietCalls
<1>5. PutsItself(PutNSG(g, n))
  BY <1>1, <1>2, <1>3, LongerPuts DEF PutNSG, path, rules
<1>6. PutsItself(PutCache(g, n))
  BY <1>1, <1>2, <1>3, LongerPuts DEF PutCache, path
<1>7. PutsItself(PutStorageAccount(g, n))
  BY <1>1, <1>2, <1>3, LongerPuts DEF PutStorageAccount, path, site
<1>8. PutsItself(PutSite(g, n))
  BY <1>1, <1>2, <1>3, LongerPuts DEF PutSite, path, site
<1>9. PutsItself(PutIdentity(g, n))
  BY <1>1, <1>2, <1>3, LongerPuts DEF PutIdentity, PutChild, identity, group
<1> QED
  BY <1>5, <1>6, <1>7, <1>8, <1>9 DEF DeployedOther

-----------------------------------------------------------------------------
(* Every PUT of a template puts its record, and so does the template.      *)

LEMMA NestedPutsItself == ASSUME NEW kind, NEW path PROVE PutsItself(NestedResource(kind, path))
<1>1. Quiet(NotRouted)
  <2>1. Len(<<"">>) \in Nat
    OBVIOUS
  <2> QED
    BY <2>1, QuietCalls, Zenon
<1>f. FailsHere(NotRouted)
  BY DEF FailsHere, NotRouted, Call
<1>2. LastsWith(<<NotRouted>>, 1, Key(kind, path))
  BY <1>1, <1>f, ShortLists
<1> QED
  BY <1>2, LastingRequest DEF NestedResource

(* Three calls of which the second chooses an address.                     *)
LEMMA AddressedPutsItself == ASSUME NEW g, NEW n PROVE PutsItself(PutPublicIP(g, n))
<1> DEFINE r == PutPublicIP(g, n)
           path == <<g, n>>
           x == Look("publicip", path)
           y == Address
           z == Set("publicip", path)
           c == <<x, y, z>>
           key == Key("publicip", path)
<1>1. r.calls = c /\ r.target = key
  BY DEF PutPublicIP, Request
<1>p. Len(path) \in Nat /\ Len(<<>>) \in Nat
  OBVIOUS
<1> HIDE DEF path
<1>2. /\ x.op = "look" /\ x.key = key /\ x.skip = 0 /\ y.op = "address" /\ y.skip = 0
      /\ z.op = "set" /\ z.key = key /\ z.skip = 0 /\ Len(y.key.path) \in Nat /\ Len(key.path) \in Nat
  BY <1>p DEF Look, Address, Set, Call, Key
<1>3. Storable(key) /\ key.kind = "publicip" /\ key.kind \notin ChildKinds
  BY DEF Storable, Deep, Key, ChildKinds, ParentKinds, KindsWithList
<1> HIDE DEF x, y, z, key
<1>4. c \in Seq({x, y, z}) /\ Len(c) = 3 /\ c[1] = x /\ c[2] = y /\ c[3] = z
  OBVIOUS
<1> HIDE DEF r
<1>5. DOMAIN c = 1..3
  BY <1>4
<1> HIDE DEF c
<1>6. \A i \in 1..3 : i = 1 \/ i = 2 \/ i = 3
  OBVIOUS
<1>7. \A i \in 1..3 : Calm(c[i], 3, i)
  <2>1. Calm(x, 3, 1) /\ Calm(y, 3, 2) /\ Calm(z, 3, 3)
    BY <1>2, <1>3 DEF Calm, UsesList
  <2> QED
    BY <1>4, <1>6, <2>1
<1>8. \A j \in 1..3 : c[j].skip = 0
  BY <1>2, <1>4, <1>6
<1>9. AddressReady(c, 3)
  <2>1. Unskipped(c, 2, 3)
    BY <1>5, <1>8 DEF Unskipped
  <2>2. 3 - 2 = 1 /\ 3 - 1 = 2 /\ 3 > 2
    OBVIOUS
  <2> QED
    BY <1>2, <1>4, <2>1, <2>2 DEF AddressReady
<1>10. \A i \in 1..3 : Ready(c, i)
  BY <1>2, <1>3, <1>4, <1>6, <1>9 DEF Ready
<1>11. Composable(c)
  BY <1>4, <1>5, <1>7, <1>10 DEF Composable
<1>12. PutsAt(c, 3, key)
  <2>1. \A j \in 1..2 : j + c[j].skip < 3
    BY <1>8
  <2> QED
    BY <1>2, <1>4, <2>1 DEF PutsAt, Reaches
<1>13. Puts(c, key)
  BY <1>5, <1>12 DEF Puts
<1> QED
  BY <1>1, <1>11, <1>13 DEF PutsItself, r

LEMMA ZoneRecords ==
  ASSUME NEW g, NEW n, NEW t, NEW s
  PROVE  ChildOf(Key("dns:record", <<g, n, t, s>>), "dns:zone", g, n)
<1>1. <<g, n, t, s>> = <<g, n>> \o <<t, s>>
  OBVIOUS
<1>2. <<"dns:record", "dns:zone">> \in ParentKinds
  BY DEF ParentKinds
<1>3. ChildOf(Key("dns:record", <<g, n>> \o <<t, s>>), "dns:zone", g, n)
  BY <1>2, ChildKeys, Zenon
<1> QED
  BY <1>1, <1>3, Zenon

(* A zone and its two records.                                             *)
LEMMA ZonePutsItself == ASSUME NEW g, NEW n PROVE PutsItself(PutZone(g, n))
<1> DEFINE r == PutZone(g, n)
           path == <<g, n>>
           soa == <<g, n, "SOA", "@">>
           ns == <<g, n, "NS", "@">>
           u == Look("dns:zone", path)
           v == Set("dns:zone", path)
           w == SkipIfFound(3)
           x == Set("dns:record", soa)
           y == Set("dns:record", ns)
           c == <<u, v, w, x, y, v>>
           key == Key("dns:zone", path)
           first == Key("dns:record", soa)
           second == Key("dns:record", ns)
<1>1. r.calls = c /\ r.target = key
  BY DEF PutZone, Request
<1>p. Len(path) = 2 /\ Len(<<>>) \in Nat /\ Len(soa) = 4 /\ Len(ns) = 4
  OBVIOUS
<1>q. ChildOf(first, "dns:zone", g, n) /\ ChildOf(second, "dns:zone", g, n)
  BY ZoneRecords, Zenon
<1> HIDE DEF path, soa, ns
<1>2. /\ u.op = "look" /\ u.skip = 0 /\ Len(u.key.path) \in Nat
      /\ v.op = "set" /\ v.key = key /\ v.skip = 0 /\ Len(v.key.path) \in Nat
      /\ w.op = "unlessFound" /\ w.skip = 3 /\ Len(w.key.path) \in Nat
      /\ x.op = "set" /\ x.key = first /\ x.skip = 0 /\ Len(x.key.path) \in Nat
      /\ y.op = "set" /\ y.key = second /\ y.skip = 0 /\ Len(y.key.path) \in Nat
  <2>1. Tame(w)
    BY <1>p, TameCalls
  <2>2. w.op = "unlessFound" /\ w.skip = 3
    BY DEF SkipIfFound, Call
  <2>3. /\ u.op = "look" /\ u.skip = 0 /\ u.key.path = path
        /\ v.op = "set" /\ v.key = key /\ v.skip = 0 /\ v.key.path = path
    BY DEF Look, Set, Call, Key
  <2>4. /\ x.op = "set" /\ x.key = first /\ x.skip = 0 /\ x.key.path = soa
        /\ y.op = "set" /\ y.key = second /\ y.skip = 0 /\ y.key.path = ns
    BY DEF Set, Call, Key
  <2> HIDE DEF u, v, w, x, y, key, first, second
  <2> QED
    BY <1>p, <2>1, <2>2, <2>3, <2>4 DEF Tame
<1>3. /\ Storable(key) /\ key.kind # "publicip" /\ key.kind \notin ChildKinds
      /\ Storable(first) /\ first.kind # "publicip" /\ Storable(second) /\ second.kind # "publicip"
  <2>1. Deep(key) /\ Deep(first) /\ Deep(second)
    BY DEF Deep, Key, KindsWithList
  <2>2. key.kind = "dns:zone" /\ first.kind = "dns:record" /\ second.kind = "dns:record"
    BY DEF Key
  <2>3. "dns:zone" \notin ChildKinds
    BY DEF ChildKinds, ParentKinds
  <2> QED
    BY <1>q, <2>1, <2>2, <2>3, Zenon DEF Storable
<1>4. Parents(first) \subseteq {key} /\ Parents(second) \subseteq {key}
  BY <1>q, ParentOfChild DEF path
<1> HIDE DEF u, v, w, x, y, key, first, second
<1>5. c \in Seq({u, v, w, x, y}) /\ Len(c) = 6 /\ c[1] = u /\ c[2] = v /\ c[3] = w /\ c[4] = x /\ c[5] = y /\ c[6] = v
  OBVIOUS
<1> HIDE DEF r
<1>6. DOMAIN c = 1..6
  BY <1>5
<1> HIDE DEF c
<1>7. \A i \in 1..6 : i = 1 \/ i = 2 \/ i = 3 \/ i = 4 \/ i = 5 \/ i = 6
  OBVIOUS
<1>8. \A i \in 1..6 : Calm(c[i], 6, i)
  <2>1. Calm(u, 6, 1) /\ Calm(v, 6, 2) /\ Calm(w, 6, 3) /\ Calm(x, 6, 4) /\ Calm(y, 6, 5) /\ Calm(v, 6, 6)
    BY <1>2, <1>3 DEF Calm, UsesList
  <2> QED
    BY <1>5, <1>7, <2>1
<1>9. \A j \in 1..6 : c[j].skip > 0 => j + c[j].skip + 1 = 7
  BY <1>2, <1>5, <1>7
<1>10. ParentReady(c, 4) /\ ParentReady(c, 5)
  <2>1. Unskipped(c, 3, 4) /\ Unskipped(c, 3, 5)
    BY <1>6, <1>9 DEF Unskipped
  <2>2. 2 \in 1..(4 - 1) /\ 2 \in 1..(5 - 1) /\ 2 + 1 = 3
    OBVIOUS
  <2> QED
    BY <1>2, <1>4, <1>5, <2>1, <2>2 DEF ParentReady
<1>11. \A i \in 1..6 : Ready(c, i)
  BY <1>2, <1>3, <1>5, <1>7, <1>10 DEF Ready
<1>12. Composable(c)
  BY <1>5, <1>6, <1>8, <1>11 DEF Composable
<1>13. PutsAt(c, 2, key)
  <2>1. \A j \in 1..1 : j + c[j].skip < 2
    BY <1>2, <1>5
  <2> QED
    BY <1>2, <1>5, <2>1 DEF PutsAt, Reaches
<1>14. Puts(c, key)
  BY <1>6, <1>13 DEF Puts
<1> QED
  BY <1>1, <1>12, <1>14 DEF PutsItself, r

LEMMA DeployablePuts == ASSUME NEW r, Deployable(r) PROVE PutsItself(r)
<1>1. ASSUME NEW g, NEW n, r \in DeployedPlain(g, n) \union DeployedOther(g, n)
                                \union {PutPublicIP(g, n), PutZone(g, n)}
      PROVE  PutsItself(r)
  BY <1>1, DeployedPlainly, DeployedOtherwise, AddressedPutsItself, ZonePutsItself, Zenon
<1>2. ASSUME NEW kind, NEW path, r = NestedResource(kind, path) PROVE PutsItself(r)
  BY <1>2, NestedPutsItself, Zenon
<1> QED
  BY <1>1, <1>2, Zenon DEF Deployable

-----------------------------------------------------------------------------
(* The resources of a template, one after the other.                       *)
IsTemplate(resources) == IsList(resources) /\ \A i \in DOMAIN resources : Deployable(resources[i])

LEMMA NothingComposes == Composable(<<>>)
<1>1. <<>> \in Seq({}) /\ DOMAIN <<>> = {}
  OBVIOUS
<1> QED
  BY <1>1 DEF Composable

LEMMA ChainComposes ==
  ASSUME NEW resources, NEW n \in Nat, NEW f, Chain(f, resources, n),
         \A i \in 1..n : PutsItself(resources[i])
  PROVE  Composable(f[n]) /\ \A i \in 1..n : Puts(f[n], resources[i].target)
<1> DEFINE Good(m) == Composable(f[m]) /\ \A i \in 1..m : Puts(f[m], resources[i].target)
           T == {m \in 0..n : ~Good(m)}
<1>1. SUFFICES ASSUME T # {} PROVE FALSE
  <2>1. n \in 0..n
    OBVIOUS
  <2> QED
    BY <1>1, <2>1
<1>2. PICK m \in T : \A y \in T : m <= y
  <2>1. T \subseteq Nat
    OBVIOUS
  <2> QED
    BY <1>1, <2>1, LeastNumber
<1>3. m # 0
  <2>1. f[0] = <<>>
    BY DEF Chain
  <2>2. Good(0)
    BY <2>1, NothingComposes
  <2> QED
    BY <1>2, <2>2
<1>4. m \in 1..n /\ m - 1 \in 0..n /\ m - 1 \notin T
  BY <1>2, <1>3
<1>5. Good(m - 1)
  BY <1>4
<1>6. Follows(f[m], f[m - 1], resources[m].calls)
  <2>0. m \in 0..n /\ m # 0
    BY <1>3, <1>4
  <2>1. f[m] = f[m - 1] \o resources[m].calls
    BY <2>0, Zenon DEF Chain
  <2> QED
    BY <2>1 DEF Follows
<1>7. PutsItself(resources[m])
  BY <1>4
<1>8. Composable(f[m]) /\ \A k : Puts(f[m - 1], k) \/ Puts(resources[m].calls, k) => Puts(f[m], k)
  BY <1>5, <1>6, <1>7, Composed DEF PutsItself
<1>9. \A i \in 1..m : i \in 1..(m - 1) \/ i = m
  BY <1>4
<1>10. Good(m)
  BY <1>5, <1>7, <1>8, <1>9 DEF PutsItself
<1> QED
  BY <1>2, <1>10

LEMMA TemplateComposes ==
  ASSUME NEW resources, IsTemplate(resources)
  PROVE  /\ Composable(CallsOf(resources))
         /\ \A i \in DOMAIN resources : Puts(CallsOf(resources), resources[i].target)
<1> DEFINE n == Len(resources)
<1>1. n \in Nat /\ DOMAIN resources = 1..n
  BY DEF IsTemplate, IsList
<1>2. \A i \in 1..n : PutsItself(resources[i])
  BY <1>1, DeployablePuts DEF IsTemplate
<1>3. PICK f : Chain(f, resources, n) /\ CallsOf(resources) = f[n]
  BY <1>1, CallsOfChain
<1> HIDE DEF n
<1> QED
  BY <1>1, <1>2, <1>3, ChainComposes

-----------------------------------------------------------------------------
(* Deploy.                                                                 *)

(* Deploy: the calls of the template, then the record of the deployment.   *)
DeployShape(r, key, calls, p, q) ==
    /\ r.method = "PUT" /\ r.target = key /\ r.calls = calls /\ Follows(calls, p, q)
    /\ r.cleanup = Len(p) + 1

LEMMA DeployFields ==
  ASSUME NEW g, NEW n, NEW resources
  PROVE  /\ DeployShape(Deploy(g, n, resources), Key("deployment", <<g, n>>), Deploy(g, n, resources).calls,
                        CallsOf(resources), <<Look("deployment", <<g, n>>), Set("deployment", <<g, n>>)>>)
         /\ Deploy(g, n, resources).parts = {resources[i].target : i \in DOMAIN resources}
<1> DEFINE key == Key("deployment", <<g, n>>)
           p == CallsOf(resources)
           q == <<Look("deployment", <<g, n>>), Set("deployment", <<g, n>>)>>
           c == p \o q
           parts == {resources[i].target : i \in DOMAIN resources}
           r == Deploy(g, n, resources)
<1>1. r = [Request("PUT", "deployment", <<g, n>>, c) EXCEPT !.cleanup = Len(p) + 1, !.parts = parts]
  BY DEF Deploy
<1> HIDE DEF c, parts, r
<1>2. Request("PUT", "deployment", <<g, n>>, c)
        = [method |-> "PUT", target |-> key, calls |-> c, cleanup |-> Len(c) + 1, parts |-> {}]
  BY Zenon DEF Request
<1> HIDE DEF key, p
<1>3. /\ r.method = "PUT" /\ r.target = key /\ r.calls = c /\ r.cleanup = Len(p) + 1 /\ r.parts = parts
  BY <1>1, <1>2
<1>4. Follows(c, p, q)
  BY DEF Follows, c
<1> QED
  BY <1>3, <1>4, Zenon DEF DeployShape, r, key, p, parts

LEMMA DeploymentTail ==
  ASSUME NEW x, NEW y, NEW key, x.op = "look", Quiet(x), Quiet(y), y.op = "set", y.key = key
  PROVE  Composable(<<x, y>>) /\ Len(<<x, y>>) = 2 /\ <<x, y>>[1] = x /\ <<x, y>>[2] = y
<1>1. LastsWith(<<x, y>>, 2, key)
  BY ShortLists
<1>2. Len(<<x, y>>) = 2 /\ <<x, y>>[1] = x /\ <<x, y>>[2] = y
  OBVIOUS
<1> QED
  BY <1>1, <1>2, QuietComposes

(* What such calls amount to.                                              *)
LEMMA DeployIsSound ==
  ASSUME NEW r, NEW key, NEW c, NEW p, NEW q, DeployShape(r, key, c, p, q), Composable(p), Composable(q),
         Len(q) = 2, Quiet(q[1]), Quiet(q[2]), q[2].op = "set", q[2].key = key, key.kind = "deployment",
         \A k \in r.parts : Puts(p, k), q[1].op = "look"
  PROVE  Sound(r)
<1> DEFINE m == Len(p)
<1>1. PICK P : p \in Seq(P)
  BY DEF Composable
<1>2. m \in Nat /\ DOMAIN p = 1..m
  BY <1>1, SequenceShape
<1>3. Follows(c, p, q) /\ r.calls = c /\ r.cleanup = m + 1 /\ r.method = "PUT" /\ r.target = key
  BY DEF DeployShape
<1>4. Composable(c) /\ Parts(c, p, q)
  BY <1>3, Composed
<1>l. Len(p) = m
  OBVIOUS
<1> HIDE DEF m
<1>5. /\ Len(c) = m + 2 /\ DOMAIN c = 1..(m + 2)
      /\ \A i \in 1..m : c[i] = p[i]
      /\ c[m + 1] = q[1] /\ c[m + 2] = q[2]
  BY <1>2, <1>4, <1>l DEF Parts
<1>6. \A i \in 1..(m + 2) : Calm(c[i], m + 2, i) /\ Ready(c, i)
  BY <1>4, <1>5 DEF Composable
<1>7. \A i \in 1..(m + 2) : i \in 1..m \/ i = m + 1 \/ i = m + 2
  BY <1>2
<1>8. \A i \in 1..m : p[i].skip \in Nat /\ i + p[i].skip <= m
  BY <1>2, <1>l DEF Composable, Calm
<1>9. ASSUME NEW i \in 1..(m + 2), c[i].op = "set", c[i].key.kind \in ChildKinds \union {"publicip"}
      PROVE  i \in 1..m
  <2>1. key.kind \notin ChildKinds \union {"publicip"}
    BY DEF ChildKinds, ParentKinds
  <2> QED
    BY <1>5, <1>7, <1>9, <2>1
<1>10. WellFormed(r)
  <2>1. \A i \in DOMAIN c :
          /\ c[i].skip \in Nat /\ Len(c[i].key.path) \in Nat /\ i + c[i].skip <= Len(c) /\ ~UsesList(c[i])
    BY <1>5, <1>6 DEF Calm
  <2>2. Len(c) \in Nat /\ DOMAIN c = 1..Len(c) /\ r.cleanup \in 1..(Len(c) + 1)
    BY <1>2, <1>3, <1>5
  <2> QED
    BY <1>3, <2>1, <2>2 DEF WellFormed
<1>11. \A i \in DOMAIN c : c[i].op \notin {"setSame", "delete", "drop", "deleteByPrefix"}
  BY <1>5, <1>6 DEF Calm
<1>12. WellAimed(r) /\ RemovesNoParent(r) /\ r.method # "DELETE"
  BY <1>3, <1>11 DEF WellAimed, RemovesNoParent
<1>13. WellAddressed(r)
  <2> SUFFICES ASSUME NEW i \in DOMAIN c, c[i].op = "set", c[i].key.kind = "publicip"
               PROVE  /\ i > 2
                      /\ c[i - 2].op = "look" /\ c[i - 2].key = c[i].key
                      /\ c[i - 1].op = "address"
                      /\ r.cleanup \notin {i - 1, i}
                      /\ \A j \in DOMAIN c : c[j].skip > 0 => j + c[j].skip + 1 \notin {i - 1, i}
    BY <1>3, <1>11 DEF WellAddressed, Giving
  <2>1. AddressReady(c, i)
    BY <1>5, <1>6 DEF Ready
  <2>2. i \in 1..m
    BY <1>5, <1>9
  <2>3. \A j \in DOMAIN c : c[j].skip > 0 => j + c[j].skip + 1 \notin (i - 1)..i
    BY <2>1 DEF AddressReady, Unskipped
  <2>4. i - 1 \in (i - 1)..i /\ i \in (i - 1)..i
    BY <2>2
  <2>5. r.cleanup \notin {i - 1, i}
    BY <1>2, <1>3, <2>2
  <2> QED
    BY <2>1, <2>3, <2>4, <2>5 DEF AddressReady
<1>14. AsksParents(r)
  <2> SUFFICES ASSUME NEW i \in DOMAIN c, c[i].op = "set", NEW k \in Parents(c[i].key)
               PROVE  \E g \in 1..(i - 1) : Asked(r, g, i, k)
    BY <1>3, <1>11 DEF AsksParents
  <2>1. c[i].key.kind \in ChildKinds
    BY NoParents
  <2>2. i \in 1..m
    BY <1>5, <1>9, <2>1
  <2>3. ParentReady(c, i)
    BY <1>5, <1>6, <2>1 DEF Ready
  <2>4. PICK g \in 1..(i - 1) : c[g].op = "set" /\ Parents(c[i].key) \subseteq {c[g].key} /\ Unskipped(c, g + 1, i)
    BY <2>3 DEF ParentReady
  <2>5. c[g].key = k
    BY <2>4
  <2>6. (\A j \in 1..g : j \in DOMAIN c) /\ \A j \in (g + 1)..i : j \in DOMAIN c
    BY <1>2, <1>5, <2>2
  <2>7. \A j \in 1..g : c[j].skip > 0 => j + c[j].skip + 1 \notin (g + 1)..i
    BY <2>4, <2>6 DEF Unskipped
  <2>8. r.cleanup \notin (g + 1)..i
    BY <1>2, <1>3, <2>2
  <2>9. Asked(r, g, i, k)
    BY <1>3, <1>11, <2>4, <2>5, <2>6, <2>7, <2>8 DEF Asked
  <2> QED
    BY <2>9
<1>15. \A k \in Written(r) : Storable(k)
  <2> SUFFICES ASSUME NEW i \in DOMAIN c, c[i].op = "set" PROVE Storable(c[i].key)
    BY <1>3, <1>11 DEF Written
  <2> QED
    BY <1>5, <1>6 DEF Calm
<1>16. Recorded(r)
  <2>1. \A j \in 1..(m + 1) : j + c[j].skip < m + 2
    <3>1. \A j \in 1..(m + 1) : j \in 1..m \/ j = m + 1
      BY <1>2
    <3>2. c[m + 1].skip = 0
      BY <1>5 DEF Quiet, PlainCall
    <3>3. \A j \in 1..m : c[j].skip \in Nat /\ j + c[j].skip <= m
      BY <1>5, <1>8
    <3> QED
      BY <1>2, <3>1, <3>2, <3>3
  <2>2. ASSUME NEW k \in r.parts
        PROVE  \E i \in 1..((m + 2) - 1) :
                  Leads(r, i) /\ ((c[i].op = "set" /\ c[i].key = k) \/ FailsHere(c[i]))
    <3>1. PICK i \in 1..m : PutsAt(p, i, k)
      BY <1>2 DEF Puts
    <3>2. c[i] = p[i] /\ \A j \in 1..(i - 1) : c[j] = p[j]
      BY <1>2, <1>5
    <3>3. Leads(r, i) /\ ((c[i].op = "set" /\ c[i].key = k) \/ FailsHere(c[i]))
      BY <1>3, <3>1, <3>2 DEF PutsAt, Reaches, Leads
    <3>4. i \in 1..((m + 2) - 1)
      BY <1>2
    <3> QED
      BY <3>3, <3>4
  <2>3. m + 2 \in DOMAIN c /\ r.cleanup <= m + 2 /\ (m + 2) - 1 = m + 1
    BY <1>2, <1>3, <1>5
  <2>4. Leads(r, m + 2)
    BY <1>3, <2>1, <2>3 DEF Leads
  <2>5. c[m + 2].op = "set" /\ c[m + 2].key = r.target
    BY <1>3, <1>5
  <2> QED
    BY <1>3, <1>5, <1>11, <2>2, <2>3, <2>4, <2>5 DEF Recorded
<1> QED
  BY <1>10, <1>12, <1>13, <1>14, <1>15, <1>16 DEF Sound

LEMMA DeploySound ==
  ASSUME NEW g, NEW n, NEW resources, IsTemplate(resources)
  PROVE  Sound(Deploy(g, n, resources))
<1> DEFINE r == Deploy(g, n, resources)
           path == <<g, n>>
           key == Key("deployment", path)
           x == Look("deployment", path)
           y == Set("deployment", path)
           p == CallsOf(resources)
           q == <<x, y>>
<1>1. DeployShape(r, key, r.calls, p, q) /\ r.parts = {resources[i].target : i \in DOMAIN resources}
  BY DeployFields
<1>2. Len(path) \in Nat
  OBVIOUS
<1> HIDE DEF r, path
<1>3. Fits("deployment", path) /\ key.kind = "deployment"
  BY DEF Fits, Deep, Key, ChildKinds, ParentKinds, KindsWithList
<1>4. Quiet(x) /\ Quiet(y) /\ x.op = "look" /\ y.op = "set" /\ y.key = key
  BY <1>2, <1>3, QuietCalls, SetPuts DEF Look, Call
<1>5. Composable(p) /\ \A i \in DOMAIN resources : Puts(p, resources[i].target)
  BY TemplateComposes
<1> HIDE DEF x, y, key, p
<1>6. Composable(q) /\ Len(q) = 2 /\ q[1] = x /\ q[2] = y
  BY <1>4, DeploymentTail
<1> HIDE DEF q
<1>7. \A k \in r.parts : Puts(p, k)
  BY <1>1, <1>5
<1>8. Sound(r)
  BY <1>1, <1>3, <1>4, <1>5, <1>6, <1>7, DeployIsSound
<1> QED
  BY <1>8 DEF r

-----------------------------------------------------------------------------
(* All handlers.                                                           *)

(* The handlers: those whose calls are simple, those that delete, those    *)
(* that answer with what they have read, and the others.                   *)
SimpleHandler(r) ==
    \/ \E g, n, s, t : r \in PlainPuts(g, n, s, t) \union BlindPuts(g, n, s, t) \union Contents(g, n, s, t)
                             \union PlainDeletes(g, n, s, t) \union BlindDeletes(g, n, s, t)
    \/ \E g, n : r \in Patches(g, n) \union Settings(g, n) \union OtherPuts(g, n)
    \/ \E g, n, names : /\ IsList(names)
                        /\ r \in {UpdateAzureStorageAccounts(g, n, names), UpdateConnectionStrings(g, n, names)}
    \/ r = CheckNameAvailability
DeletingHandler(r) ==
    \/ \E g, n : CascadingDelete(r, g, n)
    \/ \E g : r = DeleteGroup(g)
    \/ \E a, c : r \in {DeleteContainer(a, c), DeleteNamespace(a, c), ClearMessages(a, c)}
    \/ \E g, v, s : r = DeleteSubnet(g, v, s)
ReadingHandler(r) ==
    \E g, n, s : r \in PlainGets(g, n, s) \union {GetVNet(g, n), GetNSG(g, n)}
PuttingHandler(r) ==
    \/ \E g, n : r = PutPublicIP(g, n)
    \/ \E g, n, s : ChildPut(r, g, n, s)
    \/ \E g, n, resources : IsTemplate(resources) /\ r = Deploy(g, n, resources)
Handler(r) == SimpleHandler(r) \/ DeletingHandler(r) \/ ReadingHandler(r) \/ PuttingHandler(r)
AllHandled == \A r \in Requests : Handler(r)

LEMMA SimpleHandlers == ASSUME NEW r, SimpleHandler(r) PROVE Sound(r)
<1>1. ASSUME NEW g, NEW n, NEW s, NEW t,
             r \in PlainPuts(g, n, s, t) \union BlindPuts(g, n, s, t) \union Contents(g, n, s, t)
                   \union PlainDeletes(g, n, s, t) \union BlindDeletes(g, n, s, t)
      PROVE  Simple(r)
  BY <1>1, PlainPutsSimple, ContentsSimple, PlainDeletesSimple
<1>2. ASSUME NEW g, NEW n, r \in Patches(g, n) \union Settings(g, n) \union OtherPuts(g, n)
      PROVE  Simple(r)
  BY <1>2, PatchesSimple, SettingsSimple, OtherPutsSimple
<1>3. ASSUME NEW g, NEW n, NEW names, IsList(names),
             r \in {UpdateAzureStorageAccounts(g, n, names), UpdateConnectionStrings(g, n, names)}
      PROVE  Simple(r)
  BY <1>3, EntriesSimple
<1>4. Simple(r)
  BY <1>1, <1>2, <1>3, NameCheckSimple, Zenon DEF SimpleHandler
<1> QED
  BY <1>4, SimpleIsSound

LEMMA DeletingHandlers == ASSUME NEW r, DeletingHandler(r) PROVE Sound(r)
<1>1. ASSUME NEW a, NEW c, r \in {DeleteContainer(a, c), DeleteNamespace(a, c), ClearMessages(a, c)}
      PROVE  Sound(r)
  BY <1>1, ContainerIsSound, NamespaceIsSound, ClearIsSound, Zenon
<1>2. ASSUME NEW g, NEW n, CascadingDelete(r, g, n) PROVE Sound(r)
  BY <1>2, CascadeIsSound, Zenon
<1>3. ASSUME NEW g, r = DeleteGroup(g) PROVE Sound(r)
  BY <1>3, GroupIsSound, Zenon
<1>4. ASSUME NEW g, NEW v, NEW s, r = DeleteSubnet(g, v, s) PROVE Sound(r)
  BY <1>4, DeleteSubnetSound, Zenon
<1>5. CASE \E g, n : CascadingDelete(r, g, n)
  BY <1>2, <1>5, Zenon
<1>6. CASE \E g : r = DeleteGroup(g)
  BY <1>3, <1>6, Zenon
<1>7. CASE \E a, c : r \in {DeleteContainer(a, c), DeleteNamespace(a, c), ClearMessages(a, c)}
  <2>1. PICK a, c : r \in {DeleteContainer(a, c), DeleteNamespace(a, c), ClearMessages(a, c)}
    BY <1>7
  <2> QED
    BY <1>1, <2>1
<1>8. CASE \E g, v, s : r = DeleteSubnet(g, v, s)
  BY <1>4, <1>8, Zenon
<1> QED
  BY <1>5, <1>6, <1>7, <1>8, Zenon DEF DeletingHandler

LEMMA ReadingHandlers == ASSUME NEW r, ReadingHandler(r) PROVE Sound(r)
<1>1. PICK g, n, s : r \in PlainGets(g, n, s) \union {GetVNet(g, n), GetNSG(g, n)}
  BY Zenon DEF ReadingHandler
<1>2. CASE r \in PlainGets(g, n, s)
  BY <1>2, PlainGetsSimple, SimpleIsSound, Zenon
<1>3. CASE r \in {GetVNet(g, n), GetNSG(g, n)}
  BY <1>3, GetsSound, Zenon
<1> QED
  BY <1>1, <1>2, <1>3, Zenon

LEMMA PuttingHandlers == ASSUME NEW r, PuttingHandler(r) PROVE Sound(r)
<1>1. ASSUME NEW g, NEW n, r = PutPublicIP(g, n) PROVE Sound(r)
  BY <1>1, PutPublicIPSound, Zenon
<1>2. ASSUME NEW g, NEW n, NEW s, ChildPut(r, g, n, s) PROVE Sound(r)
  <2>1. CASE r = PutSubnet(g, n, s)
    BY <2>1, PutSubnetSound, Zenon
  <2>2. CASE r # PutSubnet(g, n, s)
    BY <1>2, <2>2, ChildPutsSound, Zenon
  <2> QED
    BY <2>1, <2>2, Zenon
<1>3. ASSUME NEW g, NEW n, NEW resources, IsTemplate(resources), r = Deploy(g, n, resources) PROVE Sound(r)
  BY <1>3, DeploySound, Zenon
<1> QED
  BY <1>1, <1>2, <1>3, Zenon DEF PuttingHandler

(* So the requests of the handlers are as the theorems ask.                *)
LEMMA HandlersSound == AllHandled => \A r \in Requests : Sound(r)
BY SimpleHandlers, DeletingHandlers, ReadingHandlers, PuttingHandlers, Zenon DEF AllHandled, Handler

Behaved ==
    /\ AllWellFormed /\ AllWellAimed /\ AllWellAddressed
    /\ DeletesOfTheHandlers /\ ChildrenOfTheHandlers
    /\ \A k \in Keys : Storable(k)
    /\ ResetsApart => AllRecorded

LEMMA HandlersBehave == AllHandled => Behaved
<1> SUFFICES ASSUME AllHandled PROVE Behaved
  OBVIOUS
<1>1. \A r \in Requests : Sound(r)
  BY HandlersSound
<1>2. AllWellFormed
  BY <1>1 DEF AllWellFormed, Sound
<1>3. AllWellAimed /\ AllWellAddressed /\ DeletesOfTheHandlers
  BY <1>1, <1>2 DEF AllWellAimed, AllWellAddressed, DeletesOfTheHandlers, Sound
<1>4. \A k \in Keys : Storable(k)
  BY <1>1 DEF Keys, Sound
<1>5. ChildrenOfTheHandlers
  <2>1. \A r \in Requests : StoresBelowParents(r)
    BY <1>1 DEF Sound, StoresBelowParents, Storable
  <2>2. \A r \in ServedAlone : r \in Requests
    BY DEF ServedAlone, Requests
  <2>3. \A r \in ServedAlone :
           \/ RemovesNoParent(r)
           \/ \E g, n : CascadingDelete(r, g, n)
           \/ \E g : r = DeleteGroup(g)
    BY <1>1, <2>2, Zenon DEF Sound
  <2> QED
    BY <2>1, <2>3, Zenon DEF ChildrenOfTheHandlers
<1>6. ResetsApart => AllRecorded
  <2>1. \A k \in Casts : \A r \in k.requests : r \in Requests
    BY DEF Requests
  <2> QED
    BY <1>1, <2>1 DEF ResetsApart, AllRecorded, Sound
<1> QED
  BY <1>2, <1>3, <1>4, <1>5, <1>6 DEF Behaved

-----------------------------------------------------------------------------
(* Which of them are GETs.                                                 *)

(* Only those that answer with what they have read are GETs.               *)
LEMMA Methods ==
  ASSUME NEW kind, NEW path, NEW parent, NEW names, NEW calls, NEW method
  PROVE  /\ PutPlain(kind, path).method = "PUT" /\ PutBlind(kind, path).method = "PUT"
         /\ DeletePlain(kind, path).method = "DELETE" /\ DeleteBlind(kind, path).method = "DELETE"
         /\ Patch(kind, path).method = "PATCH" /\ PutChild(parent, path, kind, names).method = "PUT"
         /\ Request(method, kind, path, calls).method = method
BY DEF PutPlain, PutBlind, DeletePlain, DeleteBlind, Patch, PutChild, Request

NoGet(r) == r.method # "GET"

LEMMA PlainPutsGetNothing ==
  ASSUME NEW g, NEW n, NEW s, NEW t, NEW r \in PlainPuts(g, n, s, t) \union BlindPuts(g, n, s, t)
  PROVE  NoGet(r)
<1>1. \A kind, path : NoGet(PutPlain(kind, path)) /\ NoGet(PutBlind(kind, path))
  BY Methods DEF NoGet
<1>2. CASE r \in PlainPuts(g, n, s, t)
  BY <1>1, <1>2 DEF PlainPuts, PutVNet, PutLoadBalancer, PutBackendAddressPool, PutProbe,
       PutLoadBalancingRule, PutAppGateway, PutSqlServer, PutPgServer, PutMySqlServer, PutCosmosAccount,
       PutCosmosDatabase, PutCosmosContainer, PutConfigStore, PutRegistry, PutEventTopic, PutNamespace,
       PutArmQueue, PutArmTopic, PutContainerApp, PutJob, PutManagedEnvironment, PutServerFarm, PutSlot, PutGroup
<1>3. CASE r \in BlindPuts(g, n, s, t)
  BY <1>1, <1>3 DEF BlindPuts, ReplaceDocument, PutArmContainer, UpsertEntity, SetSecret, SetKeyValue
<1> QED
  BY <1>2, <1>3

LEMMA PlainDeletesGetNothing ==
  ASSUME NEW g, NEW n, NEW s, NEW t, NEW r \in PlainDeletes(g, n, s, t) \union BlindDeletes(g, n, s, t)
  PROVE  NoGet(r)
<1>1. \A kind, path : NoGet(DeletePlain(kind, path)) /\ NoGet(DeleteBlind(kind, path))
  BY Methods DEF NoGet
<1>2. CASE r \in PlainDeletes(g, n, s, t)
  BY <1>1, <1>2 DEF PlainDeletes, DeleteRule, DeleteRecordSet, DeleteLoadBalancer, DeleteBackendAddressPool,
       DeleteProbe, DeleteLoadBalancingRule, DeleteAppGateway, DeletePublicIP, DeleteSqlDatabase,
       DeletePgDatabase, DeleteMySqlDatabase, DeleteCache, DeleteCosmosAccount, DeleteCosmosDatabase,
       DeleteCosmosContainer, DeleteArmContainer, DeleteConfigStore, DeleteRegistry, DeleteEventTopic,
       DeleteArmQueue, DeleteArmTopic, DeleteContainerApp, DeleteJob, DeleteManagedEnvironment,
       DeleteServerFarm, DeleteSite, DeleteSlot, DeleteIdentity, DeleteDeployment
<1>3. CASE r \in BlindDeletes(g, n, s, t)
  BY <1>1, <1>3 DEF BlindDeletes, DeleteDocument, DeleteEntity, DeleteSecret, DeleteKeyValue
<1> QED
  BY <1>2, <1>3

LEMMA OthersGetNothing ==
  ASSUME NEW g, NEW n, NEW s, NEW t,
         NEW r \in Contents(g, n, s, t) \union Patches(g, n) \union Settings(g, n) \union OtherPuts(g, n)
  PROVE  NoGet(r)
<1>1. /\ \A kind, path : NoGet(Patch(kind, path)) /\ NoGet(PutPlain(kind, path))
      /\ \A kind : NoGet(UpdateSetting(kind, g, n))
      /\ \A parent, path, kind, names : NoGet(PutChild(parent, path, kind, names))
      /\ \A method, kind, path, calls : method # "GET" => NoGet(Request(method, kind, path, calls))
  <2>1. \A method, kind, path, calls : method # "GET" => NoGet(Request(method, kind, path, calls))
    BY Methods DEF NoGet
  <2>2. \A kind, path : NoGet(Patch(kind, path)) /\ NoGet(PutPlain(kind, path))
    BY Methods DEF NoGet
  <2>3. \A parent, path, kind, names : NoGet(PutChild(parent, path, kind, names))
    BY Methods DEF NoGet
  <2>4. "PUT" # "GET"
    OBVIOUS
  <2>5. \A kind : NoGet(UpdateSetting(kind, g, n))
    BY <2>1, <2>4, Zenon DEF UpdateSetting
  <2> QED
    BY <2>1, <2>2, <2>3, <2>5, Zenon
<1>2. CASE r \in Patches(g, n)
  BY <1>1, <1>2 DEF Patches, StartContainerApp, StopContainerApp, UpdateContainerApp, StartJob, StopJob,
       UpdateJob, StopExecution, StopMultipleExecutions, UpdateConfig, UpdateAppSettings
<1>3. CASE r \in Settings(g, n)
  BY <1>1, <1>3, Zenon DEF Settings, UpdateBasicPublishing, UpdateScmAllowed, UpdateFtpAllowed, UpdateAuthSettings,
       UpdateBackupSettings, UpdateLogsSettings, UpdateSlotConfigNames, UpdateMetadata, UpdatePushSettings,
       UpdateAuthSettingsV2
<1>4. CASE r \in OtherPuts(g, n)
  <2>1. /\ NoGet(PutNSG(g, n)) /\ NoGet(PutCache(g, n)) /\ NoGet(PutStorageAccount(g, n)) /\ NoGet(PutSite(g, n))
        /\ NoGet(PutIdentity(g, n)) /\ NoGet(CreateQueue(g, n)) /\ NoGet(CreateContainerAppSecrets(g, n))
        /\ NoGet(PatchGroup(g))
    BY DEF NoGet, Request, PutChild, PutNSG, PutCache, PutStorageAccount, PutSite, PutIdentity, CreateQueue,
           CreateContainerAppSecrets, PatchGroup
  <2> QED
    BY <1>4, <2>1 DEF OtherPuts
<1>5. CASE r \in Contents(g, n, s, t)
  <2>1. /\ NoGet(CreateContainer(g, n)) /\ NoGet(UploadBlob(g, n, s)) /\ NoGet(DeleteBlob(g, n, s))
        /\ NoGet(DeleteStorageAccount(g, n)) /\ NoGet(CreateDocument(g, n, s, t))
    BY DEF NoGet, Request, CreateContainer, UploadBlob, DeleteBlob, DeleteStorageAccount, CreateDocument
  <2> QED
    BY <1>5, <2>1 DEF Contents
<1> QED
  BY <1>2, <1>3, <1>4, <1>5

LEMMA RemovalsGetNothing == ASSUME NEW r, DeletingHandler(r) PROVE NoGet(r)
<1>1. ASSUME NEW g, NEW n, NEW s
      PROVE  /\ NoGet(DeleteContainer(g, n)) /\ NoGet(DeleteNamespace(g, n)) /\ NoGet(ClearMessages(g, n))
             /\ NoGet(DeleteGroup(g)) /\ NoGet(DeleteSubnet(g, n, s))
  BY DEF NoGet, Request, DeleteContainer, DeleteNamespace, ClearMessages, DeleteGroup, DeleteSubnet
<1>2. ASSUME NEW g, NEW n, CascadingDelete(r, g, n) PROVE NoGet(r)
  <2>1. /\ NoGet(DeleteVNet(g, n)) /\ NoGet(DeleteNSG(g, n)) /\ NoGet(DeleteZone(g, n))
        /\ NoGet(DeleteSqlServer(g, n)) /\ NoGet(DeletePgServer(g, n)) /\ NoGet(DeleteMySqlServer(g, n))
        /\ NoGet(DeleteQueue(g, n))
    BY DEF NoGet, Request, DeleteVNet, DeleteNSG, DeleteZone, DeleteSqlServer, DeletePgServer,
           DeleteMySqlServer, DeleteQueue
  <2> QED
    BY <1>2, <2>1 DEF CascadingDelete
<1> QED
  BY <1>1, <1>2 DEF DeletingHandler

LEMMA PutsGetNothing == ASSUME NEW r, PuttingHandler(r) PROVE NoGet(r)
<1>1. ASSUME NEW g, NEW n PROVE NoGet(PutPublicIP(g, n)) /\ NoGet(PutZone(g, n))
  BY DEF NoGet, Request, PutPublicIP, PutZone
<1>2. ASSUME NEW g, NEW n, NEW resources PROVE NoGet(Deploy(g, n, resources))
  <2>1. DeployShape(Deploy(g, n, resources), Key("deployment", <<g, n>>), Deploy(g, n, resources).calls,
                    CallsOf(resources), <<Look("deployment", <<g, n>>), Set("deployment", <<g, n>>)>>)
    BY DeployFields, Zenon
  <2> QED
    BY <2>1, Zenon DEF DeployShape, NoGet
<1>3. ASSUME NEW g, NEW n, NEW s, ChildPut(r, g, n, s) PROVE NoGet(r)
  <2>1. /\ NoGet(PutSubnet(g, n, s)) /\ NoGet(PutRule(g, n, s)) /\ NoGet(PutSqlDatabase(g, n, s))
        /\ NoGet(PutPgDatabase(g, n, s)) /\ NoGet(PutMySqlDatabase(g, n, s)) /\ NoGet(SendMessage(g, n, s))
        /\ \A t : NoGet(PutRecordSet(g, n, t, s))
    <3>1. \A method, kind, path, calls : method # "GET" => NoGet(Request(method, kind, path, calls))
      BY Methods DEF NoGet
    <3>2. \A parent, path, kind, names : NoGet(PutChild(parent, path, kind, names))
      BY Methods DEF NoGet
    <3>3. "PUT" # "GET" /\ "POST" # "GET"
      OBVIOUS
    <3>4. NoGet(PutSubnet(g, n, s)) /\ NoGet(SendMessage(g, n, s))
      BY <3>1, <3>3, Zenon DEF PutSubnet, SendMessage
    <3>5. NoGet(PutPgDatabase(g, n, s)) /\ NoGet(PutMySqlDatabase(g, n, s))
      BY <3>1, <3>3, Zenon DEF PutPgDatabase, PutMySqlDatabase
    <3>6. NoGet(PutRule(g, n, s)) /\ NoGet(PutSqlDatabase(g, n, s)) /\ \A t : NoGet(PutRecordSet(g, n, t, s))
      BY <3>2, Zenon DEF PutRule, PutSqlDatabase, PutRecordSet
    <3> QED
      BY <3>4, <3>5, <3>6
  <2> QED
    BY <1>1, <1>3, <2>1 DEF ChildPut
<1> QED
  BY <1>1, <1>2, <1>3 DEF PuttingHandler

LEMMA OnlyReadersGet == ASSUME NEW r, Handler(r), r.method = "GET" PROVE ReadingHandler(r)
<1>1. ASSUME SimpleHandler(r) PROVE NoGet(r)
  <2>1. ASSUME NEW g, NEW n, NEW names,
               r \in {UpdateAzureStorageAccounts(g, n, names), UpdateConnectionStrings(g, n, names)}
        PROVE  NoGet(r)
    BY <2>1, Methods DEF NoGet, UpdateAzureStorageAccounts, UpdateConnectionStrings, UpdateEntries
  <2>2. NoGet(CheckNameAvailability)
    BY DEF NoGet, CheckNameAvailability, Request
  <2> QED
    BY <1>1, <2>1, <2>2, PlainPutsGetNothing, PlainDeletesGetNothing, OthersGetNothing DEF SimpleHandler
<1> QED
  BY <1>1, RemovalsGetNothing, PutsGetNothing DEF Handler, NoGet

-----------------------------------------------------------------------------
(* What the GETs list.                                                     *)

LEMMA ParentsAreRoots == ASSUME NEW k, NEW p \in Parents(k) PROVE p.kind \in RootKinds
<1>1. PICK q \in ParentKinds : p = Key(q[2], SubSeq(k.path, 1, 2))
  BY DEF Parents
<1>2. p.kind = q[2]
  BY <1>1 DEF Key
<1> QED
  BY <1>2 DEF RootKinds

(* What is below a record whose children the prefix lists.                 *)
LEMMA RelistsChildren ==
  ASSUME AllWellFormed, \A k \in Keys : Storable(k), NEW kind \in KindsWithList, NEW child,
         <<child, kind>> \in ParentKinds, NEW g, NEW n, NEW r, r.target = Key(kind, <<g, n>>)
  PROVE  ListsChildren(r, Key(child, <<g, n, "">>))
<1> SUFFICES ASSUME NEW k \in Keys
             PROVE  /\ HasPrefix(k, Key(child, <<g, n, "">>)) <=> IsChild(k, r)
                    /\ Like(k, Key(child, <<g, n, "">>)) => LikeNames(k, r.target)
  BY DEF ListsChildren
<1>1. Len(k.path) \in Nat
  BY KeysHavePaths
<1>2. /\ HasPrefix(k, Key(child, <<g, n, "">>)) => Below(k, Key(kind, <<g, n>>)) /\ k.kind = child
      /\ Below(k, Key(kind, <<g, n>>)) /\ k.kind = child => HasPrefix(k, Key(child, <<g, n, "">>))
  <2>1. Key(child, <<g, n, "">>).kind = child
    BY DEF Key
  <2> QED
    <3>1. /\ HasPrefix(k, Key(child, <<g, n, "">>)) => Below(k, Key(kind, <<g, n>>))
          /\ Below(k, Key(kind, <<g, n>>)) /\ k.kind = child => HasPrefix(k, Key(child, <<g, n, "">>))
      BY <1>1, PrefixIsBelow, Zenon
    <3>2. HasPrefix(k, Key(child, <<g, n, "">>)) => k.kind = Key(child, <<g, n, "">>).kind
      BY DEF HasPrefix
    <3> QED
      BY <2>1, <3>1, <3>2, Zenon
<1>3. Like(k, Key(child, <<g, n, "">>)) => LikeNames(k, r.target)
  BY <1>1, LikeIsLikeBelow, Zenon
<1>4. Below(k, Key(kind, <<g, n>>)) <=> Len(k.path) > 2 /\ k.path[1] = g /\ k.path[2] = n
  BY BelowTwo DEF Key
<1>5. Storable(k)
  OBVIOUS
<1>6. Below(k, Key(kind, <<g, n>>)) => k.kind \notin KindsWithList
  <2>1. Deep(k)
    BY <1>5 DEF Storable
  <2>2. \A m : m > 2 => m # 2
    OBVIOUS
  <2> QED
    BY <1>4, <2>1, <2>2, Zenon DEF Deep
<1> DEFINE key == Key(kind, <<g, n>>)
<1>k. key.kind = kind
  BY DEF Key
<1>7. ASSUME Below(k, key), key \in Parents(k) PROVE k.kind = child
  <2>1. PICK q \in ParentKinds : q[1] = k.kind /\ key = Key(q[2], SubSeq(k.path, 1, 2))
    BY <1>7 DEF Parents
  <2>2. q[2] = kind
    BY <1>k, <2>1 DEF Key
  <2>3. <<child, kind>>[2] = kind /\ <<child, kind>>[1] = child
    OBVIOUS
  <2> QED
    BY <2>1, <2>2, <2>3, OneChildKind
<1>8. ASSUME Below(k, key), k.kind = child PROVE key \in Parents(k)
  <2>1. k.kind \in ChildKinds
    <3>1. <<child, kind>>[1] \in ChildKinds
      BY DEF ChildKinds
    <3> QED
      BY <1>8, <3>1
  <2>2. PICK parent, a, b : ChildOf(k, parent, a, b)
    BY <1>5, <2>1, Zenon DEF Storable
  <2>3. a = g /\ b = n
    BY <1>4, <1>8, <2>2 DEF ChildOf
  <2>4. parent = kind
    <3>1. <<k.kind, parent>> \in ParentKinds /\ <<k.kind, parent>>[1] = child /\ <<child, kind>>[1] = child
          /\ <<k.kind, parent>>[2] = parent /\ <<child, kind>>[2] = kind
      BY <1>8, <2>2 DEF ChildOf
    <3> QED
      BY <3>1, OneParentKind
  <2>5. Parents(k) = {Key(parent, <<a, b>>)}
    BY <2>2, ParentOfChild
  <2> QED
    BY <2>3, <2>4, <2>5
<1> HIDE DEF key
<1>9. r.target = key
  BY DEF key
<1>10. r.target.kind = kind
  BY <1>9, <1>k
<1>11. HasPrefix(k, Key(child, <<g, n, "">>)) <=> Below(k, key) /\ k.kind = child
  BY <1>2 DEF key
<1>12. IsChild(k, r) <=> Below(k, key) /\ k.kind = child
  <2>1. IsChild(k, r) <=> Below(k, key) /\ (key \in Parents(k) \/ k.kind = kind)
    BY <1>9, <1>10 DEF IsChild
  <2>2. Below(k, key) => k.kind # kind
    BY <1>6 DEF key
  <2> QED
    BY <1>7, <1>8, <2>1, <2>2
<1> QED
  BY <1>3, <1>11, <1>12

(* The lists of an account, a vault or the subscription: the path of what  *)
(* is listed begins with all there is of the record's.                     *)
LEMMA ListsOwnKind ==
  ASSUME AllWellFormed, NEW kind, kind \notin RootKinds, NEW r, NEW a,
         r.target = Key(kind, <<a>>)
  PROVE  ListsChildren(r, Key(kind, <<a, "">>))
<1> SUFFICES ASSUME NEW k \in Keys
             PROVE  /\ HasPrefix(k, Key(kind, <<a, "">>)) <=> IsChild(k, r)
                    /\ Like(k, Key(kind, <<a, "">>)) => LikeNames(k, r.target)
  BY DEF ListsChildren
<1>1. Len(k.path) \in Nat
  BY KeysHavePaths
<1>2. /\ HasPrefix(k, Key(kind, <<a, "">>)) <=> k.kind = kind /\ Len(k.path) >= 2 /\ k.path[1] = a
      /\ Like(k, Key(kind, <<a, "">>)) <=> k.kind = kind /\ Len(k.path) >= 2 /\ LikeName(k.path[1], a)
  BY <1>1, GroupPrefix
<1>3. r.target.kind = kind /\ Len(r.target.path) = 1 /\ DOMAIN r.target.path = {1} /\ r.target.path[1] = a
  BY DEF Key
<1>4. Below(k, r.target) <=> Len(k.path) > 1 /\ k.path[1] = a
  BY <1>3 DEF Below
<1>5. r.target \notin Parents(k)
  BY <1>3, ParentsAreRoots
<1>6. Len(k.path) >= 2 <=> Len(k.path) > 1
  BY <1>1
<1> QED
  BY <1>2, <1>3, <1>4, <1>5, <1>6 DEF IsChild, LikeNames

-----------------------------------------------------------------------------
(* What the GETs answer.                                                   *)

LEMMA RelistingAnswers ==
  ASSUME AllWellFormed, \A k \in Keys : Storable(k), NEW kind \in KindsWithList, NEW child,
         <<child, kind>> \in ParentKinds, NEW g, NEW n, NEW r, r = Relisting(kind, child, g, n)
  PROVE  Answers(r)
<1> DEFINE x == Get(kind, <<g, n>>)
           y == ListByPrefix(child, <<g, n, "">>)
           u == Assign
           v == Encode
           calls == <<x, y, u, v>>
           prefix == Key(child, <<g, n, "">>)
<1>1. r.calls = calls /\ r.target = Key(kind, <<g, n>>)
  BY DEF Relisting, Request
<1>2. x.op = "get" /\ x.skip = 0 /\ y.op = "listByPrefix" /\ y.key = prefix /\ u.op = "assign" /\ v.op = "encode"
  BY DEF Get, ListByPrefix, Assign, Encode, Call
<1>3. ListsChildren(r, prefix)
  BY <1>1, RelistsChildren
<1>d. calls = <<x, y, u, v>>
  OBVIOUS
<1> HIDE DEF x, y, u, v, calls, prefix
<1>4. /\ Len(calls) = 4 /\ DOMAIN calls = 1..4
      /\ calls[1] = x /\ calls[2] = y /\ calls[3] = u /\ calls[4] = v
      /\ \A i \in DOMAIN calls : i = 1 \/ i = 2 \/ i = 3 \/ i = 4
  BY <1>d, FourParts
<1>5. ReadsOnly(r)
  BY <1>1, <1>2, <1>4 DEF ReadsOnly
<1>6. Relists(r, 2)
  <2>1. Leads(r, 2)
    BY <1>1, <1>2, <1>4 DEF Leads
  <2> QED
    BY <1>1, <1>2, <1>3, <1>4, <2>1 DEF Relists
<1> QED
  BY <1>5, <1>6 DEF Answers

(* The signature, then what is read.                                       *)
SignedThree(calls, w, x, y) ==
    Len(calls) = 3 /\ DOMAIN calls = 1..3 /\ calls[1] = w /\ calls[2] = x /\ calls[3] = y

SignedFour(calls, w, x, y, z) ==
    Len(calls) = 4 /\ DOMAIN calls = 1..4 /\ calls[1] = w /\ calls[2] = x /\ calls[3] = y /\ calls[4] = z

Signed(calls, S) ==
    \E w, x : w.op = "get" /\ w.skip = 1 /\ x.op = "mayFail" /\ x.skip = 0 /\ calls = <<w, x>> \o S

LEMMA ThreeAreSigned ==
  ASSUME NEW w, NEW x, NEW y, NEW one, one = <<w, x>> \o <<y>>
  PROVE  SignedThree(one, w, x, y)
<1> DEFINE two == <<w, x>> \o <<y, y>>
<1>1. two = <<w, x>> \o <<y, y>>
  OBVIOUS
<1> HIDE DEF two
<1> QED
  BY <1>1, SignedCalls DEF SignedThree

LEMMA FourAreSigned ==
  ASSUME NEW w, NEW x, NEW y, NEW z, NEW two, two = <<w, x>> \o <<y, z>>
  PROVE  SignedFour(two, w, x, y, z)
<1> DEFINE one == <<w, x>> \o <<y>>
<1>1. one = <<w, x>> \o <<y>>
  OBVIOUS
<1> HIDE DEF one
<1> QED
  BY <1>1, SignedCalls DEF SignedFour

LEMMA SignatureSigns ==
  ASSUME NEW a, NEW S, NEW calls, calls = blobSharedKeyAuth(a) \o S PROVE Signed(calls, S)
<1> DEFINE w == GetOrSkip("blob:sharedkeyctx", <<a>>, 1)
           x == MayFail
<1>1. w.op = "get" /\ w.skip = 1 /\ x.op = "mayFail" /\ x.skip = 0
  BY DEF GetOrSkip, MayFail, Call
<1>2. calls = <<w, x>> \o S
  BY Zenon DEF blobSharedKeyAuth
<1> HIDE DEF w, x
<1> QED
  BY <1>1, <1>2, Zenon DEF Signed

LEMMA DownloadAnswers ==
  ASSUME \A k \in Keys : Storable(k), AllWellFormed, NEW a, NEW c, NEW b, NEW r, r = DownloadBlob(a, c, b)
  PROVE  Answers(r)
<1> DEFINE y == Get("blob:blob", <<a, c, b>>)
           z == Typed
           two == blobSharedKeyAuth(a) \o <<y, z>>
           key == Key("blob:blob", <<a, c, b>>)
<1>1. r.calls = two /\ r.target = key
  BY DEF DownloadBlob, Request
<1>2. y.op = "get" /\ z.op = "typed"
  BY DEF Get, Typed, Call
<1>3. key.kind = "blob:blob" /\ Len(key.path) = 3
  BY DEF Key
<1> HIDE DEF y, z, key
<1>s. Signed(two, <<y, z>>)
  BY SignatureSigns, Zenon
<1> HIDE DEF two
<1>p. PICK w, x : w.op = "get" /\ w.skip = 1 /\ x.op = "mayFail" /\ x.skip = 0 /\ two = <<w, x>> \o <<y, z>>
  BY <1>s, Zenon DEF Signed
<1>f. SignedFour(two, w, x, y, z)
  BY <1>p, FourAreSigned, Zenon
<1>4. /\ w.op = "get" /\ x.op = "mayFail"
      /\ DOMAIN two = 1..4 /\ two[1] = w /\ two[2] = x /\ two[3] = y /\ two[4] = z
  BY <1>p, <1>f, Zenon DEF SignedFour
<1>5. \A i \in DOMAIN r.calls : r.calls[i].op \in {"get", "mayFail", "typed"}
  <2>1. \A i \in 1..4 : i = 1 \/ i = 2 \/ i = 3 \/ i = 4
    OBVIOUS
  <2> QED
    BY <1>1, <1>2, <1>4, <2>1
<1>6. ASSUME NEW k \in Keys PROVE ~IsChild(k, r)
  <2>1. Deep(k) /\ Len(k.path) \in Nat
    BY KeysHavePaths DEF Storable
  <2>2. r.target \notin Parents(k)
    <3>1. "blob:blob" \notin RootKinds
      BY NoRoots
    <3> QED
      BY <1>1, <1>3, <3>1, ParentsAreRoots
  <2>3. Below(k, r.target) => Len(k.path) > 3
    BY <1>1, <1>3 DEF Below
  <2>4. k.kind = "blob:blob" => Len(k.path) = 3
    BY <2>1 DEF Deep
  <2>5. \A m : m > 3 => m # 3
    OBVIOUS
  <2> QED
    BY <1>1, <1>3, <2>2, <2>3, <2>4, <2>5, Zenon DEF IsChild
<1>7. ListsNothing(r) /\ ReadsOnly(r)
  BY <1>5, <1>6 DEF ListsNothing, ReadsOnly
<1> QED
  BY <1>7 DEF Answers

(* A list is what the last call lists.                                     *)
LEMMA ListAnswers ==
  ASSUME NEW r, NEW n \in {1, 3}, NEW calls, r.calls = calls, Len(calls) = n, DOMAIN calls = 1..n,
         calls[n].op = "listTyped", ListsChildren(r, calls[n].key), calls[n].key.kind \in AssertedKinds,
         n = 3 => /\ calls[1].op = "get" /\ calls[1].skip = 1
                  /\ calls[2].op = "mayFail" /\ calls[2].skip = 0
  PROVE  Answers(r)
<1>1. CASE n = 1
  BY <1>1 DEF Answers, ReadsOnly, ListsTyped, Leads
<1>2. CASE n = 3
  <2>1. \A i \in 1..3 : i = 1 \/ i = 2 \/ i = 3
    OBVIOUS
  <2>2. ReadsOnly(r)
    BY <1>2, <2>1 DEF ReadsOnly
  <2>3. \A j \in 1..(3 - 1) : j = 1 \/ j = 2
    OBVIOUS
  <2>4. Leads(r, 3)
    BY <1>2, <2>3 DEF Leads
  <2>5. 3 \in DOMAIN r.calls /\ ListsTyped(r)
    BY <1>2, <2>4 DEF ListsTyped
  <2> QED
    BY <2>2, <2>5 DEF Answers
<1> QED
  BY <1>1, <1>2

LEMMA ListsAnswer ==
  ASSUME AllWellFormed, NEW a, NEW r \in {listContainersXML(a), ListSecrets(a)}
  PROVE  Answers(r)
<1>0. "blob:container" \notin RootKinds /\ "kv" \notin RootKinds
  BY DEF RootKinds, ParentKinds
<1>k. \A path : Key("blob:container", path).kind \in AssertedKinds /\ Key("kv", path).kind \in AssertedKinds
  BY DEF Key, AssertedKinds
<1>1. CASE r = listContainersXML(a)
  <2> DEFINE prefix == Key("blob:container", <<a, "">>)
             y == ListTyped("blob:container", <<a, "">>)
             one == blobSharedKeyAuth(a) \o <<y>>
  <2>1. r.calls = one /\ r.target = Key("blob:container", <<a>>)
    BY <1>1 DEF listContainersXML, Request
  <2>2. y.op = "listTyped" /\ y.key = prefix
    BY DEF ListTyped, Call
  <2>3. ListsChildren(r, prefix)
    BY <1>0, <2>1, ListsOwnKind
  <2>k. prefix.kind \in AssertedKinds
    BY <1>k, Zenon
  <2> HIDE DEF y, prefix
  <2>s. Signed(one, <<y>>)
    BY SignatureSigns, Zenon
  <2> HIDE DEF one
  <2>p. PICK w, x : w.op = "get" /\ w.skip = 1 /\ x.op = "mayFail" /\ x.skip = 0 /\ one = <<w, x>> \o <<y>>
    BY <2>s, Zenon DEF Signed
  <2>f. SignedThree(one, w, x, y)
    BY <2>p, ThreeAreSigned, Zenon
  <2>4. /\ w.op = "get" /\ w.skip = 1 /\ x.op = "mayFail" /\ x.skip = 0
        /\ Len(one) = 3 /\ DOMAIN one = 1..3 /\ one[1] = w /\ one[2] = x /\ one[3] = y
    BY <2>p, <2>f, Zenon DEF SignedThree
  <2>5. 3 \in {1, 3}
    OBVIOUS
  <2> QED
    BY <2>1, <2>2, <2>3, <2>k, <2>4, <2>5, ListAnswers
<1>2. ASSUME NEW y, NEW prefix, y.op = "listTyped", y.key = prefix, ListsChildren(r, prefix),
             prefix.kind \in AssertedKinds, r.calls = <<y>>
      PROVE  Answers(r)
  <2> DEFINE one == <<y>>
  <2>1. Len(one) = 1 /\ DOMAIN one = 1..1 /\ one[1] = y
    OBVIOUS
  <2>2. r.calls = one
    BY <1>2
  <2> HIDE DEF one
  <2>3. 1 \in {1, 3}
    OBVIOUS
  <2> QED
    BY <1>2, <2>1, <2>2, <2>3, ListAnswers
<1>3. CASE r = ListSecrets(a)
  <2>1. r.calls = <<ListTyped("kv", <<a, "">>)>> /\ r.target = Key("kv", <<a>>)
    BY <1>3 DEF ListSecrets, Request
  <2>2. /\ ListTyped("kv", <<a, "">>).op = "listTyped"
        /\ ListTyped("kv", <<a, "">>).key = Key("kv", <<a, "">>)
    BY DEF ListTyped, Call
  <2>3. ListsChildren(r, Key("kv", <<a, "">>))
    BY <1>0, <2>1, ListsOwnKind
  <2>k. Key("kv", <<a, "">>).kind \in AssertedKinds
    BY <1>k, Zenon
  <2> QED
    BY <1>2, <2>1, <2>2, <2>3, <2>k, Zenon
<1> QED
  BY <1>1, <1>3, Zenon

LEMMA ReadersAnswer ==
  ASSUME AllWellFormed, \A k \in Keys : Storable(k), NEW r, ReadingHandler(r) PROVE Answers(r)
<1>1. PICK g, n, s : r \in PlainGets(g, n, s) \union {GetVNet(g, n), GetNSG(g, n)}
  BY Zenon DEF ReadingHandler
<1>2. /\ "vnet" \in KindsWithList /\ <<"subnet", "vnet">> \in ParentKinds
      /\ "nsg" \in KindsWithList /\ <<"nsgrule", "nsg">> \in ParentKinds
  BY DEF KindsWithList, ParentKinds
<1>3. CASE r = GetVNet(g, n)
  <2>1. r = Relisting("vnet", "subnet", g, n)
    BY <1>3, Zenon DEF GetVNet, Relisting
  <2> QED
    BY <1>2, <2>1, RelistingAnswers
<1>4. CASE r = GetNSG(g, n)
  <2>1. r = Relisting("nsg", "nsgrule", g, n)
    BY <1>4, Zenon DEF GetNSG, Relisting
  <2> QED
    BY <1>2, <2>1, RelistingAnswers
<1>5. CASE r = DownloadBlob(g, n, s)
  BY <1>5, DownloadAnswers
<1>6. CASE r \in {listContainersXML(g), ListSecrets(g)}
  BY <1>6, ListsAnswer
<1> QED
  BY <1>1, <1>3, <1>4, <1>5, <1>6, Zenon DEF PlainGets

LEMMA HandlersAnswer == AllHandled /\ ResetsApart => AllAnswer
<1> SUFFICES ASSUME AllHandled, ResetsApart, NEW k \in Casts, k.atOnce = 1, NEW r \in k.requests, r.method = "GET"
             PROVE  Answers(r)
  BY DEF AllAnswer, ResetsApart
<1>1. r \in Requests /\ Handler(r)
  BY DEF Requests, AllHandled
<1>2. AllWellFormed /\ \A key \in Keys : Storable(key)
  BY HandlersBehave DEF Behaved
<1> QED
  BY <1>1, <1>2, OnlyReadersGet, ReadersAnswer

-----------------------------------------------------------------------------
(***************************************************************************)
(* What the handlers do, whatever names they are given.                    *)
(***************************************************************************)

(* Whatever requests the handlers make of the store, every variable of the *)
(* ARM server keeps its type (ArmHandlers, the handlers of                 *)
(* internal/services, and the templates that deployments put).             *)
THEOREM HandlersAreTyped == AllHandled => (Spec => []TypeOK)
BY HandlersBehave, TypeCorrect DEF Behaved

(* Deleting a VNet, a security group, a zone, a database server, a storage *)
(* queue, a container or a resource group by its handler leaves none of    *)
(* the promised records that were below it all the time, whatever the      *)
(* other handlers serve meanwhile and however many clients and names there *)
(* are (DeleteVNet, DeleteNSG, DeleteZone, DeleteServer, DeleteQueue,      *)
(* DeleteContainer, DeleteResourceGroup).                                  *)
THEOREM HandlersSweepTheSubtree == AllHandled => (Spec => []DeletionReachesTheSubtree)
BY HandlersBehave, HandlersAreThorough, DeletionIsThorough DEF Behaved

(* No handler takes a record from outside the subtree of its own target:   *)
(* its prefixes end with the colon after the name (DeleteByPrefix); over   *)
(* PostgreSQL it takes, besides, what LIKE takes for that subtree.         *)
THEOREM HandlersTakeOnlyTheSubtree == AllHandled => (Spec => OnlyTheSubtreeGoes)
BY HandlersBehave, DeletionIsAimed DEF Behaved

(* The handler of public IPs gives no address to two of them, whatever the *)
(* other handlers do meanwhile, deployments of public IPs included         *)
(* (nextIP, publicip/handler.go).                                          *)
THEOREM HandlersShareNoAddress == AllHandled => (Spec => []AddressesDiffer)
BY HandlersBehave, AddressesNeverShared DEF Behaved

(* Between requests served one after the other a public IP keeps its       *)
(* address as long as its record is there (publicip.CreateOrUpdate).       *)
THEOREM HandlersKeepAddresses == IsFiniteSet(Clients) /\ AllHandled => (Spec => AddressesStay)
BY HandlersBehave, AddressesAlwaysStay DEF Behaved

(* The handlers leave no child without its parent between the requests of  *)
(* one client, however many names, records and requests there are: the     *)
(* PUTs that store a child are those that ask for its parent first, and    *)
(* the DELETEs that remove a parent sweep its children after it            *)
(* (CreateOrUpdateSubnet, CreateOrUpdateRule and the other PUTs of         *)
(* children; DeleteVNet and the other cascades; DeleteResourceGroup).      *)
THEOREM HandlersLeaveNoOrphans ==
  IsFiniteSet(Clients) /\ AllHandled /\ ResetsApart => (Spec => []NoOrphans)
BY HandlersBehave, HandlersTend, NoneOrphaned DEF Behaved

(* And the records they keep are those of a tree.                          *)
THEOREM HandlersKeepATree ==
  IsFiniteSet(Clients) /\ AllHandled /\ ResetsApart => (Spec => ImplementsResourceTree)
BY HandlersBehave, HandlersTend, RecordsFormATree DEF Behaved

(* A deployment of any template, of resources the router knows or not,     *)
(* that is recorded as succeeded has put every resource of it, and one     *)
(* that fails is recorded all the same (deployments.CreateOrUpdate).       *)
THEOREM HandlersRecordTheirOutcome ==
  IsFiniteSet(Clients) /\ AllHandled /\ ResetsApart => (Spec => []DeploymentRecordsItsOutcome)
BY HandlersBehave, DeploymentsAreRecorded DEF Behaved

(* The GETs that list what is below their record answer one client with    *)
(* the children that are there and, but for LIKE, no others (GetVNet,      *)
(* the GET of a security group); the list of secrets and the list of       *)
(* containers leave out those that JSON has decoded, and only those        *)
(* (ListSecrets, listContainersXML).                                       *)
THEOREM HandlersAnswerTheirChildren ==
  IsFiniteSet(Clients) /\ AllHandled /\ ResetsApart => (Spec => []GetAnswersItsChildren)
BY HandlersBehave, HandlersAnswer, GetsAnswerTheirChildren DEF Behaved
=============================================================================
