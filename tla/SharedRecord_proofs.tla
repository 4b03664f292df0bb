-------------------------- MODULE SharedRecord_proofs --------------------------
(***************************************************************************)
(* What a Save writes of a record that is changed in place while Save      *)
(* encodes it, for every set of keys and every bound, with proofs checked  *)
(* by TLAPS.  Every step is a step of FileBackend or none, so its          *)
(* invariant IInv is there to be used.                                     *)
(***************************************************************************)
EXTENDS SharedRecord, FileBackend_proofs

(* The outer map never tells of an update that properties has not seen.    *)
Ordered(r) == r["log"] <= r["properties"] /\ r["identity"] <= r["properties"]

(* Every field has been assigned by update n or a later one.               *)
Covers(r, n) == \A f \in Fields : r[f] >= n

(* No field has been assigned by an update that has not begun.             *)
Bounded(r) == \A f \in Fields : r[f] <= updates

(* Set numbers a value with the next state of the map: that number is in   *)
(* no map, copy or file.                                                   *)
NumberInv == /\ data[VM] <= Version
             /\ disk.content[VM] <= Version
             /\ \A s \in Savers : InSnapshot(s) <= Version
             /\ \A v \in Versions : v > Version => noted[v] = 0

(* The update in progress is the last one, and has assigned what it has.   *)
EditInv == /\ edit.at > 0 => edit.number = updates
           /\ edit.at > 1 => fields[edit.object]["properties"] = updates
           /\ edit.at > 2 => fields[edit.object]["identity"] = updates
           /\ edit.at > 3 => fields[edit.object]["log"] = updates

(* The Go maps, and the one the store has for the VM.                      *)
MapInv == /\ \A o \in Versions : Ordered(fields[o]) /\ Bounded(fields[o])
          /\ data[VM] # Absent => Covers(fields[object[data[VM]]], noted[data[VM]])

(* What is encoded of the VM in a copy so far is covered by the copy, and  *)
(* not ahead of the properties that are encoded last.                      *)
EncodingInv(s) ==
    LET v == InSnapshot(s) IN
    /\ v # Absent => /\ Covers(fields[object[v]], noted[v])
                     /\ \A f \in Fields \ left[s] : encoded[s][f] >= noted[v]
    /\ "properties" \in left[s] => \A f \in Fields \ left[s] : encoded[s][f] <= fields[object[v]]["properties"]
    /\ "properties" \notin left[s] => left[s] = {} /\ Ordered(encoded[s])

EncodedInv(s) == /\ Ordered(encoded[s])
                 /\ InSnapshot(s) # Absent => Covers(encoded[s], noted[InSnapshot(s)])

SaverInv == \A s \in Savers :
               /\ Bounded(encoded[s])
               /\ pc[s] = "encode" => EncodingInv(s)
               /\ pc[s] \in {"write", "writing", "rename"} => EncodedInv(s)
               /\ pc[s] = "rename" => tmpVM = encoded[s]

FileInv == /\ Bounded(diskVM)
           /\ LogIsNotAhead
           /\ FileHasAnsweredUpdates
           /\ Ordered(diskVM)

SharedInv == NumberInv /\ EditInv /\ MapInv /\ SaverInv /\ FileInv

-----------------------------------------------------------------------------
(* Every step is one of FileBackend, or leaves its variables alone.        *)

USE VMAssumption, MaxUpdatesAssumption, CastsAssumption, MaxVersionsAssumption

LEMMA StepsOfFileBackend == [SharedNext]_sharedVars => [Next]_vars
<1> SUFFICES ASSUME [SharedNext]_sharedVars PROVE [Next]_vars
  OBVIOUS
<1>1. CASE OtherRequest
  BY <1>1 DEF OtherRequest, Next
<1>2. CASE UpdateBegins
  BY <1>2 DEF UpdateBegins
<1>3. CASE UpdateAssigns
  BY <1>3 DEF UpdateAssigns
<1>4. CASE UpdateStores
  <2>1. Mutate
    BY <1>4 DEF UpdateStores, Mutate
  <2>2. Request
    BY <1>4, <2>1 DEF UpdateStores, Request
  <2> QED
    BY <2>2 DEF Next
<1>5. ASSUME NEW s \in Savers, SharedSaveStep(s) PROVE [Next]_vars
  <2>1. CASE OtherStep(s)
    BY <2>1 DEF OtherStep, SaveStep, Next
  <2>2. CASE MarshalBegins(s)
    BY <2>2 DEF MarshalBegins, SaveStep, Next
  <2>3. ASSUME NEW f \in Fields, MarshalField(s, f) PROVE [Next]_vars
    BY <2>3 DEF MarshalField
  <2>4. CASE MarshalEnds(s)
    BY <2>4 DEF MarshalEnds, SaveStep, Next
  <2>5. CASE SharedWrite(s)
    BY <2>5 DEF SharedWrite, SaveStep, Next
  <2>6. CASE SharedRename(s)
    BY <2>6 DEF SharedRename, SaveStep, Next
  <2> QED
    BY <1>5, <2>1, <2>2, <2>3, <2>4, <2>5, <2>6 DEF SharedSaveStep
<1>6. ASSUME NEW s \in Savers, SharedFails(s) PROVE [Next]_vars
  BY <1>6 DEF SharedFails, Next
<1>7. CASE ProcessGoesOn
  BY <1>7 DEF ProcessGoesOn, Next
<1>8. CASE SharedRestart
  BY <1>8 DEF SharedRestart, Next
<1>9. CASE UNCHANGED sharedVars
  BY <1>9 DEF sharedVars
<1> QED
  BY <1>1, <1>2, <1>3, <1>4, <1>5, <1>6, <1>7, <1>8, <1>9 DEF SharedNext

(* SharedRecord implements FileBackend: whatever FileBackend promises of   *)
(* Save and load holds while handlers change a record in place.            *)
THEOREM SharedImplementsFileBackend == SharedSpec => Spec
<1>1. SharedInit => Init
  BY DEF SharedInit
<1> QED
  BY <1>1, StepsOfFileBackend, PTL DEF SharedSpec, Spec

LEMMA FileBackendInv == SharedSpec => []IInv
BY SharedImplementsFileBackend, InvariantHolds, PTL

-----------------------------------------------------------------------------
(* Type correctness.                                                       *)

(* There is a record to encode when there is a field to encode.            *)
Encodable(s) == pc[s] = "encode" /\ left[s] # {} => InSnapshot(s) # Absent

SharedTypes == /\ object \in [Versions -> Versions]
               /\ fields \in [Versions -> Record]
               /\ noted \in [Versions -> 0 .. MaxUpdates]
               /\ edit \in Edit
               /\ updates \in 0 .. MaxUpdates
               /\ left \in [Savers -> SUBSET Fields]
               /\ encoded \in [Savers -> Record]
               /\ tmpVM \in Record /\ diskVM \in Record
               /\ cast \in Casts
               /\ edit.at > 0 => edit.object \in Versions
               /\ \A s \in Savers : Encodable(s)

LEMMA FreshIsRecord == Fresh \in Record
BY DEF Fresh, Record

LEMMA NoEditIsEdit == NoEdit \in Edit
BY DEF NoEdit, Edit

LEMMA OrderIsOfFields == \A i \in 1 .. 3 : Order[i] \in Fields
BY DEF Order, Fields

LEMMA SharedInitTypes == SharedInit => SharedTypes
BY FreshIsRecord, NoEditIsEdit DEF SharedInit, SharedTypes, Versions, NoEdit, Encodable

(* A record with one more field assigned or encoded is a record.           *)
LEMMA FieldAssigned ==
  ASSUME NEW r \in Record, NEW f \in Fields, NEW n \in 0 .. MaxUpdates
  PROVE  [r EXCEPT ![f] = n] \in Record
BY DEF Record
(* Only the end of the snapshot leads to "encode", and it sees to that.    *)
LEMMA EncodableStep ==
  ASSUME SharedTypes, TypeOK, [SharedNext]_sharedVars, NEW s \in Savers
  PROVE  Encodable(s)'
<1>0. Encodable(s) /\ pc \in [Savers -> SavePoints] /\ snap \in [Savers -> File]
  BY DEF SharedTypes, TypeOK
<1> USE <1>0 DEF Encodable, InSnapshot, Goto, At, recordVars, editVars, encodeVars, fileVMs, saveVars, fileVars, memVars, procVars
<1>a. ASSUME UNCHANGED <<pc, snap, left>> PROVE Encodable(s)'
  BY <1>a
<1>1. CASE OtherRequest
  BY <1>1, <1>a DEF OtherRequest, Request
<1>2. CASE UpdateBegins
  BY <1>2, <1>a DEF UpdateBegins, vars
<1>3. CASE UpdateAssigns
  BY <1>3, <1>a DEF UpdateAssigns, vars
<1>4. CASE UpdateStores
  BY <1>4, <1>a DEF UpdateStores
<1>5. ASSUME NEW t \in Savers, SharedSaveStep(t) PROVE Encodable(s)'
  <2>1. CASE SaveLock(t) /\ OtherStep(t)
    BY <2>1 DEF OtherStep, SaveLock
  <2>2. CASE SnapshotBegin(t) /\ OtherStep(t)
    BY <2>2 DEF OtherStep, SnapshotBegin
  <2>3. CASE WriteBegin(t) /\ OtherStep(t)
    BY <2>3 DEF OtherStep, WriteBegin
  <2>4. ASSUME NEW k \in Keys, SnapshotCopy(t, k), OtherStep(t) PROVE Encodable(s)'
    BY <2>4 DEF OtherStep, SnapshotCopy
  <2>5. CASE MarshalBegins(t)
    <3>1. left \in [Savers -> SUBSET Fields]
      BY DEF SharedTypes
    <3> QED
      BY <2>5, <3>1 DEF MarshalBegins, SnapshotEnd
  <2>6. ASSUME NEW f \in Fields, MarshalField(t, f) PROVE Encodable(s)'
    <3>1. left \in [Savers -> SUBSET Fields]
      BY DEF SharedTypes
    <3> QED
      BY <2>6, <3>1 DEF MarshalField, vars
  <2>7. CASE MarshalEnds(t)
    BY <2>7 DEF MarshalEnds, Encode
  <2>8. CASE SharedWrite(t)
    BY <2>8 DEF SharedWrite, WriteEnd
  <2>9. CASE SharedRename(t)
    BY <2>9 DEF SharedRename, Rename, SaveReturns
  <2> QED
    BY <1>5, <2>1, <2>2, <2>3, <2>4, <2>5, <2>6, <2>7, <2>8, <2>9 DEF SharedSaveStep, OtherStep
<1>6. ASSUME NEW t \in Savers, SharedFails(t) PROVE Encodable(s)'
  <2>1. left \in [Savers -> SUBSET Fields]
    BY DEF SharedTypes
  <2> QED
    BY <1>6, <2>1 DEF SharedFails, SaveFails, SaveReturns
<1>7. CASE ProcessGoesOn
  BY <1>7 DEF ProcessGoesOn, Tick, AutoSaveStops, Signal, StopAutoSave, Exit, Kill, Savers
<1>8. CASE SharedRestart
  BY <1>8 DEF SharedRestart, Restart
<1>9. CASE UNCHANGED sharedVars
  BY <1>9, <1>a DEF sharedVars, vars
<1> QED
  BY <1>1, <1>2, <1>3, <1>4, <1>5, <1>6, <1>7, <1>8, <1>9 DEF SharedNext

(* Each step keeps the records records, the maps maps of them.             *)
LEMMA SharedNextTypes == SharedTypes /\ TypeOK /\ [SharedNext]_sharedVars => SharedTypes'
<1> SUFFICES ASSUME SharedTypes, TypeOK, [SharedNext]_sharedVars PROVE SharedTypes'
  OBVIOUS
<1> USE DEF SharedTypes, recordVars, editVars, encodeVars, fileVMs
<1>e. \A s \in Savers : Encodable(s)'
  BY EncodableStep
<1>c. data[VM] \in 0 .. MaxVersions /\ \A s \in Savers : InSnapshot(s) \in 0 .. MaxVersions
  BY DEF TypeOK, MemTypeOK, Content, File, InSnapshot
<1>1. CASE OtherRequest
  BY <1>1, <1>e DEF OtherRequest
<1>2. CASE UpdateBegins
  <2>1. data[VM] \in Versions
    BY <1>2, <1>c DEF UpdateBegins, Exists, Absent, Versions
  <2>2. object[data[VM]] \in 0 .. MaxVersions
    BY <2>1 DEF Versions
  <2>3. updates + 1 \in 0 .. MaxUpdates
    <3>1. cast.updates \in 0 .. MaxUpdates
      BY DEF SharedTypes
    <3> QED
      BY <1>2, <3>1 DEF UpdateBegins
  <2>4. edit' \in Edit
    BY <1>2, <2>2, <2>3 DEF UpdateBegins, Edit
  <2> QED
    BY <1>2, <2>1, <2>3, <2>4, <1>e DEF UpdateBegins
<1>3. CASE UpdateAssigns
  <2>1. edit' \in Edit
    BY <1>3 DEF UpdateAssigns, Edit
  <2>2. edit.number \in 0 .. MaxUpdates /\ Order[edit.at] \in Fields
    BY <1>3, OrderIsOfFields DEF UpdateAssigns, Edit
  <2>3. \A o \in Versions : [fields[o] EXCEPT ![Order[edit.at]] = edit.number] \in Record
    BY <2>2, FieldAssigned
  <2>4. fields' \in [Versions -> Record]
    BY <1>3, <2>3 DEF UpdateAssigns
  <2> QED
    BY <1>3, <2>1, <2>4, <1>e DEF UpdateAssigns
<1>4. CASE UpdateStores
  <2> DEFINE v == Version + 1
  <2>1. v \in Versions
    <3>1. Version \in Nat
      BY DEF Version, TypeOK, MemTypeOK
    <3>2. Version < MaxVersions
      BY <1>4 DEF UpdateStores, Set, Change
    <3> QED
      BY <3>1, <3>2 DEF Versions
  <2>2. edit.number \in 0 .. MaxUpdates
    BY DEF Edit
  <2>3. noted' \in [Versions -> 0 .. MaxUpdates]
    BY <1>4, <2>2 DEF UpdateStores
  <2> QED
    BY <1>4, <2>1, <2>3, <1>e, NoEditIsEdit DEF UpdateStores, NoEdit
<1>5. ASSUME NEW s \in Savers, SharedSaveStep(s) PROVE SharedTypes'
  <2>1. CASE OtherStep(s)
    BY <2>1, <1>e DEF OtherStep
  <2>2. CASE MarshalBegins(s)
    <3>1. left' \in [Savers -> SUBSET Fields]
      BY <2>2 DEF MarshalBegins
    <3>2. encoded' \in [Savers -> Record]
      BY <2>2, FreshIsRecord DEF MarshalBegins
    <3> QED
      BY <2>2, <3>1, <3>2, <1>e DEF MarshalBegins
  <2>3. ASSUME NEW f \in Fields, MarshalField(s, f) PROVE SharedTypes'
    <3>1. left' \in [Savers -> SUBSET Fields]
      BY <2>3 DEF MarshalField
    <3>0. InSnapshot(s) \in Versions
      BY <2>3, <1>c DEF MarshalField, Encodable, At, Absent, Versions
    <3>2. encoded' \in [Savers -> Record]
      <4>1. fields[object[InSnapshot(s)]] \in Record
        BY <3>0
      <4>2. [encoded[s] EXCEPT ![f] = fields[object[InSnapshot(s)]][f]] \in Record
        BY <4>1 DEF Record
      <4> QED
        BY <2>3, <4>2 DEF MarshalField
    <3> QED
      BY <2>3, <3>1, <3>2, <1>e DEF MarshalField
  <2>4. CASE MarshalEnds(s)
    BY <2>4, <1>e DEF MarshalEnds
  <2>5. CASE SharedWrite(s)
    BY <2>5, <1>e DEF SharedWrite
  <2>6. CASE SharedRename(s)
    BY <2>6, <1>e, FreshIsRecord DEF SharedRename
  <2> QED
    BY <1>5, <2>1, <2>2, <2>3, <2>4, <2>5, <2>6 DEF SharedSaveStep
<1>6. ASSUME NEW s \in Savers, SharedFails(s) PROVE SharedTypes'
  <2>1. encoded' \in [Savers -> Record] /\ left' \in [Savers -> SUBSET Fields]
    BY <1>6, FreshIsRecord DEF SharedFails
  <2> QED
    BY <1>6, <2>1, <1>e DEF SharedFails
<1>7. CASE ProcessGoesOn
  BY <1>7, <1>e DEF ProcessGoesOn
<1>8. CASE SharedRestart
  <2>1. fields' \in [Versions -> Record]
    BY <1>8 DEF SharedRestart
  <2>2. left' \in [Savers -> SUBSET Fields] /\ encoded' \in [Savers -> Record] /\ edit' \in Edit
    BY <1>8, FreshIsRecord, NoEditIsEdit DEF SharedRestart
  <2> QED
    BY <1>8, <2>1, <2>2, <1>e DEF SharedRestart, NoEdit
<1>9. CASE UNCHANGED sharedVars
  BY <1>9, <1>e DEF sharedVars
<1> QED
  BY <1>1, <1>2, <1>3, <1>4, <1>5, <1>6, <1>7, <1>8, <1>9 DEF SharedNext

LEMMA TypesHold == SharedSpec => [](TypeOK /\ SharedTypes)
<1>1. SharedSpec => []TypeOK
  BY SharedImplementsFileBackend, TypeCorrect, PTL
<1> QED
  BY <1>1, SharedInitTypes, SharedNextTypes, PTL DEF SharedSpec

(* The Go maps, the update in progress and the records in the encoder and  *)
(* the files keep their types.                                             *)
THEOREM SharedTypeCorrect == SharedSpec => []SharedTypeOK
<1>1. TypeOK /\ SharedTypes => SharedTypeOK
  BY DEF SharedTypes, SharedTypeOK
<1> QED
  BY <1>1, TypesHold, PTL
-----------------------------------------------------------------------------
(* The inductive invariant.                                                *)

LEMMA Numbers ==
  ASSUME TypeOK, SharedTypes
  PROVE  /\ Version \in Nat
         /\ data[VM] \in 0 .. MaxVersions /\ disk.content[VM] \in 0 .. MaxVersions
         /\ tmp.content[VM] \in 0 .. MaxVersions
         /\ \A s \in Savers : InSnapshot(s) \in 0 .. MaxVersions
         /\ updates \in Nat
         /\ \A v \in Versions : noted[v] \in Nat /\ object[v] \in Versions
         /\ \A o \in Versions, f \in Fields : fields[o][f] \in Nat
         /\ \A s \in Savers, f \in Fields : encoded[s][f] \in Nat
         /\ \A f \in Fields : diskVM[f] \in Nat /\ tmpVM[f] \in Nat
<1>1. /\ Version \in Nat
      /\ data[VM] \in 0 .. MaxVersions /\ disk.content[VM] \in 0 .. MaxVersions
      /\ tmp.content[VM] \in 0 .. MaxVersions
      /\ \A s \in Savers : InSnapshot(s) \in 0 .. MaxVersions
  BY DEF TypeOK, MemTypeOK, Content, File, InSnapshot, Version
<1>2. \A n \in 0 .. MaxUpdates : n \in Nat
  OBVIOUS
<1>3. \A r \in Record : \A f \in Fields : r[f] \in Nat
  BY <1>2 DEF Record
<1>4. /\ \A o \in Versions, f \in Fields : fields[o][f] \in Nat
      /\ \A s \in Savers, f \in Fields : encoded[s][f] \in Nat
      /\ \A f \in Fields : diskVM[f] \in Nat /\ tmpVM[f] \in Nat
  BY <1>3 DEF SharedTypes
<1>5. updates \in Nat /\ \A v \in Versions : noted[v] \in Nat /\ object[v] \in Versions
  BY <1>2 DEF SharedTypes
<1> QED
  BY <1>1, <1>4, <1>5

LEMMA SharedInitInv == SharedInit => SharedInv
<1> SUFFICES ASSUME SharedInit PROVE SharedInv
  OBVIOUS
<1> USE DEF SharedInit, Init, MemInit, Version, NewFile, Empty, Absent, Torn
<1>1. NumberInv /\ EditInv
  BY DEF NumberInv, EditInv, InSnapshot, NoEdit, Versions
<1>2. MapInv
  BY DEF MapInv, Ordered, Bounded, Covers, Fresh, Fields, Versions
<1>3. SaverInv
  BY DEF SaverInv, Bounded, Fresh, Fields
<1>4. FileInv
  BY DEF FileInv, Bounded, LogIsNotAhead, FileHasAnsweredUpdates, InFile, Ordered, Fresh, Fields
<1> QED
  BY <1>1, <1>2, <1>3, <1>4 DEF SharedInv

(* A request leaves the VM's value, removes it or gives it the next number.*)
LEMMA MutateVM ==
  ASSUME MemTypeOK, Mutate
  PROVE  /\ Version' \in Nat /\ Version' >= Version
         /\ \/ data'[VM] = data[VM]
            \/ data'[VM] = Absent
            \/ data'[VM] = Version + 1 /\ Version' = Version + 1 /\ Version + 1 \in Versions
<1> USE DEF MemTypeOK
<1> DEFINE Goal == /\ Version' \in Nat /\ Version' >= Version
                   /\ \/ data'[VM] = data[VM]
                      \/ data'[VM] = Absent
                      \/ data'[VM] = Version + 1 /\ Version' = Version + 1 /\ Version + 1 \in Versions
<1>1. Version \in Nat
  BY DEF Version
<1>2. ASSUME NEW c \in Content, Change(c), c[VM] = data[VM] \/ c[VM] = Absent \/ c[VM] = Version + 1 PROVE Goal
  <2>1. Version' = Version + 1
    BY <1>2, AppendContent DEF Change, Version
  <2>2. Version + 1 \in Versions
    BY <1>1, <1>2 DEF Change, Versions
  <2> QED
    BY <1>1, <1>2, <2>1, <2>2 DEF Change
<1>3. ASSUME NEW k \in Keys, Set(k) PROVE Goal
  <2>1. [data EXCEPT ![k] = Version + 1] \in Content
    BY <1>3 DEF Set, Change, Content, Version
  <2> QED
    BY <1>2, <1>3, <2>1 DEF Set, Content
<1>4. ASSUME NEW k \in Keys, Delete(k) PROVE Goal
  <2>1. [data EXCEPT ![k] = Absent] \in Content
    BY DEF Content, Absent
  <2> QED
    BY <1>2, <1>4, <2>1 DEF Delete, Content
<1>5. ASSUME Reset PROVE Goal
  BY <1>2, <1>5, EmptyIsContent DEF Reset, Empty
<1>6. ASSUME NEW p \in Prefixes, DeleteByPrefixBegin(p) PROVE Goal
  BY <1>1, <1>6 DEF DeleteByPrefixBegin, Version
<1>7. ASSUME NEW k \in Keys, DeleteByPrefixStep(k) PROVE Goal
  BY <1>1, <1>7 DEF DeleteByPrefixStep, Version, Content
<1>8. ASSUME DeleteByPrefixEnd PROVE Goal
  BY <1>1, <1>8, AppendContent DEF DeleteByPrefixEnd, Version
<1> QED
  BY <1>3, <1>4, <1>5, <1>6, <1>7, <1>8 DEF Mutate, DeleteByPrefixProgress

(* What saver s may be and have after a step.                              *)
SaverGoal(s) == /\ InSnapshot(s)' <= Version
                /\ Bounded(encoded[s])'
                /\ pc'[s] = "encode" => EncodingInv(s)'
                /\ pc'[s] \in {"write", "writing", "rename"} => EncodedInv(s)'
                /\ pc'[s] = "rename" => tmpVM' = encoded'[s]

(* A step that touches neither the map nor the records disturbs nothing if *)
(* what the savers and the file have afterwards is in order.               *)
LEMMA Undisturbed ==
  ASSUME SharedInv, UNCHANGED <<data, history, recordVars, editVars>>,
         disk.content[VM]' <= Version, FileInv',
         \A s \in Savers : SaverGoal(s)
  PROVE  SharedInv'
<1> USE DEF recordVars, editVars, SharedInv, SaverGoal
<1>1. NumberInv'
  BY DEF NumberInv, Version
<1>2. EditInv'
  BY DEF EditInv
<1>3. MapInv'
  BY DEF MapInv, Ordered, Bounded, Covers
<1>4. SaverInv'
  BY DEF SaverInv
<1> QED
  BY <1>1, <1>2, <1>3, <1>4

LEMMA SameFile ==
  ASSUME SharedInv, UNCHANGED <<disk, recordVars, editVars, diskVM>>
  PROVE  disk.content[VM]' <= Version /\ FileInv'
BY DEF SharedInv, NumberInv, FileInv, Bounded, LogIsNotAhead, FileHasAnsweredUpdates, InFile, Ordered, recordVars, editVars

(* The saver that does not move keeps what it has.                         *)
LEMMA OtherSaver ==
  ASSUME SharedInv, UNCHANGED <<recordVars, editVars>>,
         NEW t \in Savers,
         pc'[t] = pc[t], InSnapshot(t)' = InSnapshot(t), left'[t] = left[t], encoded'[t] = encoded[t],
         pc[t] = "rename" => tmpVM' = tmpVM
  PROVE  SaverGoal(t)
<1> USE DEF SharedInv, recordVars, editVars, SaverGoal
<1>1. EncodingInv(t)' = EncodingInv(t) /\ EncodedInv(t)' = EncodedInv(t) /\ Bounded(encoded[t])' = Bounded(encoded[t])
  BY DEF EncodingInv, EncodedInv, Covers, Ordered, Bounded
<1> QED
  BY <1>1 DEF NumberInv, SaverInv

LEMMA ProcessSharedInv == SharedInv /\ TypeOK /\ ProcessGoesOn => SharedInv'
<1> SUFFICES ASSUME SharedInv, TypeOK, ProcessGoesOn PROVE SharedInv'
  OBVIOUS
<1>1. UNCHANGED <<memVars, snap, fileVars, recordVars, editVars, encodeVars, fileVMs>>
  BY DEF ProcessGoesOn, Tick, AutoSaveStops, Signal, StopAutoSave, Exit, Kill, saveVars
<1>2. \A s \in Savers : pc'[s] = pc[s] \/ pc'[s] \in {"lock", "stopped"}
  BY DEF ProcessGoesOn, Tick, AutoSaveStops, Signal, StopAutoSave, Exit, Kill, saveVars, Goto, TypeOK, Savers
<1> USE DEF memVars, fileVars, recordVars, editVars, encodeVars, fileVMs
<1>3. ASSUME NEW s \in Savers PROVE SaverGoal(s)
  <2>1. InSnapshot(s)' = InSnapshot(s) /\ InSnapshot(s) <= Version
    BY <1>1 DEF InSnapshot, SharedInv, NumberInv
  <2>2. EncodingInv(s)' = EncodingInv(s) /\ EncodedInv(s)' = EncodedInv(s) /\ Bounded(encoded[s])' = Bounded(encoded[s])
    BY <1>1, <2>1 DEF EncodingInv, EncodedInv, Covers, Ordered, Bounded
  <2> QED
    BY <1>1, <1>2, <2>1, <2>2 DEF SharedInv, SaverInv, SaverGoal
<1> QED
  BY <1>1, <1>3, Undisturbed, SameFile
(* A request that stores something else, or removes what there is.         *)
LEMMA OtherRequestInv == SharedInv /\ TypeOK /\ SharedTypes /\ OtherRequest => SharedInv'
<1> SUFFICES ASSUME SharedInv, TypeOK, SharedTypes, OtherRequest PROVE SharedInv'
  OBVIOUS
<1>0. /\ Version' \in Nat /\ Version' >= Version
      /\ \/ data'[VM] = data[VM]
         \/ data'[VM] = Absent
         \/ data'[VM] = Version + 1 /\ Version' = Version + 1 /\ Version + 1 \in Versions
  BY MutateVM DEF OtherRequest, Request, TypeOK
<1>1. UNCHANGED <<saveVars, fileVars, recordVars, editVars, encodeVars, fileVMs>>
  BY DEF OtherRequest, Request
<1>n. /\ Version \in Nat /\ data[VM] \in Nat /\ disk.content[VM] \in Nat
      /\ \A s \in Savers : InSnapshot(s) \in Nat
      /\ \A o \in Versions, f \in Fields : fields[o][f] \in Nat
      /\ \A v \in Versions : object[v] \in Versions
  BY Numbers
<1> USE DEF SharedInv, saveVars, fileVars, recordVars, editVars, encodeVars, fileVMs
<1>2. NumberInv'
  BY <1>0, <1>1, <1>n DEF NumberInv, InSnapshot, Versions, Absent
<1>3. EditInv'
  BY <1>1 DEF EditInv
<1>4. MapInv'
  <2>1. ASSUME data'[VM] = Version + 1, Version + 1 \in Versions PROVE Covers(fields[object[data'[VM]]], noted[data'[VM]])
    <3>1. noted[Version + 1] = 0
      BY <2>1, <1>n DEF NumberInv
    <3> QED
      BY <2>1, <3>1, <1>n DEF Covers
  <2>2. data'[VM] # Absent => Covers(fields[object[data'[VM]]], noted[data'[VM]])
    BY <1>0, <2>1 DEF MapInv
  <2> QED
    BY <1>1, <2>2 DEF MapInv, Ordered, Bounded, Covers
<1>5. SaverInv'
  BY <1>1 DEF SaverInv, Bounded, EncodingInv, EncodedInv, InSnapshot, Covers, Ordered
<1>6. FileInv'
  BY <1>1 DEF FileInv, Bounded, LogIsNotAhead, FileHasAnsweredUpdates, InFile, Ordered
<1> QED
  BY <1>2, <1>3, <1>4, <1>5, <1>6

(* An update begins: its number is greater than any in a record.           *)
LEMMA UpdateBeginsInv == SharedInv /\ TypeOK /\ SharedTypes /\ UpdateBegins => SharedInv'
<1> SUFFICES ASSUME SharedInv, TypeOK, SharedTypes, UpdateBegins PROVE SharedInv'
  OBVIOUS
<1>1. UNCHANGED <<vars, recordVars, encodeVars, fileVMs>>
  BY DEF UpdateBegins
<1>2. updates' = updates + 1 /\ edit'.at = 1 /\ edit'.number = updates + 1
  BY DEF UpdateBegins
<1>n. /\ updates \in Nat
      /\ \A o \in Versions, f \in Fields : fields[o][f] \in Nat
      /\ \A s \in Savers, f \in Fields : encoded[s][f] \in Nat
      /\ \A f \in Fields : diskVM[f] \in Nat
  BY Numbers
<1> USE DEF SharedInv, vars, memVars, saveVars, fileVars, recordVars, encodeVars, fileVMs
<1>3. NumberInv'
  BY <1>1 DEF NumberInv, InSnapshot, Version
<1>4. EditInv'
  BY <1>2 DEF EditInv
<1>5. MapInv'
  <2>1. \A o \in Versions : Bounded(fields[o])'
    BY <1>1, <1>2, <1>n DEF MapInv, Bounded
  <2> QED
    BY <1>1, <2>1 DEF MapInv, Ordered, Covers
<1>6. SaverInv'
  <2>1. \A s \in Savers : Bounded(encoded[s])'
    BY <1>1, <1>2, <1>n DEF SaverInv, Bounded
  <2> QED
    BY <1>1, <2>1 DEF SaverInv, EncodingInv, EncodedInv, InSnapshot, Covers, Ordered
<1>7. FileInv'
  <2>1. Bounded(diskVM)'
    BY <1>1, <1>2, <1>n DEF FileInv, Bounded
  <2> QED
    BY <1>1, <2>1 DEF FileInv, LogIsNotAhead, FileHasAnsweredUpdates, InFile, Ordered
<1> QED
  BY <1>3, <1>4, <1>5, <1>6, <1>7

(* An assignment only makes a field greater.                               *)
LEMMA UpdateAssignsInv == SharedInv /\ TypeOK /\ SharedTypes /\ UpdateAssigns => SharedInv'
<1> SUFFICES ASSUME SharedInv, TypeOK, SharedTypes, UpdateAssigns PROVE SharedInv'
  OBVIOUS
<1>1. UNCHANGED <<vars, object, noted, updates, encodeVars, fileVMs>>
  BY DEF UpdateAssigns
<1>n. /\ updates \in Nat /\ edit.object \in Versions /\ edit.number = updates /\ edit.at \in 1 .. 3
      /\ \A o \in Versions, f \in Fields : fields[o][f] \in Nat
      /\ \A s \in Savers, f \in Fields : encoded[s][f] \in Nat
      /\ \A s \in Savers : InSnapshot(s) \in 0 .. MaxVersions
      /\ data[VM] \in 0 .. MaxVersions
      /\ \A v \in Versions : object[v] \in Versions /\ noted[v] \in Nat
  BY Numbers DEF UpdateAssigns, SharedInv, EditInv, SharedTypes
<1> DEFINE o == edit.object
           g == Order[edit.at]
<1>2. /\ edit'.at = edit.at + 1 /\ edit'.object = o /\ edit'.number = updates
      /\ g \in Fields
      /\ edit.at = 1 => g = "properties"
      /\ edit.at = 2 => g = "identity"
      /\ edit.at = 3 => g = "log"
  BY <1>n DEF UpdateAssigns, SharedTypes, Edit, Order, Fields
<1>3. /\ \A p \in Versions : \A f \in Fields : fields'[p][f] = IF p = o /\ f = g THEN updates ELSE fields[p][f]
  BY <1>n, <1>2 DEF UpdateAssigns, SharedTypes, Record
<1> HIDE DEF o, g
<1>4. \A p \in Versions : Bounded(fields[p]) /\ Ordered(fields[p])
  BY DEF SharedInv, MapInv
<1>5. \A p \in Versions : \A f \in Fields : fields'[p][f] >= fields[p][f] /\ fields'[p][f] <= updates /\ fields'[p][f] \in Nat
  BY <1>3, <1>4, <1>n DEF Bounded
<1>6. ASSUME NEW p \in Versions, NEW n \in Nat, Covers(fields[p], n) PROVE Covers(fields'[p], n)
  BY <1>5, <1>6, <1>n DEF Covers
<1> USE DEF SharedInv, vars, memVars, saveVars, fileVars, encodeVars, fileVMs
<1>7. NumberInv'
  BY <1>1 DEF NumberInv, InSnapshot, Version
<1>8. EditInv'
  <2>1. "properties" \in Fields /\ "identity" \in Fields /\ "log" \in Fields
    BY DEF Fields
  <2>2. /\ edit.at > 1 => fields[o]["properties"] = updates
        /\ edit.at > 2 => fields[o]["identity"] = updates
    BY DEF EditInv, o
  <2>3. /\ edit.at + 1 > 1 => fields'[o]["properties"] = updates
        /\ edit.at + 1 > 2 => fields'[o]["identity"] = updates
        /\ edit.at + 1 > 3 => fields'[o]["log"] = updates
    BY <1>2, <1>3, <1>n, <2>1, <2>2 DEF o
  <2> QED
    BY <1>1, <1>2, <2>3 DEF EditInv
<1>9. MapInv'
  <2>1. \A p \in Versions : Ordered(fields'[p])
    <3> TAKE p \in Versions
    <3>1. "properties" \in Fields /\ "identity" \in Fields /\ "log" \in Fields
      BY DEF Fields
    <3>2. p = o => fields'[p]["properties"] = updates
      <4>1. edit.at > 1 => fields[o]["properties"] = updates
        BY DEF EditInv, o
      <4> QED
        BY <1>2, <1>3, <1>n, <3>1, <4>1
    <3>3. p # o => \A f \in Fields : fields'[p][f] = fields[p][f]
      BY <1>3
    <3> QED
      BY <1>4, <1>5, <3>1, <3>2, <3>3 DEF Ordered
  <2>2. \A p \in Versions : Bounded(fields[p])'
    BY <1>1, <1>5 DEF Bounded
  <2>3. data[VM] # Absent => Covers(fields'[object[data[VM]]], noted[data[VM]])
    BY <1>6, <1>n DEF MapInv, Absent, Versions
  <2> QED
    BY <1>1, <2>1, <2>2, <2>3 DEF MapInv, Ordered, Covers
<1>10. SaverInv'
  <2> SUFFICES ASSUME NEW s \in Savers PROVE SaverInv!(s)'
    BY DEF SaverInv
  <2>1. Bounded(encoded[s])' /\ EncodedInv(s)' = EncodedInv(s) /\ InSnapshot(s)' = InSnapshot(s)
    BY <1>1 DEF SaverInv, Bounded, EncodedInv, InSnapshot, Covers, Ordered
  <2>2. ASSUME pc[s] = "encode", EncodingInv(s) PROVE EncodingInv(s)'
    <3> DEFINE v == InSnapshot(s)
    <3>0. v # Absent => v \in Versions
      BY <1>n DEF Absent, Versions
    <3>1. v # Absent => Covers(fields'[object[v]], noted[v])
      BY <2>2, <3>0, <1>6, <1>n DEF EncodingInv
    <3>2. "properties" \in left[s] => \A f \in Fields \ left[s] : encoded[s][f] <= fields'[object[v]]["properties"]
      <4> SUFFICES ASSUME "properties" \in left[s], NEW f \in Fields \ left[s]
                   PROVE  encoded[s][f] <= fields'[object[v]]["properties"]
        OBVIOUS
      <4>1. object[v] \in Versions
        BY <2>2, <3>0, <1>n DEF SharedTypes, Encodable
      <4>2. "properties" \in Fields
        BY DEF Fields
      <4>3. encoded[s][f] <= fields[object[v]]["properties"]
        BY <2>2 DEF EncodingInv
      <4> HIDE DEF v
      <4> QED
        BY <4>1, <4>2, <4>3, <1>5, <1>n
    <3>3. "properties" \notin left[s] => left[s] = {} /\ Ordered(encoded[s])
      BY <2>2 DEF EncodingInv
    <3>4. v # Absent => \A f \in Fields \ left[s] : encoded[s][f] >= noted[v]
      BY <2>2 DEF EncodingInv
    <3> QED
      BY <1>1, <2>1, <3>1, <3>2, <3>3, <3>4 DEF EncodingInv, Covers, Ordered
  <2> QED
    BY <1>1, <2>1, <2>2 DEF SaverInv
<1>11. FileInv'
  BY <1>1 DEF FileInv, Bounded, LogIsNotAhead, FileHasAnsweredUpdates, InFile, Ordered
<1> QED
  BY <1>7, <1>8, <1>9, <1>10, <1>11
(* The update stores the map again: every field has its number.            *)
LEMMA UpdateStoresInv == SharedInv /\ TypeOK /\ SharedTypes /\ UpdateStores => SharedInv'
<1> SUFFICES ASSUME SharedInv, TypeOK, SharedTypes, UpdateStores PROVE SharedInv'
  OBVIOUS
<1>1. UNCHANGED <<saveVars, fileVars, procVars, failures, restarts, fields, updates, encodeVars, fileVMs>>
  BY DEF UpdateStores
<1> DEFINE v == Version + 1
<1>n. /\ updates \in Nat /\ Version \in Nat /\ edit.object \in Versions /\ edit.number = updates
      /\ data[VM] \in Nat /\ disk.content[VM] \in Nat
      /\ \A s \in Savers : InSnapshot(s) \in Nat
      /\ \A f \in Fields : fields[edit.object][f] = updates
  <2>1. edit.at = 4
    BY DEF UpdateStores
  <2>2. \A f \in Fields : fields[edit.object][f] = updates
    BY <2>1 DEF SharedInv, EditInv, Fields
  <2> QED
    BY <2>1, <2>2, Numbers DEF SharedInv, EditInv, SharedTypes
<1>2. Version' = v /\ data'[VM] = v /\ v \in Versions
  <2>1. Version < MaxVersions /\ data' = [data EXCEPT ![VM] = v] /\ history' = Append(history, data')
    BY DEF UpdateStores, Set, Change
  <2>2. v \in 0 .. MaxVersions
    BY <1>n, <2>1
  <2>3. data' \in Content /\ data'[VM] = v
    BY <2>1, <2>2 DEF TypeOK, MemTypeOK, Content
  <2>4. Version' = v
    BY <2>1, <2>3, AppendContent DEF TypeOK, MemTypeOK, Version
  <2> QED
    BY <1>n, <2>1, <2>3, <2>4 DEF Versions
<1>3. /\ object'[v] = edit.object /\ noted'[v] = updates
      /\ \A u \in Versions \ {v} : object'[u] = object[u] /\ noted'[u] = noted[u]
  BY <1>2, <1>n DEF UpdateStores, SharedTypes
<1>4. \A s \in Savers : InSnapshot(s)' = InSnapshot(s) /\ InSnapshot(s) < v /\ InSnapshot(s) \in 0 .. MaxVersions
  BY <1>1, <1>n, Numbers DEF InSnapshot, saveVars, SharedInv, NumberInv
<1>5. disk.content[VM] < v /\ disk.content[VM] \in 0 .. MaxVersions
  BY <1>n, Numbers DEF SharedInv, NumberInv
<1> HIDE DEF v
<1> USE DEF SharedInv, saveVars, fileVars, encodeVars, fileVMs
<1>6. NumberInv'
  <2>1. v = Version + 1
    BY DEF v
  <2>2. \A u \in Versions : u > v => noted'[u] = 0
    BY <1>3, <1>n, <2>1 DEF NumberInv, Versions
  <2>3. disk.content[VM] <= v /\ \A s \in Savers : InSnapshot(s) <= v
    BY <1>4, <1>5, <1>n, <2>1
  <2> QED
    BY <1>1, <1>2, <1>4, <1>n, <2>1, <2>2, <2>3 DEF NumberInv
<1>7. EditInv'
  BY DEF EditInv, UpdateStores, NoEdit
<1>8. MapInv'
  <2>1. Covers(fields[edit.object], updates)
    BY <1>n DEF Covers
  <2> QED
    BY <1>1, <1>2, <1>3, <2>1 DEF MapInv, Ordered, Bounded, Covers
<1>9. SaverInv'
  <2> SUFFICES ASSUME NEW s \in Savers PROVE SaverInv!(s)'
    BY DEF SaverInv
  <2> DEFINE u == InSnapshot(s)
  <2>1. u # Absent => u \in Versions \ {v}
    BY <1>4, <1>2 DEF Absent, Versions
  <2>2. u # Absent => object'[u] = object[u] /\ noted'[u] = noted[u]
    BY <1>3, <2>1
  <2>3. pc[s] = "encode" /\ "properties" \in left[s] => u # Absent
    BY DEF SharedTypes, Encodable
  <2>4. Bounded(encoded[s])' /\ InSnapshot(s)' = u
    BY <1>1, <1>4 DEF SaverInv, Bounded
  <2>5. pc[s] = "encode" /\ EncodingInv(s) => EncodingInv(s)'
    BY <1>1, <2>2, <2>3, <2>4 DEF EncodingInv, Covers, Ordered
  <2>6. EncodedInv(s) => EncodedInv(s)'
    BY <1>1, <2>2, <2>4 DEF EncodedInv, Covers, Ordered
  <2> QED
    BY <1>1, <2>4, <2>5, <2>6 DEF SaverInv
<1>10. FileInv'
  <2>1. disk.content[VM] # Absent => disk.content[VM] \in Versions \ {v}
    BY <1>5, <1>2 DEF Absent, Versions
  <2>2. disk.content[VM] # Absent => noted'[disk.content[VM]] = noted[disk.content[VM]]
    BY <1>3, <2>1
  <2> QED
    BY <1>1, <2>2 DEF FileInv, Bounded, LogIsNotAhead, FileHasAnsweredUpdates, InFile, Ordered
<1> QED
  BY <1>6, <1>7, <1>8, <1>9, <1>10
(* The steps of Save.  f.mu keeps the other saver out of all but the first.*)
LEMMA SaveSharedInv ==
  ASSUME SharedInv, TypeOK, SharedTypes, IInv, NEW s \in Savers, SharedSaveStep(s)
  PROVE  SharedInv'
<1> USE DEF Goto, At, recordVars, editVars, encodeVars, fileVMs, saveVars, fileVars, memVars, procVars
<1>0. /\ pc \in [Savers -> SavePoints] /\ snap \in [Savers -> File]
      /\ left \in [Savers -> SUBSET Fields] /\ encoded \in [Savers -> Record]
  BY DEF TypeOK, SharedTypes
<1>n. /\ Version \in Nat /\ updates \in Nat
      /\ \A t \in Savers : InSnapshot(t) \in 0 .. MaxVersions
      /\ \A t \in Savers, f \in Fields : encoded[t][f] \in Nat
      /\ \A v \in Versions : object[v] \in Versions /\ noted[v] \in Nat
      /\ \A o \in Versions, f \in Fields : fields[o][f] \in Nat
  BY Numbers
<1>v. data[VM] <= Version /\ \A t \in Savers : InSnapshot(t) <= Version
  BY DEF SharedInv, NumberInv
<1>s. \A t \in Savers : SaverInv!(t)
  BY DEF SharedInv, SaverInv
<1>f. /\ "properties" \in Fields /\ "identity" \in Fields /\ "log" \in Fields
      /\ \A f \in Fields : f \in {"properties", "identity", "log"}
  BY DEF Fields
<1>1. CASE SaveLock(s) /\ OtherStep(s)
  <2>1. UNCHANGED <<data, history, disk, snap, recordVars, editVars, encodeVars, fileVMs>>
    BY <1>1 DEF SaveLock, OtherStep
  <2>2. SaverGoal(s)
    BY <1>0, <1>1, <1>s, <1>v, <2>1 DEF SaveLock, SaverGoal, InSnapshot, Bounded
  <2>3. ASSUME NEW t \in Savers \ {s} PROVE SaverGoal(t)
    BY <1>0, <1>1, <2>1, <2>3, OtherSaver DEF SaveLock, InSnapshot
  <2> QED
    BY <2>1, <2>2, <2>3, Undisturbed, SameFile
<1>2. CASE SnapshotBegin(s) /\ OtherStep(s)
  <2>1. UNCHANGED <<data, history, disk, recordVars, editVars, encodeVars, fileVMs>>
    BY <1>2 DEF SnapshotBegin, OtherStep, RLock
  <2>2. SaverGoal(s)
    <3>1. snap'[s].content[VM] = Absent
      BY <1>0, <1>2 DEF SnapshotBegin, Empty
    <3> QED
      BY <1>0, <1>2, <1>n, <1>s, <2>1, <3>1 DEF SnapshotBegin, SaverGoal, InSnapshot, Bounded, Absent
  <2>3. ASSUME NEW t \in Savers \ {s} PROVE SaverGoal(t)
    BY <1>0, <1>2, <2>1, <2>3, OtherSaver DEF SnapshotBegin, InSnapshot
  <2> QED
    BY <2>1, <2>2, <2>3, Undisturbed, SameFile
<1>3. ASSUME NEW k \in Keys, SnapshotCopy(s, k), OtherStep(s) PROVE SharedInv'
  <2>1. UNCHANGED <<data, history, disk, pc, recordVars, editVars, encodeVars, fileVMs>>
    BY <1>3 DEF SnapshotCopy, OtherStep
  <2>2. SaverGoal(s)
    <3>1. snap'[s].content[VM] = data[VM] \/ snap'[s].content[VM] = snap[s].content[VM]
      BY <1>0, <1>3 DEF SnapshotCopy, File, Content
    <3>2. pc[s] = "copy"
      BY <1>3 DEF SnapshotCopy
    <3> QED
      BY <1>s, <1>v, <2>1, <3>1, <3>2 DEF SaverGoal, InSnapshot, Bounded
  <2>3. ASSUME NEW t \in Savers \ {s} PROVE SaverGoal(t)
    BY <1>0, <1>3, <2>1, <2>3, OtherSaver DEF SnapshotCopy, InSnapshot
  <2> QED
    BY <2>1, <2>2, <2>3, Undisturbed, SameFile
<1>4. CASE WriteBegin(s) /\ OtherStep(s)
  <2>1. UNCHANGED <<data, history, disk, snap, recordVars, editVars, encodeVars, fileVMs>>
    BY <1>4 DEF WriteBegin, OtherStep
  <2>2. SaverGoal(s)
    <3>1. EncodedInv(s)' = EncodedInv(s) /\ InSnapshot(s)' = InSnapshot(s) /\ Bounded(encoded[s])' = Bounded(encoded[s])
      BY <2>1 DEF EncodedInv, InSnapshot, Covers, Ordered, Bounded
    <3> QED
      BY <1>0, <1>4, <1>s, <1>v, <3>1 DEF WriteBegin, SaverGoal
  <2>3. ASSUME NEW t \in Savers \ {s} PROVE SaverGoal(t)
    BY <1>0, <1>4, <2>1, <2>3, OtherSaver DEF WriteBegin, InSnapshot
  <2> QED
    BY <2>1, <2>2, <2>3, Undisturbed, SameFile
<1>5. CASE MarshalBegins(s)
  <2>1. UNCHANGED <<data, history, disk, snap, recordVars, editVars, fileVMs>>
    BY <1>5 DEF MarshalBegins, SnapshotEnd, RUnlock
  <2>2. encoded'[s] = Fresh /\ left'[s] = IF InSnapshot(s) = Absent THEN {} ELSE Fields
    BY <1>0, <1>5 DEF MarshalBegins
  <2>3. InSnapshot(s) = data[VM] /\ pc'[s] = "encode"
    BY <1>0, <1>5 DEF MarshalBegins, SnapshotEnd, IInv, SnapInv, InSnapshot
  <2>4. EncodingInv(s)'
    <3> DEFINE v == InSnapshot(s)
    <3>1. v # Absent => Covers(fields[object[v]], noted[v]) /\ left'[s] = Fields
      BY <2>2, <2>3 DEF SharedInv, MapInv
    <3>2. v = Absent => left'[s] = {} /\ Ordered(encoded'[s])
      BY <2>2 DEF Ordered, Fresh, Fields
    <3>3. InSnapshot(s)' = v
      BY <2>1 DEF InSnapshot
    <3> QED
      BY <1>f, <2>1, <3>1, <3>2, <3>3 DEF EncodingInv, Covers, Ordered
  <2>5. Bounded(encoded[s])'
    BY <1>n, <2>1, <2>2 DEF Bounded, Fresh
  <2>6. SaverGoal(s)
    BY <1>v, <2>1, <2>3, <2>4, <2>5 DEF SaverGoal, InSnapshot
  <2>7. ASSUME NEW t \in Savers \ {s} PROVE SaverGoal(t)
    BY <1>0, <1>5, <2>1, <2>7, OtherSaver DEF MarshalBegins, SnapshotEnd, InSnapshot
  <2> QED
    BY <2>1, <2>6, <2>7, Undisturbed, SameFile
<1>6. ASSUME NEW f \in Fields, MarshalField(s, f) PROVE SharedInv'
  <2> DEFINE v == InSnapshot(s)
             n == fields[object[v]][f]
  <2>1. UNCHANGED <<data, history, disk, snap, pc, recordVars, editVars, fileVMs>>
    BY <1>6 DEF MarshalField, vars
  <2>2. /\ left'[s] = left[s] \ {f}
        /\ encoded'[s][f] = n
        /\ \A g \in Fields \ {f} : encoded'[s][g] = encoded[s][g]
    BY <1>0, <1>6 DEF MarshalField, Record
  <2>3. v \in Versions /\ object[v] \in Versions
    BY <1>6, <1>n DEF MarshalField, SharedTypes, Encodable, Absent, Versions
  <2>4. /\ Ordered(fields[object[v]]) /\ Bounded(fields[object[v]])
        /\ EncodingInv(s) /\ Covers(fields[object[v]], noted[v])
    BY <1>6, <1>s, <2>3 DEF MarshalField, SharedInv, MapInv, EncodingInv, Absent, Versions
  <2>5. Bounded(encoded[s])'
    BY <1>s, <2>1, <2>2, <2>4 DEF Bounded
  <2>6. EncodingInv(s)'
    <3>1. \A g \in Fields \ left'[s] : encoded'[s][g] >= noted[v]
      BY <2>2, <2>3, <2>4 DEF EncodingInv, Covers, Absent, Versions
    <3>2. n <= fields[object[v]]["properties"]
      BY <1>f, <1>n, <2>3, <2>4 DEF Ordered
    <3>3. CASE f # "properties"
      <4>1. "properties" \in left'[s] /\ "properties" \in left[s]
        BY <1>6, <2>2, <2>4, <3>3 DEF MarshalField, EncodingInv
      <4>2. \A g \in Fields \ left'[s] : encoded'[s][g] <= fields[object[v]]["properties"]
        BY <2>2, <2>4, <3>2, <4>1 DEF EncodingInv
      <4> QED
        BY <2>1, <2>4, <3>1, <4>1, <4>2 DEF EncodingInv, InSnapshot, Covers
    <3>4. CASE f = "properties"
      <4>1. left[s] = {f} /\ left'[s] = {}
        BY <1>6, <2>2, <3>4 DEF MarshalField
      <4>2. encoded[s]["log"] <= n /\ encoded[s]["identity"] <= n
        BY <1>f, <2>4, <3>4, <4>1 DEF EncodingInv
      <4>3. Ordered(encoded'[s])
        BY <1>f, <2>2, <3>4, <4>2 DEF Ordered
      <4> QED
        BY <2>1, <2>4, <3>1, <4>1, <4>3 DEF EncodingInv, InSnapshot, Covers, Ordered
    <3> QED
      BY <3>3, <3>4
  <2>7. SaverGoal(s)
    BY <1>6, <1>v, <2>1, <2>5, <2>6 DEF MarshalField, SaverGoal, InSnapshot
  <2>8. ASSUME NEW t \in Savers \ {s} PROVE SaverGoal(t)
    BY <1>0, <1>6, <2>1, <2>8, OtherSaver DEF MarshalField, InSnapshot
  <2> QED
    BY <2>1, <2>7, <2>8, Undisturbed, SameFile
<1>7. CASE MarshalEnds(s)
  <2>1. UNCHANGED <<data, history, disk, snap, recordVars, editVars, encodeVars, fileVMs>>
    BY <1>7 DEF MarshalEnds, Encode
  <2>2. EncodedInv(s)
    BY <1>7, <1>s DEF MarshalEnds, Encode, EncodingInv, EncodedInv, Covers
  <2>3. SaverGoal(s)
    <3>1. EncodedInv(s)' = EncodedInv(s) /\ InSnapshot(s)' = InSnapshot(s) /\ Bounded(encoded[s])' = Bounded(encoded[s])
      BY <2>1 DEF EncodedInv, InSnapshot, Covers, Ordered, Bounded
    <3> QED
      BY <1>0, <1>7, <1>s, <1>v, <2>2, <3>1 DEF MarshalEnds, Encode, SaverGoal
  <2>4. ASSUME NEW t \in Savers \ {s} PROVE SaverGoal(t)
    BY <1>0, <1>7, <2>1, <2>4, OtherSaver DEF MarshalEnds, Encode, InSnapshot
  <2> QED
    BY <2>1, <2>3, <2>4, Undisturbed, SameFile
<1>h. ASSUME pc[s] \in Holding, NEW t \in Savers \ {s} PROVE pc[t] # "rename"
  BY <1>h, OneHolder DEF IInv, Holding
<1>8. CASE SharedWrite(s)
  <2>1. UNCHANGED <<data, history, disk, snap, recordVars, editVars, encodeVars, diskVM>> /\ tmpVM' = encoded[s]
    BY <1>8 DEF SharedWrite, WriteEnd
  <2>2. SaverGoal(s)
    <3>1. EncodedInv(s)' = EncodedInv(s) /\ InSnapshot(s)' = InSnapshot(s) /\ Bounded(encoded[s])' = Bounded(encoded[s])
      BY <2>1 DEF EncodedInv, InSnapshot, Covers, Ordered, Bounded
    <3> QED
      BY <1>0, <1>8, <1>s, <1>v, <2>1, <3>1 DEF SharedWrite, WriteEnd, SaverGoal
  <2>3. ASSUME NEW t \in Savers \ {s} PROVE SaverGoal(t)
    BY <1>0, <1>8, <1>h, <2>1, <2>3, OtherSaver DEF SharedWrite, WriteEnd, InSnapshot, Holding
  <2> QED
    BY <2>1, <2>2, <2>3, Undisturbed, SameFile
<1>9. CASE SharedRename(s)
  <2>1. UNCHANGED <<data, history, snap, recordVars, editVars, left>> /\ disk' = tmp /\ diskVM' = tmpVM
    BY <1>9 DEF SharedRename, Rename, SaveReturns
  <2>2. pc[s] = "rename" /\ tmp = snap[s] /\ tmpVM = encoded[s] /\ EncodedInv(s) /\ Bounded(encoded[s])
    BY <1>9, <1>s DEF SharedRename, Rename, IInv, SnapInv
  <2>3. encoded'[s] = Fresh /\ \A t \in Savers \ {s} : encoded'[t] = encoded[t]
    BY <1>0, <1>9 DEF SharedRename
  <2>4. disk.content[VM]' <= Version
    BY <1>v, <2>1, <2>2 DEF InSnapshot
  <2>5. FileInv'
    <3>1. /\ disk'.content[VM] = InSnapshot(s) /\ diskVM' = encoded[s]
      BY <2>1, <2>2 DEF InSnapshot
    <3>2. LogIsNotAhead' /\ FileHasAnsweredUpdates'
      BY <2>1, <2>2, <3>1 DEF LogIsNotAhead, FileHasAnsweredUpdates, InFile, EncodedInv, Ordered, Covers
    <3> QED
      BY <2>1, <2>2, <3>1, <3>2 DEF FileInv, EncodedInv, Ordered, Bounded
  <2>6. SaverGoal(s)
    <3>1. pc'[s] = "idle"
      BY <1>0, <1>9 DEF SharedRename, Rename, SaveReturns
    <3>2. Bounded(encoded[s])'
      BY <1>n, <2>1, <2>3 DEF Bounded, Fresh
    <3> QED
      BY <1>v, <2>1, <3>1, <3>2 DEF SaverGoal, InSnapshot
  <2>7. ASSUME NEW t \in Savers \ {s} PROVE SaverGoal(t)
    BY <1>0, <1>9, <1>h, <2>1, <2>2, <2>3, <2>7, OtherSaver DEF SharedRename, Rename, SaveReturns, InSnapshot, Holding
  <2> QED
    BY <2>1, <2>4, <2>5, <2>6, <2>7, Undisturbed
<1> QED
  BY <1>1, <1>2, <1>3, <1>4, <1>5, <1>6, <1>7, <1>8, <1>9 DEF SharedSaveStep, OtherStep
LEMMA FailsSharedInv ==
  ASSUME SharedInv, TypeOK, SharedTypes, NEW s \in Savers, SharedFails(s)
  PROVE  SharedInv'
<1> USE DEF Goto, recordVars, editVars, fileVMs, fileVars, memVars
<1>0. pc \in [Savers -> SavePoints] /\ encoded \in [Savers -> Record] /\ left \in [Savers -> SUBSET Fields]
  BY DEF TypeOK, SharedTypes
<1>1. UNCHANGED <<data, history, disk, snap, recordVars, editVars, fileVMs>>
  BY DEF SharedFails, SaveFails, SaveReturns
<1>2. /\ pc'[s] = "idle" /\ encoded'[s] = Fresh
      /\ \A t \in Savers \ {s} : pc'[t] = pc[t] /\ encoded'[t] = encoded[t] /\ left'[t] = left[t]
  BY <1>0 DEF SharedFails, SaveFails, SaveReturns
<1>3. SaverGoal(s)
  BY <1>1, <1>2, Numbers DEF SaverGoal, InSnapshot, Bounded, Fresh, SharedInv, NumberInv
<1>4. ASSUME NEW t \in Savers \ {s} PROVE SaverGoal(t)
  BY <1>1, <1>2, OtherSaver DEF InSnapshot
<1> QED
  BY <1>1, <1>3, <1>4, Undisturbed, SameFile

(* A process that starts has the Go maps that the file says, and no saver  *)
(* and no update has begun.                                                *)
LEMMA RestartSharedInv == SharedInv /\ TypeOK /\ SharedTypes /\ IInv /\ SharedRestart => SharedInv'
<1> SUFFICES ASSUME SharedInv, TypeOK, SharedTypes, IInv, SharedRestart PROVE SharedInv'
  OBVIOUS
<1> DEFINE v == disk.content[VM]
<1>1. UNCHANGED <<snap, disk, object, noted, updates, fileVMs>>
  BY DEF SharedRestart, Restart, fileVars
<1>n. /\ Version \in Nat /\ updates \in Nat /\ v \in 0 .. MaxVersions
      /\ \A s \in Savers : InSnapshot(s) \in Nat
      /\ \A u \in Versions : object[u] \in Versions
  BY Numbers
<1>2. data'[VM] = v /\ Version' = Version + 1
  <2>1. Load = disk.content /\ Load \in Content
    BY DEF Load, IInv, DiskHoldsAPastState, TypeOK, File
  <2> QED
    BY <2>1, AppendContent DEF SharedRestart, Restart, Change, Version, TypeOK, MemTypeOK
<1>3. /\ v = Absent => fields' = fields
      /\ v # Absent => /\ fields'[object[v]] = diskVM
                       /\ \A o \in Versions \ {object[v]} : fields'[o] = fields[o]
  <2>1. v # Absent => object[v] \in Versions
    BY <1>n DEF Absent, Versions
  <2> QED
    BY <2>1 DEF SharedRestart, SharedTypes
<1>4. edit' = NoEdit /\ \A s \in Savers : pc'[s] = "idle" /\ encoded'[s] = Fresh
  BY DEF SharedRestart, Restart
<1> HIDE DEF v
<1> USE DEF SharedInv, fileVMs
<1>5. NumberInv'
  <2>1. \A s \in Savers : InSnapshot(s)' = InSnapshot(s)
    BY <1>1 DEF InSnapshot
  <2>2. v <= Version /\ v \in Nat
    BY <1>n DEF NumberInv, v
  <2>3. data'[VM] <= Version' /\ disk'.content[VM] <= Version'
    BY <1>1, <1>2, <1>n, <2>2 DEF v
  <2>4. \A s \in Savers : InSnapshot(s) <= Version'
    BY <1>2, <1>n DEF NumberInv
  <2>5. \A u \in Versions : u > Version' => noted[u] = 0
    BY <1>2, <1>n DEF NumberInv, Versions
  <2> QED
    BY <1>1, <2>1, <2>3, <2>4, <2>5 DEF NumberInv
<1>6. EditInv'
  BY <1>4 DEF EditInv, NoEdit
<1>7. MapInv'
  <2>1. Ordered(diskVM) /\ Bounded(diskVM) /\ (v # Absent => Covers(diskVM, noted[v]))
    BY DEF FileInv, FileHasAnsweredUpdates, InFile, Covers, v
  <2>2. \A o \in Versions : Ordered(fields'[o]) /\ Bounded(fields'[o])
    BY <1>3, <2>1 DEF MapInv
  <2>3. data'[VM] # Absent => Covers(fields'[object[data'[VM]]], noted[data'[VM]])
    BY <1>2, <1>3, <2>1
  <2> QED
    BY <1>1, <2>2, <2>3 DEF MapInv, Ordered, Bounded, Covers
<1>8. SaverInv'
  BY <1>1, <1>4, <1>n DEF SaverInv, Bounded, Fresh
<1>9. FileInv'
  BY <1>1 DEF FileInv, Bounded, LogIsNotAhead, FileHasAnsweredUpdates, InFile, Ordered
<1> QED
  BY <1>5, <1>6, <1>7, <1>8, <1>9

LEMMA SharedNextInv == SharedInv /\ TypeOK /\ SharedTypes /\ IInv /\ [SharedNext]_sharedVars => SharedInv'
<1> SUFFICES ASSUME SharedInv, TypeOK, SharedTypes, IInv, [SharedNext]_sharedVars PROVE SharedInv'
  OBVIOUS
<1>1. CASE OtherRequest
  BY <1>1, OtherRequestInv
<1>2. CASE UpdateBegins
  BY <1>2, UpdateBeginsInv
<1>3. CASE UpdateAssigns
  BY <1>3, UpdateAssignsInv
<1>4. CASE UpdateStores
  BY <1>4, UpdateStoresInv
<1>5. ASSUME NEW s \in Savers, SharedSaveStep(s) PROVE SharedInv'
  BY <1>5, SaveSharedInv
<1>6. ASSUME NEW s \in Savers, SharedFails(s) PROVE SharedInv'
  BY <1>6, FailsSharedInv
<1>7. CASE ProcessGoesOn
  BY <1>7, ProcessSharedInv
<1>8. CASE SharedRestart
  BY <1>8, RestartSharedInv
<1>9. CASE UNCHANGED sharedVars
  <2>1. UNCHANGED <<memVars, saveVars, fileVars, recordVars, editVars, encodeVars, fileVMs>>
    BY <1>9 DEF sharedVars, vars
  <2>2. ASSUME NEW s \in Savers PROVE SaverGoal(s)
    BY <2>1, OtherSaver DEF saveVars, InSnapshot, encodeVars, fileVMs
  <2> QED
    BY <2>1, <2>2, Undisturbed, SameFile DEF memVars, fileVars, fileVMs
<1> QED
  BY <1>1, <1>2, <1>3, <1>4, <1>5, <1>6, <1>7, <1>8, <1>9 DEF SharedNext

LEMMA SharedInvHolds == SharedSpec => []SharedInv
BY TypesHold, FileBackendInv, SharedInitInv, SharedNextInv, PTL DEF SharedSpec

(* CreateOrUpdateVM against Save: an update that had stored the VM again   *)
(* when a Save took its snapshot is in the file that Save writes, in every *)
(* field, whatever later updates, loads, failed saves and kills there are. *)
THEOREM FileHasAnswers == SharedSpec => []FileHasAnsweredUpdates
<1>1. SharedInv => FileHasAnsweredUpdates
  BY DEF SharedInv, FileInv
<1> QED
  BY <1>1, SharedInvHolds, PTL

(* appendProvisionEvent against Save: the log in a file never tells of an  *)
(* update whose properties the file does not have.                         *)
THEOREM LogFollows == SharedSpec => []LogIsNotAhead
<1>1. SharedInv => LogIsNotAhead
  BY DEF SharedInv, FileInv
<1> QED
  BY <1>1, SharedInvHolds, PTL
=============================================================================
