---------------------------- MODULE SharedRecord ----------------------------
(***************************************************************************)
(* FileBackend, and one record that its handlers change in place: a VM.    *)
(*                                                                         *)
(* The map's values are Go maps.  Get hands out the map itself, Snapshot   *)
(* copies references to it, and Save encodes what they refer to after the  *)
(* read lock is released.  An update of a VM (CreateOrUpdateVM) assigns to *)
(* its fields one after the other and then stores the same map again.      *)
(*                                                                         *)
(* FileBackend numbers what Set stores.  Here a number also has a Go map   *)
(* (object), known by the number it was first stored under, and a Go map   *)
(* has fields; the value of a field is the number of the update that       *)
(* assigned it, 0 if none did.  One client at a time updates the VM, while *)
(* others create, delete and reset what they like.                         *)
(*                                                                         *)
(* A map that is written while it is iterated is undefined: the iteration  *)
(* sees a field before or after it is assigned, or the process dies, which *)
(* it may at any moment (Kill).                                            *)
(***************************************************************************)
EXTENDS FileBackend

CONSTANTS VM,          \* the key of the VM
          MaxUpdates,  \* bound on the number of its updates
          Casts        \* what a behaviour is about, see cast

ASSUME VMAssumption == VM \in Keys
ASSUME MaxUpdatesAssumption == MaxUpdates \in Nat
ASSUME CastsAssumption == Casts \subseteq [updates : 0 .. MaxUpdates, failures : Nat, restarts : Nat,
                                           keys : SUBSET Keys]

VARIABLES object,   \* the Go map behind each number of a value
          fields,   \* the fields of each Go map
          noted,    \* the update that stored a number, or 0
          edit,     \* the update in progress
          updates,  \* how many there have been
          left,     \* the fields each saver has still to encode
          encoded,  \* the record it has encoded
          tmpVM, diskVM,   \* the VM's record in the two files
          cast   \* bounds: how many updates, failures and restarts there may be, and
                 \* the keys that other requests write

recordVars == <<object, fields, noted>>
editVars == <<edit, updates>>
encodeVars == <<left, encoded>>
fileVMs == <<tmpVM, diskVM, cast>>
sharedVars == <<vars, recordVars, editVars, encodeVars, fileVMs>>

Fields == {"properties", "identity", "log"}
Record == [Fields -> 0 .. MaxUpdates]
Fresh == [f \in Fields |-> 0]
Versions == 1 .. MaxVersions

(* Mutant: the log line comes first.                                       *)
BugLogFirst == <<"log", "properties", "identity">>

(* The order in which an update assigns them: what is nested below         *)
(* properties, then the identity, then a line of _provisionLog.            *)
Order == <<"properties", "identity", "log">>

NoEdit == [at |-> 0, object |-> 0, number |-> 0]
Edit == [at : 0 .. 4, object : 0 .. MaxVersions, number : 0 .. MaxUpdates]

SharedTypeOK == /\ TypeOK
                /\ object \in [Versions -> Versions]
                /\ fields \in [Versions -> Record]
                /\ noted \in [Versions -> 0 .. MaxUpdates]
                /\ edit \in Edit
                /\ updates \in 0 .. MaxUpdates
                /\ left \in [Savers -> SUBSET Fields]
                /\ encoded \in [Savers -> Record]
                /\ tmpVM \in Record /\ diskVM \in Record
                /\ cast \in Casts

SharedInit == /\ Init
              /\ object = [v \in Versions |-> v]
              /\ fields = [v \in Versions |-> Fresh]
              /\ noted = [v \in Versions |-> 0]
              /\ edit = NoEdit /\ updates = 0
              /\ left = [s \in Savers |-> {}]
              /\ encoded = [s \in Savers |-> Fresh]
              /\ tmpVM = Fresh /\ diskVM = Fresh
              /\ cast \in Casts

-----------------------------------------------------------------------------
(* Other requests: what they store is a new Go map.                        *)
OtherRequest == /\ Request
                /\ \A k \in Keys \ cast.keys : data'[k] = data[k]
                /\ UNCHANGED <<recordVars, editVars, encodeVars, fileVMs>>

(* PUT of the VM that exists: Get, the assignments, Set.                   *)
UpdateBegins == /\ Alive
                /\ edit = NoEdit
                /\ CanRLock
                /\ Exists(VM)
                /\ updates < cast.updates
                /\ updates' = updates + 1
                /\ edit' = [at |-> 1, object |-> object[data[VM]], number |-> updates + 1]
                /\ UNCHANGED <<vars, recordVars, encodeVars, fileVMs>>

UpdateAssigns == /\ Alive
                 /\ edit.at \in 1 .. 3
                 /\ fields' = [fields EXCEPT ![edit.object][Order[edit.at]] = edit.number]
                 /\ edit' = [edit EXCEPT !.at = @ + 1]
                 /\ UNCHANGED <<vars, object, noted, updates, encodeVars, fileVMs>>

UpdateStores == /\ Alive
                /\ edit.at = 4
                /\ Set(VM)
                /\ object' = [object EXCEPT ![Version + 1] = edit.object]
                /\ noted' = [noted EXCEPT ![Version + 1] = edit.number]
                /\ edit' = NoEdit
                /\ UNCHANGED <<saveVars, fileVars, procVars, failures, restarts, fields, updates, encodeVars, fileVMs>>

-----------------------------------------------------------------------------
(* Save.  json.Marshal visits the fields of the VM's map in any order, and *)
(* the map below properties after them.                                    *)
InFile == disk.content[VM] # Absent
InSnapshot(s) == snap[s].content[VM]

(* Mutant: a Go map that the file was written from is not encoded again.   *)
BugEncodeOnce(s) == LET clean == InFile /\ InSnapshot(s) # Absent /\ object[InSnapshot(s)] = object[disk.content[VM]] IN
                    /\ SnapshotEnd(s)
                    /\ left' = [left EXCEPT ![s] = IF InSnapshot(s) = Absent \/ clean THEN {} ELSE Fields]
                    /\ encoded' = [encoded EXCEPT ![s] = IF clean THEN diskVM ELSE Fresh]
                    /\ UNCHANGED <<recordVars, editVars, fileVMs>>

MarshalBegins(s) == /\ SnapshotEnd(s)
                    /\ left' = [left EXCEPT ![s] = IF InSnapshot(s) = Absent THEN {} ELSE Fields]
                    /\ encoded' = [encoded EXCEPT ![s] = Fresh]
                    /\ UNCHANGED <<recordVars, editVars, fileVMs>>

MarshalField(s, f) == /\ At(s, "encode")
                      /\ f \in left[s]
                      /\ f = "properties" => left[s] = {"properties"}
                      /\ left' = [left EXCEPT ![s] = @ \ {f}]
                      /\ encoded' = [encoded EXCEPT ![s][f] = fields[object[InSnapshot(s)]][f]]
                      /\ UNCHANGED <<vars, recordVars, editVars, fileVMs>>

MarshalEnds(s) == /\ left[s] = {}
                  /\ Encode(s)
                  /\ UNCHANGED <<recordVars, editVars, encodeVars, fileVMs>>

SharedWrite(s) == /\ WriteEnd(s)
                  /\ tmpVM' = encoded[s]
                  /\ UNCHANGED <<recordVars, editVars, encodeVars, diskVM, cast>>

SharedRename(s) == /\ Rename(s)
                   /\ diskVM' = tmpVM
                   /\ encoded' = [encoded EXCEPT ![s] = Fresh]
                   /\ tmpVM' = Fresh
                   /\ UNCHANGED <<recordVars, editVars, left, cast>>

SharedFails(s) == /\ SaveFails(s)
                  /\ failures < cast.failures
                  /\ left' = [left EXCEPT ![s] = {}]
                  /\ encoded' = [encoded EXCEPT ![s] = Fresh]
                  /\ UNCHANGED <<recordVars, editVars, fileVMs>>

OtherStep(s) == /\ \/ SaveLock(s) \/ SnapshotBegin(s) \/ WriteBegin(s)
                   \/ \E k \in Keys : SnapshotCopy(s, k)
                /\ UNCHANGED <<recordVars, editVars, encodeVars, fileVMs>>

SharedSaveStep(s) == \/ OtherStep(s)
                     \/ MarshalBegins(s) \/ (\E f \in Fields : MarshalField(s, f)) \/ MarshalEnds(s)
                     \/ SharedWrite(s) \/ SharedRename(s)

-----------------------------------------------------------------------------
(* The life of the process.  What load decodes are new Go maps.            *)
ProcessGoesOn == /\ Tick \/ AutoSaveStops \/ Signal \/ StopAutoSave \/ Exit \/ Kill
                 /\ UNCHANGED <<recordVars, editVars, encodeVars, fileVMs>>

SharedRestart == /\ Restart
                 /\ restarts < cast.restarts
                 /\ LET v == disk.content[VM] IN
                    fields' = IF v = Absent THEN fields ELSE [fields EXCEPT ![object[v]] = diskVM]
                 /\ edit' = NoEdit
                 /\ left' = [s \in Savers |-> {}]
                 /\ encoded' = [s \in Savers |-> Fresh]
                 /\ UNCHANGED <<object, noted, updates, fileVMs>>

SharedNext == \/ OtherRequest
              \/ UpdateBegins \/ UpdateAssigns \/ UpdateStores
              \/ \E s \in Savers : SharedSaveStep(s) \/ SharedFails(s)
              \/ ProcessGoesOn
              \/ SharedRestart

SharedSpec == SharedInit /\ [][SharedNext]_sharedVars

(* As in FileBackend; the encoding goes on too.                            *)
SharedFairness == /\ \A s \in Savers : WF_sharedVars(SharedSaveStep(s))
                  /\ WF_sharedVars(ProcessGoesOn /\ Tick)
                  /\ SF_sharedVars(ProcessGoesOn /\ AutoSaveStops)
                  /\ WF_sharedVars(ProcessGoesOn /\ StopAutoSave)
                  /\ WF_sharedVars(ProcessGoesOn /\ Exit)
                  /\ WF_sharedVars(OtherRequest /\ DeleteByPrefixProgress)

SharedFairSpec == SharedSpec /\ SharedFairness

-----------------------------------------------------------------------------
(* CHANGELOG.md (0.4.3): Save "could read inconsistent state while         *)
(* handlers were writing. Now uses an atomic Snapshot() under a single     *)
(* lock": what the file says of a VM is what one update left it at.        *)
RecordsAreWhole == InFile => \A f, g \in Fields : diskVM[f] = diskVM[g]

(* What does hold: an update that had stored the VM again when a Save took *)
(* its snapshot is in that Save's file in full (CreateOrUpdateVM's Set     *)
(* against Save, whatever else is updated or loaded meanwhile).            *)
FileHasAnsweredUpdates == InFile => \A f \in Fields : diskVM[f] >= noted[disk.content[VM]]

(* And the log in a file never tells of an update of the properties that   *)
(* the file does not have, nor does a process that starts from it: the     *)
(* outer map is assigned last and encoded first.                           *)
LogIsNotAhead == InFile => diskVM["log"] <= diskVM["properties"] /\ diskVM["identity"] <= diskVM["properties"]
=============================================================================
