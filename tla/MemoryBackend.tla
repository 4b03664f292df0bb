---------------------------- MODULE MemoryBackend ----------------------------
(***************************************************************************)
(* internal/store/memory.go: the map every handler keeps its records in,   *)
(* and the RWMutex in front of it.                                         *)
(*                                                                         *)
(* A step is atomic exactly when the lock makes it so: Set, Delete and     *)
(* Reset touch the map once and are one step; DeleteByPrefix and Snapshot  *)
(* walk the map, one key at a time, and are protected only by the lock     *)
(* they hold.  Each Set writes a value never written before (the number of *)
(* the state it produces), so two states of the map are equal only if no   *)
(* write separates them.  Values are immutable here; handlers that change  *)
(* a stored record in place are the subject of SharedRecord.               *)
(***************************************************************************)
EXTENDS Naturals, Sequences

CONSTANTS Keys,          \* the keys handlers use
          Prefixes,      \* the sets of keys that share a prefix
          MaxVersions    \* bound on the number of states of the map

ASSUME PrefixesAssumption == Prefixes \subseteq SUBSET Keys
ASSUME MaxVersionsAssumption == MaxVersions \in Nat

Savers == {"autosave", "main"}   \* the goroutines that take snapshots

VARIABLES data,      \* the map: the value under each key, or Absent
          writer,    \* "sweep" while a DeleteByPrefix holds the write lock
          sweep,     \* the matching keys it has still to visit
          readers,   \* the goroutines that hold the read lock
          history    \* the states of the map between operations, oldest first

memVars == <<data, writer, sweep, readers, history>>

Absent == 0
Content == [Keys -> 0 .. MaxVersions]   \* the number of the state that wrote the value
Empty == [k \in Keys |-> Absent]
Version == Len(history)

MemTypeOK == /\ data \in Content
             /\ writer \in {"none", "sweep"}
             /\ sweep \in SUBSET Keys
             /\ readers \in SUBSET Savers
             /\ history \in Seq(Content)

MemInit == /\ data = Empty
           /\ writer = "none"
           /\ sweep = {}
           /\ readers = {}
           /\ history = <<Empty>>

Exists(k) == data[k] # Absent

(* Mutant: the write lock does not wait for a Snapshot in progress.        *)
BugLockIgnoresReaders == writer = "none"

CanLock == writer = "none" /\ readers = {}
CanRLock == writer = "none"

Change(content) == /\ Version < MaxVersions
                   /\ data' = content
                   /\ history' = Append(history, content)

Set(k) == /\ CanLock
          /\ Change([data EXCEPT ![k] = Version + 1])
          /\ UNCHANGED <<writer, sweep, readers>>

(* The handlers' Delete of a missing key changes nothing.                  *)
Delete(k) == /\ CanLock
             /\ Exists(k)
             /\ Change([data EXCEPT ![k] = Absent])
             /\ UNCHANGED <<writer, sweep, readers>>

Reset == /\ CanLock
         /\ Change(Empty)
         /\ UNCHANGED <<writer, sweep, readers>>

(* DeleteByPrefix: Lock, then one matching key after the other, Unlock.    *)
DeleteByPrefixBegin(p) == /\ CanLock
                          /\ Version < MaxVersions
                          /\ writer' = "sweep"
                          /\ sweep' = {k \in p : Exists(k)}
                          /\ UNCHANGED <<data, readers, history>>

DeleteByPrefixStep(k) == /\ writer = "sweep"
                         /\ k \in sweep
                         /\ data' = [data EXCEPT ![k] = Absent]
                         /\ sweep' = sweep \ {k}
                         /\ UNCHANGED <<writer, readers, history>>

DeleteByPrefixEnd == /\ writer = "sweep"
                     /\ sweep = {}
                     /\ writer' = "none"
                     /\ history' = Append(history, data)
                     /\ UNCHANGED <<data, sweep, readers>>

DeleteByPrefixProgress == DeleteByPrefixEnd \/ \E k \in Keys : DeleteByPrefixStep(k)

Mutate == \/ \E k \in Keys : Set(k) \/ Delete(k)
          \/ Reset
          \/ \E p \in Prefixes : DeleteByPrefixBegin(p)
          \/ DeleteByPrefixProgress

(* The two ends of Snapshot; the walk itself is in FileBackend, which owns *)
(* the copy.                                                               *)
RLock(s) == /\ CanRLock
            /\ readers' = readers \cup {s}
            /\ UNCHANGED <<data, writer, sweep, history>>

RUnlock(s) == /\ readers' = readers \ {s}
              /\ UNCHANGED <<data, writer, sweep, history>>
=============================================================================
