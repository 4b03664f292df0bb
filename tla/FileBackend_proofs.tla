-------------------------- MODULE FileBackend_proofs --------------------------
(***************************************************************************)
(* What holds of FileBackend for every set of keys and every bound, with   *)
(* proofs checked by TLAPS.                                                *)
(***************************************************************************)
EXTENDS FileBackend, TLAPS

(* The points of Save at which f.mu is held, and those at which the saver  *)
(* has a numbered copy of the map, begun or complete.                      *)
Holding == {"snapshot", "copy", "encode", "write", "writing", "rename"}
Copied == {"encode", "write", "writing", "rename"}

(* Between operations the map is the newest state of the history, and a    *)
(* DeleteByPrefix in progress excludes every Snapshot.                     *)
MemInv == /\ Version >= 1
          /\ writer = "none" => data = history[Version]
          /\ writer = "sweep" => readers = {}

(* f.mu and the read lock are held where the code holds them.              *)
LockInv == \A s \in Savers :
             /\ pc[s] \in Holding => mu = s
             /\ pc[s] = "copy" => s \in readers

(* A copy is numbered no older than the file, agrees with the map on every *)
(* key copied so far, and is a past state once it is complete.             *)
SnapInv == \A s \in Savers :
             /\ pc[s] \in Copied \cup {"copy"} =>
                  /\ snap[s].state = "whole"
                  /\ snap[s].ver \in disk.ver .. Version
             /\ pc[s] = "copy" =>
                  /\ snap[s].ver = Version
                  /\ \A k \in Keys \ todo[s] : snap[s].content[k] = data[k]
             /\ pc[s] \in Copied => snap[s].content = history[snap[s].ver]
             /\ pc[s] = "rename" => tmp = snap[s]

(* main has not called Save before the signal; its copy is taken after it. *)
SignalInv == /\ signalled <= Version
             /\ main \in {"serving", "stopping"} => pc["main"] = "idle"
             /\ pc["main"] \in Copied \cup {"copy"} => snap["main"].ver >= signalled
             /\ FinalSaveCoversTheSignal

IInv == TypeOK /\ MemInv /\ LockInv /\ SnapInv /\ DiskHoldsAPastState /\ SignalInv

-----------------------------------------------------------------------------
(* Type correctness.                                                       *)

USE PrefixesAssumption, MaxVersionsAssumption, MaxFailuresAssumption, MaxRestartsAssumption

LEMMA EmptyIsContent == Empty \in Content
BY DEF Empty, Content, Absent

(* No request puts anything but a map of the right type in memory.         *)
LEMMA MutateType == MemTypeOK /\ Mutate => MemTypeOK'
<1> SUFFICES ASSUME MemTypeOK, Mutate PROVE MemTypeOK'
  OBVIOUS
<1> USE DEF MemTypeOK, Change, Version
<1>1. ASSUME NEW k \in Keys, Set(k) PROVE MemTypeOK'
  BY <1>1 DEF Set, Content
<1>2. ASSUME NEW k \in Keys, Delete(k) PROVE MemTypeOK'
  BY <1>2 DEF Delete, Absent, Content
<1>3. ASSUME Reset PROVE MemTypeOK'
  BY <1>3, EmptyIsContent DEF Reset
<1>4. ASSUME NEW p \in Prefixes, DeleteByPrefixBegin(p) PROVE MemTypeOK'
  BY <1>4 DEF DeleteByPrefixBegin
<1>5. ASSUME NEW k \in Keys, DeleteByPrefixStep(k) PROVE MemTypeOK'
  BY <1>5 DEF DeleteByPrefixStep, Absent, Content
<1>6. ASSUME DeleteByPrefixEnd PROVE MemTypeOK'
  BY <1>6 DEF DeleteByPrefixEnd
<1> QED
  BY <1>1, <1>2, <1>3, <1>4, <1>5, <1>6 DEF Mutate, DeleteByPrefixProgress

LEMMA InitType == Init => TypeOK
<1> SUFFICES ASSUME Init PROVE TypeOK
  OBVIOUS
<1>1. NewFile \in File /\ Torn(NewFile) \in File
  BY EmptyIsContent DEF NewFile, File, Torn
<1>2. MemTypeOK
  BY EmptyIsContent DEF Init, MemInit, MemTypeOK
<1> QED
  BY <1>1, <1>2 DEF Init, TypeOK, Phases, SavePoints, Savers

(* Every step of Save and of the process keeps every variable in its type. *)
LEMMA NextType == TypeOK /\ [Next]_vars => TypeOK'
<1> SUFFICES ASSUME TypeOK, [Next]_vars PROVE TypeOK'
  OBVIOUS
<1> USE DEF TypeOK, Goto, At, saveVars, fileVars, procVars, SavePoints, Phases
<1>1. CASE Request
  BY <1>1, MutateType DEF Request
<1>2. ASSUME NEW s \in Savers, SaveStep(s) PROVE TypeOK'
  <2> USE DEF memVars, MemTypeOK, File
  <2>1. CASE SaveLock(s)
    BY <2>1 DEF SaveLock
  <2>2. CASE SnapshotBegin(s)
    BY <2>2, EmptyIsContent DEF SnapshotBegin, RLock, Version
  <2>3. ASSUME NEW k \in Keys, SnapshotCopy(s, k) PROVE TypeOK'
    BY <2>3 DEF SnapshotCopy, Content
  <2>4. CASE SnapshotEnd(s)
    BY <2>4 DEF SnapshotEnd, RUnlock
  <2>5. CASE Encode(s)
    BY <2>5 DEF Encode
  <2>6. CASE WriteBegin(s)
    BY <2>6 DEF WriteBegin, Torn
  <2>7. CASE WriteEnd(s)
    BY <2>7 DEF WriteEnd
  <2>8. CASE Rename(s)
    BY <2>8 DEF Rename, SaveReturns, Unlock, Torn
  <2> QED
    BY <1>2, <2>1, <2>2, <2>3, <2>4, <2>5, <2>6, <2>7, <2>8 DEF SaveStep
<1>3. ASSUME NEW s \in Savers, SaveFails(s) PROVE TypeOK'
  BY <1>3 DEF SaveFails, SaveReturns, Unlock, memVars, MemTypeOK
<1>4. CASE Tick \/ AutoSaveStops
  BY <1>4 DEF Tick, AutoSaveStops, memVars, MemTypeOK, Savers
<1>5. CASE Signal
  BY <1>5 DEF Signal, memVars, MemTypeOK, Version
<1>6. CASE StopAutoSave
  BY <1>6 DEF StopAutoSave, memVars, MemTypeOK, Savers
<1>7. CASE Exit \/ Kill
  BY <1>7 DEF Exit, Kill, memVars, MemTypeOK
<1>8. CASE Restart
  <2>1. Load \in Content
    BY EmptyIsContent DEF Load, File
  <2>2. MemTypeOK'
    BY <1>8, <2>1 DEF Restart, Change, MemTypeOK
  <2> QED
    BY <1>8, <2>2 DEF Restart
<1>9. CASE UNCHANGED vars
  BY <1>9 DEF vars, memVars, MemTypeOK
<1> QED
  BY <1>1, <1>2, <1>3, <1>4, <1>5, <1>6, <1>7, <1>8, <1>9 DEF Next

(* The backend's variables keep their types: the map and its copies, the   *)
(* locks, the two files and the phases of the process.                     *)
THEOREM TypeCorrect == Spec => []TypeOK
BY InitType, NextType, PTL DEF Spec

-----------------------------------------------------------------------------
(* The inductive invariant.                                                *)

LEMMA AppendContent ==
  ASSUME NEW c \in Content, NEW h \in Seq(Content)
  PROVE  /\ Append(h, c) \in Seq(Content)
         /\ Len(Append(h, c)) = Len(h) + 1
         /\ Append(h, c)[Len(h) + 1] = c
         /\ \A i \in 1 .. Len(h) : Append(h, c)[i] = h[i]
OBVIOUS

(* The history only grows.                                                 *)
Grows == /\ Version' \in Nat
         /\ Version' >= Version
         /\ \A i \in 1 .. Version : history'[i] = history[i]

(* A request adds at most one state to the history, and none while some    *)
(* goroutine holds the read lock.                                          *)
LEMMA MutateMem ==
  ASSUME MemTypeOK, MemInv, Mutate
  PROVE  /\ MemInv'
         /\ Grows
         /\ readers' = readers
         /\ readers # {} => data' = data /\ history' = history
<1> USE DEF MemTypeOK, MemInv, Grows, CanLock
<1> DEFINE Goal == /\ MemInv'
                   /\ Grows
                   /\ readers' = readers
                   /\ readers # {} => data' = data /\ history' = history
<1>1. ASSUME NEW c \in Content, Change(c), readers = {}, UNCHANGED <<writer, readers>>
      PROVE  Goal
  BY <1>1, AppendContent DEF Change, Version
<1>2. ASSUME NEW k \in Keys, Set(k) PROVE Goal
  <2>1. [data EXCEPT ![k] = Version + 1] \in Content
    BY <1>2 DEF Set, Change, Content, Version
  <2> QED
    BY <1>1, <1>2, <2>1 DEF Set
<1>3. ASSUME NEW k \in Keys, Delete(k) PROVE Goal
  <2>1. [data EXCEPT ![k] = Absent] \in Content
    BY DEF Content, Absent
  <2> QED
    BY <1>1, <1>3, <2>1 DEF Delete
<1>4. ASSUME Reset PROVE Goal
  BY <1>1, <1>4, EmptyIsContent DEF Reset
<1>5. ASSUME NEW p \in Prefixes, DeleteByPrefixBegin(p) PROVE Goal
  BY <1>5 DEF DeleteByPrefixBegin, Version
<1>6. ASSUME NEW k \in Keys, DeleteByPrefixStep(k) PROVE Goal
  BY <1>6 DEF DeleteByPrefixStep, Version
<1>7. ASSUME DeleteByPrefixEnd PROVE Goal
  BY <1>7, AppendContent DEF DeleteByPrefixEnd, Version
<1> QED
  BY <1>2, <1>3, <1>4, <1>5, <1>6, <1>7 DEF Mutate, DeleteByPrefixProgress

LEMMA InitInv == Init => IInv
BY InitType DEF Init, MemInit, IInv, MemInv, LockInv, SnapInv, SignalInv, DiskHoldsAPastState,
                FinalSaveCoversTheSignal, Holding, Copied, NewFile, Version, Savers

(* At most one saver is between the lock and the unlock of f.mu.           *)
LEMMA OneHolder ==
  ASSUME LockInv, NEW s \in Savers, NEW t \in Savers, pc[s] \in Holding, pc[t] \in Holding
  PROVE  s = t
BY DEF LockInv

(* A request disturbs neither a copy, nor a file, nor main.                *)
LEMMA RequestInv == IInv /\ Request /\ TypeOK' => IInv'
<1> SUFFICES ASSUME IInv, Request, TypeOK' PROVE IInv'
  OBVIOUS
<1>1. /\ MemInv' /\ Grows /\ readers' = readers
      /\ readers # {} => data' = data /\ history' = history
  BY MutateMem DEF Request, IInv, TypeOK
<1>2. UNCHANGED <<saveVars, fileVars, procVars>>
  BY DEF Request
<1> USE DEF saveVars, fileVars, procVars, IInv, Grows
<1>3. LockInv'
  BY <1>1, <1>2 DEF LockInv
<1>4. SnapInv'
  <2> SUFFICES ASSUME NEW s \in Savers PROVE SnapInv!(s)'
    BY DEF SnapInv
  <2>1. pc[s] = "copy" => data' = data /\ history' = history
    BY <1>1 DEF LockInv
  <2>2. /\ snap[s] \in File
        /\ disk.ver \in Nat /\ disk.ver >= 1
        /\ Version \in Nat
    BY DEF TypeOK, DiskHoldsAPastState, File, MemTypeOK, Version
  <2> QED
    BY <1>1, <1>2, <2>1, <2>2 DEF SnapInv, File, Version
<1>5. DiskHoldsAPastState'
  BY <1>1, <1>2 DEF DiskHoldsAPastState, TypeOK, MemTypeOK, File, Version
<1>6. SignalInv'
  BY <1>1, <1>2 DEF SignalInv, FinalSaveCoversTheSignal, TypeOK, MemTypeOK, Version
<1> QED
  BY <1>1, <1>3, <1>4, <1>5, <1>6

(* The steps of Save, one by one.  The other saver is outside the part     *)
(* that f.mu protects, so nothing it has can become stale.                 *)
LEMMA SaveInv == ASSUME NEW s \in Savers, IInv, SaveStep(s), TypeOK' PROVE IInv'
<1> USE DEF IInv, Goto, At, saveVars, fileVars, procVars, memVars
<1>0. /\ Version \in Nat
      /\ disk.ver \in Nat
      /\ snap[s].ver \in Nat
      /\ signalled \in Nat
  BY DEF TypeOK, MemTypeOK, File, Version
<1>t. ASSUME NEW t \in Savers, t # s, pc[s] \in Holding PROVE pc[t] \notin Holding
  BY <1>t, OneHolder
<1>m. s = "main" => main \notin {"serving", "stopping"} \/ pc[s] = "idle"
  BY DEF SignalInv
<1> USE DEF TypeOK
<1>1. CASE SaveLock(s)
  <2>1. MemInv' /\ DiskHoldsAPastState'
    BY <1>1 DEF SaveLock, MemInv, DiskHoldsAPastState, Version
  <2>2. LockInv'
    BY <1>1 DEF SaveLock, LockInv, Holding, Savers
  <2>3. SnapInv'
    BY <1>1 DEF SaveLock, SnapInv, Copied, Version
  <2>4. SignalInv'
    BY <1>1 DEF SaveLock, SignalInv, FinalSaveCoversTheSignal, Copied, Version
  <2> QED
    BY <2>1, <2>2, <2>3, <2>4
<1>2. CASE SnapshotBegin(s)
  <2> USE <1>2 DEF SnapshotBegin, RLock
  <2>1. MemInv' /\ DiskHoldsAPastState'
    BY DEF MemInv, DiskHoldsAPastState, Version, CanRLock
  <2>2. LockInv'
    BY DEF LockInv, Holding
  <2>3. SnapInv'
    BY <1>0, <1>t DEF SnapInv, Copied, Holding, Version, DiskHoldsAPastState, MemTypeOK, File
  <2>4. SignalInv'
    BY <1>0, <1>m DEF SignalInv, FinalSaveCoversTheSignal, Copied, Version
  <2> QED
    BY <2>1, <2>2, <2>3, <2>4
<1>3. ASSUME NEW k \in Keys, SnapshotCopy(s, k) PROVE IInv'
  <2> USE <1>3 DEF SnapshotCopy
  <2>1. MemInv' /\ DiskHoldsAPastState'
    BY DEF MemInv, DiskHoldsAPastState, Version
  <2>2. LockInv'
    BY DEF LockInv, Holding
  <2>3. /\ snap'[s].ver = snap[s].ver
        /\ snap'[s].state = snap[s].state
        /\ \A j \in Keys : snap'[s].content[j] = IF j = k THEN data[k] ELSE snap[s].content[j]
        /\ \A t \in Savers \ {s} : snap'[t] = snap[t] /\ todo'[t] = todo[t]
    BY DEF File, Content
  <2>4. SnapInv'
    <3> SUFFICES ASSUME NEW t \in Savers PROVE SnapInv!(t)'
      BY DEF SnapInv
    <3>1. CASE t = s
      BY <3>1, <2>3, <1>0 DEF SnapInv, Copied, Version
    <3>2. CASE t # s
      BY <3>2, <2>3, <1>t DEF SnapInv, Copied, Holding
    <3> QED
      BY <3>1, <3>2
  <2>5. SignalInv'
    BY <2>3, <1>0, <1>m DEF SignalInv, FinalSaveCoversTheSignal, Copied, Version, Savers
  <2> QED
    BY <2>1, <2>2, <2>4, <2>5
<1>4. CASE SnapshotEnd(s)
  <2> USE <1>4 DEF SnapshotEnd, RUnlock
  <2>1. MemInv' /\ DiskHoldsAPastState'
    BY DEF MemInv, DiskHoldsAPastState, Version
  <2>2. LockInv'
    BY <1>t DEF LockInv, Holding
  <2>3. SnapInv'
    <3>1. snap[s].content = data
      BY DEF SnapInv, File, Content, MemTypeOK
    <3>2. data = history[Version] /\ snap[s].ver = Version
      BY DEF LockInv, MemInv, SnapInv, MemTypeOK
    <3> QED
      BY <3>1, <3>2, <1>0, <1>t DEF SnapInv, Copied, Holding, Version
  <2>4. SignalInv'
    BY <1>m DEF SignalInv, FinalSaveCoversTheSignal, Copied, Version
  <2> QED
    BY <2>1, <2>2, <2>3, <2>4
<1>5. CASE Encode(s) \/ WriteBegin(s) \/ WriteEnd(s)
  <2> USE <1>5 DEF Encode, WriteBegin, WriteEnd
  <2>1. MemInv' /\ DiskHoldsAPastState'
    BY DEF MemInv, DiskHoldsAPastState, Version
  <2>2. LockInv'
    BY DEF LockInv, Holding
  <2>3. SnapInv'
    BY <1>0, <1>t DEF SnapInv, Copied, Holding, Version
  <2>4. SignalInv'
    <3>1. /\ snap' = snap /\ disk' = disk /\ history' = history
          /\ main' = main /\ saved' = saved /\ signalled' = signalled
          /\ pc[s] \in Copied \ {"rename"}
          /\ pc'["main"] \in Copied \cup {"copy"} => pc["main"] \in Copied \cup {"copy"}
          /\ pc["main"] = "idle" => pc'["main"] = "idle"
      <4>1. CASE Encode(s)
        BY <4>1 DEF Encode, Copied, Savers
      <4>2. CASE WriteBegin(s)
        BY <4>2 DEF WriteBegin, Copied, Savers
      <4>3. CASE WriteEnd(s)
        BY <4>3 DEF WriteEnd, Copied, Savers
      <4> QED
        BY <4>1, <4>2, <4>3
    <3> QED
      BY <3>1 DEF SignalInv, FinalSaveCoversTheSignal, Version
  <2> QED
    BY <2>1, <2>2, <2>3, <2>4
<1>6. CASE Rename(s)
  <2> USE <1>6 DEF Rename, SaveReturns, Unlock
  <2>1. disk' = snap[s] /\ pc[s] = "rename" /\ snap[s].ver \in disk.ver .. Version
    BY DEF SnapInv, Copied
  <2>2. MemInv'
    BY DEF MemInv, Version
  <2>3. DiskHoldsAPastState'
    BY <1>0, <2>1 DEF SnapInv, Copied, DiskHoldsAPastState, Version
  <2>4. LockInv'
    BY <1>t DEF LockInv, Holding
  <2>5. SnapInv'
    BY <1>0, <1>t, <2>1 DEF SnapInv, Copied, Holding, Version
  <2>6. SignalInv'
    BY <1>0, <1>m, <2>1 DEF SignalInv, FinalSaveCoversTheSignal, Copied, Version
  <2> QED
    BY <2>2, <2>3, <2>4, <2>5, <2>6
<1> QED
  BY <1>1, <1>2, <1>3, <1>4, <1>5, <1>6 DEF SaveStep

(* An error path of Save gives up the copy and leaves the file alone.      *)
LEMMA SaveFailsInv == ASSUME NEW s \in Savers, IInv, SaveFails(s), TypeOK' PROVE IInv'
<1> USE DEF IInv, Goto, memVars, fileVars, SaveFails, SaveReturns, Unlock
<1>0. pc[s] \in Copied /\ disk' = disk /\ history' = history /\ snap' = snap
  BY DEF Copied
<1>1. MemInv' /\ DiskHoldsAPastState'
  BY DEF MemInv, DiskHoldsAPastState, Version
<1>2. LockInv'
  <2>1. \A t \in Savers : t # s => pc[t] \notin Holding
    BY <1>0, OneHolder DEF Holding, Copied
  <2> QED
    BY <2>1 DEF LockInv, Holding, TypeOK
<1>3. SnapInv'
  BY DEF SnapInv, Copied, Version, TypeOK
<1>4. SignalInv'
  BY <1>0 DEF SignalInv, FinalSaveCoversTheSignal, Copied, Version, TypeOK, Savers
<1> QED
  BY <1>1, <1>2, <1>3, <1>4

(* The steps of the auto-save goroutine outside Save, and those of main.   *)
LEMMA ProcessInv ==
  ASSUME IInv, Tick \/ AutoSaveStops \/ Signal \/ StopAutoSave \/ Exit \/ Kill, TypeOK'
  PROVE  IInv'
<1> USE DEF IInv, Goto, At, memVars, saveVars, fileVars, procVars
<1>0. Version \in Nat /\ \A s \in Savers : snap[s].ver \in Nat
  BY DEF TypeOK, MemTypeOK, File, Version
<1>1. /\ UNCHANGED <<data, writer, readers, history, disk, tmp, snap, todo, mu>>
      /\ \A s \in Savers : pc'[s] = pc[s] \/ (pc[s] = "idle" /\ pc'[s] \in {"lock", "stopped"})
      /\ main' # "saving" \/ main # "stopping" => pc'["main"] = pc["main"]
  BY DEF Tick, AutoSaveStops, Signal, StopAutoSave, Exit, Kill, TypeOK, SignalInv, Savers
<1>2. MemInv' /\ DiskHoldsAPastState'
  BY <1>1 DEF MemInv, DiskHoldsAPastState, Version
<1>3. LockInv'
  BY <1>1 DEF LockInv, Holding
<1>4. SnapInv'
  BY <1>1 DEF SnapInv, Copied, Version
<1>5. SignalInv'
  <2>1. CASE Signal
    BY <2>1, <1>0, <1>1 DEF Signal, SignalInv, FinalSaveCoversTheSignal, Copied, Version
  <2>2. CASE StopAutoSave
    BY <2>2, <1>1 DEF StopAutoSave, SignalInv, FinalSaveCoversTheSignal, Copied, Version, Savers, TypeOK
  <2>3. CASE Tick \/ AutoSaveStops \/ Exit \/ Kill
    BY <2>3, <1>1 DEF Tick, AutoSaveStops, Exit, Kill, SignalInv, FinalSaveCoversTheSignal, Version
  <2> QED
    BY <2>1, <2>2, <2>3
<1> QED
  BY <1>2, <1>3, <1>4, <1>5

(* A new process resumes from the file; the locks and the copies are gone. *)
LEMMA RestartInv == IInv /\ Restart /\ TypeOK' => IInv'
<1> SUFFICES ASSUME IInv, Restart, TypeOK' PROVE IInv'
  OBVIOUS
<1>1. Load \in Content /\ history \in Seq(Content)
  BY EmptyIsContent DEF IInv, TypeOK, MemTypeOK, File, Load
<1>2. Grows /\ history'[Version'] = data' /\ Version' >= 1
  BY <1>1, AppendContent DEF Restart, Change, Grows, Version
<1> USE DEF IInv, Restart, fileVars
<1>3. MemInv'
  BY <1>2 DEF MemInv
<1>4. LockInv' /\ SnapInv'
  BY DEF LockInv, SnapInv, Holding, Copied
<1>5. DiskHoldsAPastState'
  <2>1. disk' = disk /\ disk.ver \in Nat /\ Version \in Nat
    BY DEF TypeOK, MemTypeOK, File, Version
  <2>2. DiskHoldsAPastState
    OBVIOUS
  <2> HIDE DEF IInv, Restart, fileVars
  <2> QED
    BY <1>2, <2>1, <2>2 DEF DiskHoldsAPastState, Grows
<1>6. SignalInv'
  BY <1>2 DEF SignalInv, FinalSaveCoversTheSignal, Copied, Savers, Grows
<1> QED
  BY <1>3, <1>4, <1>5, <1>6

LEMMA NextInv == IInv /\ [Next]_vars => IInv'
<1> SUFFICES ASSUME IInv, [Next]_vars PROVE IInv'
  OBVIOUS
<1>1. TypeOK'
  BY NextType DEF IInv
<1>2. CASE UNCHANGED vars
  <2> USE <1>2 DEF IInv, vars, memVars, saveVars, fileVars, procVars
  <2>1. MemInv' /\ LockInv' /\ DiskHoldsAPastState'
    BY DEF MemInv, LockInv, DiskHoldsAPastState, Version
  <2>2. SnapInv'
    BY DEF SnapInv, Version
  <2>3. SignalInv'
    BY DEF SignalInv, FinalSaveCoversTheSignal, Version
  <2> QED
    BY <1>1, <2>1, <2>2, <2>3
<1> QED
  BY <1>1, <1>2, RequestInv, SaveInv, SaveFailsInv, ProcessInv, RestartInv DEF Next

THEOREM InvariantHolds == Spec => []IInv
BY InitInv, NextInv, PTL DEF Spec

-----------------------------------------------------------------------------
(* The state file holds a whole past state of the map at every moment,     *)
(* whatever requests, saves, failures and kills come when.                 *)
THEOREM DiskIsAlwaysWhole == Spec => []DiskHoldsAPastState
<1>1. IInv => DiskHoldsAPastState
  BY DEF IInv
<1> QED
  BY InvariantHolds, <1>1, PTL

(* After the final Save succeeded the file covers everything written       *)
(* before the signal.                                                      *)
THEOREM FinalSaveIsFinal == Spec => []FinalSaveCoversTheSignal
<1>1. IInv => FinalSaveCoversTheSignal
  BY DEF IInv, SignalInv
<1> QED
  BY InvariantHolds, <1>1, PTL

(* No step puts an older state over the one in the file: only Rename       *)
(* writes it, with a copy that f.mu has kept newer.                        *)
LEMMA DiskStep == IInv /\ [Next]_vars => UNCHANGED disk \/ \E s \in Savers : Rename(s)
BY DEF Next, Request, SaveStep, SaveLock, SnapshotBegin, SnapshotCopy, SnapshotEnd, Encode, WriteBegin,
       WriteEnd, SaveFails, Tick, AutoSaveStops, Signal, StopAutoSave, Exit, Kill, Restart, vars, fileVars

LEMMA RenameMovesForward ==
  ASSUME IInv, NEW s \in Savers, Rename(s)
  PROVE  /\ disk' = snap[s]
         /\ snap[s].ver \in disk.ver .. Version
         /\ snap[s].content = history[snap[s].ver]
         /\ history' = history
BY DEF IInv, SnapInv, Copied, Rename, SaveReturns, At, memVars

THEOREM DiskMovesForward == Spec => DiskNeverGoesBack
<1>1. IInv /\ [Next]_vars => disk'.ver >= disk.ver
  BY DiskStep, RenameMovesForward DEF IInv, TypeOK, File
<1> QED
  BY InvariantHolds, <1>1, PTL DEF Spec, DiskNeverGoesBack

(* Every behaviour of the file backend is one of the checkpointed store:   *)
(* a request is a Change, a Rename a Persist, Exit and Kill are Stop, a     *)
(* Restart is Resume, and every other step does not show.                  *)
THEOREM Refinement == Spec => ImplementsCheckpoint
<1>1. Init => Promise!Init
  BY DEF Init, MemInit, Promise!Init, Promise!Numbered, NewFile, Alive
<1>2. IInv /\ [Next]_vars /\ TypeOK' => [Promise!Next]_Promise!vars
  <2> SUFFICES ASSUME IInv, [Next]_vars, TypeOK' PROVE [Promise!Next]_Promise!vars
    OBVIOUS
  <2> USE DEF Promise!vars, Alive
  <2>1. CASE UNCHANGED <<history, disk, main>>
    BY <2>1
  <2>2. CASE Request
    <3>1. UNCHANGED <<disk, main>> /\ Alive
      BY <2>2 DEF Request, fileVars, procVars
    <3>2. UNCHANGED history \/ \E c \in Content : history' = Append(history, c)
      BY <2>2 DEF Request, Mutate, Set, Delete, Reset, DeleteByPrefixBegin, DeleteByPrefixProgress,
         DeleteByPrefixStep, DeleteByPrefixEnd, Change, IInv, TypeOK, MemTypeOK
    <3> QED
      BY <3>1, <3>2 DEF Promise!Next, Promise!Change
  <2>3. ASSUME NEW s \in Savers, Rename(s) PROVE Promise!Next
    <3>1. Alive /\ Alive'
      BY <2>3 DEF Rename, At, SaveReturns
    <3> QED
      BY <2>3, <3>1, RenameMovesForward DEF Promise!Next, Promise!Persist, Promise!Numbered, Version
  <2>4. CASE Restart
    BY <2>4 DEF Restart, Change, Load, IInv, DiskHoldsAPastState, fileVars, Promise!Next, Promise!Resume
  (* Only Exit and Kill end the process.                                   *)
  <2>5. CASE Exit \/ Kill
    BY <2>5 DEF Exit, Kill, memVars, fileVars, Promise!Next, Promise!Stop
  <2>6. ASSUME NEW s \in Savers, SaveFails(s) PROVE UNCHANGED Promise!vars
    BY <2>6 DEF SaveFails, SaveReturns, memVars, fileVars
  <2>7. CASE Signal \/ StopAutoSave
    BY <2>7 DEF Signal, StopAutoSave, memVars, fileVars
  <2> QED
    BY <2>1, <2>2, <2>3, <2>4, <2>5, <2>6, <2>7 DEF Next, SaveStep, SaveLock, SnapshotBegin, SnapshotCopy,
       SnapshotEnd, Encode, WriteBegin, WriteEnd, Tick, AutoSaveStops, RLock, RUnlock, vars, memVars, fileVars,
       procVars
<1>3. IInv => TypeOK
  BY DEF IInv
<1> QED
  BY InvariantHolds, <1>1, <1>2, <1>3, PTL DEF Spec, ImplementsCheckpoint, Promise!Spec
=============================================================================
