----------------------------- MODULE FileBackend -----------------------------
(***************************************************************************)
(* internal/store/file.go and the life of the process in                   *)
(* cmd/miniblue/main.go, with PERSISTENCE=1.                               *)
(*                                                                         *)
(* Two goroutines call Save: the auto-save goroutine, when its ticker      *)
(* fires, and main, once, after the shutdown signal.  Save holds f.mu from *)
(* the snapshot to the rename.  Requests keep changing the map all the     *)
(* while, until the process has exited.  The process may be killed between *)
(* any two steps, also while the temporary file is half written, and every *)
(* file operation may fail.                                                *)
(***************************************************************************)
EXTENDS MemoryBackend

CONSTANTS MaxFailures,   \* bound on the number of failed Save calls
          MaxRestarts    \* bound on the number of times the process starts again

ASSUME MaxFailuresAssumption == MaxFailures \in Nat
ASSUME MaxRestartsAssumption == MaxRestarts \in Nat

VARIABLES pc,         \* where each saver is in Save ("idle": not in it)
          snap,       \* the saver's copy of the map, numbered
          todo,       \* the keys it has still to copy
          mu,         \* the holder of f.mu, or "free"
          tmp,        \* the file path.tmp
          disk,       \* the file path
          main,       \* the phase of main()
          saved,      \* what main's final Save returned, if it has
          signalled,  \* the store's version when the signal was received
          failures, restarts

saveVars == <<pc, snap, todo, mu>>
fileVars == <<tmp, disk>>
procVars == <<main, saved, signalled>>
vars == <<memVars, saveVars, fileVars, procVars, failures, restarts>>

Phases == {"serving", "stopping", "saving", "closing", "exited", "killed"}
SavePoints == {"idle", "lock", "snapshot", "copy", "encode", "write", "writing", "rename", "stopped"}

(* A file holds a numbered state of the map.  A file that is half written, *)
(* or is not there, is not whole: json.Unmarshal or os.ReadFile fails.     *)
File == [ver : Nat, content : Content, state : {"whole", "torn"}]
NewFile == [ver |-> 1, content |-> Empty, state |-> "whole"]
Torn(f) == [f EXCEPT !.state = "torn"]

TypeOK == /\ MemTypeOK
          /\ pc \in [Savers -> SavePoints]
          /\ snap \in [Savers -> File]
          /\ todo \in [Savers -> SUBSET Keys]
          /\ mu \in Savers \cup {"free"}
          /\ tmp \in File
          /\ disk \in File
          /\ main \in Phases
          /\ saved \in {"no", "ok", "error"}
          /\ signalled \in Nat
          /\ failures \in 0 .. MaxFailures
          /\ restarts \in 0 .. MaxRestarts

(* No state.json yet reads as an empty store, so the model starts with an  *)
(* empty one.                                                              *)
Init == /\ MemInit
        /\ pc = [s \in Savers |-> "idle"]
        /\ snap = [s \in Savers |-> NewFile]
        /\ todo = [s \in Savers |-> {}]
        /\ mu = "free"
        /\ tmp = Torn(NewFile)
        /\ disk = NewFile
        /\ main = "serving"
        /\ saved = "no"
        /\ signalled = 0
        /\ failures = 0
        /\ restarts = 0

Alive == main \notin {"exited", "killed"}

Goto(s, there) == pc' = [pc EXCEPT ![s] = there]
At(s, here) == Alive /\ pc[s] = here

-----------------------------------------------------------------------------
(* Handlers keep running while main shuts down: the listeners are closed   *)
(* by the last statements of main.                                         *)
Request == /\ Alive
           /\ Mutate
           /\ UNCHANGED <<saveVars, fileVars, procVars, failures, restarts>>

-----------------------------------------------------------------------------
(* Save                                                                    *)

(* Mutant: Save does not take f.mu.                                        *)
BugSaveWithoutLock(s) == /\ At(s, "lock")
                         /\ mu' = s
                         /\ Goto(s, "snapshot")
                         /\ UNCHANGED <<memVars, snap, todo, fileVars, procVars, failures, restarts>>

SaveLock(s) == /\ At(s, "lock")
               /\ mu = "free"
               /\ mu' = s
               /\ Goto(s, "snapshot")
               /\ UNCHANGED <<memVars, snap, todo, fileVars, procVars, failures, restarts>>

SnapshotBegin(s) == /\ At(s, "snapshot")
                    /\ RLock(s)
                    /\ snap' = [snap EXCEPT ![s] = [ver |-> Version, content |-> Empty, state |-> "whole"]]
                    /\ todo' = [todo EXCEPT ![s] = Keys]
                    /\ Goto(s, "copy")
                    /\ UNCHANGED <<mu, fileVars, procVars, failures, restarts>>

SnapshotCopy(s, k) == /\ At(s, "copy")
                      /\ k \in todo[s]
                      /\ snap' = [snap EXCEPT ![s].content[k] = data[k]]
                      /\ todo' = [todo EXCEPT ![s] = @ \ {k}]
                      /\ UNCHANGED <<memVars, pc, mu, fileVars, procVars, failures, restarts>>

SnapshotEnd(s) == /\ At(s, "copy")
                  /\ todo[s] = {}
                  /\ RUnlock(s)
                  /\ Goto(s, "encode")
                  /\ UNCHANGED <<snap, todo, mu, fileVars, procVars, failures, restarts>>

(* json.Marshal and MkdirAll, when they succeed.                           *)
Encode(s) == /\ At(s, "encode")
             /\ Goto(s, "write")
             /\ UNCHANGED <<memVars, snap, todo, mu, fileVars, procVars, failures, restarts>>

(* os.WriteFile truncates the file, then fills it.                         *)
WriteBegin(s) == /\ At(s, "write")
                 /\ tmp' = Torn(tmp)
                 /\ Goto(s, "writing")
                 /\ UNCHANGED <<memVars, snap, todo, mu, disk, procVars, failures, restarts>>

WriteEnd(s) == /\ At(s, "writing")
               /\ tmp' = snap[s]
               /\ Goto(s, "rename")
               /\ UNCHANGED <<memVars, snap, todo, mu, disk, procVars, failures, restarts>>

(* Save returns: the deferred Unlock, and what the caller does next.       *)
(* Mutant: no deferred Unlock.                                             *)
BugNoUnlock(s) == UNCHANGED mu

Unlock(s) == mu' = IF mu = s THEN "free" ELSE mu

SaveReturns(s, result) ==
    /\ Unlock(s)
    /\ Goto(s, "idle")
    /\ IF s = "main" THEN main' = "closing" /\ saved' = result
                     ELSE UNCHANGED <<main, saved>>
    /\ UNCHANGED <<memVars, snap, todo, signalled, restarts>>

Rename(s) == /\ At(s, "rename")
             /\ disk' = tmp
             /\ tmp' = Torn(tmp)
             /\ SaveReturns(s, "ok")
             /\ UNCHANGED failures

(* json.Marshal, MkdirAll, WriteFile or Rename fails.                      *)
SaveFails(s) == /\ Alive
                /\ pc[s] \in {"encode", "write", "writing", "rename"}
                /\ failures < MaxFailures
                /\ failures' = failures + 1
                /\ SaveReturns(s, "error")
                /\ UNCHANGED fileVars

SaveStep(s) == \/ SaveLock(s)
               \/ SnapshotBegin(s)
               \/ \E k \in Keys : SnapshotCopy(s, k)
               \/ SnapshotEnd(s)
               \/ Encode(s)
               \/ WriteBegin(s)
               \/ WriteEnd(s)
               \/ Rename(s)

-----------------------------------------------------------------------------
(* The auto-save goroutine: a select between the ticker and the channel    *)
(* done.  When both are ready Go picks either, so one more Save may start  *)
(* after done was closed.                                                  *)

(* stopAutoSave has run.                                                   *)
DoneClosed == main \notin {"serving", "stopping"}

Tick == /\ At("autosave", "idle")
        /\ Goto("autosave", "lock")
        /\ UNCHANGED <<memVars, snap, todo, mu, fileVars, procVars, failures, restarts>>

AutoSaveStops == /\ At("autosave", "idle")
                 /\ DoneClosed
                 /\ Goto("autosave", "stopped")
                 /\ UNCHANGED <<memVars, snap, todo, mu, fileVars, procVars, failures, restarts>>

-----------------------------------------------------------------------------
(* main(): wait for the signal, stop auto-save, save, close the servers.   *)

Signal == /\ main = "serving"
          /\ main' = "stopping"
          /\ signalled' = Version
          /\ UNCHANGED <<memVars, saveVars, fileVars, saved, failures, restarts>>

(* Mutant: main does not save while auto-save is saving.                   *)
BugSkipBusySave == /\ main = "stopping"
                   /\ IF mu = "free" THEN main' = "saving" /\ Goto("main", "lock") /\ UNCHANGED saved
                                      ELSE main' = "closing" /\ saved' = "ok" /\ UNCHANGED pc
                   /\ UNCHANGED <<memVars, snap, todo, mu, fileVars, signalled, failures, restarts>>

(* Mutant: main takes f.mu to stop auto-save and calls Save with it.       *)
BugStopHoldsLock == /\ main = "stopping"
                    /\ mu = "free"
                    /\ mu' = "main"
                    /\ main' = "saving"
                    /\ Goto("main", "lock")
                    /\ UNCHANGED <<memVars, snap, todo, fileVars, saved, signalled, failures, restarts>>

(* stopAutoSave closes done and does not wait for the goroutine; then      *)
(* SaveState.                                                              *)
StopAutoSave == /\ main = "stopping"
                /\ main' = "saving"
                /\ Goto("main", "lock")
                /\ UNCHANGED <<memVars, snap, todo, mu, fileVars, saved, signalled, failures, restarts>>

(* srv.Shutdown, httpServer.Shutdown and tlsServer.Shutdown return, at the *)
(* latest when their shared context times out, and main returns: whatever  *)
(* goroutine still runs is gone.                                           *)
Exit == /\ main = "closing"
        /\ main' = "exited"
        /\ UNCHANGED <<memVars, saveVars, fileVars, saved, signalled, failures, restarts>>

Kill == /\ Alive
        /\ main' = "killed"
        /\ UNCHANGED <<memVars, saveVars, fileVars, saved, signalled, failures, restarts>>

(* NewFileBackend: load reads path, never path.tmp.                        *)
(* Mutants: the raw message is stored instead of the decoded value; the    *)
(* temporary file is preferred when it is complete.                        *)
BugLoadRaw == disk
BugLoadTmp == IF tmp.state = "whole" THEN tmp.content ELSE Empty

Load == IF disk.state = "whole" THEN disk.content ELSE Empty

Restart == /\ ~Alive
           /\ restarts < MaxRestarts
           /\ restarts' = restarts + 1
           /\ Change(Load)
           /\ writer' = "none"
           /\ sweep' = {}
           /\ readers' = {}
           /\ pc' = [s \in Savers |-> "idle"]
           /\ todo' = [s \in Savers |-> {}]
           /\ mu' = "free"
           /\ main' = "serving"
           /\ saved' = "no"
           /\ signalled' = 0
           /\ UNCHANGED <<snap, fileVars, failures>>

Next == \/ Request
        \/ \E s \in Savers : SaveStep(s) \/ SaveFails(s)
        \/ Tick \/ AutoSaveStops
        \/ Signal \/ StopAutoSave \/ Exit \/ Kill
        \/ Restart

Spec == Init /\ [][Next]_vars

(* The scheduler runs every goroutine that can run, the ticker keeps       *)
(* firing, and a lock that keeps being free is obtained.  A select whose   *)
(* cases are both ready picks one at random, so a goroutine that comes     *)
(* back to it again and again stops in the end: strong fairness.  Nothing  *)
(* makes a request, a signal, a failure, a kill or a restart happen.       *)
Fairness == /\ \A s \in Savers : WF_vars(SaveStep(s))
            /\ WF_vars(Tick)
            /\ SF_vars(AutoSaveStops)
            /\ WF_vars(StopAutoSave)
            /\ WF_vars(Exit)
            /\ WF_vars(Alive /\ DeleteByPrefixProgress
                       /\ UNCHANGED <<saveVars, fileVars, procVars, failures, restarts>>)

FairSpec == Spec /\ Fairness

-----------------------------------------------------------------------------
(* Save's comment promises an atomic save: state.json always holds a whole *)
(* state the map has had between two operations - never half a write,      *)
(* never half a DeleteByPrefix, never a mixture of two states.             *)
DiskHoldsAPastState ==
    /\ disk.state = "whole"
    /\ disk.ver \in 1 .. Version
    /\ disk.content = history[disk.ver]

(* Two goroutines save and main does not wait for the other one: neither   *)
(* may put an older state over a newer one.                                *)
DiskNeverGoesBack == [][disk'.ver >= disk.ver]_vars

(* After the final Save reports success, everything requests had written   *)
(* when the signal arrived is in state.json, whatever the auto-save        *)
(* goroutine still does.                                                   *)
FinalSaveCoversTheSignal ==
    main \in {"closing", "exited"} /\ saved = "ok" => disk.ver >= signalled

(* Auto-save: what is in the map is on disk later, unless the process is   *)
(* shut down or killed first.                                              *)
EveryStateIsSaved ==
    \A v \in 1 .. MaxVersions :
        (main = "serving" /\ Version >= v) ~> (disk.ver >= v \/ main # "serving")

(* A signalled process ends: main's Save and the auto-save goroutine's do  *)
(* not wait for each other forever.                                        *)
ShutdownEnds == main = "stopping" ~> ~Alive

Promise == INSTANCE Checkpoint WITH
             history <- history,
             stable <- [ver |-> disk.ver, content |-> disk.content],
             process <- IF Alive THEN "up" ELSE "down"

(* The file backend implements the abstract checkpointed store.            *)
ImplementsCheckpoint == Promise!Spec
=============================================================================
