----------------------------- MODULE Checkpoint -----------------------------
(***************************************************************************)
(* What file persistence promises: a store whose successive states are     *)
(* numbered, and one durable checkpoint of it.  The checkpoint is always a *)
(* whole state the store has had, it only moves towards newer states, and  *)
(* a process that starts again resumes from it.  FileBackend implements    *)
(* this specification.                                                     *)
(***************************************************************************)
EXTENDS Naturals, Sequences

CONSTANTS Content,   \* the states a store can be in
          Empty      \* the state of a store nobody wrote to

VARIABLES history,   \* every state the store has had, oldest first
          stable,    \* the checkpoint: the state's number and the state
          process    \* "up" or "down"

vars == <<history, stable, process>>

Numbered(v, c) == [ver |-> v, content |-> c]

Init == /\ history = <<Empty>>
        /\ stable = Numbered(1, Empty)
        /\ process = "up"

(* A request changes the store.                                            *)
Change == /\ process = "up"
          /\ \E c \in Content : history' = Append(history, c)
          /\ UNCHANGED <<stable, process>>

(* Some state at least as new as the checkpoint becomes the checkpoint.    *)
Persist == /\ process = "up"
           /\ \E v \in stable.ver .. Len(history) :
                 stable' = Numbered(v, history[v])
           /\ UNCHANGED <<history, process>>

(* The process ends, however it ends.                                      *)
Stop == /\ process = "up"
        /\ process' = "down"
        /\ UNCHANGED <<history, stable>>

(* The process starts again and resumes from the checkpoint.               *)
Resume == /\ process = "down"
          /\ process' = "up"
          /\ history' = Append(history, stable.content)
          /\ UNCHANGED stable

Next == Change \/ Persist \/ Stop \/ Resume

Spec == Init /\ [][Next]_vars
=============================================================================
