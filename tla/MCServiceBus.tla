---------------------------- MODULE MCServiceBus ----------------------------
(* Instances of ServiceBus for TLC: queues, then topics, then namespaces,  *)
(* numbered.                                                               *)
EXTENDS ServiceBus

CONSTANTS c1, c2

MCNamespaceOf == [m \in {1, 2, 3} |-> 4]

Nobody == [service |-> "servicebus", clients |-> {}, senders |-> {}, managers |-> {}, admins |-> {}, backends |-> {"memory"},
           sends |-> 0, restarts |-> 0, resets |-> 0]

(* One client, with either backend, and a restart.                         *)
Sequential == {[Nobody EXCEPT !.clients = {c1}, !.senders = {c1}, !.managers = {c1},
                              !.backends = {"memory", "file"}, !.sends = 4, !.restarts = 1]}
(* Two clients, of whom one sends.                                         *)
OneSenderOfTwo == {[Nobody EXCEPT !.clients = {c1, c2}, !.senders = {c1}, !.managers = {c1, c2},
                                  !.admins = {c2}, !.sends = 3, !.resets = 1]}
(* The same of storage queues.                                             *)
StorageQueues == {[k EXCEPT !.service = "queue", !.admins = {}] : k \in Sequential \cup OneSenderOfTwo}

PassingCasts == Sequential \cup OneSenderOfTwo \cup StorageQueues

(* Two senders; and one client, with persistence.                          *)
Racing == {[Nobody EXCEPT !.clients = {c1, c2}, !.senders = {c1, c2}, !.managers = {c1}, !.sends = 2]}
Persistent == {[Nobody EXCEPT !.clients = {c1}, !.senders = {c1}, !.managers = {c1},
                              !.backends = {"file"}, !.sends = 2]}
=============================================================================
