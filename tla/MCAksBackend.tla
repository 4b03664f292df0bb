----------------------------- MODULE MCAksBackend -----------------------------
(* Instances of AksBackend for TLC: two clusters of one resource group and *)
(* one of another.                                                         *)
EXTENDS AksBackend, TLC

CONSTANTS c1, c2, k1, k2, k3, g1, g2

MCGroupOf == (k1 :> g1 @@ k2 :> g1 @@ k3 :> g2)

Nobody == [clients |-> {}, clusters |-> {}, ports |-> {1, 2, 3}, persistent |-> FALSE,
           faults |-> 0, resets |-> 0, stops |-> 0]

(* One client, with clusters in two groups; with a process that stops, and *)
(* stops again in its second life; with a state file.                      *)
OneClient == {[Nobody EXCEPT !.clients = {c1}, !.clusters = {k1, k2, k3}],
              [Nobody EXCEPT !.clients = {c1}, !.clusters = {k1, k3}, !.stops = 2],
              [Nobody EXCEPT !.clients = {c1}, !.clusters = {k1}, !.stops = 2, !.persistent = TRUE]}
(* Two clients of one cluster, and what can go wrong.                      *)
Pair == [Nobody EXCEPT !.clients = {c1, c2}, !.clusters = {k1}, !.ports = {1, 2}, !.faults = 1, !.stops = 1]
TwoClients == {[Pair EXCEPT !.persistent = TRUE], [Pair EXCEPT !.resets = 1]}

AllCasts == OneClient \cup TwoClients

(* The process is killed between a PUT and the next save.                  *)
Stale == {[Nobody EXCEPT !.clients = {c1}, !.clusters = {k1}, !.ports = {1, 2}, !.persistent = TRUE, !.stops = 1]}
=============================================================================
