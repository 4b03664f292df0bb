---------------------------- MODULE ResourceTree ----------------------------
(***************************************************************************)
(* What the ARM surface promises of its records: a child appears only      *)
(* under its parent, records appear one at a time, and nothing goes        *)
(* without all that is below it.                                           *)
(***************************************************************************)
EXTENDS FiniteSets

CONSTANTS Keys,         (* the keys there may be                           *)
          Parents(_)    (* the record a key is below: none or one          *)

VARIABLE nodes

Init == nodes = {}

Create(k) ==
    /\ k \in Keys \ nodes
    /\ Parents(k) \subseteq nodes
    /\ nodes' = nodes \union {k}

Remove(S) ==
    /\ \A k \in nodes : Parents(k) \intersect S # {} => k \in S
    /\ nodes' = nodes \ S

Next ==
    \/ \E k \in nodes' \ nodes : Create(k)
    \/ \E S \in {nodes \ nodes'} : Remove(S)

Spec == Init /\ [][Next]_nodes
=============================================================================
