---------------------------- MODULE MCFileBackend ----------------------------
(* Instances of FileBackend, with a record that is changed in place, for   *)
(* TLC.                                                                    *)
EXTENDS SharedRecord

CONSTANTS k1, k2

MCKeys == {k1, k2}
MCPrefixes == {{k1, k2}}

(* Every request there is while saves fail and the process is killed; or   *)
(* the life of one VM, which is updated.                                   *)
MCCasts == {[updates |-> 0, failures |-> 1, restarts |-> 1, keys |-> {k1, k2}],
            [updates |-> 1, failures |-> 0, restarts |-> 1, keys |-> {k1}]}
OneVM == {[updates |-> 2, failures |-> 0, restarts |-> 1, keys |-> {k1}]}
=============================================================================
