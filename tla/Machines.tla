------------------------------ MODULE Machines ------------------------------
(***************************************************************************)
(* What virtual machines promise: a machine is there or not, it is on or   *)
(* off, services are deployed on machines that are on and serve only while *)
(* the machine is on, and nothing of a machine is left when it is gone.    *)
(***************************************************************************)
CONSTANTS VMs, Services, HostOf

VARIABLES machines,  \* the machines there are
          on,        \* those that are on
          deployed,  \* the services that are deployed
          serving    \* those that run

vars == <<machines, on, deployed, serving>>

Init == machines = {} /\ on = {} /\ deployed = {} /\ serving = {}

Hosted(v) == {s \in Services : HostOf[s] = v}

Create(v) == /\ v \notin machines
             /\ machines' = machines \cup {v}
             /\ on' = on \cup {v}
             /\ UNCHANGED <<deployed, serving>>

(* One machine, or those of a resource group, which go together.           *)
Delete(gone) == /\ gone \subseteq machines
                /\ \A v \in gone : Hosted(v) \cap deployed = {}
                /\ machines' = machines \ gone
                /\ on' = on \ gone
                /\ UNCHANGED <<deployed, serving>>

PowerOn(v) == /\ v \in machines \ on
              /\ on' = on \cup {v}
              /\ UNCHANGED <<machines, deployed, serving>>

PowerOff(v) == /\ v \in on
               /\ Hosted(v) \cap serving = {}
               /\ on' = on \ {v}
               /\ UNCHANGED <<machines, deployed, serving>>

Deploy(s) == /\ HostOf[s] \in on
             /\ s \notin deployed
             /\ deployed' = deployed \cup {s}
             /\ serving' \in {serving \cup {s}, serving}   \* it may have ended already
             /\ UNCHANGED <<machines, on>>

Withdraw(s) == /\ s \in deployed
               /\ deployed' = deployed \ {s}
               /\ serving' = serving \ {s}
               /\ UNCHANGED <<machines, on>>

Serve(s) == /\ s \in deployed \ serving
            /\ HostOf[s] \in on
            /\ serving' = serving \cup {s}
            /\ UNCHANGED <<machines, on, deployed>>

Halt(s) == /\ s \in serving
           /\ serving' = serving \ {s}
           /\ UNCHANGED <<machines, on, deployed>>

(* The process ends, and with it all that was recorded.                    *)
Forget == machines' = {} /\ on' = {} /\ deployed' = {} /\ serving' = {}

Next == \/ \E v \in VMs : Create(v) \/ PowerOn(v) \/ PowerOff(v)
        \/ \E gone \in SUBSET VMs : Delete(gone)
        \/ \E s \in Services : Deploy(s) \/ Withdraw(s) \/ Serve(s) \/ Halt(s)
        \/ Forget

Spec == Init /\ [][Next]_vars
=============================================================================
