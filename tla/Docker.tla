------------------------------- MODULE Docker -------------------------------
(***************************************************************************)
(* The docker daemon, as the handlers that shell out to the docker command *)
(* know it: containers and networks known by name, outside the process.    *)
(* Whoever uses a name gets whatever has it at that moment.  Two running   *)
(* containers never publish one host port, and a network with a running    *)
(* container on it cannot be removed.                                      *)
(***************************************************************************)
EXTENDS Naturals

CONSTANTS Names,     \* container names the program may use
          Networks,  \* network names the program may use
          Ports,     \* host ports
          Tags       \* what a container is started with and keeps

ASSUME PortsAssumption == Ports \subseteq Nat \ {0}
ASSUME NetworksAssumption == "bridge" \notin Networks
ASSUME TagsAssumption == 0 \in Tags

VARIABLES container,   \* the container with a name
          network,     \* the networks that exist
          dockerAvail  \* whether the program found docker when it started

NoPort == 0
Bridge == "bridge"   \* docker's own network, which always exists

States == {"none", "created", "running", "exited"}
NoTag == 0
NoContainer == [state |-> "none", port |-> NoPort, net |-> Bridge, tag |-> NoTag]
Container == [state : States, port : Ports \cup {NoPort}, net : Networks \cup {Bridge}, tag : Tags]

DockerInit == container = [n \in Names |-> NoContainer] /\ network = {}

DockerTypeOK == /\ container \in [Names -> Container]
                /\ network \subseteq Networks
                /\ dockerAvail \in BOOLEAN

Present(n) == container[n].state # "none"
Running(n) == container[n].state = "running"
Attachable(net) == net = Bridge \/ net \in network
PortFree(p) == p = NoPort \/ \A n \in Names : Running(n) => container[n].port # p

(* docker run -d --name n.  A name that is taken is refused.               *)
Run(n, p, net, tag) ==
    /\ ~Present(n) /\ PortFree(p) /\ Attachable(net)
    /\ container' = [container EXCEPT ![n] = [state |-> "running", port |-> p, net |-> net, tag |-> tag]]

(* It fails before there is a container: the name is taken, or there is no *)
(* such image.                                                             *)
RunRefused(n) == UNCHANGED container

(* It fails after the container was created, and leaves it: the port is in *)
(* use, the network is gone, or ("unstartable") the image has no such      *)
(* command.                                                                *)
RunBreaks(n, p, net, tag, unstartable) ==
    /\ ~Present(n)
    /\ unstartable \/ ~PortFree(p) \/ ~Attachable(net)
    /\ container' = [container EXCEPT ![n] = [state |-> "created", port |-> p, net |-> net, tag |-> tag]]

Startable(n) == /\ Present(n)
                /\ Attachable(container[n].net)
                /\ Running(n) \/ PortFree(container[n].port)

Start(n) == container' = [container EXCEPT ![n].state = "running"]

(* docker stop of a container that does not run changes nothing.           *)
Stop(n) == container' = [container EXCEPT ![n].state = IF @ = "running" THEN "exited" ELSE @]

(* docker rm -f, whether there is such a container or not.                 *)
Remove(n) == container' = [container EXCEPT ![n] = NoContainer]

(* docker network create, or it exists; docker network rm, or it is in use.*)
NetworkCreate(net) == network' = network \cup {net}
NetworkRemove(net) == network' = IF \E n \in Names : Running(n) /\ container[n].net = net
                                 THEN network ELSE network \ {net}

(* docker rm without -f: a container that runs stays.                      *)
RemoveStopped(n) == container' = [container EXCEPT ![n] = IF @.state = "running" THEN @ ELSE NoContainer]

(* A container's command ends, and nobody asked.                           *)
Exits(n) == Running(n) /\ container' = [container EXCEPT ![n].state = "exited"]
=============================================================================
