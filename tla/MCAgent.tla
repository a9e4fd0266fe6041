------------------------------ MODULE MCAgent ------------------------------
(***************************************************************************)
(* A host: small instances of the agent process and of TCP through the     *)
(* program it attaches, in one run.  They share no variable, so every      *)
(* behaviour of both is one of each, and it is enough to let one of them   *)
(* go on while the other rests in an initial state.                        *)
(***************************************************************************)
EXTENDS Agent, XdpTraffic

CONSTANTS p1

(* One fake port is the proxy's default port, as 8443 is. *)
TwoFakePorts == <<80, 8443>>

(* One port of every kind, and 21, which is on both lists. *)
OnePort == [p \in Peers |-> 40003]
AllScans == {{}, {"FIN"}, {"ACK"}, {"FIN", "URG", "PSH"}, {"SYN", "ACK"}, {"ECE"}, {"FIN", "CWR"}}

VARIABLE running

Both == <<vars, trafficVars, running>>

HostInit ==
    /\ Init /\ TrafficInit /\ running \in {"agent", "traffic"}
    /\ running = "traffic" => \A p \in Ports : owner[p] = "free"

HostNext ==
    \/ running = "agent" /\ Next /\ UNCHANGED <<trafficVars, running>>
    \/ running = "traffic" /\ TrafficNext /\ UNCHANGED <<vars, running>>

HostSpec ==
    /\ HostInit /\ [][HostNext]_Both
    /\ \/ running = "agent" /\ Fairness
       \/ running = "traffic" /\ TrafficFairness
=============================================================================
