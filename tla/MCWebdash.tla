---------------------------- MODULE MCWebdash ------------------------------
(***************************************************************************)
(* The control plane: small instances of its sessions and users file and   *)
(* of its fleet, in one run.  They share no variable, so every behaviour   *)
(* of both is one of each, and it is enough to let one of them go on while *)
(* the other rests in an initial state.                                    *)
(***************************************************************************)
EXTENDS WebAuth, FleetTelemetry

CONSTANTS r1, r2, t1, t2, a1

VARIABLE running

Both == <<authVars, fleetVars, running>>

WebdashInit ==
    /\ AuthInit /\ FleetInit /\ running \in {"auth", "fleet"}
    /\ running = "fleet" => password = Default

WebdashNext ==
    \/ running = "auth" /\ AuthNext /\ UNCHANGED <<fleetVars, running>>
    \/ running = "fleet" /\ FleetNext /\ UNCHANGED <<authVars, running>>

WebdashSpec ==
    /\ WebdashInit /\ [][WebdashNext]_Both
    /\ running = "fleet" => FleetFairness

(* What is said of the fleet, where it goes on. *)
FleetCatchesUp == running = "fleet" => CatchesUp
=============================================================================
