---------------------------- MODULE MCMtlsProxy ----------------------------
(* A small instance of MtlsProxy. *)
EXTENDS MtlsProxy

CONSTANTS c1, c2

Listed   == [valid |-> TRUE, ids |-> {"id1", "id2"}]
Unlisted == [valid |-> TRUE, ids |-> {"id2"}]
Nameless == [valid |-> TRUE, ids |-> {}]
Forged   == [valid |-> FALSE, ids |-> {"id1"}]

MCCerts == {Listed, Unlisted, Nameless, Forged}

(* c1 is an ordinary client, c2 is never let through. *)
MCCertsOf(c) == IF c = c1 THEN {Listed} ELSE MCCerts \ {Listed}
=============================================================================
