----------------------------- MODULE MCXdpGate ------------------------------
(* Small instances of XdpGate. *)
EXTENDS XdpGate, TLC

CONSTANTS c1, c2, t1

Forward == <<10, 0, 0, 1>>
OneAddress == {Forward}

(* Two hosts that user space mistakes for each other on a little-endian machine. *)
Mirrored == {Forward, <<1, 0, 0, 10>>}

CPUSymmetry == Permutations({c1, c2})
=============================================================================
