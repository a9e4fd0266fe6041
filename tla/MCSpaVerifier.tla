--------------------------- MODULE MCSpaVerifier ---------------------------
(* Small instances of SpaVerifier. *)
EXTENDS SpaVerifier, TLC

CONSTANTS g1, g2, ipA

MCCalls == {g1, g2}

(* Codes come back after 11 steps, just beyond TOTPHorizon for the values of the cfg. *)
MCTOTP(k, s) == IF k = "t1" THEN s % 11 ELSE 11 + (s % 11)

Body(version, mode, ts, step, addr) ==
    [version |-> version, mode |-> mode, timestamp |-> ts, totp |-> MCTOTP("t1", step),
     ip |-> addr,
     size |-> HeaderSize(version) + SignatureSize(mode)]

Signed(body, key) == [body |-> body, sig |-> [over |-> body, by |-> key]]

(* Good packets of two clients, the first two as today's client makes them, bound to ipA. *)
Early  == Signed(Body(2, 2, 9, 4, ipA), "pk1")
Middle == Signed(Body(2, 2, 12, 6, ipA), "pk2")
Late   == Signed(Body(1, 2, 16, 8, ipA), "pk1")

ReplayPackets == {Early, Middle, Late}

CallSymmetry == Permutations(MCCalls)
=============================================================================
