---------------------------- MODULE EgressFilter ----------------------------
(***************************************************************************)
(* The TC program phantom_egress_prog (ebpf/programs/phantom_egress.c):    *)
(* which payloads that leave the honeypot it counts, and as what.  It      *)
(* never drops a packet ("demo mode"), so the class is all it decides.     *)
(*                                                                         *)
(* Of the bytes of a payload only this much matters:                       *)
(*   len     their number                                                  *)
(*   starts  the pattern they begin with, or "none"                        *)
(*   base64  the positions 0 .. len-1 that hold a Base64 character         *)
(***************************************************************************)
EXTENDS Integers, FiniteSets

CONSTANTS
    MaxPayloadScan,  \* MAX_PAYLOAD_SCAN (512)
    HONEYPOT_PORT    \* 9999

Patterns == {"passwd", "privatekey", "insert", "none"}

Payloads == {p \in [len : Nat, starts : Patterns, base64 : SUBSET Nat] :
                \A i \in p.base64 : i < p.len}

(* The loop looks at 64 bytes at most. *)
Base64Count(p, dataLen) == Cardinality({i \in p.base64 : i < dataLen /\ i < 64})

(* The 95 percent are taken of the whole length. *)
IsBase64(p, dataLen) == Base64Count(p, dataLen) * 100 > dataLen * 95 /\ dataLen > 64

DetectSuspiciousPattern(p, dataLen) ==
    IF dataLen = 0 \/ dataLen > MaxPayloadScan THEN 0
    ELSE IF dataLen >= 11 /\ p.starts = "passwd" THEN 1
    ELSE IF dataLen >= 10 /\ p.starts = "privatekey" THEN 2
    ELSE IF IsBase64(p, dataLen) THEN 3
    ELSE IF dataLen >= 11 /\ p.starts = "insert" THEN 4
    ELSE 0

Scanned(p) == IF p.len > MaxPayloadScan THEN MaxPayloadScan ELSE p.len

(* The class under which a packet is counted, 0 for one that is not. *)
PhantomEgressProg(sourcePort, p) ==
    IF sourcePort = HONEYPOT_PORT THEN DetectSuspiciousPattern(p, Scanned(p)) ELSE 0
=============================================================================
