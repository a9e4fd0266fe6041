---------------------------- MODULE MCSpaHandler ----------------------------
(* Small instances of SpaHandler, with the packets of MCSpaVerifier. *)
EXTENDS SpaHandler, MCSpaVerifier

CONSTANTS g3, ipB

MCIPs == {ipA, ipB}

HandlerCalls == {g1, g2, g3}

(* A client whose key is not configured, and an authorised one with padding. *)
Unknown == Signed(Body(2, 2, 9, 4, ipB), "nobody")
Padded  == Signed([Body(2, 2, 9, 4, ipA) EXCEPT !.size = @ + 16], "pk1")

(* The default token is text: neither its version nor its mode byte is known. *)
Token == Signed([Body(80, 72, 0, 0, ipA) EXCEPT !.size = 26], "nobody")

(* The fresh buffer. *)
Blank == Signed([Body(0, 0, 0, 0, ipA) EXCEPT !.size = 94], "nobody")

From(pkt, addr, n) == [pkt |-> pkt, from |-> addr, copy |-> n]

MixedTraffic == {From(Padded, ipA, 1), From(Unknown, ipB, 1), From(Token, ipB, 1)}

(* Every mixture of a body, a length and a signature that the buffer can hold. *)
Pool(pkts) == {[body |-> [p.body EXCEPT !.size = q.body.size], sig |-> r.sig] : p, q, r \in pkts}
MixedPool == Pool({Blank, Padded, Unknown, Token})
=============================================================================
