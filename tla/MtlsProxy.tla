----------------------------- MODULE MtlsProxy -----------------------------
(***************************************************************************)
(* proxy.MTLSServer (internal/proxy/mtls.go): the accept loop, one         *)
(* goroutine handleConnection per client, and the two io.Copy goroutines   *)
(* that relay between the client and the target on the loopback interface. *)
(*                                                                         *)
(* A direction is named after the side that sends: copy "client" moves     *)
(* bytes from the client to the target.  Bytes are counted, not named: a   *)
(* copy reads a chunk, writes it, and reads again.  Nothing in the code    *)
(* sets a deadline, so a handshake waits for its client and a Write for    *)
(* its receiver for as long as they please.                                *)
(***************************************************************************)
EXTENDS Naturals, FiniteSets

CONSTANTS
    Conns,             \* client connections
    Certs,             \* certificates [valid |-> signed by CACert, ids |-> its spiffe:// URIs]
    CertsOf(_),        \* the certificates a connection may present
    AllowedSPIFFEIDs,  \* MTLSServer.AllowedSPIFFEIDs
    ErrcCap,           \* capacity of errc (2)
    MaxSend            \* bound: chunks each side sends

ASSUME ProxyAssumption == /\ ErrcCap = 2
                          /\ MaxSend \in Nat
                          /\ \A c \in Conns : CertsOf(c) \subseteq Certs

Sides == {"client", "target"}
Other(s) == IF s = "client" THEN "target" ELSE "client"

VARIABLES
    pc,     \* handleConnection: see TypeOK
    cert,   \* the certificate the client has presented, {} before it does
    peer,   \* what the two ends did: "open", "half" (sent its FIN, still reads), "gone"
    open,   \* the connections the proxy holds and has not closed
    copy,   \* io.Copy per direction
    errc,   \* results waiting in errc
    sent,   \* chunks each side has sent
    moved   \* chunks of each side written to the other

relay == <<copy, errc, moved>>
vars == <<pc, cert, peer, open, relay, sent>>

Init ==
    /\ pc = [c \in Conns |-> "none"]
    /\ cert = [c \in Conns |-> {}]
    /\ peer = [c \in Conns |-> [s \in Sides |-> "open"]]
    /\ open = [c \in Conns |-> {}]
    /\ copy = [c \in Conns |-> [s \in Sides |-> "off"]]
    /\ errc = [c \in Conns |-> 0]
    /\ sent = [c \in Conns |-> [s \in Sides |-> 0]]
    /\ moved = [c \in Conns |-> [s \in Sides |-> 0]]

-----------------------------------------------------------------------------
(* The two ends of a connection. *)

Connect(c) ==
    /\ pc[c] = "none"
    /\ pc' = [pc EXCEPT ![c] = "backlog"]
    /\ UNCHANGED <<cert, peer, open, relay, sent>>

(* The client's half of the TLS handshake; a silent client never gets here. *)
Present(c) ==
    /\ pc[c] \in {"backlog", "handshake"}
    /\ cert[c] = {} /\ peer[c]["client"] # "gone"
    /\ \E k \in CertsOf(c) : cert' = [cert EXCEPT ![c] = {k}]
    /\ UNCHANGED <<pc, peer, open, relay, sent>>

(* What a side does before the copies start it might as well do when they have, *)
(* and what it does after they have ended nobody sees.                         *)
Relaying(c) == \E s \in Sides : copy[c][s] \in {"read", "write", "report"}

PeerSend(c, s) ==
    /\ Relaying(c) /\ peer[c][s] = "open"
    /\ sent[c][s] < MaxSend
    /\ sent' = [sent EXCEPT ![c][s] = @ + 1]
    /\ UNCHANGED <<pc, cert, peer, open, relay>>

(* A side has sent everything and says so, but waits for the rest of the answer. *)
PeerFin(c, s) ==
    /\ Relaying(c) /\ peer[c][s] = "open"
    /\ peer' = [peer EXCEPT ![c][s] = "half"]
    /\ UNCHANGED <<pc, cert, open, relay, sent>>

(* A side closes its connection for good, or dies. *)
PeerGone(c, s) ==
    /\ Relaying(c) \/ (s = "client" /\ pc[c] \in {"backlog", "handshake"})
    /\ peer[c][s] # "gone"
    /\ peer' = [peer EXCEPT ![c][s] = "gone"]
    /\ UNCHANGED <<pc, cert, open, relay, sent>>

-----------------------------------------------------------------------------
(* Mutant: handleConnection is called in the accept loop. *)
AcceptSerially(c) ==
    /\ pc[c] = "backlog"
    /\ \A d \in Conns : pc[d] \in {"none", "backlog", "done"}
    /\ pc' = [pc EXCEPT ![c] = "handshake"]
    /\ open' = [open EXCEPT ![c] = {"client"}]
    /\ UNCHANGED <<cert, peer, relay, sent>>

(* Start's loop: an Accept error is logged and changes nothing. *)
Accept(c) ==
    /\ pc[c] = "backlog"
    /\ pc' = [pc EXCEPT ![c] = "handshake"]
    /\ open' = [open EXCEPT ![c] = {"client"}]
    /\ UNCHANGED <<cert, peer, relay, sent>>

(* return in handleConnection: the deferred calls close what is open, the target first. *)
ReturnFrom(c, at) ==
    /\ pc[c] = at
    /\ pc' = [pc EXCEPT ![c] = "closeClient"]
    /\ UNCHANGED <<cert, peer, open, relay, sent>>

GoOn(c, from, to) ==
    /\ pc[c] = from
    /\ pc' = [pc EXCEPT ![c] = to]
    /\ UNCHANGED <<cert, peer, open, relay, sent>>

(* tls.RequireAndVerifyClientCert. *)
Handshake(c) ==
    /\ \E k \in cert[c] : k.valid
    /\ GoOn(c, "handshake", "identity")

HandshakeFails(c) ==
    /\ \/ \E k \in cert[c] : ~k.valid
       \/ peer[c]["client"] = "gone"
    /\ ReturnFrom(c, "handshake")

(* Mutant: a certificate without any SPIFFE ID passes. *)
AllowedOrNone(ids) ==
    AllowedSPIFFEIDs # {} => ids = {} \/ ids \cap AllowedSPIFFEIDs # {}

(* An empty list allows every certificate of the CA. *)
Allowed(ids) == AllowedSPIFFEIDs # {} => ids \cap AllowedSPIFFEIDs # {}

CheckSPIFFE(c) ==
    \E k \in cert[c] :
        \/ Allowed(k.ids) /\ GoOn(c, "identity", "dial")
        \/ ~Allowed(k.ids) /\ ReturnFrom(c, "identity")

DialFails(c) == ReturnFrom(c, "dial")

(* The target accepts; errc is made and both copies start. *)
Dial(c) ==
    /\ pc[c] = "dial"
    /\ pc' = [pc EXCEPT ![c] = "relay"]
    /\ open' = [open EXCEPT ![c] = {"client", "target"}]
    /\ copy' = [copy EXCEPT ![c] = [s \in Sides |-> "read"]]
    /\ UNCHANGED <<cert, peer, errc, sent, moved>>

-----------------------------------------------------------------------------
(* io.Copy from side s to the other side. *)

CopyStep(c, s, from, to) ==
    /\ copy[c][s] = from
    /\ copy' = [copy EXCEPT ![c][s] = to]
    /\ UNCHANGED <<pc, cert, peer, open, errc, sent>>

CopyRead(c, s) ==
    /\ s \in open[c]
    /\ moved[c][s] < sent[c][s]
    /\ CopyStep(c, s, "read", "write") /\ UNCHANGED moved

(* The write of the chunk in hand; it may wait for the receiver. *)
CopyWrite(c, s) ==
    /\ Other(s) \in open[c]
    /\ CopyStep(c, s, "write", "read")
    /\ moved' = [moved EXCEPT ![c][s] = @ + 1]

(* Mutant: the copy stops at the sender's FIN without looking for more. *)
CopyEofEarly(c, s) ==
    /\ s \in open[c] /\ peer[c][s] # "open"
    /\ CopyStep(c, s, "read", "report") /\ UNCHANGED moved

(* The sender has ended and everything it sent has been read. *)
CopyEof(c, s) ==
    /\ s \in open[c] /\ peer[c][s] # "open"
    /\ moved[c][s] = sent[c][s]
    /\ CopyStep(c, s, "read", "report") /\ UNCHANGED moved

(* Read or Write on a connection that is closed here or gone over there. *)
CopyFails(c, s) ==
    /\ \/ /\ s \notin open[c] \/ peer[c][s] = "gone"
          /\ CopyStep(c, s, "read", "report")
       \/ /\ Other(s) \notin open[c] \/ peer[c][Other(s)] = "gone"
          /\ CopyStep(c, s, "write", "report")
    /\ UNCHANGED moved

(* Mutant: errc has no room; a result is only handed over to a waiting handler. *)
CopyReportUnbuffered(c, s) ==
    /\ copy[c][s] = "report" /\ pc[c] = "relay" /\ errc[c] = 0
    /\ copy' = [copy EXCEPT ![c][s] = "done"]
    /\ errc' = [errc EXCEPT ![c] = @ + 1]
    /\ UNCHANGED <<pc, cert, peer, open, sent, moved>>

CopyReport(c, s) ==
    /\ copy[c][s] = "report" /\ errc[c] < ErrcCap
    /\ copy' = [copy EXCEPT ![c][s] = "done"]
    /\ errc' = [errc EXCEPT ![c] = @ + 1]
    /\ UNCHANGED <<pc, cert, peer, open, sent, moved>>

-----------------------------------------------------------------------------
(* <-errc, then the deferred Close of the target and of the client. *)
FirstResult(c) ==
    /\ pc[c] = "relay" /\ errc[c] > 0
    /\ pc' = [pc EXCEPT ![c] = "closeTarget"]
    /\ errc' = [errc EXCEPT ![c] = @ - 1]
    /\ UNCHANGED <<cert, peer, open, copy, sent, moved>>

CloseTarget(c) ==
    /\ pc[c] = "closeTarget"
    /\ pc' = [pc EXCEPT ![c] = "closeClient"]
    /\ open' = [open EXCEPT ![c] = @ \ {"target"}]
    /\ UNCHANGED <<cert, peer, relay, sent>>

CloseClient(c) ==
    /\ pc[c] = "closeClient"
    /\ pc' = [pc EXCEPT ![c] = "done"]
    /\ open' = [open EXCEPT ![c] = @ \ {"client"}]
    /\ UNCHANGED <<cert, peer, relay, sent>>

(* handleConnection; what does not depend on the good will of a peer is fair. *)
HandleConnection(c) ==
    \/ Accept(c) \/ Handshake(c) \/ HandshakeFails(c) \/ CheckSPIFFE(c)
    \/ Dial(c) \/ DialFails(c)
    \/ FirstResult(c) \/ CloseTarget(c) \/ CloseClient(c)

Copy(c, s) == CopyRead(c, s) \/ CopyEof(c, s) \/ CopyFails(c, s) \/ CopyReport(c, s)

Peers(c) ==
    \/ Connect(c) \/ Present(c)
    \/ \E s \in Sides : PeerSend(c, s) \/ PeerFin(c, s) \/ PeerGone(c, s)

Next ==
    \E c \in Conns :
        \/ HandleConnection(c) \/ Peers(c)
        \/ \E s \in Sides : Copy(c, s) \/ CopyWrite(c, s)

(* Goroutines are scheduled; peers and writes towards them owe nothing. *)
Fairness ==
    \A c \in Conns : WF_vars(HandleConnection(c) \/ \E s \in Sides : Copy(c, s))

Spec == Init /\ [][Next]_vars /\ Fairness

-----------------------------------------------------------------------------
(* Type invariant. *)
TypeOK ==
    /\ pc \in [Conns -> {"none", "backlog", "handshake", "identity", "dial", "relay",
                         "closeTarget", "closeClient", "done"}]
    /\ cert \in [Conns -> SUBSET Certs]
    /\ peer \in [Conns -> [Sides -> {"open", "half", "gone"}]]
    /\ open \in [Conns -> SUBSET Sides]
    /\ copy \in [Conns -> [Sides -> {"off", "read", "write", "report", "done"}]]
    /\ errc \in [Conns -> 0 .. ErrcCap]
    /\ sent \in [Conns -> [Sides -> 0 .. MaxSend]]
    /\ moved \in [Conns -> [Sides -> 0 .. MaxSend]]

(* The target sees only clients with a certificate of the CA and, when     *)
(* identities are listed, with a listed one; nothing of the target's goes  *)
(* to anyone else (mtls.go lines 71-110).                                  *)
OnlyAuthorised ==
    /\ TypeOK
    /\ \A c \in Conns :
          "target" \in open[c] \/ (\E s \in Sides : moved[c][s] > 0) =>
              \E k \in cert[c] : /\ k.valid
                                 /\ AllowedSPIFFEIDs = {} \/ k.ids \cap AllowedSPIFFEIDs # {}

(* A side that is still talking is hung up on only after it was given all  *)
(* that the other side had sent, unless that other side vanished (lines    *)
(* 124-135).  A side that has said it is finished has no such promise.     *)
HungUpAfterAll ==
    \A c \in Conns, s \in Sides :
        /\ copy[c][s] # "off"
        /\ Other(s) \notin open[c] /\ peer[c][Other(s)] = "open"
        /\ peer[c][s] # "gone"
        => moved[c][s] = sent[c][s]

(* A connection gets to each stage only with what the stages before it have checked. *)
Authorised(c) == \E k \in cert[c] : k.valid /\ Allowed(k.ids)

Checked(c) ==
    /\ \A k, l \in cert[c] : k = l
    /\ pc[c] = "identity" => \E k \in cert[c] : k.valid
    /\ pc[c] \in {"dial", "relay", "closeTarget"} => Authorised(c)
    /\ "target" \in open[c] => pc[c] \in {"relay", "closeTarget"}
    /\ \A s \in Sides : copy[c][s] # "off" =>
          Authorised(c) /\ pc[c] \in {"relay", "closeTarget", "closeClient", "done"}

(* What a copy has moved was sent, and a chunk in hand is not yet moved. *)
Counted(c) ==
    \A s \in Sides :
        /\ moved[c][s] <= sent[c][s]
        /\ copy[c][s] = "write" => moved[c][s] < sent[c][s]
        /\ copy[c][s] = "off" => moved[c][s] = 0

(* The copies end by themselves only at the end of a stream or when a side has vanished, *)
(* and nothing is closed before one of them has ended so.                                *)
Finished(c, s) ==
    \/ peer[c][s] # "open" /\ moved[c][s] = sent[c][s]
    \/ peer[c][s] = "gone"
    \/ peer[c][Other(s)] = "gone"

EndedFirst(c) ==
    /\ errc[c] > 0 => \E s \in Sides : copy[c][s] = "done"
    /\ pc[c] = "relay" =>
          /\ open[c] = Sides
          /\ \A s \in Sides : copy[c][s] \in {"report", "done"} => Finished(c, s)
    /\ pc[c] \in {"closeTarget", "closeClient", "done"} /\ (\E s \in Sides : copy[c][s] # "off") =>
          \E s \in Sides : copy[c][s] = "done" /\ Finished(c, s)

(* The inductive invariant behind OnlyAuthorised and HungUpAfterAll. *)
IInv == TypeOK /\ \A c \in Conns : Checked(c) /\ Counted(c) /\ EndedFirst(c)

(* When one direction has ended, both connections are closed and all three *)
(* goroutines end, whatever the peers do (lines 124-136).                  *)
EndsTogether ==
    \A c \in Conns :
        (\E s \in Sides : copy[c][s] \in {"report", "done"})
            ~> (open[c] = {} /\ \A s \in Sides : copy[c][s] = "done")

(* A client that connects is accepted, whatever handshakes and transfers of *)
(* others are waiting for (lines 52-62).                                    *)
AlwaysAccepts == \A c \in Conns : pc[c] = "backlog" ~> pc[c] # "backlog"
=============================================================================
