-------------------------- MODULE MtlsProxyProofs --------------------------
(***************************************************************************)
(* Proofs about MtlsProxy, for any number of clients, any certificates and *)
(* any list of allowed identities.                                         *)
(***************************************************************************)
EXTENDS MtlsProxy, TLAPS

ConnInv(c) == Checked(c) /\ Counted(c) /\ EndedFirst(c)

(* A step of one connection leaves the others alone. *)
Same(d) ==
    /\ pc'[d] = pc[d] /\ cert'[d] = cert[d] /\ peer'[d] = peer[d] /\ open'[d] = open[d]
    /\ copy'[d] = copy[d] /\ errc'[d] = errc[d] /\ sent'[d] = sent[d] /\ moved'[d] = moved[d]

OnlyConn(c) == \A d \in Conns : d # c => Same(d)

LEMMA SidesFacts ==
    /\ Sides = {"client", "target"}
    /\ \A s \in Sides : Other(s) \in Sides /\ Other(s) # s /\ Other(Other(s)) = s
    /\ \A s, u \in Sides : u = s \/ u = Other(s)
  BY DEF Sides, Other

LEMMA SameKeeps == ASSUME NEW d \in Conns, Same(d), ConnInv(d) PROVE ConnInv(d)'
  <1>1. Checked(d)'
    BY DEF Same, ConnInv, Checked, Authorised
  <1>2. Counted(d)'
    BY DEF Same, ConnInv, Counted
  <1>3. EndedFirst(d)'
    BY DEF Same, ConnInv, EndedFirst, Finished
  <1> QED  BY <1>1, <1>2, <1>3 DEF ConnInv

LEMMA InitInvariant == Init => IInv
  BY ProxyAssumption
  DEF Init, IInv, TypeOK, Checked, Authorised, Counted, EndedFirst, Finished, Sides

(* The ends of a connection: sending, finishing and vanishing undo nothing that was checked *)
(* or delivered.                                                                            *)
LEMMA PeersKeep ==
    ASSUME TypeOK, NEW c \in Conns, ConnInv(c), Peers(c)
    PROVE  TypeOK' /\ OnlyConn(c) /\ ConnInv(c)'
  <1> USE ProxyAssumption, SidesFacts
  <1>1. CASE Connect(c)
    <2>1. TypeOK' /\ OnlyConn(c)
      BY <1>1 DEF Connect, relay, TypeOK, OnlyConn, Same
    <2>2. ConnInv(c)'
      BY <1>1 DEF Connect, relay, TypeOK, ConnInv, Checked, Authorised, Counted, EndedFirst, Finished
    <2> QED  BY <2>1, <2>2
  <1>2. CASE Present(c)
    <2>1. PICK k \in CertsOf(c) : cert' = [cert EXCEPT ![c] = {k}]
      BY <1>2 DEF Present
    <2>2. TypeOK' /\ OnlyConn(c)
      BY <1>2, <2>1 DEF Present, relay, TypeOK, OnlyConn, Same
    <2>3. ConnInv(c)'
      BY <1>2, <2>1 DEF Present, relay, TypeOK, ConnInv, Checked, Authorised, Counted, EndedFirst,
                        Finished
    <2> QED  BY <2>2, <2>3
  <1>3. ASSUME NEW s \in Sides, PeerSend(c, s) PROVE TypeOK' /\ OnlyConn(c) /\ ConnInv(c)'
    <2>1. /\ sent' = [sent EXCEPT ![c] = [sent[c] EXCEPT ![s] = sent[c][s] + 1]]
          /\ peer[c][s] = "open" /\ sent[c][s] < MaxSend
          /\ UNCHANGED <<pc, cert, peer, open, copy, errc, moved>>
      BY <1>3 DEF PeerSend, relay
    <2>2. TypeOK' /\ OnlyConn(c)
      BY <2>1 DEF TypeOK, OnlyConn, Same
    <2>3. Checked(c)'
      BY <2>1 DEF ConnInv, Checked, Authorised
    <2>4. Counted(c)'
      BY <2>1 DEF TypeOK, ConnInv, Counted
    <2>5. ASSUME NEW u \in Sides, Finished(c, u) PROVE Finished(c, u)'
      BY <2>1, <2>5 DEF TypeOK, Finished
    <2>6. EndedFirst(c)'
      BY <2>1, <2>5 DEF ConnInv, EndedFirst
    <2> QED  BY <2>2, <2>3, <2>4, <2>6 DEF ConnInv
  <1>4. ASSUME NEW s \in Sides, PeerFin(c, s) \/ PeerGone(c, s)
        PROVE  TypeOK' /\ OnlyConn(c) /\ ConnInv(c)'
    <2>1. PICK w \in {"half", "gone"} :
             /\ peer' = [peer EXCEPT ![c] = [peer[c] EXCEPT ![s] = w]]
             /\ peer[c][s] # "gone"
             /\ UNCHANGED <<pc, cert, open, copy, errc, sent, moved>>
      BY <1>4 DEF PeerFin, PeerGone, relay
    <2>2. TypeOK' /\ OnlyConn(c)
      BY <2>1 DEF TypeOK, OnlyConn, Same
    <2>3. Checked(c)' /\ Counted(c)'
      BY <2>1 DEF ConnInv, Checked, Authorised, Counted
    <2>4. ASSUME NEW u \in Sides, Finished(c, u) PROVE Finished(c, u)'
      BY <2>1, <2>4 DEF TypeOK, Finished
    <2>5. EndedFirst(c)'
      BY <2>1, <2>4 DEF ConnInv, EndedFirst
    <2> QED  BY <2>2, <2>3, <2>5 DEF ConnInv
  <1> QED  BY <1>1, <1>2, <1>3, <1>4 DEF Peers

(* handleConnection goes on only with what it has checked, and closes only after a result. *)
LEMMA HandlerKeeps ==
    ASSUME TypeOK, NEW c \in Conns, ConnInv(c), HandleConnection(c)
    PROVE  TypeOK' /\ OnlyConn(c) /\ ConnInv(c)'
  <1> USE ProxyAssumption, SidesFacts
  <1>1. CASE Accept(c)
    <2>1. TypeOK' /\ OnlyConn(c)
      BY <1>1 DEF Accept, relay, TypeOK, OnlyConn, Same
    <2>2. ConnInv(c)'
      BY <1>1 DEF Accept, relay, TypeOK, ConnInv, Checked, Authorised, Counted, EndedFirst, Finished
    <2> QED  BY <2>1, <2>2
  <1>2. ASSUME NEW l \in {"identity", "dial", "closeClient"},
               pc[c] \in {"handshake", "identity", "dial"},
               pc' = [pc EXCEPT ![c] = l], UNCHANGED <<cert, peer, open, relay, sent>>,
               l = "identity" => \E k \in cert[c] : k.valid,
               l = "dial" => Authorised(c)
        PROVE  TypeOK' /\ OnlyConn(c) /\ ConnInv(c)'
    <2>1. TypeOK' /\ OnlyConn(c)
      BY <1>2 DEF relay, TypeOK, OnlyConn, Same
    <2>2. Checked(c)' /\ Counted(c)'
      BY <1>2 DEF relay, TypeOK, ConnInv, Checked, Authorised, Counted
    <2>3. EndedFirst(c)'
      BY <1>2 DEF relay, TypeOK, ConnInv, Checked, EndedFirst
    <2> QED  BY <2>1, <2>2, <2>3 DEF ConnInv
  <1>3. CASE Handshake(c) \/ HandshakeFails(c) \/ DialFails(c)
    BY <1>2, <1>3 DEF Handshake, HandshakeFails, DialFails, GoOn, ReturnFrom
  <1>4. CASE CheckSPIFFE(c)
    <2>1. PICK k \in cert[c] :
             \/ Allowed(k.ids) /\ GoOn(c, "identity", "dial")
             \/ ~Allowed(k.ids) /\ ReturnFrom(c, "identity")
      BY <1>4 DEF CheckSPIFFE
    <2>2. pc[c] = "identity" /\ k.valid
      BY <2>1 DEF GoOn, ReturnFrom, ConnInv, Checked
    <2> QED  BY <1>2, <2>1, <2>2 DEF GoOn, ReturnFrom, Authorised
  <1>5. CASE Dial(c)
    <2>1. TypeOK' /\ OnlyConn(c)
      BY <1>5 DEF Dial, TypeOK, OnlyConn, Same
    <2>2. \A s \in Sides : copy[c][s] = "off" /\ copy'[c][s] = "read"
      BY <1>5 DEF Dial, TypeOK, ConnInv, Checked
    <2>3. Checked(c)' /\ Counted(c)'
      BY <1>5, <2>2 DEF Dial, TypeOK, ConnInv, Checked, Authorised, Counted
    <2>4. /\ pc'[c] = "relay" /\ open'[c] = {"client", "target"} /\ errc'[c] = errc[c]
      BY <1>5 DEF Dial, TypeOK
    <2>5. EndedFirst(c)'
      BY <2>2, <2>4 DEF ConnInv, EndedFirst
    <2> QED  BY <2>1, <2>3, <2>5 DEF ConnInv
  <1>6. CASE FirstResult(c)
    <2>1. TypeOK' /\ OnlyConn(c)
      BY <1>6 DEF FirstResult, TypeOK, OnlyConn, Same
    <2>2. Checked(c)' /\ Counted(c)'
      BY <1>6 DEF FirstResult, TypeOK, ConnInv, Checked, Authorised, Counted
    <2>3. EndedFirst(c)'
      BY <1>6 DEF FirstResult, TypeOK, ConnInv, EndedFirst, Finished
    <2> QED  BY <2>1, <2>2, <2>3 DEF ConnInv
  <1>7. CASE CloseTarget(c) \/ CloseClient(c)
    <2>1. TypeOK' /\ OnlyConn(c)
      <3>1. PICK s \in Sides : open' = [open EXCEPT ![c] = open[c] \ {s}]
        BY <1>7 DEF CloseTarget, CloseClient
      <3>2. PICK l \in {"closeClient", "done"} : pc' = [pc EXCEPT ![c] = l]
        BY <1>7 DEF CloseTarget, CloseClient
      <3>3. UNCHANGED <<cert, peer, copy, errc, sent, moved>>
        BY <1>7 DEF CloseTarget, CloseClient, relay
      <3> QED  BY <3>1, <3>2, <3>3 DEF TypeOK, OnlyConn, Same
    <2>2. /\ UNCHANGED <<cert, peer, copy, errc, sent, moved>>
          /\ pc[c] \in {"closeTarget", "closeClient"} /\ pc'[c] \in {"closeClient", "done"}
          /\ "target" \notin open'[c]
      BY <1>7 DEF CloseTarget, CloseClient, relay, TypeOK, ConnInv, Checked
    <2>3. Checked(c)' /\ Counted(c)'
      BY <2>2 DEF ConnInv, Checked, Authorised, Counted
    <2>4. EndedFirst(c)'
      BY <2>2 DEF ConnInv, EndedFirst, Finished
    <2> QED  BY <2>1, <2>3, <2>4 DEF ConnInv
  <1> QED  BY <1>1, <1>3, <1>4, <1>5, <1>6, <1>7 DEF HandleConnection

(* A copy moves what was sent, and reports by itself only when it is finished. *)
LEMMA CopyKeeps ==
    ASSUME TypeOK, NEW c \in Conns, NEW s \in Sides, ConnInv(c), Copy(c, s) \/ CopyWrite(c, s)
    PROVE  TypeOK' /\ OnlyConn(c) /\ ConnInv(c)'
  <1> USE ProxyAssumption, SidesFacts
  <1>1. ASSUME NEW l \in {"write", "report"}, copy[c][s] \in {"read", "write"},
               copy' = [copy EXCEPT ![c] = [copy[c] EXCEPT ![s] = l]],
               UNCHANGED <<pc, cert, peer, open, errc, sent, moved>>,
               l = "write" => moved[c][s] < sent[c][s],
               l = "report" /\ pc[c] = "relay" => Finished(c, s)
        PROVE  TypeOK' /\ OnlyConn(c) /\ ConnInv(c)'
    <2>1. TypeOK' /\ OnlyConn(c)
      BY <1>1 DEF TypeOK, OnlyConn, Same
    <2>2. Checked(c)' /\ Counted(c)'
      BY <1>1 DEF TypeOK, ConnInv, Checked, Authorised, Counted
    <2>3. \A u \in Sides : Finished(c, u)' <=> Finished(c, u)
      BY <1>1 DEF Finished
    <2>4. \A u \in Sides : copy'[c][u] = IF u = s THEN l ELSE copy[c][u]
      BY <1>1 DEF TypeOK
    <2>5. EndedFirst(c)'
      BY <1>1, <2>3, <2>4 DEF ConnInv, EndedFirst
    <2> QED  BY <2>1, <2>2, <2>5 DEF ConnInv
  <1>2. CASE CopyRead(c, s)
    BY <1>1, <1>2 DEF CopyRead, CopyStep, TypeOK
  <1>3. CASE CopyEof(c, s)
    BY <1>1, <1>3 DEF CopyEof, CopyStep, TypeOK, Finished
  <1>4. CASE CopyFails(c, s)
    <2>1. pc[c] = "relay" => Finished(c, s)
      BY <1>4 DEF CopyFails, ConnInv, EndedFirst, Finished
    <2> QED  BY <1>1, <1>4, <2>1 DEF CopyFails, CopyStep, TypeOK
  <1>5. CASE CopyWrite(c, s)
    <2>1. /\ copy[c][s] = "write"
          /\ copy' = [copy EXCEPT ![c] = [copy[c] EXCEPT ![s] = "read"]]
          /\ moved' = [moved EXCEPT ![c] = [moved[c] EXCEPT ![s] = moved[c][s] + 1]]
          /\ UNCHANGED <<pc, cert, peer, open, errc, sent>>
      BY <1>5 DEF CopyWrite, CopyStep
    <2>2. moved[c][s] < sent[c][s]
      BY <2>1 DEF ConnInv, Counted
    <2>3. TypeOK' /\ OnlyConn(c)
      BY <2>1, <2>2 DEF TypeOK, OnlyConn, Same
    <2>4. Checked(c)' /\ Counted(c)'
      BY <2>1, <2>2 DEF TypeOK, ConnInv, Checked, Authorised, Counted
    <2>5. \A u \in Sides : copy'[c][u] # copy[c][u] => u = s
      BY <2>1 DEF TypeOK
    <2>6. \A u \in Sides : u # s => (Finished(c, u)' <=> Finished(c, u))
      BY <2>1 DEF TypeOK, Finished
    <2>7. copy'[c][s] = "read"
      BY <2>1 DEF TypeOK
    <2>8. EndedFirst(c)'
      BY <2>1, <2>5, <2>6, <2>7 DEF ConnInv, EndedFirst
    <2> QED  BY <2>3, <2>4, <2>8 DEF ConnInv
  <1>6. CASE CopyReport(c, s)
    <2>1. /\ copy[c][s] = "report" /\ errc[c] < ErrcCap
          /\ copy' = [copy EXCEPT ![c] = [copy[c] EXCEPT ![s] = "done"]]
          /\ errc' = [errc EXCEPT ![c] = errc[c] + 1]
          /\ UNCHANGED <<pc, cert, peer, open, sent, moved>>
      BY <1>6 DEF CopyReport
    <2>2. TypeOK' /\ OnlyConn(c)
      <3>1. errc' \in [Conns -> 0 .. ErrcCap]
        BY <2>1 DEF TypeOK
      <3>2. copy' \in [Conns -> [Sides -> {"off", "read", "write", "report", "done"}]]
        BY <2>1 DEF TypeOK
      <3> QED  BY <2>1, <3>1, <3>2 DEF TypeOK, OnlyConn, Same
    <2>3. Checked(c)' /\ Counted(c)'
      BY <2>1 DEF TypeOK, ConnInv, Checked, Authorised, Counted
    <2>4. \A u \in Sides : Finished(c, u)' <=> Finished(c, u)
      BY <2>1 DEF Finished
    <2>5. \A u \in Sides : copy'[c][u] = IF u = s THEN "done" ELSE copy[c][u]
      BY <2>1 DEF TypeOK
    <2>6. EndedFirst(c)'
      BY <2>1, <2>4, <2>5 DEF ConnInv, EndedFirst
    <2> QED  BY <2>2, <2>3, <2>6 DEF ConnInv
  <1> QED  BY <1>2, <1>3, <1>4, <1>5, <1>6 DEF Copy

LEMMA StepInvariant == IInv /\ [Next]_vars => IInv'
  <1> SUFFICES ASSUME IInv, [Next]_vars PROVE IInv'
    OBVIOUS
  <1>1. ASSUME NEW c \in Conns,
               HandleConnection(c) \/ Peers(c) \/ \E s \in Sides : Copy(c, s) \/ CopyWrite(c, s)
        PROVE  IInv'
    <2>1. TypeOK' /\ OnlyConn(c) /\ ConnInv(c)'
      BY <1>1, PeersKeep, HandlerKeeps, CopyKeeps DEF IInv, ConnInv
    <2>2. \A d \in Conns : ConnInv(d)'
      BY <2>1, SameKeeps DEF IInv, ConnInv, OnlyConn
    <2> QED  BY <2>1, <2>2 DEF IInv, ConnInv
  <1>2. CASE UNCHANGED vars
    <2>1. TypeOK' /\ \A d \in Conns : Same(d)
      BY <1>2 DEF vars, relay, IInv, TypeOK, Same
    <2> QED  BY <2>1, SameKeeps DEF IInv, ConnInv
  <1> QED  BY <1>1, <1>2 DEF Next

(* No bytes pass between the target and a client that was not authenticated and *)
(* authorised first, for any allow list (mtls.go lines 71-110).                 *)
THEOREM AuthorisedOnly == Spec => []OnlyAuthorised
  <1>1. IInv => OnlyAuthorised
    <2> SUFFICES ASSUME IInv, NEW c \in Conns,
                        "target" \in open[c] \/ \E s \in Sides : moved[c][s] > 0
                 PROVE  \E k \in cert[c] : /\ k.valid
                                           /\ \/ AllowedSPIFFEIDs = {}
                                              \/ k.ids \cap AllowedSPIFFEIDs # {}
      BY DEF IInv, OnlyAuthorised
    <2>1. Authorised(c)
      BY DEF IInv, TypeOK, Checked, Counted
    <2> QED  BY <2>1 DEF Authorised, Allowed
  <1> QED  BY <1>1, InitInvariant, StepInvariant, PTL DEF Spec

(* The proxy hangs up on a side that is still talking only when it has given it all the  *)
(* other side sent, or that other side vanished (mtls.go lines 124-135).                 *)
THEOREM NothingCutOff == Spec => []HungUpAfterAll
  <1>1. IInv => HungUpAfterAll
    <2> SUFFICES ASSUME IInv, NEW c \in Conns, NEW s \in Sides,
                        copy[c][s] # "off", Other(s) \notin open[c],
                        peer[c][Other(s)] = "open", peer[c][s] # "gone"
                 PROVE  moved[c][s] = sent[c][s]
      BY DEF HungUpAfterAll
    <2>1. pc[c] \in {"closeTarget", "closeClient", "done"}
      BY SidesFacts DEF IInv, Checked, EndedFirst
    <2>2. PICK u \in Sides : copy[c][u] = "done" /\ Finished(c, u)
      BY <2>1 DEF IInv, EndedFirst
    <2>3. u = s
      BY <2>2, SidesFacts DEF Finished
    <2> QED  BY <2>2, <2>3 DEF Finished
  <1> QED  BY <1>1, InitInvariant, StepInvariant, PTL DEF Spec
=============================================================================
