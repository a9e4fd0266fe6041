-------------------------- MODULE XdpTrafficProofs -------------------------
(***************************************************************************)
(* Proofs about XdpTraffic, for any peers, ports and windows, and about    *)
(* EgressFilter, for any payload.                                          *)
(***************************************************************************)
EXTENDS XdpTraffic, FiniteSetTheorems, TLAPS

CONSTANT MaxPayloadScan  \* of phantom_egress_prog

INSTANCE EgressFilter

IsWord(n) == n \in Nat /\ n <= 65535

-----------------------------------------------------------------------------
(* Ones' complement arithmetic: 65536 counts as 1. *)

(* Two foldings bring a sum of at most four words into 16 bits and keep its value. *)
LEMMA FoldTwice ==
    ASSUME NEW n \in Nat, n <= 262140
    PROVE  /\ IsWord(Fold(Fold(n)))
           /\ \E k \in Nat : n = Fold(Fold(n)) + 65535 * k
<1> DEFINE q == n \div 65536
           r == n % 65536
           m == Fold(n)
<1>1. q \in Nat /\ q <= 3 /\ r \in Nat /\ r <= 65535 /\ n = 65536 * q + r
  OBVIOUS
<1>2. m = r + q  BY DEF Fold
<1> HIDE DEF q, r, m
<1>3. CASE m < 65536
  <2>1. Fold(m) = m  BY <1>1, <1>2, <1>3 DEF Fold
  <2>2. n = Fold(m) + 65535 * q  BY <1>1, <1>2, <2>1
  <2> QED  BY <1>1, <1>2, <1>3, <2>1, <2>2 DEF IsWord, m
<1>4. CASE m >= 65536
  <2>1. Fold(m) = m - 65535  BY <1>1, <1>2, <1>4 DEF Fold
  <2>2. n = Fold(m) + 65535 * (q + 1)  BY <1>1, <1>2, <2>1
  <2>3. IsWord(Fold(m)) /\ q + 1 \in Nat  BY <1>1, <1>2, <1>4, <2>1 DEF IsWord
  <2> QED  BY <2>2, <2>3 DEF m
<1> QED  BY <1>1, <1>2, <1>3, <1>4

(* A sender's checksum is accepted by the receiver. *)
LEMMA ChecksumAccepted ==
    ASSUME NEW n \in Nat, n > 0, n <= 262140
    PROVE  IsWord(Checksum(n)) /\ Accepted(n + Checksum(n))
<1> DEFINE f == Fold(Fold(n))
<1>1. IsWord(f) /\ \E k \in Nat : n = f + 65535 * k  BY FoldTwice
<1>2. Checksum(n) = 65535 - f  BY DEF Checksum, Max16
<1> HIDE DEF f
<1>3. PICK k \in Nat : n = f + 65535 * k  BY <1>1
<1>4. n + Checksum(n) = 65535 * (k + 1)  BY <1>1, <1>2, <1>3 DEF IsWord
<1>5. (65535 * (k + 1)) % 65535 = 0  BY <1>3
<1> QED  BY <1>1, <1>2, <1>4, <1>5 DEF Max16, IsWord, Accepted

(* csum_replace2 keeps a valid sum valid when a word changes, whatever the old and new     *)
(* words are, at the edges of the 16 bits too (phantom.c 91-100).                          *)
THEOREM ReplacedChecksumAccepted ==
    ASSUME NEW rest \in Nat \ {0}, NEW sum, NEW old, NEW new,
           IsWord(sum), IsWord(old), IsWord(new), Accepted(rest + old + sum)
    PROVE  /\ IsWord(CsumReplace2(sum, old, new))
           /\ Accepted(rest + new + CsumReplace2(sum, old, new))
<1> DEFINE n == (65535 - sum) + (65535 - old) + new
           f == Fold(Fold(n))
           c == CsumReplace2(sum, old, new)
<1>1. n \in Nat /\ n <= 262140  BY DEF IsWord
<1>2. IsWord(f) /\ \E k \in Nat : n = f + 65535 * k  BY <1>1, FoldTwice
<1>3. c = 65535 - f  BY DEF CsumReplace2, Max16
<1>4. n = 131070 - sum - old + new  BY DEF IsWord
<1> HIDE DEF n, f, c
<1>5. PICK k \in Nat : n = f + 65535 * k  BY <1>2
<1>6. IsWord(c)  BY <1>2, <1>3 DEF IsWord
<1>7. (rest + old + sum) % 65535 = 0  BY DEF Accepted, Max16
<1>8. PICK j \in Nat : rest + old + sum = 65535 * j
  BY <1>7 DEF IsWord
<1>9. rest + new + c = 65535 * (j + k - 1)
  BY <1>2, <1>3, <1>4, <1>5, <1>8 DEF IsWord
<1>10. rest + new + c > 0  BY <1>6 DEF IsWord
<1>11. (65535 * (j + k - 1)) % 65535 = 0  BY <1>5, <1>8
<1> QED  BY <1>6, <1>9, <1>10, <1>11 DEF Accepted, Max16, c

-----------------------------------------------------------------------------
(* Segments. *)

Flags == (UNION Scans) \cup {"SYN", "ACK", "RST"}

Segments == [src : Peers, dest : TrafficPorts, flags : SUBSET Flags, window : Nat, ttl : Nat,
             check : Nat, ipcheck : Nat]

(* A segment with 16-bit fields whose checksums a receiver accepts. *)
Sound(s) ==
    /\ s \in Segments
    /\ IsWord(s.dest) /\ IsWord(s.window) /\ IsWord(s.check) /\ IsWord(s.ipcheck) /\ s.ttl <= 255
    /\ TcpValid(s) /\ IpValid(s)

LEMMA HandshakeFlags == \A x \in {"SYN", "ACK", "RST"} : x \in Flags
BY DEF Flags

LEMMA RangeOfWords == ASSUME NEW M \in Nat, NEW n PROVE n \in 0..M <=> n \in Nat /\ n <= M
OBVIOUS

LEMMA PortsAreWords == \A q \in TrafficPorts : IsWord(q) /\ q > 0
<1>1. Max16 \in Nat  BY DEF Max16
<1>2. \A q \in TrafficPorts : q \in 1..Max16  BY TrafficAssumption DEF TrafficAssumption
<1>3. \A q \in TrafficPorts : q \in Nat /\ q > 0 /\ q <= Max16  BY <1>1, <1>2
<1> QED  BY <1>3 DEF IsWord, Max16

LEMMA WindowsAreWords == \A w \in Windows : IsWord(w)
<1>1. Max16 \in Nat  BY DEF Max16
<1>2. \A w \in Windows : w \in Nat /\ w <= Max16
  BY <1>1, TrafficAssumption, RangeOfWords DEF TrafficAssumption
<1> QED  BY <1>2 DEF IsWord, Max16

(* What a sender sends is sound. *)
LEMMA SegmentSound ==
    ASSUME NEW p \in Peers, NEW q \in TrafficPorts, NEW f \in SUBSET Flags, NEW w, IsWord(w),
           NEW t \in Nat, t <= 255
    PROVE  Sound(Segment(p, q, f, w, t))
<1>1. IsWord(q)  BY PortsAreWords
<1>2. 6 + q + w \in Nat /\ 6 + q + w > 0 /\ 6 + q + w <= 262140  BY <1>1 DEF IsWord
<1>3. IsWord(Checksum(6 + q + w)) /\ Accepted(6 + q + w + Checksum(6 + q + w))
  BY <1>2, ChecksumAccepted
<1>4. 6 + t * 256 \in Nat /\ 6 + t * 256 > 0 /\ 6 + t * 256 <= 262140  OBVIOUS
<1>5. IsWord(Checksum(6 + t * 256)) /\ Accepted(6 + t * 256 + Checksum(6 + t * 256))
  BY <1>4, ChecksumAccepted
<1> QED  BY <1>1, <1>3, <1>5 DEF Segment, Sound, Segments, TcpValid, IpValid, Rest, IsWord

(* The redirection to the honeypot keeps a segment sound. *)
LEMMA RedirectSound == ASSUME NEW s, Sound(s) PROVE Sound(Redirect(s)) /\ Redirect(s).dest = HONEYPOT_PORT
<1> DEFINE c == CsumReplace2(s.check, s.dest, HONEYPOT_PORT)
<1>1. HONEYPOT_PORT \in TrafficPorts /\ IsWord(HONEYPOT_PORT)  BY PortsAreWords DEF TrafficPorts
<1>2. (6 + s.window) + s.dest + s.check = 6 + s.dest + s.window + s.check  BY DEF Sound, IsWord
<1>3. 6 + s.window \in Nat \ {0}  BY DEF Sound, IsWord
<1>4. Accepted((6 + s.window) + s.dest + s.check)  BY <1>2 DEF Sound, TcpValid, Rest
<1>5. IsWord(c) /\ Accepted((6 + s.window) + HONEYPOT_PORT + c)
  BY <1>1, <1>3, <1>4, ReplacedChecksumAccepted DEF Sound
<1> HIDE DEF c
<1>6. Accepted(6 + HONEYPOT_PORT + s.window + c)
  <2>1. (6 + s.window) + HONEYPOT_PORT + c = 6 + HONEYPOT_PORT + s.window + c
    BY <1>1, <1>5 DEF Sound, IsWord
  <2> QED  BY <1>5, <2>1
<1>7. Redirect(s) = [s EXCEPT !.check = c, !.dest = HONEYPOT_PORT]  BY DEF Redirect, c
<1>8. Redirect(s) \in Segments
  <2>1. s \in Segments /\ c \in Nat  BY <1>5 DEF Sound, IsWord
  <2> QED  BY <1>1, <1>7, <2>1 DEF Segments
<1>9. /\ Redirect(s).dest = HONEYPOT_PORT /\ Redirect(s).check = c
      /\ Redirect(s).window = s.window /\ Redirect(s).ttl = s.ttl /\ Redirect(s).ipcheck = s.ipcheck
  BY <1>7 DEF Sound, Segments
<1> QED  BY <1>1, <1>5, <1>6, <1>8, <1>9 DEF Sound, TcpValid, IpValid, Rest

(* The new personality keeps a segment sound. *)
LEMMA MutateSound ==
    ASSUME NEW s, Sound(s)
    PROVE  Sound(MutateOsPersonality(s)) /\ MutateOsPersonality(s).dest = s.dest
<1> DEFINE os == (SourcePort[s.src] % 4) + 1
           t == NewTtl[os]
           w == NewWindow[os]
           ic == IF s.ttl = t THEN s.ipcheck ELSE CsumReplace2(s.ipcheck, s.ttl * 256, t * 256)
           c == IF s.window = w THEN s.check ELSE CsumReplace2(s.check, s.window, w)
           m == MutateOsPersonality(s)
<1>1. os \in 1..4
  <2>1. Max16 \in Nat  BY DEF Max16
  <2>2. s.src \in Peers  BY DEF Sound, Segments
  <2>3. SourcePort[s.src] \in 0..Max16  BY <2>2, TrafficAssumption DEF TrafficAssumption
  <2>4. SourcePort[s.src] \in Nat  BY <2>1, <2>3
  <2> QED  BY <2>4
<1>2. t \in Nat /\ t <= 255 /\ IsWord(t * 256)  BY <1>1 DEF NewTtl, IsWord
<1>3. IsWord(w)  BY <1>1 DEF NewWindow, IsWord
<1>4. m = [s EXCEPT !.ttl = t, !.window = w, !.ipcheck = ic, !.check = c]
  BY DEF MutateOsPersonality
<1> HIDE DEF os, t, w, m
<1>5. IsWord(ic) /\ Accepted(6 + t * 256 + ic)
  <2>1. IsWord(s.ttl * 256) /\ IsWord(s.ipcheck)  BY DEF Sound, Segments, IsWord
  <2>2. Accepted(6 + s.ttl * 256 + s.ipcheck)  BY DEF Sound, IpValid, Rest
  <2> QED  BY <1>2, <2>1, <2>2, ReplacedChecksumAccepted
<1>6. IsWord(c) /\ Accepted(6 + s.dest + w + c)
  <2>1. 6 + s.dest \in Nat \ {0}  BY DEF Sound, IsWord
  <2>2. Accepted((6 + s.dest) + s.window + s.check)  BY DEF Sound, TcpValid, Rest
  <2> QED  BY <1>3, <2>1, <2>2, ReplacedChecksumAccepted DEF Sound
<1> HIDE DEF ic, c
<1>7. m \in Segments
  <2>1. s \in Segments /\ t \in Nat /\ w \in Nat /\ ic \in Nat /\ c \in Nat
    BY <1>2, <1>3, <1>5, <1>6 DEF Sound, IsWord
  <2> QED  BY <1>4, <2>1 DEF Segments
<1>8. /\ m.dest = s.dest /\ m.ttl = t /\ m.window = w /\ m.ipcheck = ic /\ m.check = c
  BY <1>4 DEF Sound, Segments
<1> QED  BY <1>2, <1>3, <1>5, <1>6, <1>7, <1>8 DEF Sound, TcpValid, IpValid, Rest, m

-----------------------------------------------------------------------------
(* What strangers may reach, and the inductive invariant. *)

(* The ports a peer may hear from. *)
Reach(p, q) ==
    \/ q \in (Fake \ Critical) \cup {HONEYPOT_PORT} \cup Ephemeral
    \/ q \in Critical /\ p \in granted

Trap(s) ==
    \/ s.dest = HONEYPOT_PORT
    \/ s.dest \in Fake \ Critical
    \/ s.dest \in Critical /\ s.src \in granted

GrantsOK == white \subseteq granted /\ granted \subseteq Peers
InboundOK == \A s \in inbound : Sound(s)
ArrivedOK == \A s \in arrived : Sound(s)
PeerOK ==
    peer \in [Peers -> [state : {"closed", "synSent", "synRcvd", "established", "reset"},
                       port : TrafficPorts \cup {0}]]
HostOK == host \in [Peers -> [TrafficPorts -> {"none", "synSent", "synRcvd", "established"}]]

(* The host answers, or opens a connection, only where strangers may look. *)
OutboundOK ==
    \A r \in outbound : r.dst \in Peers /\ r.source \in TrafficPorts /\ Reach(r.dst, r.source)

IInv == /\ GrantsOK /\ InboundOK /\ ArrivedOK /\ PeerOK /\ HostOK
        /\ OutboundOK /\ OnlyTrapsReached

LEMMA InitEstablishes == TrafficInit => IInv
<1> SUFFICES ASSUME TrafficInit PROVE IInv  OBVIOUS
<1>1. PeerOK  BY DEF TrafficInit, PeerOK, Closed
<1>2. HostOK  BY DEF TrafficInit, HostOK
<1> QED
  BY <1>1, <1>2 DEF TrafficInit, IInv, GrantsOK, InboundOK, ArrivedOK, OutboundOK, OnlyTrapsReached

(* Every verdict of phantom_prog on a sound segment: a sound segment for a trap, or none. *)
LEMMA ProgSound ==
    ASSUME GrantsOK, NEW s, Sound(s), NEW t \in PhantomProg(s)
    PROVE  Sound(t) /\ Trap(t)
<1>1. CASE s.dest = HONEYPOT_PORT
  <2>1. t = s  BY <1>1 DEF PhantomProg
  <2> QED  BY <1>1, <2>1 DEF Trap
<1>2. CASE s.dest # HONEYPOT_PORT /\ s.dest \in Critical
  <2>1. t = s /\ s.src \in white  BY <1>2 DEF PhantomProg
  <2> QED  BY <1>2, <2>1 DEF GrantsOK, Trap
<1>3. CASE s.dest # HONEYPOT_PORT /\ s.dest \notin Critical /\ s.dest \in Fake
  <2>1. t = s  BY <1>3 DEF PhantomProg
  <2> QED  BY <1>3, <2>1 DEF Trap
<1>4. CASE s.dest # HONEYPOT_PORT /\ s.dest \notin Critical /\ s.dest \notin Fake
  <2>1. t = MutateOsPersonality(Redirect(s))  BY <1>4 DEF PhantomProg
  <2> QED  BY <2>1, RedirectSound, MutateSound DEF Trap
<1> QED  BY <1>1, <1>2, <1>3, <1>4

(* The host's stack answers only where the segment came. *)
LEMMA HostReceiveKeeps ==
    ASSUME HostOK, OutboundOK, NEW t, Sound(t), Trap(t), HostReceive(t), granted' = granted
    PROVE  HostOK' /\ OutboundOK'
<1>1. t.src \in Peers /\ t.dest \in TrafficPorts  BY DEF Sound, Segments
<1>2. Reach(t.src, t.dest)  BY DEF Trap, Reach
<1> DEFINE Becomes(state) == host' = [host EXCEPT ![t.src][t.dest] = state]
           Answers(f) == outbound' = outbound \cup {Reply(t, f)}
<1>3. \/ UNCHANGED host
      \/ \E state \in {"none", "synRcvd", "established"} : Becomes(state)
  BY DEF HostReceive
<1>4. \/ UNCHANGED outbound
      \/ \E f : Answers(f)
  BY DEF HostReceive
<1>5. HostOK'  BY <1>1, <1>3 DEF HostOK
<1>6. OutboundOK'
  <2>1. CASE UNCHANGED outbound  BY <2>1 DEF OutboundOK, Reach
  <2>2. ASSUME NEW f, Answers(f) PROVE OutboundOK'
    <3>1. Reply(t, f).dst = t.src /\ Reply(t, f).source = t.dest  BY DEF Reply
    <3> QED  BY <1>1, <1>2, <2>2, <3>1 DEF OutboundOK, Reach
  <2> QED  BY <1>4, <2>1, <2>2
<1> QED  BY <1>5, <1>6

(* Every step keeps the invariant. *)
LEMMA StepPreserves == IInv /\ [TrafficNext]_trafficVars => IInv'
<1> SUFFICES ASSUME IInv, [TrafficNext]_trafficVars PROVE IInv'  OBVIOUS
<1> USE DEF IInv
<1>0. CASE UNCHANGED trafficVars
  BY <1>0 DEF trafficVars, GrantsOK, InboundOK, ArrivedOK, PeerOK, HostOK, OutboundOK,
     OnlyTrapsReached, Reach
<1>1. ASSUME NEW p \in Peers, Grant(p) \/ Expire(p) PROVE IInv'
  <2>1. GrantsOK' /\ granted \subseteq granted'  BY <1>1 DEF Grant, Expire, GrantsOK
  <2>2. UNCHANGED <<inbound, outbound, peer, host, arrived>>  BY <1>1 DEF Grant, Expire
  <2>3. OutboundOK' /\ OnlyTrapsReached'
    BY <2>1, <2>2 DEF OutboundOK, OnlyTrapsReached, Reach
  <2> QED  BY <2>1, <2>2, <2>3 DEF InboundOK, ArrivedOK, PeerOK, HostOK
<1>2. ASSUME NEW p \in Peers, NEW q \in TrafficPorts, Dial(p, q) PROVE IInv'
  <2>1. PICK w \in Windows : inbound' = inbound \cup {Segment(p, q, {"SYN"}, w, 57)}
    BY <1>2 DEF Dial
  <2>2. Sound(Segment(p, q, {"SYN"}, w, 57))
    <3>1. {"SYN"} \in SUBSET Flags  BY HandshakeFlags
    <3> QED  BY <3>1, SegmentSound, WindowsAreWords
  <2>3. InboundOK'  BY <2>1, <2>2 DEF InboundOK
  <2>4. PeerOK'  BY <1>2 DEF Dial, PeerOK, Reach
  <2> QED
    BY <1>2, <2>3, <2>4 DEF Dial, GrantsOK, ArrivedOK, HostOK, OutboundOK, OnlyTrapsReached, Reach
<1>3. ASSUME NEW p \in Peers, NEW q \in TrafficPorts, NEW f \in Scans, Probe(p, q, f) PROVE IInv'
  <2>1. Sound(Default(p, q, f))
    <3>1. f \in SUBSET Flags /\ IsWord(1024)  BY DEF Flags, IsWord
    <3> QED  BY <3>1, SegmentSound DEF Default
  <2>2. InboundOK'  BY <1>3, <2>1 DEF Probe, InboundOK
  <2> QED
    BY <1>3, <2>2 DEF Probe, GrantsOK, ArrivedOK, PeerOK, HostOK, OutboundOK,
       OnlyTrapsReached, Reach
<1>4. ASSUME NEW p \in Peers, NEW e \in Ephemeral, HostDial(p, e) PROVE IInv'
  <2>1. e \in TrafficPorts /\ Reach(p, e)  BY DEF TrafficPorts, Reach
  <2>2. HostOK'  BY <1>4, <2>1 DEF HostDial, HostOK
  <2>3. OutboundOK'  BY <1>4, <2>1 DEF HostDial, OutboundOK, Reach
  <2> QED
    BY <1>4, <2>2, <2>3 DEF HostDial, GrantsOK, InboundOK, ArrivedOK, PeerOK,
       OnlyTrapsReached, Reach
<1>5. ASSUME NEW s \in inbound, Deliver(s) PROVE IInv'
  <2>1. Sound(s)  BY DEF InboundOK
  <2>2. \A t \in PhantomProg(s) : Sound(t) /\ Trap(t)  BY <2>1, ProgSound
  <2>3. UNCHANGED <<white, granted, inbound, peer>> /\ arrived' = arrived \cup PhantomProg(s)
    BY <1>5 DEF Deliver
  <2>4. ArrivedOK' /\ OnlyTrapsReached'
    BY <2>2, <2>3 DEF ArrivedOK, OnlyTrapsReached, Trap
  <2>5. HostOK' /\ OutboundOK'
    <3>1. CASE UNCHANGED <<host, outbound>>  BY <2>3, <3>1 DEF HostOK, OutboundOK, Reach
    <3>2. ASSUME NEW t \in PhantomProg(s), HostReceive(t) PROVE HostOK' /\ OutboundOK'
      BY <2>2, <2>3, <3>2, HostReceiveKeeps
    <3> QED  BY <1>5, <3>1, <3>2 DEF Deliver
  <2> QED  BY <2>3, <2>4, <2>5 DEF GrantsOK, InboundOK, PeerOK, Reach
<1>6. ASSUME NEW r \in outbound, PeerReceive(r) PROVE IInv'
  <2>1. r.dst \in Peers /\ r.source \in TrafficPorts /\ Reach(r.dst, r.source)
    BY DEF OutboundOK
  <2>2. UNCHANGED <<white, granted, outbound, host, arrived>>  BY <1>6 DEF PeerReceive
  <2>3. InboundOK'
    <3>1. \/ UNCHANGED inbound
          \/ \E f \in {{"SYN", "ACK"}, {"ACK"}, {"RST"}} :
                inbound' = inbound \cup {Default(r.dst, r.source, f)}
      BY <1>6 DEF PeerReceive
    <3>2. \A f \in {{"SYN", "ACK"}, {"ACK"}, {"RST"}} : Sound(Default(r.dst, r.source, f))
      <4>1. {"SYN", "ACK"} \in SUBSET Flags /\ {"ACK"} \in SUBSET Flags /\ {"RST"} \in SUBSET Flags
        BY HandshakeFlags
      <4>2. IsWord(1024)  BY DEF IsWord
      <4> QED  BY <2>1, <4>1, <4>2, SegmentSound DEF Default
    <3> QED  BY <3>1, <3>2 DEF InboundOK
  <2>4. \/ UNCHANGED peer
        \/ \E state \in {"synRcvd", "established", "reset"} :
              peer' = [peer EXCEPT ![r.dst] = [state |-> state, port |-> r.source]]
    BY <1>6 DEF PeerReceive
  <2>5. PeerOK'  BY <2>1, <2>4 DEF PeerOK
  <2> QED
    BY <2>2, <2>3, <2>5 DEF GrantsOK, ArrivedOK, HostOK, OutboundOK, OnlyTrapsReached, Reach
<1> QED  BY <1>0, <1>1, <1>2, <1>3, <1>4, <1>5, <1>6 DEF TrafficNext

LEMMA Invariant == TrafficSpec => []IInv
BY InitEstablishes, StepPreserves, PTL DEF TrafficSpec

-----------------------------------------------------------------------------
(* Every reachable state is well typed: all fields stay 16-bit numbers (phantom.c 91-126). *)
THEOREM TrafficTypeCorrect == TrafficSpec => []TrafficTypeOK
<1>1. IInv => TrafficTypeOK
  <2> SUFFICES ASSUME IInv PROVE TrafficTypeOK  OBVIOUS
  <2>1. Max16 \in Nat /\ \A n : IsWord(n) => n \in Nat /\ n <= Max16  BY DEF Max16, IsWord
  <2>2. \A n : IsWord(n) => n \in 0..Max16  BY <2>1, RangeOfWords
  <2>3. \A s \in inbound \cup arrived : Sound(s)  BY DEF IInv, InboundOK, ArrivedOK
  <2>4. ASSUME NEW s \in inbound \cup arrived
        PROVE  /\ s.src \in Peers /\ s.dest \in TrafficPorts
               /\ s.check \in 0..Max16 /\ s.ipcheck \in 0..Max16 /\ s.window \in 0..Max16
               /\ s.ttl \in 0..255
    BY <2>2, <2>3 DEF Sound, Segments
  <2> QED  BY <2>4 DEF IInv, TrafficTypeOK, GrantsOK, OutboundOK, PeerOK, HostOK
<1> QED  BY <1>1, Invariant, PTL

(* A critical port sees only segments of whitelisted addresses and an ordinary port none   *)
(* at all, for any lists of ports (phantom.c 247-294).                                     *)
THEOREM TrapsOnly == TrafficSpec => []OnlyTrapsReached
<1>1. IInv => OnlyTrapsReached  BY DEF IInv
<1> QED  BY <1>1, Invariant, PTL

(* To an address that was never whitelisted the host never answers from a critical port,   *)
(* for any lists of ports and any segments (phantom.c 252-262).                            *)
THEOREM DeadToStrangers == TrafficSpec => []LooksDead
<1>1. IInv => LooksDead
  <2> SUFFICES ASSUME IInv, NEW r \in outbound, r.source \in Critical PROVE r.dst \in granted
    BY DEF LooksDead
  <2>1. Reach(r.dst, r.source)  BY DEF IInv, OutboundOK
  <2>2. r.source # HONEYPOT_PORT /\ r.source \notin Ephemeral
    BY TrafficAssumption DEF TrafficAssumption
  <2> QED  BY <2>1, <2>2 DEF Reach
<1> QED  BY <1>1, Invariant, PTL

(* phantom_prog never hands the host a segment with a bad checksum, for any ports, windows *)
(* and source ports (phantom.c 91-126, 286-292).                                           *)
THEOREM RewritesKeepChecksums == TrafficSpec => []ChecksumsValid
<1>1. IInv => ChecksumsValid  BY DEF IInv, ArrivedOK, Sound, ChecksumsValid
<1> QED  BY <1>1, Invariant, PTL

-----------------------------------------------------------------------------
(* What the egress filter finds, for payloads of every length and content. *)

(* At most 64 characters are counted, and all of the first 64 when all are Base64. *)
LEMMA CountBounds ==
    ASSUME NEW p \in Payloads, NEW n \in Nat
    PROVE  /\ Base64Count(p, n) \in Nat
           /\ Base64Count(p, n) <= 64
           /\ n > 64 /\ 0 .. 63 \subseteq p.base64 => Base64Count(p, n) = 64
  <1> DEFINE S == {i \in p.base64 : i < n /\ i < 64}
  <1>1. S \subseteq 0 .. 63
    BY DEF Payloads
  <1>2. IsFiniteSet(0 .. 63) /\ Cardinality(0 .. 63) = 64
    <2>1. \A a, b \in Int : /\ IsFiniteSet(a .. b)
                            /\ Cardinality(a .. b) = IF a > b THEN 0 ELSE b - a + 1
      BY FS_Interval, Zenon
    <2>2. 0 \in Int /\ 63 \in Int
      OBVIOUS
    <2>3. IsFiniteSet(0 .. 63) /\ Cardinality(0 .. 63) = IF 0 > 63 THEN 0 ELSE 63 - 0 + 1
      BY <2>1, <2>2, Zenon
    <2> QED  BY <2>3
  <1>3. Cardinality(S) <= 64 /\ IsFiniteSet(S)
    <2> HIDE DEF S
    <2>1. IsFiniteSet(S) /\ Cardinality(S) <= Cardinality(0 .. 63)
      BY <1>1, <1>2, FS_Subset
    <2> QED  BY <1>2, <2>1
  <1>4. Cardinality(S) \in Nat
    BY <1>3, FS_CardinalityType
  <1>5. n > 64 /\ 0 .. 63 \subseteq p.base64 => S = 0 .. 63
    BY <1>1
  <1> QED  BY <1>2, <1>3, <1>4, <1>5 DEF Base64Count

(* Base64 is found in payloads of 65, 66 and 67 bytes only: the loop stops *)
(* counting after 64 bytes while the threshold keeps growing with the      *)
(* length (phantom_egress.c lines 62-71).                                  *)
THEOREM Base64Window ==
    ASSUME NEW p \in Payloads, NEW port, MaxPayloadScan \in Nat,
           PhantomEgressProg(port, p) = 3
    PROVE  Scanned(p) \in 65 .. 67
  <1>1. Scanned(p) \in Nat
    BY DEF Scanned, Payloads
  <1>2. Base64Count(p, Scanned(p)) \in Nat /\ Base64Count(p, Scanned(p)) <= 64
    BY <1>1, CountBounds
  <1>3. IsBase64(p, Scanned(p))
    BY DEF PhantomEgressProg, DetectSuspiciousPattern
  <1> QED  BY <1>1, <1>2, <1>3 DEF IsBase64

(* In that window a payload of nothing but Base64 is found, unless it      *)
(* begins like a password file or a key, which are looked for first.       *)
THEOREM Base64Found ==
    ASSUME NEW p \in Payloads, MaxPayloadScan \in Nat, MaxPayloadScan >= 67,
           p.len \in 65 .. 67, 0 .. 63 \subseteq p.base64,
           p.starts \notin {"passwd", "privatekey"}
    PROVE  PhantomEgressProg(HONEYPOT_PORT, p) = 3
  <1>1. Scanned(p) = p.len /\ p.len \in Nat
    BY DEF Scanned
  <1>2. Base64Count(p, p.len) = 64
    BY <1>1, CountBounds
  <1>3. IsBase64(p, p.len)
    BY <1>1, <1>2 DEF IsBase64
  <1> QED  BY <1>1, <1>3 DEF PhantomEgressProg, DetectSuspiciousPattern

(* The three fixed patterns are found in every payload of the honeypot that begins with *)
(* one and is long enough to hold it, however long it is (lines 54-60 and 73-75).       *)
THEOREM PatternsFound ==
    ASSUME NEW p \in Payloads, MaxPayloadScan \in Nat, MaxPayloadScan >= 11,
           p.len >= 11, p.starts # "none"
    PROVE  PhantomEgressProg(HONEYPOT_PORT, p) # 0
  <1>1. Scanned(p) \in Nat /\ Scanned(p) >= 11 /\ Scanned(p) <= MaxPayloadScan
    BY DEF Scanned, Payloads
  <1>2. p.starts \in {"passwd", "privatekey", "insert"}
    BY DEF Payloads, Patterns
  <1> QED  BY <1>1, <1>2 DEF PhantomEgressProg, DetectSuspiciousPattern
=============================================================================
