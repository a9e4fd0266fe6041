---------------------------- MODULE XdpTraffic -----------------------------
(***************************************************************************)
(* TCP through phantom_prog (internal/ebpf/programs/phantom.c): which      *)
(* segments reach the host, to which port and with which checksums, and    *)
(* what becomes of connections.                                            *)
(*                                                                         *)
(* The network keeps every segment and may deliver it late, repeatedly or  *)
(* never.  The TCP stacks of the peers and of the host are external: only  *)
(* the handshake is kept.  A peer is one address and source port with one  *)
(* connection.  Fields are 16-bit numbers in host order; the sums do not   *)
(* depend on the byte order.  Statistics counters are left out.            *)
(***************************************************************************)
EXTENDS Integers, FiniteSets

CONSTANTS
    Peers,         \* remote addresses
    SourcePort,    \* the source port of each peer
    Critical,      \* CriticalPortDefinitions
    Fake,          \* FakePortDefinitions
    HONEYPOT_PORT, \* 9999
    Ordinary,      \* ports in neither list that peers try
    Ephemeral,     \* local ports of connections the host opens
    Served,        \* ports the host listens on
    Windows,       \* window fields peers send
    Scans,         \* flag combinations of single segments peers send
    MaxProbes      \* bound: a peer probes while fewer segments were sent

TrafficPorts == Critical \cup Fake \cup {HONEYPOT_PORT} \cup Ordinary \cup Ephemeral

Max16 == 65535

ASSUME TrafficAssumption ==
    /\ TrafficPorts \subseteq 1..Max16
    /\ HONEYPOT_PORT \notin Critical \cup Fake \cup Ordinary \cup Ephemeral
    /\ (Ordinary \cup Ephemeral) \cap (Critical \cup Fake) = {}
    /\ Ordinary \cap Ephemeral = {} /\ Served \cap Ephemeral = {}
    /\ Windows \subseteq 0..Max16
    /\ SourcePort \in [Peers -> 0..Max16]
    /\ MaxProbes \in Nat

VARIABLES
    white,    \* whitelisted addresses: what is_spa_whitelisted answers
    granted,  \* addresses that were ever whitelisted (history)
    inbound,  \* segments sent to the host
    outbound, \* segments the host sent
    peer,     \* each peer's connection: [state, port]
    host,     \* connections of the host's stack: (peer, local port) |-> state
    arrived   \* segments that passed phantom_prog, as they left it (history)

trafficVars == <<white, granted, inbound, outbound, peer, host, arrived>>

-----------------------------------------------------------------------------
(* Checksums.  A receiver accepts words and checksum that sum to -0 in ones' complement. *)

Fold(n) == (n % 65536) + (n \div 65536)

(* Mutant: the carry is not added back. *)
CsumReplace2NoFold(sum, old, new) ==
    Max16 - (((Max16 - sum) + (Max16 - old) + new) % 65536)

(* Mutant: the sums are not cut to 16 bits. *)
CsumReplace2Wide(sum, old, new) ==
    Max16 - ((Max16 - sum) + (Max16 - old) + new)

CsumReplace2(sum, old, new) ==
    Max16 - Fold(Fold((Max16 - sum) + (Max16 - old) + new))

Accepted(total) == total > 0 /\ total % Max16 = 0

(* The checksum a sender computes over words that sum to n. *)
Checksum(n) == Max16 - Fold(Fold(n))

(***************************************************************************)
(* A segment.  rest and iprest are the sums of the TCP and IP words that   *)
(* phantom_prog leaves alone, among them constants such as the protocol    *)
(* number, so they are not zero.                                           *)
(***************************************************************************)
Rest == 6
Segment(p, port, flags, window, ttl) ==
    [src |-> p, dest |-> port, flags |-> flags, window |-> window, ttl |-> ttl,
     check |-> Checksum(Rest + port + window), ipcheck |-> Checksum(Rest + ttl * 256)]

TcpValid(s) == Accepted(Rest + s.dest + s.window + s.check)
IpValid(s) == Accepted(Rest + s.ttl * 256 + s.ipcheck)

-----------------------------------------------------------------------------
(* phantom_prog, for TCP segments. *)

(* f holds the whole flags byte, ECE and CWR too: a null scan has none of the eight, a FIN  *)
(* scan none of the other five the program looks at.                                       *)
IsStealthScan(f) ==
    \/ {"FIN", "URG", "PSH"} \subseteq f /\ f \cap {"SYN", "RST"} = {}
    \/ f = {}
    \/ f \cap {"FIN", "SYN", "RST", "PSH", "ACK", "URG"} = {"FIN"}
    \/ "ACK" \in f /\ f \cap {"SYN", "FIN", "RST"} = {}

Redirect(s) ==
    [s EXCEPT !.check = CsumReplace2(s.check, s.dest, HONEYPOT_PORT), !.dest = HONEYPOT_PORT]

NewTtl == <<128, 64, 64, 255>>
NewWindow == <<65535, 29200, 65535, 29200>>

(* mutate_os_personality: a field that keeps its value keeps its checksum. *)
MutateOsPersonality(s) ==
    LET os == (SourcePort[s.src] % 4) + 1
    IN  [s EXCEPT !.ttl = NewTtl[os], !.window = NewWindow[os],
                  !.ipcheck = IF s.ttl = NewTtl[os] THEN @
                              ELSE CsumReplace2(@, s.ttl * 256, NewTtl[os] * 256),
                  !.check = IF s.window = NewWindow[os] THEN @
                            ELSE CsumReplace2(@, s.window, NewWindow[os])]

(* Mutant: scans are looked for before the fake ports are passed. *)
PhantomProgScanFirst(s) ==
    IF s.dest = HONEYPOT_PORT THEN {s}
    ELSE IF s.dest \in Critical THEN (IF s.src \in white THEN {s} ELSE {})
    ELSE IF IsStealthScan(s.flags) THEN {}
    ELSE IF s.dest \in Fake THEN {s}
    ELSE {MutateOsPersonality(Redirect(s))}

(* Mutant: fake ports are passed before the critical ones are protected. *)
PhantomProgFakeFirst(s) ==
    IF s.dest = HONEYPOT_PORT \/ s.dest \in Fake THEN {s}
    ELSE IF s.dest \in Critical THEN (IF s.src \in white THEN {s} ELSE {})
    ELSE IF IsStealthScan(s.flags) THEN {}
    ELSE {MutateOsPersonality(Redirect(s))}

(* Mutant: only connection attempts to critical ports are dropped. *)
PhantomProgSynOnly(s) ==
    IF s.dest = HONEYPOT_PORT THEN {s}
    ELSE IF s.dest \in Critical
         THEN (IF s.src \in white \/ s.flags # {"SYN"} THEN {s} ELSE {})
    ELSE IF s.dest \in Fake THEN {s}
    ELSE IF IsStealthScan(s.flags) THEN {}
    ELSE {MutateOsPersonality(Redirect(s))}

(* What reaches the host's stack when s arrives: nothing (XDP_DROP) or one segment. *)
PhantomProg(s) ==
    IF s.dest = HONEYPOT_PORT THEN {s}
    ELSE IF s.dest \in Critical THEN (IF s.src \in white THEN {s} ELSE {})
    ELSE IF s.dest \in Fake THEN {s}
    ELSE IF IsStealthScan(s.flags) THEN {}
    ELSE {MutateOsPersonality(Redirect(s))}

-----------------------------------------------------------------------------
Closed == [state |-> "closed", port |-> 0]

TrafficInit ==
    /\ white = {} /\ granted = {}
    /\ inbound = {} /\ outbound = {} /\ arrived = {}
    /\ peer = [p \in Peers |-> Closed]
    /\ host = [p \in Peers |-> [q \in TrafficPorts |-> "none"]]

(* The whitelist changes: XdpGate has the details. *)
Grant(p) ==
    /\ p \notin white
    /\ white' = white \cup {p} /\ granted' = granted \cup {p}
    /\ UNCHANGED <<inbound, outbound, peer, host, arrived>>

Expire(p) ==
    /\ p \in white
    /\ white' = white \ {p}
    /\ UNCHANGED <<granted, inbound, outbound, peer, host, arrived>>

Default(p, port, flags) == Segment(p, port, flags, 1024, 57)

(* A peer's connect(). *)
Dial(p, port) ==
    /\ peer[p] = Closed
    /\ peer' = [peer EXCEPT ![p] = [state |-> "synSent", port |-> port]]
    /\ \E w \in Windows : inbound' = inbound \cup {Segment(p, port, {"SYN"}, w, 57)}
    /\ UNCHANGED <<white, granted, outbound, host, arrived>>

(* A peer sends a single segment outside any connection. *)
Probe(p, port, flags) ==
    /\ peer[p] = Closed /\ Cardinality(inbound) < MaxProbes
    /\ inbound' = inbound \cup {Default(p, port, flags)}
    /\ UNCHANGED <<white, granted, outbound, peer, host, arrived>>

Reply(s, flags) == [dst |-> s.src, source |-> s.dest, flags |-> flags]

(***************************************************************************)
(* The host's stack: an unexpected segment that is not a reset is answered *)
(* with a reset.                                                           *)
(***************************************************************************)
HostReceive(s) ==
    LET now == host[s.src][s.dest]
        Become(state) == host' = [host EXCEPT ![s.src][s.dest] = state]
        Answer(flags) == outbound' = outbound \cup {Reply(s, flags)}
    IN  CASE "RST" \in s.flags -> Become("none") /\ UNCHANGED outbound
          [] s.flags = {"SYN"} /\ s.dest \in Served /\ now = "none" ->
                Become("synRcvd") /\ Answer({"SYN", "ACK"})
          [] s.flags = {"ACK"} /\ now = "synRcvd" -> Become("established") /\ UNCHANGED outbound
          [] s.flags = {"SYN", "ACK"} /\ now = "synSent" ->
                Become("established") /\ Answer({"ACK"})
          [] s.flags = {"SYN"} /\ now = "synRcvd" -> UNCHANGED host /\ Answer({"SYN", "ACK"})
          [] now = "established" -> UNCHANGED <<host, outbound>>
          [] OTHER -> UNCHANGED host /\ Answer({"RST"})

(* A segment arrives at the interface. *)
Deliver(s) ==
    /\ s \in inbound
    /\ arrived' = arrived \cup PhantomProg(s)
    /\ \/ PhantomProg(s) = {} /\ UNCHANGED <<host, outbound>>
       \/ \E t \in PhantomProg(s) : HostReceive(t)
    /\ UNCHANGED <<white, granted, inbound, peer>>

(* The host opens a connection, for instance to Elasticsearch or the fleet manager. *)
HostDial(p, e) ==
    /\ \A q \in Peers, f \in Ephemeral : host[q][f] = "none"
    /\ peer[p] = Closed
    /\ host' = [host EXCEPT ![p][e] = "synSent"]
    /\ outbound' = outbound \cup {[dst |-> p, source |-> e, flags |-> {"SYN"}]}
    /\ UNCHANGED <<white, granted, inbound, peer, arrived>>

(* A peer's stack: it knows a connection by the host's port. *)
PeerReceive(s) ==
    LET p == s.dst
        mine == peer[p].port = s.source
        Send(flags) == inbound' = inbound \cup {Default(p, s.source, flags)}
        Become(state) == peer' = [peer EXCEPT ![p] = [state |-> state, port |-> s.source]]
    IN  /\ s \in outbound
        /\ CASE s.flags = {"SYN"} -> peer[p] = Closed /\ Become("synRcvd") /\ Send({"SYN", "ACK"})
             [] s.flags = {"SYN", "ACK"} /\ mine /\ peer[p].state = "synSent" ->
                   Become("established") /\ Send({"ACK"})
             [] s.flags = {"SYN", "ACK"} /\ ~mine -> Send({"RST"}) /\ UNCHANGED peer
             [] s.flags = {"ACK"} /\ mine /\ peer[p].state = "synRcvd" ->
                   Become("established") /\ UNCHANGED inbound
             [] s.flags = {"RST"} /\ mine /\ peer[p].state # "closed" ->
                   Become("reset") /\ UNCHANGED inbound
             [] OTHER -> UNCHANGED <<peer, inbound>>
        /\ UNCHANGED <<white, granted, outbound, host, arrived>>

TrafficNext ==
    \/ \E p \in Peers :
          \/ Grant(p) \/ Expire(p)
          \/ \E port \in TrafficPorts \ Ephemeral : Dial(p, port)
          \/ \E port \in TrafficPorts, flags \in Scans : Probe(p, port, flags)
          \/ \E e \in Ephemeral : HostDial(p, e)
    \/ \E s \in inbound : Deliver(s)
    \/ \E s \in outbound : PeerReceive(s)

(* A segment of a handshake is delivered in the end, if only by retransmission. *)
Arrives(p, port, flags) ==
    \E s \in inbound : s.src = p /\ s.dest = port /\ s.flags = flags /\ Deliver(s)

Answered(p, port, flags) ==
    \E s \in outbound : s.dst = p /\ s.source = port /\ s.flags = flags /\ PeerReceive(s)

TrafficFairness ==
    \A p \in Peers, port \in TrafficPorts, flags \in {{"SYN"}, {"SYN", "ACK"}, {"ACK"}} :
        WF_trafficVars(Arrives(p, port, flags)) /\ WF_trafficVars(Answered(p, port, flags))

TrafficSpec == TrafficInit /\ [][TrafficNext]_trafficVars /\ TrafficFairness

-----------------------------------------------------------------------------
(* Types of the state; every checksum is a 16-bit number. *)
TrafficTypeOK ==
    /\ white \subseteq granted /\ granted \subseteq Peers
    /\ \A s \in inbound \cup arrived :
          /\ s.src \in Peers /\ s.dest \in TrafficPorts
          /\ s.check \in 0..Max16 /\ s.ipcheck \in 0..Max16 /\ s.window \in 0..Max16
          /\ s.ttl \in 0..255
    /\ \A s \in outbound : s.dst \in Peers /\ s.source \in TrafficPorts
    /\ peer \in [Peers -> [state : {"closed", "synSent", "synRcvd", "established", "reset"},
                          port : TrafficPorts \cup {0}]]
    /\ host \in [Peers -> [TrafficPorts -> {"none", "synSent", "synRcvd", "established"}]]

(* What a stranger sends reaches no service but the traps: a critical port sees segments  *)
(* only of addresses that were whitelisted, also when the port is on the list of fake      *)
(* ports (21 is on both), and an ordinary port sees nothing at all (phantom.c 247-294).    *)
OnlyTrapsReached ==
    \A s \in arrived :
        \/ s.dest = HONEYPOT_PORT
        \/ s.dest \in Fake \ Critical
        \/ s.dest \in Critical /\ s.src \in granted

(* A critical port looks dead to strangers: whatever they send and whatever was let through *)
(* for others, the host never answers them from it, not with a handshake and not with a     *)
(* reset (phantom.c 252-262, "Server appears "dead" to attackers").                         *)
LooksDead == \A r \in outbound : r.source \in Critical => r.dst \in granted

(* The host's stack never gets a bad checksum from phantom_prog: rewriting the port, the   *)
(* TTL and the window keeps both sums right, at the edges of the 16 bits too               *)
(* (phantom.c 91-126, 286-292).                                                            *)
ChecksumsValid == \A s \in arrived : TcpValid(s) /\ IpValid(s)

(* A peer that dials a trap gets its connection, unless it was reset: all segments of the  *)
(* handshake pass, the ACK that looks like a scan too (phantom.c 264-271).                 *)
TrapAnswers ==
    \A p \in Peers, port \in ((Fake \ Critical) \cup {HONEYPOT_PORT}) \cap Served :
        peer[p] = [state |-> "synSent", port |-> port]
            ~> (host[p][port] = "established" \/ peer[p].state = "reset")

=============================================================================
