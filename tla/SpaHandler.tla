---------------------------- MODULE SpaHandler -----------------------------
(***************************************************************************)
(* spa.Handler (internal/spa/handler.go): the receive loop handlePackets,  *)
(* one processPacket goroutine per datagram, and Stop, over the steps of   *)
(* SpaVerifier.                                                            *)
(*                                                                         *)
(* handlePackets reads every datagram into one buffer and hands the        *)
(* goroutine the slice buffer[:n].  The goroutine's bytes are therefore    *)
(* whatever the buffer holds when it looks: View(g).  The kernel copies a  *)
(* datagram into the buffer front to back, so a goroutine may also see a   *)
(* new body in front of an old signature.                                  *)
(***************************************************************************)
EXTENDS SpaVerifier

CONSTANTS
    Datagrams,    \* what may arrive: [pkt, from, copy], each at most once
    StaticToken,  \* the bytes of Handler.staticToken
    Zeros         \* the buffer before the first read

ASSUME DatagramAssumption == /\ Zeros \in Packets
                             /\ \A d \in Datagrams : d.pkt \in Packets /\ d.from \in IPs

(* Any body, length and signature side by side in the buffer are byte strings too. *)
ASSUME BufferAssumption ==
    \A p, q \in Packets : /\ p = [body |-> p.body, sig |-> p.sig]
                          /\ [body |-> p.body, sig |-> q.sig] \in Packets
                          /\ [p EXCEPT !.body.size = q.body.size] \in Packets

VARIABLES
    buffer,   \* the receive buffer of handlePackets
    loop,     \* where handlePackets is
    current,  \* the datagram ReadFromUDP is copying, or none
    wire,     \* datagrams that have not arrived
    stopped,  \* stopChan and udpConn are closed
    granted   \* addresses WhitelistIP was called for (history)

handler == <<buffer, loop, current, wire, stopped, granted>>
allVars == <<vars, handler>>

none == [pkt |-> Zeros, from |-> NoIP, copy |-> 0]

HandlerInit ==
    /\ Init
    /\ buffer = Zeros
    /\ loop = "select"
    /\ current = none
    /\ wire = Datagrams
    /\ stopped = FALSE
    /\ granted = {}

(* buffer[:n], where n is the size of the datagram g was started for. *)
View(g) == [buffer EXCEPT !.body.size = arg[g].body.size]

-----------------------------------------------------------------------------
(* handlePackets *)

(* Mutant: the loop does not look at stopChan. *)
SelectForever ==
    /\ loop = "select"
    /\ loop' = "read"
    /\ UNCHANGED <<vars, buffer, current, wire, stopped, granted>>

(* The select: leave when stopChan is closed, else read with a deadline. *)
Select ==
    /\ loop = "select"
    /\ loop' = IF stopped THEN "done" ELSE "read"
    /\ UNCHANGED <<vars, buffer, current, wire, stopped, granted>>

(* The one second deadline passes, or the connection is closed: continue. *)
ReadFails ==
    /\ loop = "read"
    /\ loop' = "select"
    /\ UNCHANGED <<vars, buffer, current, wire, stopped, granted>>

(* ReadFromUDP takes a datagram and overwrites the front of the buffer ... *)
ReadBody(d) ==
    /\ loop = "read" /\ ~stopped
    /\ d \in wire
    /\ wire' = wire \ {d}
    /\ current' = d
    /\ buffer' = [buffer EXCEPT !.body = d.pkt.body]
    /\ loop' = "copy"
    /\ UNCHANGED <<vars, stopped, granted>>

(* A new goroutine: which of the idle ones stands for it does not matter. *)
NewGoroutine == CHOOSE g \in Calls : pc[g] = "idle"

(* ... and its end; then go processPacket(buffer[:n], clientAddr.IP). *)
ReadSignatureAndSpawn(g) ==
    /\ loop = "copy"
    /\ buffer' = [buffer EXCEPT !.sig = current.pkt.sig]
    /\ Goto(g, "idle", "spawned") /\ g = NewGoroutine
    /\ arg' = [arg EXCEPT ![g] = current.pkt]
    /\ ip' = [ip EXCEPT ![g] = current.from]
    /\ current' = none
    /\ loop' = "select"
    /\ UNCHANGED <<clock, seenCache, hdr, now, todo, hash, accepts, wire, stopped, granted>>

(* Stop closes stopChan and the connection. *)
Stop ==
    /\ ~stopped
    /\ stopped' = TRUE
    /\ UNCHANGED <<vars, buffer, loop, current, wire, granted>>

-----------------------------------------------------------------------------
(* processPacket *)

(* A token that begins with a version byte would be taken for a dynamic packet. *)
isStaticPacket(data) == data.body.version \notin {1, 2} /\ data = StaticToken

(* A static token is left to eBPF. *)
CheckStatic(g) ==
    /\ Goto(g, "spawned", IF isStaticPacket(View(g)) THEN "rejected" ELSE "precheck")
    /\ UNCHANGED <<clock, seenCache, locals, accepts, handler>>

(* processPacket parses once by itself, then calls VerifyPacket. *)
ParseForLog(g) ==
    /\ Goto(g, "precheck", IF ParseSPAPacket(View(g)) THEN "parse" ELSE "rejected")
    /\ UNCHANGED <<clock, seenCache, locals, accepts, handler>>

(* WhitelistIP(clientIP); it may fail (no map, not IPv4, Put). *)
Whitelist(g) ==
    /\ pc[g] = "accepted"
    /\ granted' \in {granted, granted \cup {ip[g]}}
    /\ Return(g)
    /\ UNCHANGED <<buffer, loop, current, wire, stopped>>

GiveUp(g) ==
    /\ pc[g] \in {"rejected", "replayed"}
    /\ Return(g)
    /\ UNCHANGED handler

ProcessPacket(g) ==
    \/ CheckStatic(g)
    \/ ParseForLog(g)
    \/ VerifyPacket(g, View(g)) /\ UNCHANGED handler
    \/ Whitelist(g)
    \/ GiveUp(g)

HandlePackets ==
    \/ Select
    \/ ReadFails
    \/ \E d \in Datagrams : ReadBody(d)
    \/ \E g \in Calls : ReadSignatureAndSpawn(g)

HandlerNext ==
    \/ HandlePackets
    \/ Stop
    \/ \E g \in Calls : ProcessPacket(g)
    \/ Tick /\ UNCHANGED handler

(* Both kinds of goroutines are scheduled; a read returns within its deadline. *)
HandlerFairness ==
    /\ WF_allVars(HandlePackets)
    /\ \A g \in Calls : WF_allVars(ProcessPacket(g))

HandlerSpec == HandlerInit /\ [][HandlerNext]_allVars /\ HandlerFairness

-----------------------------------------------------------------------------
(* Type invariant. *)
HandlerTypeOK ==
    /\ pc \in [Calls -> {"idle", "spawned", "precheck", "parse", "bind", "time"}
                        \cup Timed \cup Finished]
    /\ arg \in [Calls -> Packets] /\ ip \in [Calls -> IPs]
    /\ hash \in [Calls -> Packets]
    /\ buffer \in Packets
    /\ loop \in {"select", "read", "copy", "done"}
    /\ current \in Datagrams \cup {none}
    /\ wire \subseteq Datagrams
    /\ stopped \in BOOLEAN
    /\ granted \subseteq IPs

Arrived == Datagrams \ wire

(* The bytes a goroutine finds in the buffer: a body, a length and a signature, each of a *)
(* datagram that has arrived.                                                             *)
Mixture(b, n, s) ==
    [body |-> [b.pkt.body EXCEPT !.size = n.pkt.body.size], sig |-> s.pkt.sig]
Mixtures == {Mixture(b, n, s) : b, n, s \in Arrived}

(* A configured key signed bytes that have arrived. *)
GenuineArrived == \E m \in Mixtures : VerifySignature(m.body.mode, m)

(* Even with goroutines reading each other's bytes, nobody is whitelisted before bytes    *)
(* that a configured key signed have arrived, and nobody who sent nothing (handler.go     *)
(* lines 161 and 213).                                                                    *)
GrantNeedsGenuine ==
    /\ HandlerTypeOK
    /\ granted # {} => GenuineArrived
    /\ granted \subseteq {d.from : d \in Arrived}

(* The buffer holds parts of arrived datagrams from the first goroutine on, a goroutine   *)
(* has the length and the address of one, and it is past the signature check only when    *)
(* such parts did verify.                                                                 *)
BytesArrived ==
    /\ loop = "copy" => current \in Arrived /\ buffer.body = current.pkt.body
    /\ \A g \in Calls : pc[g] # "idle" =>
          /\ \E n \in Arrived : arg[g] = n.pkt /\ ip[g] = n.from
          /\ \E b, s \in Arrived : buffer.body = b.pkt.body /\ buffer.sig = s.pkt.sig
          /\ pc[g] \in {"hash", "lock", "accepted"} => GenuineArrived

(* The inductive invariant behind GrantNeedsGenuine. *)
HandlerIInv == GrantNeedsGenuine /\ BytesArrived

(* After Stop the loop and every goroutine end (handler.go lines 100-131). *)
StopEnds == stopped ~> loop = "done" /\ \A g \in Calls : pc[g] = "idle"
=============================================================================
