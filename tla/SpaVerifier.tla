---------------------------- MODULE SpaVerifier ----------------------------
(***************************************************************************)
(* spa.Verifier (internal/spa/verifier.go): concurrent calls of            *)
(* VerifyPacket that share the replay cache seenCache behind a mutex and   *)
(* read the wall clock at different moments.                               *)
(*                                                                         *)
(* Every step that looks at the packet's bytes takes them as the parameter *)
(* "data".  Here the bytes are the caller's own and do not change during   *)
(* the call (arg[g]); module SpaHandler runs the same steps on the receive *)
(* buffer that the real caller passes.                                     *)
(***************************************************************************)
EXTENDS SpaPacket, FiniteSets

CONSTANTS
    Calls,       \* goroutines that call VerifyPacket
    Packets,     \* byte strings a call may be given
    IPs,         \* sender addresses
    PurgeAbove,  \* the cache is purged when it has more entries than this (1000)
    MaxDelay,    \* seconds from a call's clock read to the end of its locked section
    StartTime,   \* clock at start
    MaxClock     \* bound: last second explored

ASSUME TimeAssumption == /\ StartTime \in Nat
                         /\ MaxClock \in Nat
                         /\ StartTime <= MaxClock
                         /\ MaxClock + MaxTimeDiff < Half
                         /\ MaxDelay \in Nat
                         /\ PurgeAbove \in Nat

ASSUME PacketAssumption ==
    /\ Packets # {} /\ IPs # {}
    /\ \A p \in Packets : p.body.timestamp \in -Half .. Half - 1

(***************************************************************************)
(* What keeps a packet from being accepted again after its cache entry is  *)
(* purged is not the timestamp (it stays acceptable for 2 * MaxTimeDiff)   *)
(* but its TOTP code.  That needs the code's lifetime, stretched by the    *)
(* time calls may take, to end before an entry can be purged ...           *)
(***************************************************************************)
ASSUME WindowAssumption ==
    (2 * TOTPTolerance + 1) * TOTPTimeStep - 1 + 2 * MaxDelay <= MaxTimeDiff

(***************************************************************************)
(* ... and a code not to come back, from any secret, at another step while *)
(* the packet's timestamp is acceptable.                                   *)
(***************************************************************************)
Steps == -TOTPTolerance .. MaxClock + TOTPTolerance

TOTPHorizon == 2 * MaxTimeDiff + MaxDelay + (2 * TOTPTolerance + 1) * TOTPTimeStep

ASSUME CodeAssumption ==
    \A k, l \in TOTPKeys, a, b \in Steps :
        /\ a < b
        /\ (b - a) * TOTPTimeStep <= TOTPHorizon
        => TOTP(k, a) # TOTP(l, b)

VARIABLES
    clock,      \* time.Now().Unix()
    seenCache,  \* Verifier.seenCache: hash |-> currentTime of the accepting call
    pc,         \* where each call is
    arg,        \* packetData of the call
    ip,         \* actualClientIP of the call
    hdr,        \* the header fields copied out by ParseSPAPacket
    now,        \* currentTime, read once per call
    todo,       \* TOTP secrets not tried yet
    hash,       \* SHA-256 of the packet data
    accepts     \* how many calls accepted each packet (history)

locals == <<arg, ip, hdr, now, todo, hash>>
vars == <<clock, seenCache, pc, locals, accepts>>

(* Calls between their clock read and the end of their locked section. *)
Timed == {"totp", "sig", "hash", "lock"}
Finished == {"accepted", "rejected", "replayed"}

NoPacket == CHOOSE p \in Packets : TRUE
NoIP == CHOOSE a \in IPs : TRUE

(* NewVerifier, before any call. *)
Init ==
    /\ clock = StartTime
    /\ seenCache = [h \in {} |-> 0]
    /\ pc = [g \in Calls |-> "idle"]
    /\ arg = [g \in Calls |-> NoPacket]
    /\ ip = [g \in Calls |-> NoIP]
    /\ hdr = [g \in Calls |-> NoPacket.body]
    /\ now = [g \in Calls |-> StartTime]
    /\ todo = [g \in Calls |-> {}]
    /\ hash = [g \in Calls |-> NoPacket]
    /\ accepts = [p \in Packets |-> 0]

Goto(g, from, to) == pc[g] = from /\ pc' = [pc EXCEPT ![g] = to]

Call(g, p, a) ==
    /\ Goto(g, "idle", "parse")
    /\ arg' = [arg EXCEPT ![g] = p]
    /\ ip' = [ip EXCEPT ![g] = a]
    /\ UNCHANGED <<clock, seenCache, hdr, now, todo, hash, accepts>>

(* Version, mode, timestamp and TOTP are copied; the address and the signature alias data. *)
Parse(g, data) ==
    /\ \/ /\ ParseSPAPacket(data)
          /\ Goto(g, "parse", "bind")
          /\ hdr' = [hdr EXCEPT ![g] = data.body]
       \/ /\ ~ParseSPAPacket(data)
          /\ Goto(g, "parse", "rejected")
          /\ UNCHANGED hdr
    /\ UNCHANGED <<clock, seenCache, arg, ip, now, todo, hash, accepts>>

CheckBinding(g, data) ==
    /\ Goto(g, "bind", IF IPBound(hdr[g].version, data.body.ip, ip[g])
                       THEN "time" ELSE "rejected")
    /\ UNCHANGED <<clock, seenCache, locals, accepts>>

CheckTimestamp(g) ==
    /\ Goto(g, "time", IF TimestampOK(clock, hdr[g].timestamp) THEN "totp" ELSE "rejected")
    /\ now' = [now EXCEPT ![g] = clock]
    /\ todo' = [todo EXCEPT ![g] = TOTPKeys]
    /\ UNCHANGED <<clock, seenCache, arg, ip, hdr, hash, accepts>>

(* One iteration of the loop over the secrets: each reads the clock again. *)
TryTOTPSecret(g) ==
    /\ \E k \in todo[g] :
          /\ Goto(g, "totp", IF ValidateTOTP(k, clock, hdr[g].totp) THEN "sig" ELSE "totp")
          /\ todo' = [todo EXCEPT ![g] = @ \ {k}]
    /\ UNCHANGED <<clock, seenCache, arg, ip, hdr, now, hash, accepts>>

NoTOTPSecretLeft(g) ==
    /\ todo[g] = {}
    /\ Goto(g, "totp", "rejected")
    /\ UNCHANGED <<clock, seenCache, locals, accepts>>

(* Mutant: the result of the signature check is ignored. *)
CheckSignatureIgnored(g, data) ==
    /\ Goto(g, "sig", "hash")
    /\ UNCHANGED <<clock, seenCache, locals, accepts>>

CheckSignature(g, data) ==
    /\ Goto(g, "sig", IF VerifySignature(hdr[g].mode, data) THEN "hash" ELSE "rejected")
    /\ UNCHANGED <<clock, seenCache, locals, accepts>>

(* Mutant: the packet is marked as seen before the replay check. *)
HashPacketMarks(g, data) ==
    /\ Goto(g, "hash", "lock")
    /\ hash' = [hash EXCEPT ![g] = data]
    /\ seenCache' = [h \in DOMAIN seenCache \cup {data} |->
                        IF h = data THEN now[g] ELSE seenCache[h]]
    /\ UNCHANGED <<clock, arg, ip, hdr, now, todo, accepts>>

HashPacket(g, data) ==
    /\ Goto(g, "hash", "lock")
    /\ hash' = [hash EXCEPT ![g] = data]
    /\ UNCHANGED <<clock, seenCache, arg, ip, hdr, now, todo, accepts>>

(* Mutants: entries are kept for one TOTP step only; the purge empties the cache. *)
KeptOneStep(currentTime) ==
    IF Cardinality(DOMAIN seenCache) > PurgeAbove
    THEN {h \in DOMAIN seenCache : currentTime - seenCache[h] <= TOTPTimeStep}
    ELSE DOMAIN seenCache
KeptNone(currentTime) ==
    IF Cardinality(DOMAIN seenCache) > PurgeAbove THEN {} ELSE DOMAIN seenCache

(* The entries that survive the clean-up a call with this currentTime makes. *)
Kept(currentTime) ==
    IF Cardinality(DOMAIN seenCache) > PurgeAbove
    THEN {h \in DOMAIN seenCache : currentTime - seenCache[h] <= MaxTimeDiff}
    ELSE DOMAIN seenCache

(* Mutant: the entry holds the end of its window instead of its time. *)
CheckReplayUntil(g) ==
    /\ Goto(g, "lock", "accepted")
    /\ seenCache' = [h \in DOMAIN seenCache \cup {hash[g]} |->
                        IF h = hash[g] THEN now[g] + MaxTimeDiff ELSE seenCache[h]]
    /\ accepts' = [accepts EXCEPT ![hash[g]] = @ + 1]
    /\ UNCHANGED <<clock, locals>>

(* The section under Verifier.mu: purge, look up, insert. *)
CheckReplay(g) ==
    LET kept == Kept(now[g])
    IN  /\ \/ /\ hash[g] \in kept
              /\ Goto(g, "lock", "replayed")
              /\ seenCache' = [h \in kept |-> seenCache[h]]
              /\ UNCHANGED accepts
           \/ /\ hash[g] \notin kept
              /\ Goto(g, "lock", "accepted")
              /\ seenCache' = [h \in kept \cup {hash[g]} |->
                                  IF h = hash[g] THEN now[g] ELSE seenCache[h]]
              /\ accepts' = [accepts EXCEPT ![hash[g]] = @ + 1]
        /\ UNCHANGED <<clock, locals>>

(* The call returns and its locals are dead. *)
Return(g) ==
    /\ pc[g] \in Finished
    /\ pc' = [pc EXCEPT ![g] = "idle"]
    /\ arg' = [arg EXCEPT ![g] = NoPacket]
    /\ ip' = [ip EXCEPT ![g] = NoIP]
    /\ hdr' = [hdr EXCEPT ![g] = NoPacket.body]
    /\ now' = [now EXCEPT ![g] = StartTime]
    /\ todo' = [todo EXCEPT ![g] = {}]
    /\ hash' = [hash EXCEPT ![g] = NoPacket]
    /\ UNCHANGED <<clock, seenCache, accepts>>

(* A second passes; a running call does not outlive MaxDelay. *)
Tick ==
    /\ clock < MaxClock
    /\ \A g \in Calls : pc[g] \in Timed => clock - now[g] < MaxDelay
    /\ clock' = clock + 1
    /\ UNCHANGED <<seenCache, pc, locals, accepts>>

(* The steps of VerifyPacket after its call, on packet bytes "data". *)
VerifyPacket(g, data) ==
    \/ Parse(g, data)
    \/ CheckBinding(g, data)
    \/ CheckTimestamp(g)
    \/ TryTOTPSecret(g)
    \/ NoTOTPSecretLeft(g)
    \/ CheckSignature(g, data)
    \/ HashPacket(g, data)
    \/ CheckReplay(g)

Next ==
    \/ \E g \in Calls :
          \/ \E p \in Packets, a \in IPs : Call(g, p, a)
          \/ VerifyPacket(g, arg[g])
          \/ Return(g)
    \/ Tick

(* Goroutines are scheduled and the mutex is free of starvation. *)
Fairness == \A g \in Calls : WF_vars(VerifyPacket(g, arg[g]) \/ Return(g))

Spec == Init /\ [][Next]_vars /\ Fairness

-----------------------------------------------------------------------------
Bodies == {p.body : p \in Packets}

(* Type invariant. *)
TypeOK ==
    /\ clock \in StartTime .. MaxClock
    /\ DOMAIN seenCache \subseteq Packets
    /\ \A h \in DOMAIN seenCache : seenCache[h] \in StartTime .. MaxClock
    /\ pc \in [Calls -> {"idle", "parse", "bind", "time"} \cup Timed \cup Finished]
    /\ arg \in [Calls -> Packets]
    /\ ip \in [Calls -> IPs]
    /\ hdr \in [Calls -> Bodies]
    /\ now \in [Calls -> StartTime .. MaxClock]
    /\ todo \in [Calls -> SUBSET TOTPKeys]
    /\ hash \in [Calls -> Packets]
    /\ accepts \in [Packets -> Nat]

(* No packet is accepted twice, whatever is purged in between and however  *)
(* calls overlap (replay cache, verifier.go lines 131-150).                *)
NoReplay == \A p \in Packets : accepts[p] <= 1

(* A packet is called a replay only when an earlier call accepted it: the  *)
(* cache holds nothing else, so one copy of a fresh packet always gets in  *)
(* (verifier.go lines 147-150).                                            *)
NoFalseReplay == \A g \in Calls : pc[g] = "replayed" => accepts[arg[g]] >= 1

(* The code a packet carries is valid, at time u, under some secret. *)
CodeValid(u, code) == \E k \in TOTPKeys : ValidateTOTP(k, u, code)

(* An accepted packet that the cache has forgotten carries a code that no  *)
(* running or future call can still find valid (lines 139-145 against 72). *)
ForgottenIsStale ==
    \A p \in Packets :
        accepts[p] >= 1 /\ p \notin DOMAIN seenCache =>
            \A t \in StartTime .. MaxClock :
                t >= clock - MaxDelay /\ TimestampOK(t, p.body.timestamp)
                    => ~CodeValid(t, p.body.totp)

(***************************************************************************)
(* What a known client at address a, whose clock showed t when it began,   *)
(* may send (packet.go lines 36-131).                                      *)
(***************************************************************************)
ClientPackets(a, t) ==
    {SendMagicPacket(key, GenerateTOTP(secret, t), ts, n, a) :
        key \in ClientKeys, secret \in TOTPKeys, ts \in t .. t + MaxDelay, n \in PaddingSizes}

(* Client clocks close enough to the server's clock u: off by the tolerance at most, *)
(* transport, skew and the server's own MaxDelay included.                           *)
CloseClocks(u) ==
    LET w == TOTPTolerance * TOTPTimeStep
    IN  {t \in u - w .. u + w - MaxDelay : t >= 0}

(* The packet of a known client whose clock is close enough is never       *)
(* rejected, whatever other calls do and however often the clock is read   *)
(* on either side; only a copy of it can be, as a replay.                  *)
HonestAccepted ==
    [][\A g \in Calls : pc[g] # "rejected" /\ pc'[g] = "rejected" =>
          \A t \in CloseClocks(clock) : arg[g] \notin ClientPackets(ip[g], t)]_vars

-----------------------------------------------------------------------------
(* The inductive invariant behind NoReplay and NoFalseReplay. *)

(* A call works on the bytes it was given. *)
OwnBytes ==
    \A g \in Calls :
        /\ pc[g] \notin {"idle", "parse", "rejected"} => hdr[g] = arg[g].body
        /\ pc[g] \in {"lock", "accepted", "replayed"} => hash[g] = arg[g]

(* A call past its clock read found the timestamp in order, at most MaxDelay ago. *)
InTime ==
    \A g \in Calls : pc[g] \in Timed =>
        /\ now[g] <= clock /\ clock <= now[g] + MaxDelay
        /\ TimestampOK(now[g], hdr[g].timestamp)

(* A call past the TOTP loop found the code valid after its clock read. *)
CodeChecked ==
    \A g \in Calls : pc[g] \in Timed \ {"totp"} =>
        \E u \in now[g] .. clock : CodeValid(u, hdr[g].totp)

(* A call in the TOTP loop found the code invalid under every secret it has tried. *)
SecretsTried ==
    \A g \in Calls : pc[g] = "totp" =>
        \A k \in TOTPKeys \ todo[g] : \E u \in now[g] .. clock : ~ValidateTOTP(k, u, hdr[g].totp)

(* c is the currentTime of a call that may have accepted p. *)
AcceptableAt(p, c) ==
    /\ TimestampOK(c, p.body.timestamp)
    /\ \E u \in c .. c + MaxDelay : u <= clock /\ CodeValid(u, p.body.totp)

(* The cache remembers accepted packets only, with their acceptance time, and *)
(* forgets them only when that is more than MaxTimeDiff ago.                  *)
CacheExact ==
    /\ \A h \in DOMAIN seenCache : accepts[h] >= 1
    /\ \A p \in Packets : accepts[p] >= 1 =>
          \E c \in StartTime .. clock :
              /\ AcceptableAt(p, c)
              /\ p \in DOMAIN seenCache => seenCache[p] = c
              /\ p \notin DOMAIN seenCache => clock > c + MaxTimeDiff

IInv == TypeOK /\ OwnBytes /\ InTime /\ CodeChecked /\ CacheExact /\ NoReplay /\ NoFalseReplay
=============================================================================
