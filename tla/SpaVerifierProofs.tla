------------------------- MODULE SpaVerifierProofs -------------------------
(* Proofs about SpaVerifier and SpaHandler, for every value of their constants. *)
EXTENDS SpaHandler, FiniteSetTheorems, TLAPS

(* The interval of one TOTP step: the division of totp.go line 36. *)
LEMMA StepBounds ==
    ASSUME NEW u \in Nat
    PROVE  /\ u \div TOTPTimeStep \in Nat
           /\ TOTPTimeStep * (u \div TOTPTimeStep) <= u
           /\ u < TOTPTimeStep * (u \div TOTPTimeStep) + TOTPTimeStep
  BY StepAssumption, Z3

(* Multiplying by the length of a step keeps order. *)
LEMMA TimesStep ==
    ASSUME NEW m \in Int, NEW n \in Int, m <= n
    PROVE  TOTPTimeStep * m <= TOTPTimeStep * n
  BY StepAssumption, Z3

(* One timestamp is acceptable at two moments at most 2 * MaxTimeDiff apart, *)
(* the int64 overflow of the difference included (verifier.go lines 60-70).  *)
LEMMA TimestampSpan ==
    ASSUME NEW c \in 0 .. MaxClock, NEW d \in 0 .. MaxClock,
           NEW ts \in -Half .. Half - 1,
           TimestampOK(c, ts), TimestampOK(d, ts)
    PROVE  d - c <= 2 * MaxTimeDiff
  BY StepAssumption, HalfAssumption, TimeAssumption
  DEF TimestampOK, TimeDiff, Int64

(***************************************************************************)
(* Two moments at which one code is valid lie within one code lifetime, as *)
(* long as they are close enough for CodeAssumption to tell steps apart.   *)
(***************************************************************************)
LEMMA CodeLifetime ==
    ASSUME NEW u \in 0 .. MaxClock, NEW v \in 0 .. MaxClock, NEW code,
           v - u <= 2 * MaxTimeDiff + MaxDelay,
           CodeValid(u, code), CodeValid(v, code)
    PROVE  v - u <= (2 * TOTPTolerance + 1) * TOTPTimeStep - 1
  <1> DEFINE q == u \div TOTPTimeStep
             r == v \div TOTPTimeStep
  <1>1. PICK k \in TOTPKeys, i \in -TOTPTolerance .. TOTPTolerance : TOTP(k, q + i) = code
    BY DEF CodeValid, ValidateTOTP
  <1>2. PICK l \in TOTPKeys, j \in -TOTPTolerance .. TOTPTolerance : TOTP(l, r + j) = code
    BY DEF CodeValid, ValidateTOTP
  <1>3. /\ u \in Nat /\ v \in Nat /\ q \in Nat /\ r \in Nat
        /\ TOTPTimeStep * q <= u /\ u < TOTPTimeStep * q + TOTPTimeStep
        /\ TOTPTimeStep * r <= v /\ v < TOTPTimeStep * r + TOTPTimeStep
    BY StepBounds, TimeAssumption
  <1> HIDE DEF q, r
  <1>4. q <= MaxClock /\ r <= MaxClock
    <2>1. 1 * q <= TOTPTimeStep * q /\ 1 * r <= TOTPTimeStep * r
      BY <1>3, StepAssumption, Z3
    <2> QED  BY <2>1, <1>3, StepAssumption, TimeAssumption
  <1>5. q + i \in Steps /\ r + j \in Steps
    BY <1>3, <1>4, StepAssumption, TimeAssumption DEF Steps
  <1>6. SUFFICES ASSUME v - u > (2 * TOTPTolerance + 1) * TOTPTimeStep - 1
                 PROVE  FALSE
    <2>1. (2 * TOTPTolerance + 1) * TOTPTimeStep \in Int
      BY StepAssumption
    <2> QED  BY <2>1, <1>3
  <1>7. r > q + 2 * TOTPTolerance
    <2>1. SUFFICES ASSUME r <= q + 2 * TOTPTolerance  PROVE FALSE
      BY <1>3, StepAssumption
    <2>2. TOTPTimeStep * r <= TOTPTimeStep * (q + 2 * TOTPTolerance)
      BY <2>1, <1>3, StepAssumption, TimesStep
    <2>3. TOTPTimeStep * (q + 2 * TOTPTolerance) = TOTPTimeStep * q + 2 * TOTPTolerance * TOTPTimeStep
      BY <1>3, StepAssumption, Z3
    <2>4. (2 * TOTPTolerance + 1) * TOTPTimeStep = 2 * TOTPTolerance * TOTPTimeStep + TOTPTimeStep
      BY StepAssumption, Z3
    <2>5. TOTPTimeStep * q \in Int /\ TOTPTimeStep * r \in Int /\ 2 * TOTPTolerance * TOTPTimeStep \in Int
      BY <1>3, StepAssumption
    <2> QED  BY <1>3, <1>6, <2>2, <2>3, <2>4, <2>5, StepAssumption
  <1>8. q + i < r + j
    BY <1>3, <1>7, StepAssumption
  <1>9. ((r + j) - (q + i)) * TOTPTimeStep <= TOTPHorizon
    <2>1. (r + j) - (q + i) <= (r - q) + 2 * TOTPTolerance
      BY <1>3, StepAssumption
    <2>2. TOTPTimeStep * ((r + j) - (q + i)) <= TOTPTimeStep * ((r - q) + 2 * TOTPTolerance)
      BY <2>1, <1>3, StepAssumption, TimesStep
    <2>3. TOTPTimeStep * ((r - q) + 2 * TOTPTolerance)
            = TOTPTimeStep * r - TOTPTimeStep * q + 2 * TOTPTolerance * TOTPTimeStep
      BY <1>3, StepAssumption, Z3
    <2>4. (2 * TOTPTolerance + 1) * TOTPTimeStep = 2 * TOTPTolerance * TOTPTimeStep + TOTPTimeStep
      BY StepAssumption, Z3
    <2>5. ((r + j) - (q + i)) * TOTPTimeStep = TOTPTimeStep * ((r + j) - (q + i))
      BY <1>3, StepAssumption, Z3
    <2>6. TOTPTimeStep * q \in Int /\ TOTPTimeStep * r \in Int /\ 2 * TOTPTolerance * TOTPTimeStep \in Int
      BY <1>3, StepAssumption
    <2> QED
      BY <1>3, <2>2, <2>3, <2>4, <2>5, <2>6, StepAssumption, TimeAssumption DEF TOTPHorizon
  <1> QED  BY <1>1, <1>2, <1>5, <1>8, <1>9, CodeAssumption

LEMMA NoPacketType == NoPacket \in Packets /\ NoIP \in IPs /\ NoPacket.body \in Bodies
  BY PacketAssumption DEF NoPacket, NoIP, Bodies

LEMMA BodyType == \A p \in Packets : p.body \in Bodies
  BY DEF Bodies

(* Type correctness of every step. *)
LEMMA InitType == Init => TypeOK
  <1> SUFFICES ASSUME Init PROVE TypeOK
    OBVIOUS
  <1> QED  BY NoPacketType, TimeAssumption DEF Init, TypeOK, Timed, Finished

LEMMA NextType == TypeOK /\ [Next]_vars => TypeOK'
  <1> SUFFICES ASSUME TypeOK, [Next]_vars PROVE TypeOK'
    OBVIOUS
  <1> USE DEF TypeOK, Timed, Finished, Goto, locals
  <1>1. ASSUME NEW g \in Calls, NEW p \in Packets, NEW a \in IPs, Call(g, p, a) PROVE TypeOK'
    BY <1>1 DEF Call
  <1>2. ASSUME NEW g \in Calls, Parse(g, arg[g]) PROVE TypeOK'
    BY <1>2, BodyType DEF Parse
  <1>3. ASSUME NEW g \in Calls, CheckBinding(g, arg[g]) PROVE TypeOK'
    BY <1>3 DEF CheckBinding
  <1>4. ASSUME NEW g \in Calls, CheckTimestamp(g) PROVE TypeOK'
    BY <1>4 DEF CheckTimestamp
  <1>5. ASSUME NEW g \in Calls, TryTOTPSecret(g) PROVE TypeOK'
    BY <1>5 DEF TryTOTPSecret
  <1>6. ASSUME NEW g \in Calls, NoTOTPSecretLeft(g) PROVE TypeOK'
    BY <1>6 DEF NoTOTPSecretLeft
  <1>7. ASSUME NEW g \in Calls, CheckSignature(g, arg[g]) PROVE TypeOK'
    BY <1>7 DEF CheckSignature
  <1>8. ASSUME NEW g \in Calls, HashPacket(g, arg[g]) PROVE TypeOK'
    BY <1>8 DEF HashPacket
  <1>9. ASSUME NEW g \in Calls, CheckReplay(g) PROVE TypeOK'
    BY <1>9 DEF CheckReplay, Kept
  <1>10. ASSUME NEW g \in Calls, Return(g) PROVE TypeOK'
    BY <1>10, NoPacketType, TimeAssumption DEF Return
  <1>11. CASE Tick
    BY <1>11, TimeAssumption DEF Tick
  <1>12. CASE UNCHANGED vars
    BY <1>12 DEF vars
  <1> QED
    BY <1>1, <1>2, <1>3, <1>4, <1>5, <1>6, <1>7, <1>8, <1>9, <1>10, <1>11, <1>12
    DEF Next, VerifyPacket

(* Type correctness of the verifier's state. *)
THEOREM TypeCorrect == Spec => []TypeOK
  BY InitType, NextType, PTL DEF Spec

(* A call keeps working on its own bytes. *)
LEMMA NextOwnBytes == TypeOK /\ OwnBytes /\ [Next]_vars => OwnBytes'
  <1> SUFFICES ASSUME TypeOK, OwnBytes, [Next]_vars PROVE OwnBytes'
    OBVIOUS
  <1> USE DEF TypeOK, OwnBytes, Timed, Finished, Goto, locals
  <1>1. ASSUME NEW g \in Calls, NEW p \in Packets, NEW a \in IPs, Call(g, p, a) PROVE OwnBytes'
    BY <1>1 DEF Call
  <1>2. ASSUME NEW g \in Calls, Parse(g, arg[g]) PROVE OwnBytes'
    BY <1>2 DEF Parse
  <1>3. ASSUME NEW g \in Calls, CheckBinding(g, arg[g]) PROVE OwnBytes'
    BY <1>3 DEF CheckBinding
  <1>4. ASSUME NEW g \in Calls, CheckTimestamp(g) PROVE OwnBytes'
    BY <1>4 DEF CheckTimestamp
  <1>5. ASSUME NEW g \in Calls, TryTOTPSecret(g) PROVE OwnBytes'
    BY <1>5 DEF TryTOTPSecret
  <1>6. ASSUME NEW g \in Calls, NoTOTPSecretLeft(g) PROVE OwnBytes'
    BY <1>6 DEF NoTOTPSecretLeft
  <1>7. ASSUME NEW g \in Calls, CheckSignature(g, arg[g]) PROVE OwnBytes'
    BY <1>7 DEF CheckSignature
  <1>8. ASSUME NEW g \in Calls, HashPacket(g, arg[g]) PROVE OwnBytes'
    BY <1>8 DEF HashPacket
  <1>9. ASSUME NEW g \in Calls, CheckReplay(g) PROVE OwnBytes'
    BY <1>9 DEF CheckReplay
  <1>10. ASSUME NEW g \in Calls, Return(g) PROVE OwnBytes'
    BY <1>10 DEF Return
  <1>11. CASE Tick
    BY <1>11 DEF Tick
  <1>12. CASE UNCHANGED vars
    BY <1>12 DEF vars
  <1> QED
    BY <1>1, <1>2, <1>3, <1>4, <1>5, <1>6, <1>7, <1>8, <1>9, <1>10, <1>11, <1>12
    DEF Next, VerifyPacket

(* Running calls stay within MaxDelay of their clock read. *)
LEMMA NextInTime == TypeOK /\ InTime /\ [Next]_vars => InTime'
  <1> SUFFICES ASSUME TypeOK, InTime, [Next]_vars PROVE InTime'
    OBVIOUS
  <1> USE DEF TypeOK, InTime, Timed, Finished, Goto, locals
  <1>1. ASSUME NEW g \in Calls, NEW p \in Packets, NEW a \in IPs, Call(g, p, a) PROVE InTime'
    BY <1>1, TimeAssumption DEF Call
  <1>2. ASSUME NEW g \in Calls, Parse(g, arg[g]) PROVE InTime'
    BY <1>2, TimeAssumption DEF Parse
  <1>3. ASSUME NEW g \in Calls, CheckBinding(g, arg[g]) PROVE InTime'
    BY <1>3, TimeAssumption DEF CheckBinding
  <1>4. ASSUME NEW g \in Calls, CheckTimestamp(g) PROVE InTime'
    BY <1>4, TimeAssumption DEF CheckTimestamp
  <1>5. ASSUME NEW g \in Calls, TryTOTPSecret(g) PROVE InTime'
    BY <1>5, TimeAssumption DEF TryTOTPSecret
  <1>6. ASSUME NEW g \in Calls, NoTOTPSecretLeft(g) PROVE InTime'
    BY <1>6, TimeAssumption DEF NoTOTPSecretLeft
  <1>7. ASSUME NEW g \in Calls, CheckSignature(g, arg[g]) PROVE InTime'
    BY <1>7, TimeAssumption DEF CheckSignature
  <1>8. ASSUME NEW g \in Calls, HashPacket(g, arg[g]) PROVE InTime'
    BY <1>8, TimeAssumption DEF HashPacket
  <1>9. ASSUME NEW g \in Calls, CheckReplay(g) PROVE InTime'
    BY <1>9, TimeAssumption DEF CheckReplay
  <1>10. ASSUME NEW g \in Calls, Return(g) PROVE InTime'
    BY <1>10, TimeAssumption DEF Return
  <1>11. CASE Tick
    BY <1>11, TimeAssumption DEF Tick
  <1>12. CASE UNCHANGED vars
    BY <1>12, TimeAssumption DEF vars
  <1> QED
    BY <1>1, <1>2, <1>3, <1>4, <1>5, <1>6, <1>7, <1>8, <1>9, <1>10, <1>11, <1>12
    DEF Next, VerifyPacket

(* The moment at which a code was found valid stays behind a call. *)
LEMMA NextCodeChecked == TypeOK /\ InTime /\ CodeChecked /\ [Next]_vars => CodeChecked'
  <1> SUFFICES ASSUME TypeOK, InTime, CodeChecked, [Next]_vars PROVE CodeChecked'
    OBVIOUS
  <1> USE DEF TypeOK, InTime, CodeChecked, Timed, Finished, Goto, locals
  <1>1. ASSUME NEW g \in Calls, NEW p \in Packets, NEW a \in IPs, Call(g, p, a) PROVE CodeChecked'
    BY <1>1, TimeAssumption DEF Call
  <1>2. ASSUME NEW g \in Calls, Parse(g, arg[g]) PROVE CodeChecked'
    BY <1>2, TimeAssumption DEF Parse
  <1>3. ASSUME NEW g \in Calls, CheckBinding(g, arg[g]) PROVE CodeChecked'
    BY <1>3, TimeAssumption DEF CheckBinding
  <1>4. ASSUME NEW g \in Calls, CheckTimestamp(g) PROVE CodeChecked'
    BY <1>4, TimeAssumption DEF CheckTimestamp
  <1>5. ASSUME NEW g \in Calls, TryTOTPSecret(g) PROVE CodeChecked'
    <2> SUFFICES ASSUME NEW h \in Calls, pc'[h] \in Timed \ {"totp"}
                 PROVE  \E u \in now'[h] .. clock' : CodeValid(u, hdr'[h].totp)
      BY DEF CodeValid
    <2>1. CASE h = g
      <3>1. PICK k \in todo[g] : ValidateTOTP(k, clock, hdr[g].totp)
        BY <1>5, <2>1 DEF TryTOTPSecret
      <3>2. CodeValid(clock, hdr[g].totp)
        BY <3>1 DEF CodeValid
      <3>3. clock \in now[g] .. clock
        BY <1>5, TimeAssumption DEF TryTOTPSecret
      <3> QED  BY <1>5, <2>1, <3>2, <3>3 DEF TryTOTPSecret
    <2>2. CASE h # g
      BY <1>5, <2>2 DEF TryTOTPSecret
    <2> QED  BY <2>1, <2>2
  <1>6. ASSUME NEW g \in Calls, NoTOTPSecretLeft(g) PROVE CodeChecked'
    BY <1>6, TimeAssumption DEF NoTOTPSecretLeft
  <1>7. ASSUME NEW g \in Calls, CheckSignature(g, arg[g]) PROVE CodeChecked'
    BY <1>7, TimeAssumption DEF CheckSignature
  <1>8. ASSUME NEW g \in Calls, HashPacket(g, arg[g]) PROVE CodeChecked'
    BY <1>8, TimeAssumption DEF HashPacket
  <1>9. ASSUME NEW g \in Calls, CheckReplay(g) PROVE CodeChecked'
    BY <1>9, TimeAssumption DEF CheckReplay
  <1>10. ASSUME NEW g \in Calls, Return(g) PROVE CodeChecked'
    BY <1>10, TimeAssumption DEF Return
  <1>11. CASE Tick
    BY <1>11, TimeAssumption DEF Tick
  <1>12. CASE UNCHANGED vars
    BY <1>12, TimeAssumption DEF vars
  <1> QED
    BY <1>1, <1>2, <1>3, <1>4, <1>5, <1>6, <1>7, <1>8, <1>9, <1>10, <1>11, <1>12
    DEF Next, VerifyPacket

(* Only the locked section and the clock touch the cache, the history and the time. *)
LEMMA SharedSteps ==
    ASSUME [Next]_vars
    PROVE  \/ \E g \in Calls : CheckReplay(g)
           \/ Tick
           \/ UNCHANGED <<clock, seenCache, accepts>>
  BY DEF Next, VerifyPacket, vars, Call, Parse, CheckBinding, CheckTimestamp, TryTOTPSecret,
         NoTOTPSecretLeft, CheckSignature, HashPacket, Return

(***************************************************************************)
(* The heart of the argument: a call that finds its packet missing from    *)
(* the cache holds a packet that was never accepted.  If it had been, the  *)
(* entry was purged more than MaxTimeDiff after the first acceptance; but  *)
(* the code was valid then and is valid for this call, so the two lie      *)
(* within one code lifetime plus the delays, which is less.                *)
(***************************************************************************)
LEMMA MissingIsNew ==
    ASSUME IInv, NEW g \in Calls, pc[g] = "lock", arg[g] \notin Kept(now[g])
    PROVE  accepts[arg[g]] = 0
  <1> DEFINE p == arg[g]
             life == (2 * TOTPTolerance + 1) * TOTPTimeStep
  <1>1. SUFFICES ASSUME accepts[p] >= 1 PROVE FALSE
    BY DEF IInv, TypeOK
  <1>2. /\ p \in Packets /\ hdr[g] = p.body
        /\ now[g] \in StartTime .. MaxClock /\ clock \in StartTime .. MaxClock
        /\ now[g] <= clock /\ clock <= now[g] + MaxDelay
        /\ TimestampOK(now[g], p.body.timestamp)
    BY DEF IInv, TypeOK, OwnBytes, InTime, Timed
  <1>3. PICK v \in now[g] .. clock : CodeValid(v, p.body.totp)
    BY <1>2 DEF IInv, CodeChecked, Timed
  <1>4. PICK c \in StartTime .. clock :
            /\ AcceptableAt(p, c)
            /\ p \in DOMAIN seenCache => seenCache[p] = c
            /\ p \notin DOMAIN seenCache => clock > c + MaxTimeDiff
    BY <1>1, <1>2 DEF IInv, CacheExact
  <1>5. PICK u \in c .. c + MaxDelay : u <= clock /\ CodeValid(u, p.body.totp)
    BY <1>4 DEF AcceptableAt
  <1>6. clock > c + MaxTimeDiff
    <2>1. CASE p \in DOMAIN seenCache
      BY <1>2, <1>4, <2>1, TimeAssumption, StepAssumption DEF Kept
    <2>2. CASE p \notin DOMAIN seenCache
      BY <1>4, <2>2
    <2> QED  BY <2>1, <2>2
  <1>7. now[g] - c <= 2 * MaxTimeDiff
    BY <1>2, <1>4, TimestampSpan, TimeAssumption, PacketAssumption DEF AcceptableAt
  <1>8. v - u <= 2 * MaxTimeDiff + MaxDelay
    BY <1>2, <1>3, <1>4, <1>5, <1>7, TimeAssumption, StepAssumption
  <1>9. u \in 0 .. MaxClock /\ v \in 0 .. MaxClock
    BY <1>2, <1>3, <1>4, <1>5, TimeAssumption
  <1>10. v - u <= life - 1
    BY <1>3, <1>5, <1>8, <1>9, CodeLifetime
  <1>11. life \in Int /\ life - 1 + 2 * MaxDelay <= MaxTimeDiff
    BY WindowAssumption, StepAssumption
  <1> HIDE DEF life
  <1> QED
    BY <1>2, <1>3, <1>4, <1>5, <1>6, <1>10, <1>11, TimeAssumption, StepAssumption

(* The locked section keeps the cache exact and accepts a packet once. *)
LEMMA ReplayStep ==
    ASSUME IInv, NEW g \in Calls, CheckReplay(g)
    PROVE  CacheExact' /\ NoReplay' /\ NoFalseReplay'
  <1> DEFINE p == arg[g]
             kept == Kept(now[g])
  <1>1. /\ p \in Packets /\ hash[g] = p /\ hdr[g] = p.body /\ pc[g] = "lock"
        /\ now[g] \in StartTime .. MaxClock /\ clock \in StartTime .. MaxClock
        /\ now[g] <= clock /\ clock <= now[g] + MaxDelay
        /\ TimestampOK(now[g], p.body.timestamp)
        /\ \E u \in now[g] .. clock : CodeValid(u, p.body.totp)
    BY DEF IInv, TypeOK, OwnBytes, InTime, CodeChecked, Timed, CheckReplay, Goto
  <1>2. /\ clock' = clock /\ arg' = arg
        /\ accepts \in [Packets -> Nat] /\ pc \in [Calls -> {"idle", "parse", "bind", "time"} \cup Timed \cup Finished]
    BY DEF CheckReplay, locals, IInv, TypeOK
  <1>3. kept \subseteq DOMAIN seenCache
    BY DEF Kept
  <1>4. \A h \in DOMAIN seenCache : h \notin kept => clock > seenCache[h] + MaxTimeDiff
    BY <1>1, TimeAssumption, StepAssumption DEF Kept, IInv, TypeOK
  <1>5. AcceptableAt(p, now[g])
    BY <1>1, TimeAssumption DEF AcceptableAt
  <1> HIDE DEF kept
  <1>6. CASE hash[g] \in kept
    <2>1. /\ seenCache' = [h \in kept |-> seenCache[h]] /\ accepts' = accepts
          /\ pc' = [pc EXCEPT ![g] = "replayed"]
      BY <1>6 DEF CheckReplay, Goto, kept
    <2>2. CacheExact'
      BY <1>2, <1>3, <1>4, <2>1 DEF IInv, CacheExact, AcceptableAt
    <2>3. NoReplay' /\ NoFalseReplay'
      BY <1>1, <1>2, <1>3, <1>6, <2>1 DEF IInv, CacheExact, NoReplay, NoFalseReplay
    <2> QED  BY <2>2, <2>3
  <1>7. CASE hash[g] \notin kept
    <2>1. /\ seenCache' = [h \in kept \cup {p} |-> IF h = p THEN now[g] ELSE seenCache[h]]
          /\ accepts' = [accepts EXCEPT ![p] = @ + 1]
          /\ pc' = [pc EXCEPT ![g] = "accepted"]
      BY <1>1, <1>7 DEF CheckReplay, Goto, kept
    <2>2. accepts[p] = 0
      BY <1>1, <1>7, MissingIsNew DEF kept
    <2>3. accepts'[p] = 1 /\ \A q \in Packets : q # p => accepts'[q] = accepts[q]
      BY <1>1, <1>2, <2>1, <2>2
    <2>4. CacheExact'
      <3>1. \A h \in DOMAIN seenCache' : accepts'[h] >= 1
        BY <1>1, <1>2, <1>3, <2>1, <2>3 DEF IInv, CacheExact, TypeOK
      <3>2. ASSUME NEW q \in Packets, accepts'[q] >= 1
            PROVE  \E c \in StartTime .. clock' :
                      /\ AcceptableAt(q, c)'
                      /\ q \in DOMAIN seenCache' => seenCache'[q] = c
                      /\ q \notin DOMAIN seenCache' => clock' > c + MaxTimeDiff
        <4>1. CASE q = p
          BY <1>1, <1>2, <1>5, <2>1, <4>1, TimeAssumption DEF AcceptableAt
        <4>2. CASE q # p
          BY <1>2, <1>3, <1>4, <2>1, <2>3, <3>2, <4>2 DEF IInv, CacheExact, AcceptableAt
        <4> QED  BY <4>1, <4>2
      <3> QED  BY <3>1, <3>2 DEF CacheExact
    <2>5. NoReplay'
      BY <2>3 DEF IInv, NoReplay
    <2>6. NoFalseReplay'
      BY <1>1, <1>2, <2>1, <2>3 DEF IInv, NoFalseReplay, TypeOK
    <2> QED  BY <2>4, <2>5, <2>6
  <1> QED  BY <1>6, <1>7

(* A replay verdict and the history are only made together, in the locked section. *)
LEMMA OtherVerdicts ==
    ASSUME TypeOK, NoFalseReplay, [Next]_vars, UNCHANGED <<clock, seenCache, accepts>>,
           ~\E g \in Calls : CheckReplay(g)
    PROVE  NoFalseReplay'
  <1> SUFFICES ASSUME NEW h \in Calls, pc'[h] = "replayed"
               PROVE  pc[h] = "replayed" /\ arg'[h] = arg[h]
    BY DEF NoFalseReplay, TypeOK
  <1> QED
    BY DEF TypeOK, Goto, locals, vars, Next, VerifyPacket, Call, Parse, CheckBinding,
           CheckTimestamp, TryTOTPSecret, NoTOTPSecretLeft, CheckSignature, HashPacket,
           Return, Tick, Timed, Finished

LEMMA InitIInv == Init => IInv
  <1> SUFFICES ASSUME Init PROVE IInv
    OBVIOUS
  <1>1. TypeOK
    BY InitType
  <1>2. OwnBytes /\ InTime /\ CodeChecked /\ NoFalseReplay
    BY DEF Init, OwnBytes, InTime, CodeChecked, NoFalseReplay, Timed
  <1>3. CacheExact /\ NoReplay
    BY DEF Init, CacheExact, NoReplay
  <1> QED  BY <1>1, <1>2, <1>3 DEF IInv

LEMMA NextIInv == IInv /\ [Next]_vars => IInv'
  <1> SUFFICES ASSUME IInv, [Next]_vars PROVE IInv'
    OBVIOUS
  <1>1. TypeOK' /\ OwnBytes' /\ InTime' /\ CodeChecked'
    BY NextType, NextOwnBytes, NextInTime, NextCodeChecked DEF IInv
  <1>2. CacheExact' /\ NoReplay' /\ NoFalseReplay'
    <2>1. CASE \E g \in Calls : CheckReplay(g)
      BY <2>1, ReplayStep
    <2>2. CASE Tick
      <3>1. /\ clock' = clock + 1 /\ seenCache' = seenCache /\ accepts' = accepts
            /\ pc' = pc /\ arg' = arg /\ clock \in Int /\ StartTime \in Int
        BY <2>2, TimeAssumption DEF Tick, locals, IInv, TypeOK
      <3>2. CacheExact'
        BY <3>1, TimeAssumption, StepAssumption DEF IInv, CacheExact, AcceptableAt
      <3> QED  BY <3>1, <3>2 DEF IInv, NoReplay, NoFalseReplay
    <2>3. CASE UNCHANGED <<clock, seenCache, accepts>> /\ ~\E g \in Calls : CheckReplay(g)
      BY <2>3, OtherVerdicts DEF IInv, CacheExact, AcceptableAt, NoReplay
    <2> QED  BY <2>1, <2>2, <2>3, SharedSteps
  <1> QED  BY <1>1, <1>2 DEF IInv

(* The inductive invariant holds in every reachable state. *)
THEOREM Invariance == Spec => []IInv
  BY InitIInv, NextIInv, PTL DEF Spec

(* No packet is ever accepted twice: the replay cache of VerifyPacket is sound although *)
(* it forgets entries, for every instance that meets the named assumptions.             *)
THEOREM ReplayProtection == Spec => []NoReplay
  <1>1. IInv => NoReplay
    BY DEF IInv
  <1> QED  BY <1>1, Invariance, PTL

(* Only a packet that was accepted before is turned away as a replay. *)
THEOREM NoPacketLost == Spec => []NoFalseReplay
  <1>1. IInv => NoFalseReplay
    BY DEF IInv
  <1> QED  BY <1>1, Invariance, PTL

(* A purged packet can no longer pass the timestamp and the TOTP check. *)
THEOREM PurgeIsSafe == Spec => []ForgottenIsStale
  <1>1. IInv => ForgottenIsStale
    <2> SUFFICES ASSUME IInv, NEW p \in Packets, accepts[p] >= 1, p \notin DOMAIN seenCache,
                        NEW t \in StartTime .. MaxClock, t >= clock - MaxDelay,
                        TimestampOK(t, p.body.timestamp), CodeValid(t, p.body.totp)
                 PROVE  FALSE
      BY DEF ForgottenIsStale
    <2> DEFINE life == (2 * TOTPTolerance + 1) * TOTPTimeStep
    <2>1. clock \in StartTime .. MaxClock
      BY DEF IInv, TypeOK
    <2>2. PICK c \in StartTime .. clock : AcceptableAt(p, c) /\ clock > c + MaxTimeDiff
      BY DEF IInv, CacheExact
    <2>3. PICK u \in c .. c + MaxDelay : u <= clock /\ CodeValid(u, p.body.totp)
      BY <2>2 DEF AcceptableAt
    <2>4. t - c <= 2 * MaxTimeDiff
      BY <2>1, <2>2, TimestampSpan, TimeAssumption, PacketAssumption DEF AcceptableAt
    <2>5. u \in 0 .. MaxClock /\ t \in 0 .. MaxClock /\ t - u <= 2 * MaxTimeDiff + MaxDelay
      BY <2>1, <2>2, <2>3, <2>4, TimeAssumption, StepAssumption
    <2>6. t - u <= life - 1
      BY <2>3, <2>5, CodeLifetime
    <2>7. life \in Int /\ life - 1 + 2 * MaxDelay <= MaxTimeDiff
      BY WindowAssumption, StepAssumption
    <2> HIDE DEF life
    <2> QED  BY <2>1, <2>2, <2>3, <2>6, <2>7, TimeAssumption, StepAssumption
  <1> QED  BY <1>1, Invariance, PTL

-----------------------------------------------------------------------------
(* The client's code is found valid by a server whose clock is within the tolerance. *)
LEMMA StepDistance ==
    ASSUME NEW u \in Nat, NEW v \in Nat, v <= u + TOTPTolerance * TOTPTimeStep
    PROVE  v \div TOTPTimeStep <= (u \div TOTPTimeStep) + TOTPTolerance
  <1> DEFINE q == u \div TOTPTimeStep
             r == v \div TOTPTimeStep
  <1>1. /\ q \in Nat /\ r \in Nat
        /\ u < TOTPTimeStep * q + TOTPTimeStep
        /\ TOTPTimeStep * r <= v
    BY StepBounds
  <1> HIDE DEF q, r
  <1>2. SUFFICES ASSUME r >= q + TOTPTolerance + 1 PROVE FALSE
    BY <1>1, StepAssumption DEF q, r
  <1>3. TOTPTimeStep * (q + TOTPTolerance + 1) <= TOTPTimeStep * r
    BY <1>1, <1>2, StepAssumption, TimesStep
  <1>4. TOTPTimeStep * (q + TOTPTolerance + 1)
          = TOTPTimeStep * q + TOTPTolerance * TOTPTimeStep + TOTPTimeStep
    BY <1>1, StepAssumption, Z3
  <1>5. TOTPTimeStep * q \in Int /\ TOTPTimeStep * r \in Int /\ TOTPTolerance * TOTPTimeStep \in Int
    BY <1>1, StepAssumption
  <1> QED  BY <1>1, <1>3, <1>4, <1>5, StepAssumption

LEMMA CloseCode ==
    ASSUME NEW u \in Nat, NEW t \in Nat, NEW secret,
           t <= u + TOTPTolerance * TOTPTimeStep, u <= t + TOTPTolerance * TOTPTimeStep
    PROVE  ValidateTOTP(secret, u, GenerateTOTP(secret, t))
  <1> DEFINE q == u \div TOTPTimeStep
             r == t \div TOTPTimeStep
  <1>1. q \in Nat /\ r \in Nat
    BY StepBounds
  <1>2. r <= q + TOTPTolerance /\ q <= r + TOTPTolerance
    BY StepDistance
  <1> HIDE DEF q, r
  <1>3. r - q \in -TOTPTolerance .. TOTPTolerance /\ q + (r - q) = r
    BY <1>1, <1>2, StepAssumption
  <1>4. TOTP(secret, q + (r - q)) = TOTP(secret, r)
    BY <1>3
  <1>5. \E i \in -TOTPTolerance .. TOTPTolerance : TOTP(secret, q + i) = TOTP(secret, r)
    BY <1>3, <1>4
  <1> QED  BY <1>5 DEF ValidateTOTP, GenerateTOTP, q, r

(* What a secret tried in vain says stays true while the loop goes on. *)
LEMMA NextSecretsTried == TypeOK /\ InTime /\ SecretsTried /\ [Next]_vars => SecretsTried'
  <1> SUFFICES ASSUME TypeOK, InTime, SecretsTried, [Next]_vars PROVE SecretsTried'
    OBVIOUS
  <1> USE DEF TypeOK, InTime, SecretsTried, Timed, Finished, Goto, locals
  <1>1. ASSUME NEW g \in Calls, NEW p \in Packets, NEW a \in IPs, Call(g, p, a) PROVE SecretsTried'
    BY <1>1, TimeAssumption DEF Call
  <1>2. ASSUME NEW g \in Calls, Parse(g, arg[g]) PROVE SecretsTried'
    BY <1>2, TimeAssumption DEF Parse
  <1>3. ASSUME NEW g \in Calls, CheckBinding(g, arg[g]) PROVE SecretsTried'
    BY <1>3, TimeAssumption DEF CheckBinding
  <1>4. ASSUME NEW g \in Calls, CheckTimestamp(g) PROVE SecretsTried'
    BY <1>4, TimeAssumption DEF CheckTimestamp
  <1>5. ASSUME NEW g \in Calls, TryTOTPSecret(g) PROVE SecretsTried'
    <2> SUFFICES ASSUME NEW h \in Calls, pc'[h] = "totp", NEW l \in TOTPKeys \ todo'[h]
                 PROVE  \E u \in now'[h] .. clock' : ~ValidateTOTP(l, u, hdr'[h].totp)
      OBVIOUS
    <2>1. now' = now /\ clock' = clock /\ hdr' = hdr
      BY <1>5 DEF TryTOTPSecret
    <2>2. CASE h = g
      <3>1. PICK k \in todo[g] : /\ pc[g] = "totp"
                                 /\ pc' = [pc EXCEPT ![g] = IF ValidateTOTP(k, clock, hdr[g].totp)
                                                             THEN "sig" ELSE "totp"]
                                 /\ todo' = [todo EXCEPT ![g] = @ \ {k}]
        BY <1>5 DEF TryTOTPSecret
      <3>2. ~ValidateTOTP(k, clock, hdr[g].totp)
        BY <2>2, <3>1
      <3>3. clock \in now[g] .. clock
        BY <3>1, TimeAssumption
      <3>4. CASE l = k
        BY <2>1, <2>2, <3>2, <3>3, <3>4
      <3>5. CASE l # k
        BY <2>1, <2>2, <3>1, <3>5
      <3> QED  BY <3>4, <3>5
    <2>3. CASE h # g
      BY <1>5, <2>1, <2>3 DEF TryTOTPSecret
    <2> QED  BY <2>2, <2>3
  <1>6. ASSUME NEW g \in Calls, NoTOTPSecretLeft(g) PROVE SecretsTried'
    BY <1>6, TimeAssumption DEF NoTOTPSecretLeft
  <1>7. ASSUME NEW g \in Calls, CheckSignature(g, arg[g]) PROVE SecretsTried'
    BY <1>7, TimeAssumption DEF CheckSignature
  <1>8. ASSUME NEW g \in Calls, HashPacket(g, arg[g]) PROVE SecretsTried'
    BY <1>8, TimeAssumption DEF HashPacket
  <1>9. ASSUME NEW g \in Calls, CheckReplay(g) PROVE SecretsTried'
    BY <1>9, TimeAssumption DEF CheckReplay
  <1>10. ASSUME NEW g \in Calls, Return(g) PROVE SecretsTried'
    BY <1>10, TimeAssumption DEF Return
  <1>11. CASE Tick
    BY <1>11, TimeAssumption DEF Tick
  <1>12. CASE UNCHANGED vars
    BY <1>12, TimeAssumption DEF vars
  <1> QED
    BY <1>1, <1>2, <1>3, <1>4, <1>5, <1>6, <1>7, <1>8, <1>9, <1>10, <1>11, <1>12
    DEF Next, VerifyPacket

(* A packet that SendMagicPacket makes has this form, and its signature verifies. *)
LEMMA ClientPacketForm ==
    ASSUME NEW a, NEW t, NEW p \in ClientPackets(a, t)
    PROVE  /\ \E secret \in TOTPKeys : p.body.totp = GenerateTOTP(secret, t)
           /\ p.body.timestamp \in t .. t + MaxDelay
           /\ p.body.version = 2 /\ p.body.ip = a
           /\ ParseSPAPacket(p)
           /\ VerifySignature(p.body.mode, p)
  <1>1. PICK key \in ClientKeys, secret \in TOTPKeys, ts \in t .. t + MaxDelay, n \in PaddingSizes :
            p = SendMagicPacket(key, GenerateTOTP(secret, t), ts, n, a)
    BY DEF ClientPackets
  <1>2. n \in Nat
    BY DEF PaddingSizes
  <1>3. CASE Mode = "asymmetric"
    <2>1. p = Create(2, key, GenerateTOTP(secret, t), ts, n, a)
      BY <1>1, <1>3 DEF SendMagicPacket, CreateAsymmetricPacket
    <2>2. key \in Configured(PublicKeys, PublicKey)
      BY <1>3 DEF ClientKeys
    <2> QED
      BY <1>2, <1>3, <2>1, <2>2
      DEF Create, ParseSPAPacket, HeaderSize, SignatureSize, VerifySignature, Signs
  <1>4. CASE Mode = "dynamic"
    <2>1. p = Create(1, key, GenerateTOTP(secret, t), ts, n, a)
      BY <1>1, <1>4 DEF SendMagicPacket, CreateDynamicPacket
    <2>2. key \in Configured(HMACSecrets, HMACSecret)
      BY <1>4 DEF ClientKeys
    <2> QED
      BY <1>2, <1>4, <2>1, <2>2
      DEF Create, ParseSPAPacket, HeaderSize, SignatureSize, VerifySignature, Signs
  <1> QED  BY <1>3, <1>4 DEF ClientKeys

(* A step that rejects does not reject the packet of a client with a close clock. *)
LEMMA HonestStep ==
    ASSUME IInv, SecretsTried, Next,
           NEW g \in Calls, pc[g] # "rejected", pc'[g] = "rejected",
           NEW t \in CloseClocks(clock), arg[g] \in ClientPackets(ip[g], t)
    PROVE  FALSE
  <1> DEFINE w == TOTPTolerance * TOTPTimeStep
             p == arg[g]
  <1>1. /\ clock \in Nat /\ t \in Nat /\ w \in Nat /\ MaxDelay \in Nat
        /\ clock <= t + w /\ t <= clock + w - MaxDelay
    <2>1. w \in Nat
      BY StepAssumption
    <2> HIDE DEF w
    <2>2. t \in {x \in clock - w .. clock + w - MaxDelay : x >= 0}
      BY DEF CloseClocks, w
    <2> QED  BY <2>1, <2>2, TimeAssumption DEF IInv, TypeOK
  <1>2. PICK secret \in TOTPKeys : p.body.totp = GenerateTOTP(secret, t)
    BY ClientPacketForm
  <1>3. /\ p.body.timestamp \in t .. t + MaxDelay
        /\ p.body.version = 2 /\ p.body.ip = ip[g]
        /\ ParseSPAPacket(p) /\ VerifySignature(p.body.mode, p)
    BY ClientPacketForm
  <1>4. w + MaxDelay <= MaxTimeDiff
    <2>1. (2 * TOTPTolerance + 1) * TOTPTimeStep = w + w + TOTPTimeStep
      BY StepAssumption, Z3
    <2>2. w \in Nat
      BY StepAssumption
    <2> HIDE DEF w
    <2> QED  BY <2>1, <2>2, WindowAssumption, StepAssumption, TimeAssumption
  <1>5. pc[g] \in {"parse", "bind", "time", "totp", "sig"} /\ VerifyPacket(g, arg[g])
    <2>1. ~Tick
      BY DEF Tick
    <2>2. PICK h \in Calls : \/ \E q \in Packets, a \in IPs : Call(h, q, a)
                             \/ VerifyPacket(h, arg[h])
                             \/ Return(h)
      BY <2>1 DEF Next
    <2>3. h = g
      BY <2>2 DEF IInv, TypeOK, Call, Return, VerifyPacket, Parse, CheckBinding, CheckTimestamp,
                  TryTOTPSecret, NoTOTPSecretLeft, CheckSignature, HashPacket, CheckReplay, Goto
    <2>4. VerifyPacket(g, arg[g])
      BY <2>2, <2>3 DEF IInv, TypeOK, Call, Return, Goto
    <2>5. pc[g] \in {"parse", "bind", "time", "totp", "sig"}
      BY <2>4 DEF IInv, TypeOK, VerifyPacket, Parse, CheckBinding, CheckTimestamp,
                  TryTOTPSecret, NoTOTPSecretLeft, CheckSignature, HashPacket, CheckReplay, Goto
    <2> QED  BY <2>4, <2>5
  <1>6. pc[g] # "parse" => hdr[g] = p.body
    BY <1>5 DEF IInv, OwnBytes
  <1>7. CASE pc[g] = "parse"
    BY <1>3, <1>5, <1>7 DEF IInv, TypeOK, VerifyPacket, Parse, CheckBinding, CheckTimestamp,
              TryTOTPSecret, NoTOTPSecretLeft, CheckSignature, HashPacket, CheckReplay, Goto
  <1>8. CASE pc[g] = "bind"
    <2>1. CheckBinding(g, arg[g])
      BY <1>5, <1>8 DEF VerifyPacket, Parse, CheckTimestamp, TryTOTPSecret,
                        NoTOTPSecretLeft, CheckSignature, HashPacket, CheckReplay, Goto
    <2> QED  BY <1>3, <2>1, <1>8 DEF IInv, TypeOK, CheckBinding, IPBound, Goto
  <1>9. CASE pc[g] = "time"
    <2>1. CheckTimestamp(g)
      BY <1>5, <1>9 DEF VerifyPacket, Parse, CheckBinding, TryTOTPSecret,
                        NoTOTPSecretLeft, CheckSignature, HashPacket, CheckReplay, Goto
    <2>2. ~TimestampOK(clock, p.body.timestamp)
      BY <2>1, <1>6, <1>9 DEF IInv, TypeOK, CheckTimestamp, Goto
    <2> HIDE DEF w, p
    <2>3. clock - p.body.timestamp <= MaxTimeDiff /\ p.body.timestamp - clock <= MaxTimeDiff
      BY <1>1, <1>3, <1>4, StepAssumption
    <2>4. TimestampOK(clock, p.body.timestamp)
      BY <1>1, <1>3, <2>3, StepAssumption, HalfAssumption DEF TimestampOK, TimeDiff, Int64
    <2> QED  BY <2>2, <2>4
  <1>10. CASE pc[g] = "totp"
    <2>1. todo[g] = {}
      BY <1>5, <1>10 DEF IInv, TypeOK, VerifyPacket, Parse, CheckBinding, CheckTimestamp, TryTOTPSecret,
                        NoTOTPSecretLeft, CheckSignature, HashPacket, CheckReplay, Goto
    <2>2. PICK u \in now[g] .. clock : ~ValidateTOTP(secret, u, p.body.totp)
      BY <2>1, <1>6, <1>10 DEF SecretsTried
    <2>3. now[g] \in Nat /\ clock <= now[g] + MaxDelay
      BY <1>10, TimeAssumption DEF IInv, InTime, TypeOK, Timed
    <2> HIDE DEF w, p
    <2>4. u \in Nat /\ t <= u + w /\ u <= t + w
      BY <1>1, <2>2, <2>3
    <2>5. ValidateTOTP(secret, u, GenerateTOTP(secret, t))
      BY <1>1, <2>4, CloseCode DEF w
    <2> QED  BY <1>2, <2>2, <2>5
  <1>11. CASE pc[g] = "sig"
    <2>1. CheckSignature(g, arg[g])
      BY <1>5, <1>11 DEF VerifyPacket, Parse, CheckBinding, CheckTimestamp, TryTOTPSecret,
                         NoTOTPSecretLeft, HashPacket, CheckReplay, Goto
    <2> QED  BY <1>3, <1>6, <1>11, <2>1 DEF IInv, TypeOK, CheckSignature, Goto
  <1> QED  BY <1>5, <1>7, <1>8, <1>9, <1>10, <1>11

(* The packet of a known client whose clock is within the tolerance is never rejected, *)
(* with any number of secrets, padding and concurrent calls (packet.go, verifier.go).  *)
THEOREM HonestClientAccepted == Spec => HonestAccepted
  <1>1. Init => SecretsTried
    BY DEF Init, SecretsTried
  <1>2. IInv /\ SecretsTried /\ [Next]_vars => SecretsTried'
    BY NextSecretsTried DEF IInv
  <1>3. IInv /\ SecretsTried /\ [Next]_vars =>
          [\A g \in Calls : pc[g] # "rejected" /\ pc'[g] = "rejected" =>
              \A t \in CloseClocks(clock) : arg[g] \notin ClientPackets(ip[g], t)]_vars
    BY HonestStep
  <1> QED  BY <1>1, <1>2, <1>3, Invariance, PTL DEF Spec, HonestAccepted

-----------------------------------------------------------------------------
(* The handler: grants come from signed bytes that have arrived. *)

(* What a step of VerifyPacket on the buffer may do to the goroutine that takes it. *)
LEMMA VerifyOnBuffer ==
    ASSUME HandlerTypeOK, NEW g \in Calls, VerifyPacket(g, View(g))
    PROVE  /\ UNCHANGED <<arg, ip>>
           /\ hash' \in [Calls -> Packets]
           /\ pc[g] # "idle"
           /\ pc' = [pc EXCEPT ![g] = pc'[g]]
           /\ pc'[g] \in {"bind", "time"} \cup Timed \cup Finished
           /\ pc'[g] \in {"lock", "accepted"} => pc[g] \in {"hash", "lock"}
           /\ pc'[g] = "hash" => VerifySignature(hdr[g].mode, View(g))
  <1>1. View(g) \in Packets
    BY BufferAssumption DEF View, HandlerTypeOK
  <1>2. ASSUME NEW l, pc' = [pc EXCEPT ![g] = l]
        PROVE  pc'[g] = l /\ pc' = [pc EXCEPT ![g] = pc'[g]]
    BY <1>2 DEF HandlerTypeOK
  <1> USE DEF Goto, locals, Timed, Finished
  <1>3. UNCHANGED <<arg, ip>> /\ hash' \in [Calls -> Packets]
    BY <1>1 DEF VerifyPacket, Parse, CheckBinding, CheckTimestamp, TryTOTPSecret,
                NoTOTPSecretLeft, CheckSignature, HashPacket, CheckReplay, HandlerTypeOK
  <1>4. CASE Parse(g, View(g)) \/ CheckBinding(g, View(g))
    BY <1>2, <1>3, <1>4 DEF Parse, CheckBinding
  <1>5. CASE CheckTimestamp(g) \/ NoTOTPSecretLeft(g)
    BY <1>2, <1>3, <1>5 DEF CheckTimestamp, NoTOTPSecretLeft
  <1>6. CASE TryTOTPSecret(g)
    BY <1>2, <1>3, <1>6 DEF TryTOTPSecret
  <1>7. CASE CheckSignature(g, View(g))
    BY <1>2, <1>3, <1>7 DEF CheckSignature
  <1>8. CASE HashPacket(g, View(g)) \/ CheckReplay(g)
    BY <1>2, <1>3, <1>8 DEF HashPacket, CheckReplay
  <1> QED  BY <1>4, <1>5, <1>6, <1>7, <1>8 DEF VerifyPacket

(* Bytes of the buffer that verify are parts of arrived datagrams that verify together. *)
LEMMA VerifiedView ==
    ASSUME HandlerTypeOK, BytesArrived, NEW g \in Calls, pc[g] # "idle",
           VerifySignature(hdr[g].mode, View(g))
    PROVE  GenuineArrived
  <1>1. PICK n \in Arrived : arg[g] = n.pkt
    BY DEF BytesArrived
  <1>2. PICK b \in Arrived, s \in Arrived : buffer.body = b.pkt.body /\ buffer.sig = s.pkt.sig
    BY DEF BytesArrived
  <1>3. buffer = [body |-> buffer.body, sig |-> buffer.sig]
    BY BufferAssumption DEF HandlerTypeOK
  <1>4. View(g) = [body |-> [buffer.body EXCEPT !.size = arg[g].body.size], sig |-> buffer.sig]
    <2>1. ASSUME NEW x, NEW y, NEW k
          PROVE  [[body |-> x, sig |-> y] EXCEPT !.body.size = k] =
                     [body |-> [x EXCEPT !.size = k], sig |-> y]
      OBVIOUS
    <2> QED  BY <1>3, <2>1 DEF View
  <1>5. View(g) \in Mixtures
    <2>1. View(g) = Mixture(b, n, s)
      BY <1>1, <1>2, <1>4 DEF Mixture
    <2> QED  BY <2>1 DEF Mixtures
  <1>6. View(g).body.mode = hdr[g].mode
    BY DEF VerifySignature
  <1> QED  BY <1>5, <1>6 DEF GenuineArrived

(* What has arrived stays arrived. *)
LEMMA ArrivedGrows ==
    ASSUME wire' \subseteq wire
    PROVE  /\ Arrived \subseteq Arrived'
           /\ GenuineArrived => GenuineArrived'
           /\ {d.from : d \in Arrived} \subseteq {d.from : d \in Arrived'}
  <1>1. Arrived \subseteq Arrived'
    BY DEF Arrived
  <1>2. Mixtures \subseteq Mixtures'
    BY <1>1 DEF Mixtures
  <1> QED  BY <1>1, <1>2 DEF GenuineArrived

LEMMA HandlerInitInvariant == HandlerInit => HandlerIInv
  BY NoPacketType, DatagramAssumption
  DEF HandlerInit, Init, HandlerIInv, GrantNeedsGenuine, HandlerTypeOK, BytesArrived

(* A step of a goroutine: the loop's variables stay, and it is granted only after the check. *)
LEMMA GoroutineKeeps ==
    ASSUME HandlerIInv, NEW g \in Calls, ProcessPacket(g)
    PROVE  HandlerIInv'
  <1> USE DEF HandlerIInv, GrantNeedsGenuine
  <1>1. UNCHANGED <<buffer, loop, current, wire, stopped>>
    BY DEF ProcessPacket, CheckStatic, ParseForLog, Whitelist, GiveUp, handler
  <1>2. Arrived' = Arrived /\ (GenuineArrived' <=> GenuineArrived)
    BY <1>1 DEF Arrived, GenuineArrived, Mixtures
  <1>3. ASSUME NEW l \in {"precheck", "parse", "bind", "time"} \cup Timed \cup Finished,
               pc[g] # "idle", pc' = [pc EXCEPT ![g] = l],
               UNCHANGED <<arg, ip, granted>>, hash' \in [Calls -> Packets],
               l \in {"hash", "lock", "accepted"} => GenuineArrived
        PROVE  HandlerIInv'
    <2>1. HandlerTypeOK'
      BY <1>1, <1>3 DEF HandlerTypeOK, Timed, Finished
    <2>2. BytesArrived'
      BY <1>1, <1>2, <1>3 DEF BytesArrived, HandlerTypeOK
    <2> QED  BY <1>2, <1>3, <2>1, <2>2
  <1>4. CASE CheckStatic(g) \/ ParseForLog(g)
    <2>1. PICK l \in {"precheck", "parse", "rejected"} : pc' = [pc EXCEPT ![g] = l]
      BY <1>4 DEF CheckStatic, ParseForLog, Goto
    <2>2. pc[g] # "idle" /\ UNCHANGED <<arg, ip, hash, granted>>
      BY <1>4 DEF CheckStatic, ParseForLog, Goto, locals, handler
    <2>3. hash' \in [Calls -> Packets]
      BY <2>2 DEF HandlerTypeOK
    <2> QED  BY <1>3, <2>1, <2>2, <2>3 DEF Finished
  <1>5. CASE VerifyPacket(g, View(g)) /\ UNCHANGED handler
    <2>1. /\ UNCHANGED <<arg, ip, granted>> /\ hash' \in [Calls -> Packets] /\ pc[g] # "idle"
          /\ pc' = [pc EXCEPT ![g] = pc'[g]]
          /\ pc'[g] \in {"bind", "time"} \cup Timed \cup Finished
          /\ pc'[g] \in {"lock", "accepted"} => pc[g] \in {"hash", "lock"}
          /\ pc'[g] = "hash" => VerifySignature(hdr[g].mode, View(g))
      BY <1>5, VerifyOnBuffer DEF handler
    <2>2. pc'[g] \in {"hash", "lock", "accepted"} => GenuineArrived
      BY <2>1, VerifiedView DEF BytesArrived
    <2> QED  BY <1>3, <2>1, <2>2
  <1>6. CASE Whitelist(g) \/ GiveUp(g)
    <2>1. /\ pc' = [pc EXCEPT ![g] = "idle"]
          /\ arg' = [arg EXCEPT ![g] = NoPacket] /\ ip' = [ip EXCEPT ![g] = NoIP]
          /\ hash' = [hash EXCEPT ![g] = NoPacket]
      BY <1>6 DEF Whitelist, GiveUp, Return
    <2>2. \/ granted' = granted
          \/ granted' = granted \cup {ip[g]} /\ pc[g] = "accepted"
      BY <1>6 DEF Whitelist, GiveUp, handler
    <2>3. pc[g] = "accepted" => GenuineArrived /\ ip[g] \in {d.from : d \in Arrived}
      BY DEF BytesArrived
    <2>4. HandlerTypeOK'
      BY <1>1, <2>1, <2>2, NoPacketType DEF HandlerTypeOK
    <2>5. BytesArrived'
      BY <1>1, <1>2, <2>1 DEF BytesArrived, HandlerTypeOK
    <2> QED  BY <1>2, <2>2, <2>3, <2>4, <2>5
  <1> QED  BY <1>4, <1>5, <1>6 DEF ProcessPacket

(* A step of the loop: the buffer takes parts of one more datagram. *)
LEMMA LoopKeeps ==
    ASSUME HandlerIInv, HandlePackets
    PROVE  HandlerIInv'
  <1> USE DEF HandlerIInv, GrantNeedsGenuine
  <1>1. CASE Select \/ ReadFails
    <2>1. /\ UNCHANGED <<pc, arg, ip, hash, buffer, current, wire, stopped, granted>>
          /\ loop' \in {"select", "read", "done"}
      BY <1>1 DEF Select, ReadFails, vars, locals
    <2>2. Arrived' = Arrived /\ (GenuineArrived' <=> GenuineArrived)
      BY <2>1 DEF Arrived, GenuineArrived, Mixtures
    <2>3. HandlerTypeOK'
      BY <2>1 DEF HandlerTypeOK
    <2>4. BytesArrived'
      BY <2>1, <2>2 DEF BytesArrived
    <2> QED  BY <2>1, <2>2, <2>3, <2>4
  <1>2. ASSUME NEW d \in Datagrams, ReadBody(d) PROVE HandlerIInv'
    <2>1. /\ d \in wire /\ wire' = wire \ {d} /\ current' = d /\ loop' = "copy"
          /\ buffer' = [buffer EXCEPT !.body = d.pkt.body]
          /\ UNCHANGED <<pc, arg, ip, hash, stopped, granted>>
      BY <1>2 DEF ReadBody, vars, locals
    <2>2. buffer = [body |-> buffer.body, sig |-> buffer.sig]
      BY BufferAssumption DEF HandlerTypeOK
    <2>3. buffer' = [body |-> d.pkt.body, sig |-> buffer.sig]
      BY <2>1, <2>2
    <2>4. buffer' \in Packets
      BY <2>3, BufferAssumption, DatagramAssumption DEF HandlerTypeOK
    <2>5. HandlerTypeOK'
      BY <2>1, <2>4 DEF HandlerTypeOK
    <2>6. d \in Arrived' /\ Arrived \subseteq Arrived' /\ (GenuineArrived => GenuineArrived')
      BY <2>1, ArrivedGrows DEF Arrived
    <2>7. BytesArrived'
      BY <2>1, <2>3, <2>6 DEF BytesArrived
    <2>8. granted' \subseteq {e.from : e \in Arrived'}
      BY <2>1, ArrivedGrows
    <2> QED  BY <2>1, <2>5, <2>6, <2>7, <2>8
  <1>3. ASSUME NEW g \in Calls, ReadSignatureAndSpawn(g) PROVE HandlerIInv'
    <2>1. /\ loop = "copy" /\ loop' = "select" /\ current' = none
          /\ buffer' = [buffer EXCEPT !.sig = current.pkt.sig]
          /\ pc' = [pc EXCEPT ![g] = "spawned"]
          /\ arg' = [arg EXCEPT ![g] = current.pkt] /\ ip' = [ip EXCEPT ![g] = current.from]
          /\ UNCHANGED <<hash, wire, stopped, granted>>
      BY <1>3 DEF ReadSignatureAndSpawn, Goto
    <2>2. current \in Arrived /\ current \in Datagrams /\ buffer.body = current.pkt.body
      BY <2>1 DEF BytesArrived, Arrived
    <2>3. buffer = [body |-> buffer.body, sig |-> buffer.sig]
      BY BufferAssumption DEF HandlerTypeOK
    <2>4. buffer' = [body |-> buffer.body, sig |-> current.pkt.sig]
      BY <2>1, <2>3
    <2>5. buffer' \in Packets
      BY <2>2, <2>4, BufferAssumption, DatagramAssumption DEF HandlerTypeOK
    <2>6. Arrived' = Arrived /\ (GenuineArrived' <=> GenuineArrived)
      BY <2>1 DEF Arrived, GenuineArrived, Mixtures
    <2>7. HandlerTypeOK'
      BY <2>1, <2>2, <2>5, DatagramAssumption DEF HandlerTypeOK
    <2>8. BytesArrived'
      BY <2>1, <2>2, <2>4, <2>6 DEF BytesArrived, HandlerTypeOK
    <2> QED  BY <2>1, <2>6, <2>7, <2>8
  <1> QED  BY <1>1, <1>2, <1>3 DEF HandlePackets

LEMMA HandlerStepInvariant == HandlerIInv /\ [HandlerNext]_allVars => HandlerIInv'
  <1> SUFFICES ASSUME HandlerIInv, [HandlerNext]_allVars PROVE HandlerIInv'
    OBVIOUS
  <1>1. CASE Stop \/ (Tick /\ UNCHANGED handler) \/ UNCHANGED allVars
    <2>1. /\ UNCHANGED <<pc, arg, ip, hash, buffer, loop, current, wire, granted>>
          /\ stopped' \in {TRUE, stopped}
      BY <1>1 DEF Stop, Tick, handler, allVars, vars, locals
    <2>2. Arrived' = Arrived /\ (GenuineArrived' <=> GenuineArrived)
      BY <2>1 DEF Arrived, GenuineArrived, Mixtures
    <2>3. HandlerTypeOK'
      BY <2>1 DEF HandlerIInv, GrantNeedsGenuine, HandlerTypeOK
    <2>4. BytesArrived'
      BY <2>1, <2>2 DEF HandlerIInv, BytesArrived
    <2> QED  BY <2>1, <2>2, <2>3, <2>4 DEF HandlerIInv, GrantNeedsGenuine
  <1> QED  BY <1>1, GoroutineKeeps, LoopKeeps DEF HandlerNext

(* Whatever bytes the goroutines see in the buffer they share, for any traffic, nobody is *)
(* whitelisted before bytes signed with a configured key have arrived, and nobody who     *)
(* sent nothing (handler.go lines 110-213, verifier.go lines 90-130).                     *)
THEOREM GrantsFromSignedBytes == HandlerSpec => []GrantNeedsGenuine
  <1>1. HandlerIInv => GrantNeedsGenuine
    BY DEF HandlerIInv
  <1> QED  BY <1>1, HandlerInitInvariant, HandlerStepInvariant, PTL DEF HandlerSpec
=============================================================================
