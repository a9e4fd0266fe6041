----------------------------- MODULE SpaPacket -----------------------------
(***************************************************************************)
(* The pure part of user-space Single Packet Authorization: what a         *)
(* datagram is, and the checks of internal/spa/packet.go, totp.go and of   *)
(* the stateless half of Verifier.VerifyPacket (verifier.go).              *)
(*                                                                         *)
(* Cryptography is symbolic.  The bytes of a datagram are a record         *)
(*   [body |-> header and padding,  sig |-> [over, by]]                    *)
(* where sig is the signature (Ed25519 or HMAC) that key "by" made over    *)
(* the body "over"; it verifies exactly for that body and that key.  Two   *)
(* datagrams with equal bytes are equal records, so a record also stands   *)
(* for its SHA-256 hash.                                                   *)
(***************************************************************************)
EXTENDS Integers

CONSTANTS
    Mode,          \* spaConfig.Mode: "static", "dynamic" or "asymmetric"
    PublicKeys,    \* spaConfig.PublicKeys, the server's list of Ed25519 keys
    PublicKey,     \* spaConfig.PublicKey: {} or a set of one key
    HMACSecrets,   \* spaConfig.HMACSecrets
    HMACSecret,    \* spaConfig.HMACSecret: {} or a set of one secret
    TOTPSecrets,   \* spaConfig.TOTPSecrets
    TOTPSecret,    \* spaConfig.TOTPSecret: {} or a set of one secret
    TOTPTimeStep,  \* seconds per TOTP step (30)
    TOTPTolerance, \* accepted distance in steps (1)
    MaxTimeDiff,   \* accepted distance of the timestamp in seconds (300)
    Half,          \* 2^63: an int64 is in -Half .. Half-1
    TOTP(_, _)     \* the six-digit code of a secret at a step number

ASSUME StepAssumption == /\ TOTPTimeStep \in Nat \ {0}
                         /\ TOTPTolerance \in Nat
                         /\ MaxTimeDiff \in Nat

ASSUME HalfAssumption == /\ Half \in Nat
                         /\ 2 * MaxTimeDiff < Half

(* A list of secrets wins over the single legacy one. *)
Configured(list, single) == IF list # {} THEN list ELSE single

TOTPKeys == Configured(TOTPSecrets, TOTPSecret)

(***************************************************************************)
(* ParseSPAPacket.  version and mode are the first two bytes, size is the  *)
(* number of bytes; version selects the header, mode the signature.        *)
(***************************************************************************)
HeaderSize(version) == IF version = 1 THEN 14 ELSE 30
SignatureSize(mode) == IF mode = 1 THEN 32 ELSE 64

ParseSPAPacket(data) ==
    /\ data.body.version \in {1, 2}
    /\ data.body.mode \in {1, 2}
    /\ data.body.size >= HeaderSize(data.body.version) + SignatureSize(data.body.mode)

(* A version 2 packet names the address it was made for. *)
IPBound(version, packetIP, actualIP) == version = 2 => packetIP = actualIP

(* The int64 value of x, for x at most one wrap away from the range. *)
Int64(x) == IF x >= Half THEN x - 2 * Half
            ELSE IF x < -Half THEN x + 2 * Half
            ELSE x

(* verifier.go's absolute difference, in the two's complement it is computed in. *)
TimeDiff(currentTime, timestamp) ==
    LET d == Int64(currentTime - timestamp)
    IN  IF d < 0 THEN Int64(-d) ELSE d

TimestampOK(currentTime, timestamp) == TimeDiff(currentTime, timestamp) <= MaxTimeDiff

(* Mutant: only codes of past steps are tried. *)
ValidateTOTPPast(secret, currentTime, code) ==
    \E i \in -TOTPTolerance .. 0 :
        TOTP(secret, (currentTime \div TOTPTimeStep) + i) = code

(* ValidateTOTP for one secret, at the time it reads the clock. *)
ValidateTOTP(secret, currentTime, code) ==
    \E i \in -TOTPTolerance .. TOTPTolerance :
        TOTP(secret, (currentTime \div TOTPTimeStep) + i) = code

(***************************************************************************)
(* The signature check for the configured mode.  pmode is the mode byte    *)
(* that was parsed: it fixes how many trailing bytes are the signature, so *)
(* a packet of the other mode never verifies.  Static mode has no          *)
(* signature and ends in "unsupported SPA mode".                           *)
(***************************************************************************)
Signs(keys, data) == data.sig.over = data.body /\ data.sig.by \in keys

VerifySignature(pmode, data) ==
    \/ /\ Mode = "asymmetric"
       /\ pmode = 2 /\ data.body.mode = 2
       /\ Signs(Configured(PublicKeys, PublicKey), data)
    \/ /\ Mode = "dynamic"
       /\ pmode = 1 /\ data.body.mode = 1
       /\ Signs(Configured(HMACSecrets, HMACSecret), data)

(***************************************************************************)
(* The client: packets of version 2, bound to the client's address.  The   *)
(* code and the timestamp come from two reads of the client's clock.       *)
(***************************************************************************)
PaddingSizes == {0} \cup 16 .. 64

GenerateTOTP(secret, currentTime) == TOTP(secret, currentTime \div TOTPTimeStep)

Create(mode, key, totp, timestamp, padding, clientIP) ==
    LET body == [version |-> 2, mode |-> mode, timestamp |-> timestamp, totp |-> totp,
                 ip |-> clientIP, size |-> HeaderSize(2) + padding + SignatureSize(mode)]
    IN  [body |-> body, sig |-> [over |-> body, by |-> key]]

CreateAsymmetricPacket(privateKey, totp, timestamp, padding, clientIP) ==
    Create(2, privateKey, totp, timestamp, padding, clientIP)

CreateDynamicPacket(hmacSecret, totp, timestamp, padding, clientIP) ==
    Create(1, hmacSecret, totp, timestamp, padding, clientIP)

(* DynamicClient.SendMagicPacket, for a client set up by NewDynamicClient with a key. *)
SendMagicPacket(key, totp, timestamp, padding, clientIP) ==
    IF Mode = "asymmetric"
    THEN CreateAsymmetricPacket(key, totp, timestamp, padding, clientIP)
    ELSE CreateDynamicPacket(key, totp, timestamp, padding, clientIP)

(* The keys of the clients that the server knows; in static mode there are none. *)
ClientKeys ==
    IF Mode = "asymmetric" THEN Configured(PublicKeys, PublicKey)
    ELSE IF Mode = "dynamic" THEN Configured(HMACSecrets, HMACSecret)
    ELSE {}
=============================================================================
