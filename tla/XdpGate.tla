------------------------------ MODULE XdpGate ------------------------------
(***************************************************************************)
(* The SPA whitelist: the LRU map spa_whitelist shared by the XDP program  *)
(* on every CPU (internal/ebpf/programs/phantom.c) and by the user-space   *)
(* MapLoader (internal/spa/map_loader.go).                                 *)
(*                                                                         *)
(* An address is its four bytes in network order, as in ip->saddr, and a   *)
(* map key is the four bytes the map compares.  Times are seconds of       *)
(* bpf_ktime_get_ns.  A map operation is atomic; between two operations of *)
(* one program run another CPU or user space may act.                      *)
(***************************************************************************)
EXTENDS Integers, FiniteSets

CONSTANTS
    CPUs,          \* CPUs that run phantom_prog
    Tasks,         \* user-space goroutines that may call WhitelistIP
    Addresses,     \* source addresses
    Capacity,      \* max_entries of spa_whitelist (100)
    TokenDuration, \* SPA_WHITELIST_DURATION_NS (30)
    GrantDuration, \* ReplayWindowSeconds, the duration handler.go passes (60)
    Buffer,        \* WhitelistIP's extra second (1)
    Suspended,     \* seconds the host slept: /proc/uptime counts them, ktime does not
    FallbackBase,  \* base when /proc/uptime cannot be read (10^9 s)
    LittleEndian,  \* native byte order of the host (TRUE on the amd64 builds)
    MaxTime        \* bound: last second explored

ASSUME GateAssumption ==
    /\ Capacity \in Nat \ {0}
    /\ TokenDuration \in Nat /\ GrantDuration \in Nat /\ Buffer \in Nat
    /\ Suspended \in Nat /\ FallbackBase \in Nat /\ MaxTime \in Nat
    /\ LittleEndian \in BOOLEAN
    /\ Addresses # {}
    /\ \A a \in Addresses : a \in Nat \X Nat \X Nat \X Nat

VARIABLES
    ktime,      \* bpf_ktime_get_ns
    whitelist,  \* spa_whitelist: key |-> expiry
    kpc,        \* where phantom_prog is on each CPU
    src,        \* src_ip of the packet a CPU works on
    found,      \* *expiry as looked up, or the expiry about to be stored
    upc,        \* where each WhitelistIP call is
    client,     \* its ip argument
    expiry,     \* its computed expiry
    puts,       \* every entry ever stored: [ip |-> key, until |-> expiry] (history)
    latest      \* expiry of the last grant made to each address, -1 if none (history)

kernel == <<kpc, src, found>>
user == <<upc, client, expiry>>
vars == <<ktime, whitelist, kernel, user, puts, latest>>

NoAddress == CHOOSE a \in Addresses : TRUE

Init ==
    /\ ktime = 0
    /\ whitelist = [k \in {} |-> 0]
    /\ kpc = [c \in CPUs |-> "idle"]
    /\ src = [c \in CPUs |-> NoAddress]
    /\ found = [c \in CPUs |-> 0]
    /\ upc = [t \in Tasks |-> "idle"]
    /\ client = [t \in Tasks |-> NoAddress]
    /\ expiry = [t \in Tasks |-> 0]
    /\ puts = {}
    /\ latest = [a \in Addresses |-> -1]

(* bpf_map_update_elem: a new key in a full map evicts some other key. *)
Update(key, until) ==
    /\ \E victims \in SUBSET DOMAIN whitelist :
          /\ IF key \in DOMAIN whitelist \/ Cardinality(DOMAIN whitelist) < Capacity
             THEN victims = {}
             ELSE Cardinality(victims) = 1
          /\ whitelist' = [k \in (DOMAIN whitelist \ victims) \cup {key} |->
                              IF k = key THEN until ELSE whitelist[k]]
    /\ puts' = puts \cup {[ip |-> key, until |-> until]}

-----------------------------------------------------------------------------
(* phantom_prog on CPU c *)

At(c, from, to) == kpc[c] = from /\ kpc' = [kpc EXCEPT ![c] = to]

(* A UDP packet to the magic port that carries the default token: spa_whitelist_ip *)
(* computes the expiry ...                                                         *)
MagicPacket(c, a) ==
    /\ At(c, "idle", "store")
    /\ src' = [src EXCEPT ![c] = a]
    /\ found' = [found EXCEPT ![c] = ktime + TokenDuration]
    /\ UNCHANGED <<ktime, whitelist, user, puts, latest>>

(* ... and stores it; the packet itself is dropped. *)
StoreToken(c) ==
    /\ At(c, "store", "stored")
    /\ Update(src[c], found[c])
    /\ latest' = [latest EXCEPT ![src[c]] = found[c]]
    /\ UNCHANGED <<ktime, src, found, user>>

(* A TCP packet to a critical port: is_spa_whitelisted looks the address up ... *)
CriticalPacket(c, a) ==
    /\ kpc[c] = "idle"
    /\ src' = [src EXCEPT ![c] = a]
    /\ IF a \in DOMAIN whitelist
       THEN /\ kpc' = [kpc EXCEPT ![c] = "compare"]
            /\ found' = [found EXCEPT ![c] = whitelist[a]]
       ELSE /\ kpc' = [kpc EXCEPT ![c] = "drop"]
            /\ UNCHANGED found
    /\ UNCHANGED <<ktime, whitelist, user, puts, latest>>

(* Mutant: an entry lives a second too long. *)
ExpiredLate(now, until) == now > until + 1

Expired(now, until) == now > until

(* ... compares the entry with the time ... *)
CompareExpiry(c) ==
    /\ At(c, "compare", IF Expired(ktime, found[c]) THEN "delete" ELSE "pass")
    /\ UNCHANGED <<ktime, whitelist, src, found, user, puts, latest>>

(* ... and deletes what the key holds by now. *)
DeleteExpired(c) ==
    /\ At(c, "delete", "drop")
    /\ whitelist' = [k \in DOMAIN whitelist \ {src[c]} |-> whitelist[k]]
    /\ UNCHANGED <<ktime, src, found, user, puts, latest>>

(* XDP_PASS or XDP_DROP; the CPU is free for the next packet. *)
Verdict(c) ==
    /\ kpc[c] \in {"pass", "drop", "stored"}
    /\ kpc' = [kpc EXCEPT ![c] = "idle"]
    /\ src' = [src EXCEPT ![c] = NoAddress]
    /\ found' = [found EXCEPT ![c] = 0]
    /\ UNCHANGED <<ktime, whitelist, user, puts, latest>>

-----------------------------------------------------------------------------
(* MapLoader.WhitelistIP in task t *)

(* The bytes of the key: Uint32 reads the address big-endian, Put writes the *)
(* number in native order.                                                   *)
MapKey(a) == IF LittleEndian THEN <<a[4], a[3], a[2], a[1]>> ELSE a

(* Read /proc/uptime, which may fail, and compute the expiry ... *)
WhitelistIP(t, a) ==
    /\ upc[t] = "idle"
    /\ upc' = [upc EXCEPT ![t] = "put"]
    /\ client' = [client EXCEPT ![t] = a]
    /\ \E base \in {ktime + Suspended + Buffer, FallbackBase} :
          expiry' = [expiry EXCEPT ![t] = base + GrantDuration]
    /\ UNCHANGED <<ktime, whitelist, kernel, puts, latest>>

(* ... and store it. *)
PutGrant(t) ==
    /\ upc[t] = "put"
    /\ upc' = [upc EXCEPT ![t] = "idle"]
    /\ Update(MapKey(client[t]), expiry[t])
    /\ latest' = [latest EXCEPT ![client[t]] = expiry[t]]
    /\ client' = [client EXCEPT ![t] = NoAddress]
    /\ expiry' = [expiry EXCEPT ![t] = 0]
    /\ UNCHANGED <<ktime, kernel>>

Tick ==
    /\ ktime < MaxTime
    /\ ktime' = ktime + 1
    /\ UNCHANGED <<whitelist, kernel, user, puts, latest>>

Next ==
    \/ \E c \in CPUs :
          \/ \E a \in Addresses : MagicPacket(c, a) \/ CriticalPacket(c, a)
          \/ StoreToken(c) \/ CompareExpiry(c) \/ DeleteExpired(c) \/ Verdict(c)
    \/ \E t \in Tasks :
          \/ \E a \in Addresses : WhitelistIP(t, a)
          \/ PutGrant(t)
    \/ Tick

Spec == Init /\ [][Next]_vars

-----------------------------------------------------------------------------
Keys == Addresses \cup {MapKey(a) : a \in Addresses}

LastExpiry == MaxTime + TokenDuration + GrantDuration + Buffer + Suspended + FallbackBase
Expiries == 0 .. LastExpiry

(* Type invariant. *)
TypeOK ==
    /\ ktime \in 0 .. MaxTime
    /\ DOMAIN whitelist \subseteq Keys
    /\ \A k \in DOMAIN whitelist : whitelist[k] \in Expiries
    /\ kpc \in [CPUs -> {"idle", "store", "stored", "compare", "delete", "pass", "drop"}]
    /\ src \in [CPUs -> Addresses]
    /\ found \in [CPUs -> Expiries]
    /\ upc \in [Tasks -> {"idle", "put"}]
    /\ client \in [Tasks -> Addresses]
    /\ expiry \in [Tasks -> Expiries]
    /\ \A p \in puts : p.ip \in Keys /\ p.until \in Expiries
    /\ latest \in [Addresses -> Int]

(* The inductive invariant: what a map entry or a looked-up expiry says *)
(* was stored for that key, and still is the history's.                 *)
EntriesGranted ==
    /\ \A k \in DOMAIN whitelist : [ip |-> k, until |-> whitelist[k]] \in puts
    /\ \A c \in CPUs : kpc[c] \in {"compare", "delete", "pass"} =>
          [ip |-> src[c], until |-> found[c]] \in puts

(***************************************************************************)
(* The program implements AccessGate over map keys: whatever is evicted,   *)
(* deleted or stored between its map operations, phantom_prog passes a TCP *)
(* packet to a critical port only when, at the moment it compared, an      *)
(* unexpired entry had been stored for the packet's address.               *)
(***************************************************************************)
Outcome(c) == IF kpc[c] = "pass" THEN "admitted"
              ELSE IF kpc[c] = "drop" THEN "refused" ELSE "none"

Gate == INSTANCE AccessGate WITH
    Addresses <- Keys,
    Checkers  <- CPUs,
    MaxExpiry <- LastExpiry,
    time      <- ktime,
    grants    <- puts,
    verdict   <- [c \in CPUs |-> Outcome(c)]

GateSpec == Gate!Spec

(* A grant that was stored is in force until it expires: the kernel finds *)
(* the address (manager.go line 46, "IP whitelisted for %d seconds").     *)
GrantHonoured ==
    \A a \in Addresses : ktime <= latest[a] => a \in DOMAIN whitelist
=============================================================================
