--------------------------- MODULE XdpGateProofs ---------------------------
(* Proofs about XdpGate, for every number of CPUs, tasks, addresses and every capacity. *)
EXTENDS XdpGate, TLAPS

IInv == TypeOK /\ EntriesGranted

LEMMA NoAddressType == NoAddress \in Addresses
  BY GateAssumption DEF NoAddress

LEMMA KeyType == /\ Addresses \subseteq Keys
                 /\ \A a \in Addresses : MapKey(a) \in Keys
  BY DEF Keys

(* What an update leaves in the map and in the history. *)
LEMMA UpdateFacts ==
    ASSUME NEW key, NEW until, Update(key, until)
    PROVE  /\ DOMAIN whitelist' \subseteq DOMAIN whitelist \cup {key}
           /\ \A k \in DOMAIN whitelist' : whitelist'[k] = IF k = key THEN until ELSE whitelist[k]
           /\ puts' = puts \cup {[ip |-> key, until |-> until]}
  BY DEF Update

LEMMA InitIInv == Init => IInv
  BY NoAddressType, GateAssumption DEF Init, IInv, TypeOK, EntriesGranted, Expiries, LastExpiry

LEMMA NextIInv == IInv /\ [Next]_vars => IInv'
  <1> SUFFICES ASSUME IInv, [Next]_vars PROVE IInv'
    OBVIOUS
  <1> USE DEF IInv, TypeOK, EntriesGranted, At, kernel, user
  <1>1. ASSUME NEW c \in CPUs, NEW a \in Addresses, MagicPacket(c, a) PROVE IInv'
    BY <1>1, GateAssumption DEF MagicPacket, Expiries, LastExpiry
  <1>2. ASSUME NEW c \in CPUs, StoreToken(c) PROVE IInv'
    <2>1. Update(src[c], found[c])
      BY <1>2 DEF StoreToken
    <2>2. TypeOK'
      BY <1>2, <2>1, UpdateFacts, KeyType, GateAssumption DEF StoreToken, Expiries, LastExpiry
    <2>3. EntriesGranted'
      BY <1>2, <2>1, UpdateFacts DEF StoreToken
    <2> QED  BY <2>2, <2>3
  <1>3. ASSUME NEW c \in CPUs, NEW a \in Addresses, CriticalPacket(c, a) PROVE IInv'
    <2>1. CASE a \in DOMAIN whitelist
      BY <1>3, <2>1 DEF CriticalPacket
    <2>2. CASE a \notin DOMAIN whitelist
      BY <1>3, <2>2 DEF CriticalPacket
    <2> QED  BY <2>1, <2>2
  <1>4. ASSUME NEW c \in CPUs, CompareExpiry(c) PROVE IInv'
    BY <1>4 DEF CompareExpiry
  <1>5. ASSUME NEW c \in CPUs, DeleteExpired(c) PROVE IInv'
    BY <1>5 DEF DeleteExpired
  <1>6. ASSUME NEW c \in CPUs, Verdict(c) PROVE IInv'
    BY <1>6, NoAddressType, GateAssumption DEF Verdict, Expiries, LastExpiry
  <1>7. ASSUME NEW t \in Tasks, NEW a \in Addresses, WhitelistIP(t, a) PROVE IInv'
    BY <1>7, GateAssumption DEF WhitelistIP, Expiries, LastExpiry
  <1>8. ASSUME NEW t \in Tasks, PutGrant(t) PROVE IInv'
    <2>1. Update(MapKey(client[t]), expiry[t])
      BY <1>8 DEF PutGrant
    <2>2. TypeOK'
      BY <1>8, <2>1, UpdateFacts, KeyType, NoAddressType, GateAssumption DEF PutGrant, Expiries, LastExpiry
    <2>3. EntriesGranted'
      BY <1>8, <2>1, UpdateFacts DEF PutGrant
    <2> QED  BY <2>2, <2>3
  <1>9. CASE Tick
    BY <1>9, GateAssumption DEF Tick
  <1>10. CASE UNCHANGED vars
    BY <1>10 DEF vars
  <1> QED
    BY <1>1, <1>2, <1>3, <1>4, <1>5, <1>6, <1>7, <1>8, <1>9, <1>10 DEF Next

(* Type correctness of the whitelist, its users and its history. *)
THEOREM GateTypeCorrect == Spec => []TypeOK
  <1>1. IInv => TypeOK
    BY DEF IInv
  <1> QED  BY <1>1, InitIInv, NextIInv, PTL DEF Spec

-----------------------------------------------------------------------------
(* Steps that move no packet to its verdict keep every outcome. *)
LEMMA SameOutcome ==
    ASSUME IInv, NEW c \in CPUs, NEW to, kpc' = [kpc EXCEPT ![c] = to],
           Outcome(c) = "none", to \notin {"pass", "drop"}
    PROVE  [d \in CPUs |-> Outcome(d)]' = [d \in CPUs |-> Outcome(d)]
  BY DEF IInv, TypeOK, Outcome

(* A packet that gets its verdict changes its own outcome only. *)
LEMMA NewOutcome ==
    ASSUME IInv, NEW c \in CPUs, NEW to, kpc' = [kpc EXCEPT ![c] = to]
    PROVE  [d \in CPUs |-> Outcome(d)]'
             = [[d \in CPUs |-> Outcome(d)] EXCEPT
                  ![c] = IF to = "pass" THEN "admitted" ELSE IF to = "drop" THEN "refused" ELSE "none"]
  BY DEF IInv, TypeOK, Outcome

(* Every step of the program is a step of AccessGate, or leaves it alone. *)
LEMMA StepRefines == IInv /\ [Next]_vars => [Gate!Next]_(Gate!vars)
  <1> SUFFICES ASSUME IInv, [Next]_vars PROVE [Gate!Next]_(Gate!vars)
    OBVIOUS
  <1> DEFINE out == [d \in CPUs |-> Outcome(d)]
  <1>0. ASSUME out' = out, ktime' = ktime, puts' = puts PROVE [Gate!Next]_(Gate!vars)
    BY <1>0 DEF Gate!vars
  <1>1. ASSUME NEW c \in CPUs, NEW a \in Addresses, MagicPacket(c, a)
        PROVE  [Gate!Next]_(Gate!vars)
    BY <1>0, <1>1, SameOutcome DEF MagicPacket, At, Outcome
  <1>2. ASSUME NEW c \in CPUs, StoreToken(c) PROVE [Gate!Next]_(Gate!vars)
    <2>1. out' = out
      BY <1>2, SameOutcome DEF StoreToken, At, Outcome
    <2>2. /\ puts' = puts \cup {[ip |-> src[c], until |-> found[c]]} /\ ktime' = ktime
          /\ src[c] \in Keys /\ found[c] \in 0 .. LastExpiry
      BY <1>2, UpdateFacts, KeyType DEF StoreToken, IInv, TypeOK, Expiries
    <2>3. Gate!Grant(src[c], found[c])
      BY <2>1, <2>2 DEF Gate!Grant
    <2> QED  BY <2>2, <2>3 DEF Gate!Next
  <1>3. ASSUME NEW c \in CPUs, NEW a \in Addresses, CriticalPacket(c, a)
        PROVE  [Gate!Next]_(Gate!vars)
    <2>1. CASE a \in DOMAIN whitelist
      BY <1>0, <1>3, <2>1, SameOutcome DEF CriticalPacket, Outcome
    <2>2. CASE a \notin DOMAIN whitelist
      <3>1. out[c] = "none" /\ out' = [out EXCEPT ![c] = "refused"]
        BY <1>3, <2>2, NewOutcome DEF CriticalPacket, Outcome
      <3>2. Gate!Refuse(c)
        BY <1>3, <3>1 DEF Gate!Refuse, CriticalPacket
      <3> QED  BY <3>2 DEF Gate!Next
    <2> QED  BY <2>1, <2>2
  <1>4. ASSUME NEW c \in CPUs, CompareExpiry(c) PROVE [Gate!Next]_(Gate!vars)
    <2>1. CASE Expired(ktime, found[c])
      BY <1>0, <1>4, <2>1, SameOutcome DEF CompareExpiry, At, Outcome
    <2>2. CASE ~Expired(ktime, found[c])
      <3>1. out[c] = "none" /\ out' = [out EXCEPT ![c] = "admitted"]
        BY <1>4, <2>2, NewOutcome DEF CompareExpiry, At, Outcome
      <3>2. /\ [ip |-> src[c], until |-> found[c]] \in puts
            /\ ktime <= found[c] /\ src[c] \in Keys
        BY <1>4, <2>2, KeyType, GateAssumption
        DEF CompareExpiry, At, Expired, IInv, EntriesGranted, TypeOK, Expiries, LastExpiry
      <3>3. \E g \in puts : g.ip = src[c] /\ ktime <= g.until
        BY <3>2
      <3>4. Gate!Admit(c, src[c])
        BY <1>4, <3>1, <3>3 DEF Gate!Admit, CompareExpiry
      <3> QED  BY <3>2, <3>4 DEF Gate!Next
    <2> QED  BY <2>1, <2>2
  <1>5. ASSUME NEW c \in CPUs, DeleteExpired(c) PROVE [Gate!Next]_(Gate!vars)
    <2>1. out[c] = "none" /\ out' = [out EXCEPT ![c] = "refused"]
      BY <1>5, NewOutcome DEF DeleteExpired, At, Outcome
    <2>2. Gate!Refuse(c)
      BY <1>5, <2>1 DEF Gate!Refuse, DeleteExpired
    <2> QED  BY <2>2 DEF Gate!Next
  <1>6. ASSUME NEW c \in CPUs, Verdict(c) PROVE [Gate!Next]_(Gate!vars)
    <2>1. CASE kpc[c] = "stored"
      BY <1>0, <1>6, <2>1, SameOutcome DEF Verdict, Outcome
    <2>2. CASE kpc[c] # "stored"
      <3>1. out[c] # "none" /\ out' = [out EXCEPT ![c] = "none"]
        <4>1. kpc[c] = "pass" \/ kpc[c] = "drop"
          BY <1>6, <2>2 DEF Verdict
        <4>2. kpc' = [kpc EXCEPT ![c] = "idle"]
          BY <1>6 DEF Verdict
        <4>3. out' = [out EXCEPT ![c] = "none"]
          BY <4>2 DEF Outcome, IInv, TypeOK
        <4> QED  BY <4>1, <4>3 DEF Outcome
      <3>2. Gate!Done(c)
        BY <1>6, <3>1 DEF Gate!Done, Verdict
      <3> QED  BY <3>2 DEF Gate!Next
    <2> QED  BY <2>1, <2>2
  <1>7. ASSUME NEW t \in Tasks, NEW a \in Addresses, WhitelistIP(t, a)
        PROVE  [Gate!Next]_(Gate!vars)
    BY <1>0, <1>7 DEF WhitelistIP, kernel, Outcome
  <1>8. ASSUME NEW t \in Tasks, PutGrant(t) PROVE [Gate!Next]_(Gate!vars)
    <2>1. out' = out /\ ktime' = ktime
      BY <1>8 DEF PutGrant, kernel, Outcome
    <2>2. /\ puts' = puts \cup {[ip |-> MapKey(client[t]), until |-> expiry[t]]}
          /\ MapKey(client[t]) \in Keys /\ expiry[t] \in 0 .. LastExpiry
      BY <1>8, UpdateFacts, KeyType DEF PutGrant, IInv, TypeOK, Expiries
    <2>3. Gate!Grant(MapKey(client[t]), expiry[t])
      BY <2>1, <2>2 DEF Gate!Grant
    <2> QED  BY <2>2, <2>3 DEF Gate!Next
  <1>9. CASE Tick
    <2>1. Gate!Pass
      BY <1>9 DEF Tick, Gate!Pass, kernel, Outcome
    <2> QED  BY <2>1 DEF Gate!Next
  <1>10. CASE UNCHANGED vars
    BY <1>0, <1>10 DEF vars, kernel, Outcome
  <1> QED
    BY <1>1, <1>2, <1>3, <1>4, <1>5, <1>6, <1>7, <1>8, <1>9, <1>10 DEF Next

(* The XDP program and MapLoader implement AccessGate: no interleaving of CPUs, user-space *)
(* updates, evictions and deletions lets a critical port be reached without a live entry.  *)
THEOREM GateRefinement == Spec => GateSpec
  <1>1. Init => Gate!Init
    BY DEF Init, Gate!Init, Outcome
  <1> QED  BY <1>1, InitIInv, NextIInv, StepRefines, PTL DEF Spec, GateSpec, Gate!Spec
=============================================================================
