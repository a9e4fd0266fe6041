--------------------------- MODULE WebdashProofs ---------------------------
(***************************************************************************)
(* Proofs about what the dashboard (internal/webdash) relays and keeps of  *)
(* the agents: LogStream, for any number of connections, messages and      *)
(* posts and any capacities of the channels; and FleetTelemetry, for any   *)
(* number of agents and any values of its bounds.                          *)
(***************************************************************************)
EXTENDS LogStream, FleetTelemetry, SequenceTheorems, TLAPS

LEMMA NoneIsNoMessage == None \notin Messages
  BY StreamAssumption DEF None, Messages

(* One element more at the end. *)
LEMMA AppendFacts ==
    ASSUME NEW S, NEW q \in Seq(S), NEW m \in S
    PROVE  /\ Append(q, m) \in Seq(S) /\ Append(q, m) # <<>>
           /\ Len(q) \in Nat /\ Len(Append(q, m)) = Len(q) + 1
           /\ DOMAIN q = 1..Len(q) /\ DOMAIN Append(q, m) = 1..(Len(q) + 1)
           /\ \A i \in 1..Len(q) : Append(q, m)[i] = q[i]
           /\ Append(q, m)[Len(q) + 1] = m
  <1>1. /\ Append(q, m) \in Seq(S) /\ Append(q, m) # <<>> /\ Len(Append(q, m)) = Len(q) + 1
        /\ \A i \in 1..Len(q) : Append(q, m)[i] = q[i]
        /\ Append(q, m)[Len(q) + 1] = m
    BY AppendProperties
  <1>2. /\ Len(q) \in Nat /\ DOMAIN q = 1..Len(q)
        /\ DOMAIN Append(q, m) = 1..Len(Append(q, m))
    BY <1>1, LenProperties
  <1> QED  BY <1>1, <1>2

(* One element less at the front. *)
LEMMA TailFacts ==
    ASSUME NEW S, NEW q \in Seq(S), q # <<>>
    PROVE  /\ Head(q) \in S /\ Head(q) = q[1] /\ Tail(q) \in Seq(S)
           /\ Len(q) \in Nat /\ Len(q) >= 1 /\ Len(Tail(q)) = Len(q) - 1
           /\ DOMAIN q = 1..Len(q) /\ DOMAIN Tail(q) = 1..(Len(q) - 1)
           /\ \A i \in 1..(Len(q) - 1) : Tail(q)[i] = q[i + 1]
  <1>1. /\ Head(q) \in S /\ Tail(q) \in Seq(S) /\ Len(Tail(q)) = Len(q) - 1
        /\ \A i \in 1 .. Len(Tail(q)) : Tail(q)[i] = q[i+1]
    BY HeadTailProperties
  <1>2. Len(q) \in Nat \ {0}
    BY EmptySeq
  <1>3. DOMAIN q = 1..Len(q) /\ DOMAIN Tail(q) = 1..Len(Tail(q))
    BY <1>1, LenProperties
  <1>4. Head(q) = q[1]
    OBVIOUS
  <1> QED  BY <1>1, <1>2, <1>3, <1>4

-----------------------------------------------------------------------------
LEMMA InitInvariant == Init => IInv
  <1> SUFFICES ASSUME Init PROVE IInv
    OBVIOUS
  <1>1. <<>> \in Seq(Messages) /\ <<>> \in Seq(Local) /\ <<>> \in Seq(1..Posts) /\ Len(<<>>) = 0
    BY EmptySeq
  <1> QED  BY <1>1, StreamAssumption DEF Init, IInv, TypeOK, HubKnows, None

(* Every step keeps the channels of the hub's clients open. *)
LEMMA StepInvariant == IInv /\ [Next]_vars => IInv'
  <1> SUFFICES ASSUME IInv, [Next]_vars PROVE TypeOK' /\ HubKnows'
    BY DEF IInv
  <1> USE StreamAssumption DEF IInv
  <1>1. ASSUME NEW c \in Clients, Connect(c) \/ Disconnect(c) \/ Written(c) \/ ContextDone(c)
                                   \/ CloseClient(c)
        PROVE  TypeOK' /\ HubKnows'
    <2>1. UNCHANGED <<clients, msg, left, taken, buffer, got, logChan, externalLogChan, unlogged,
                      posted, blocked, awaited, abandoned>>
      BY <1>1 DEF Connect, Disconnect, Written, ContextDone, CloseClient, hub, sources
    <2>2. /\ conn' \in [Clients -> {"off", "adding", "streaming", "writing", "removing", "closing", "ended"}]
          /\ gone' \subseteq Clients /\ closed' \subseteq Clients
      BY <1>1 DEF Connect, Disconnect, Written, ContextDone, CloseClient, Enter, TypeOK
    <2>3. TypeOK'
      BY <2>1, <2>2 DEF TypeOK
    <2>4. HubKnows'
      BY <1>1, <2>1 DEF Connect, Disconnect, Written, ContextDone, CloseClient, Enter, TypeOK, HubKnows
    <2> QED  BY <2>3, <2>4
  <1>2. ASSUME NEW c \in Clients, AddClient(c) \/ RemoveClient(c)
        PROVE  TypeOK' /\ HubKnows'
    <2>1. /\ UNCHANGED <<msg, left, taken, gone, buffer, closed, got, logChan, externalLogChan,
                         unlogged, posted, blocked, awaited, abandoned>>
          /\ left = {}
      BY <1>2 DEF AddClient, RemoveClient, sources, HubKnows
    <2>2. \E l \in {"streaming", "removing", "closing"} :
              /\ conn' = [conn EXCEPT ![c] = l]
              /\ clients' = IF l = "closing" THEN clients \ {c} ELSE clients \cup {c}
              /\ conn[c] \in {"adding", "removing"}
      BY <1>2 DEF AddClient, RemoveClient, Enter
    <2>3. TypeOK'
      BY <2>1, <2>2 DEF TypeOK
    <2>4. HubKnows'
      BY <2>1, <2>2 DEF TypeOK, HubKnows
    <2> QED  BY <2>3, <2>4
  <1>3. ASSUME NEW c \in Clients, WriteEvent(c)
        PROVE  TypeOK' /\ HubKnows'
    <2>1. /\ buffer[c] # <<>> /\ buffer[c] \in Seq(Messages) /\ got[c] \in Seq(Messages)
          /\ buffer' = [buffer EXCEPT ![c] = Tail(buffer[c])]
          /\ got' = [got EXCEPT ![c] = Append(got[c], Head(buffer[c]))]
          /\ conn[c] = "streaming" /\ conn' = [conn EXCEPT ![c] = "writing"]
          /\ UNCHANGED <<clients, msg, left, taken, gone, closed, logChan, externalLogChan,
                         unlogged, posted, blocked, awaited, abandoned>>
      BY <1>3 DEF WriteEvent, Enter, hub, sources, TypeOK
    <2>2. /\ Head(buffer[c]) \in Messages /\ Tail(buffer[c]) \in Seq(Messages)
          /\ Len(buffer[c]) \in Nat /\ Len(Tail(buffer[c])) = Len(buffer[c]) - 1
      BY <2>1, TailFacts
    <2>3. Append(got[c], Head(buffer[c])) \in Seq(Messages)
      BY <2>1, <2>2, AppendFacts
    <2>4. TypeOK'
      BY <2>1, <2>2, <2>3 DEF TypeOK
    <2>5. HubKnows'
      BY <2>1 DEF TypeOK, HubKnows
    <2> QED  BY <2>4, <2>5
  <1>4. ASSUME NEW c \in Clients, SendToClient(c)
        PROVE  TypeOK' /\ HubKnows'
    <2>1. /\ msg # None /\ c \in left /\ left' = left \ {c}
          /\ msg' = IF left = {c} THEN None ELSE msg
          /\ UNCHANGED <<clients, taken, conn, gone, closed, got, logChan, externalLogChan,
                         unlogged, posted, blocked, awaited, abandoned>>
      BY <1>4 DEF SendToClient, sources
    <2>2. /\ buffer' \in [Clients -> Seq(Messages)]
          /\ \A d \in Clients : Len(buffer'[d]) <= ClientCap
      <3>1. CASE Len(buffer[c]) < ClientCap
        <4>1. buffer' = [buffer EXCEPT ![c] = Append(buffer[c], msg)]
          BY <1>4, <3>1 DEF SendToClient, Send
        <4>2. msg \in Messages /\ buffer[c] \in Seq(Messages)
          BY <2>1 DEF TypeOK
        <4>3. /\ Append(buffer[c], msg) \in Seq(Messages)
              /\ Len(buffer[c]) \in Nat /\ Len(Append(buffer[c], msg)) = Len(buffer[c]) + 1
          BY <4>2, AppendFacts
        <4> QED  BY <3>1, <4>1, <4>3 DEF TypeOK
      <3>2. CASE ~(Len(buffer[c]) < ClientCap)
        BY <1>4, <3>2 DEF SendToClient, Send, TypeOK
      <3> QED  BY <3>1, <3>2
    <2>3. TypeOK'
      BY <2>1, <2>2 DEF TypeOK
    <2>4. HubKnows'
      BY <2>1 DEF HubKnows
    <2> QED  BY <2>3, <2>4
  <1>5. CASE TakeLog \/ TakeExternal
    <2>1. PICK m \in Messages : StartSend(m)
      BY <1>5, TailFacts DEF TakeLog, TakeExternal, TypeOK, Messages
    <2>2. /\ logChan' \in Seq(Local) /\ Len(logChan') <= LogCap
          /\ externalLogChan' \in Seq(1..Posts) /\ Len(externalLogChan') <= ExternalCap
      <3>1. CASE TakeLog
        <4>1. logChan \in Seq(Local) /\ logChan # <<>> /\ logChan' = Tail(logChan)
          BY <3>1 DEF TakeLog, TypeOK
        <4>2. Tail(logChan) \in Seq(Local) /\ Len(logChan) \in Nat /\ Len(Tail(logChan)) = Len(logChan) - 1
          BY <4>1, TailFacts
        <4> QED  BY <3>1, <4>1, <4>2 DEF TakeLog, TypeOK
      <3>2. CASE TakeExternal
        <4>1. externalLogChan \in Seq(1..Posts) /\ externalLogChan # <<>> /\ externalLogChan' = Tail(externalLogChan)
          BY <3>2 DEF TakeExternal, TypeOK
        <4>2. /\ Tail(externalLogChan) \in Seq(1..Posts) /\ Len(externalLogChan) \in Nat
              /\ Len(Tail(externalLogChan)) = Len(externalLogChan) - 1
          BY <4>1, TailFacts
        <4> QED  BY <3>2, <4>1, <4>2 DEF TakeExternal, TypeOK
      <3> QED  BY <1>5, <3>1, <3>2
    <2>3. taken' = Append(taken, m) /\ Append(taken, m) \in Seq(Messages)
      BY <2>1, AppendFacts DEF StartSend, TypeOK
    <2>4. TypeOK'
      BY <2>1, <2>2, <2>3 DEF StartSend, TypeOK
    <2>5. HubKnows'
      BY <2>1, NoneIsNoMessage DEF StartSend, HubKnows
    <2> QED  BY <2>4, <2>5
  <1>6. ASSUME NEW m \in Local, RouteToDashboard(m)
        PROVE  TypeOK' /\ HubKnows'
    <2>1. logChan' \in Seq(Local) /\ Len(logChan') <= LogCap
      <3>1. /\ Append(logChan, m) \in Seq(Local) /\ Len(logChan) \in Nat
            /\ Len(Append(logChan, m)) = Len(logChan) + 1
        BY AppendFacts DEF TypeOK
      <3> QED  BY <1>6, <3>1 DEF RouteToDashboard, TypeOK
    <2>2. TypeOK'
      BY <1>6, <2>1 DEF RouteToDashboard, hub, TypeOK
    <2> QED  BY <1>6, <2>2 DEF RouteToDashboard, hub, HubKnows
  <1>7. ASSUME NEW m \in 1..Posts, BroadcastRawLog(m)
        PROVE  TypeOK' /\ HubKnows'
    <2>1. externalLogChan' \in Seq(1..Posts) /\ Len(externalLogChan') <= ExternalCap
      <3>1. /\ Append(externalLogChan, m) \in Seq(1..Posts) /\ Len(externalLogChan) \in Nat
            /\ Len(Append(externalLogChan, m)) = Len(externalLogChan) + 1
        BY AppendFacts DEF TypeOK
      <3> QED  BY <1>7, <3>1 DEF BroadcastRawLog, TypeOK
    <2>2. TypeOK'
      BY <1>7, <2>1 DEF BroadcastRawLog, hub, TypeOK
    <2> QED  BY <1>7, <2>2 DEF BroadcastRawLog, hub, HubKnows
  <1>8. CASE PostLog \/ PostTimeout
    <2>1. UNCHANGED <<clients, msg, left, taken, conn, gone, buffer, closed, got, logChan,
                      externalLogChan, unlogged>>
      BY <1>8 DEF PostLog, PostTimeout, hub
    <2>2. /\ blocked' \subseteq 1..posted' /\ posted' \in 0..Posts /\ awaited' \in blocked' \cup {0}
          /\ abandoned' \subseteq 1..Posts
      <3>1. posted \in Nat /\ posted <= Posts /\ Posts \in Nat /\ blocked \subseteq 1..posted
        BY DEF TypeOK
      <3>2. CASE PostTimeout
        <4>1. awaited \in 1..Posts
          BY <3>1, <3>2 DEF PostTimeout, TypeOK
        <4> QED  BY <3>2, <4>1 DEF PostTimeout, TypeOK
      <3>3. CASE PostLog
        <4>1. posted' = posted + 1 /\ posted + 1 \in 1..Posts /\ 1..posted \subseteq 1..posted'
          BY <3>1, <3>3 DEF PostLog
        <4>2. awaited = 0
          BY <3>3 DEF PostLog
        <4>3. \/ awaited' = posted + 1 /\ blocked' = blocked \cup {posted + 1}
              \/ awaited' = awaited /\ blocked' = blocked
          BY <3>3 DEF PostLog
        <4>4. posted' \in 0..Posts /\ posted + 1 \in 1..posted'
          BY <3>1, <4>1
        <4>5. blocked' \subseteq 1..posted' /\ awaited' \in blocked' \cup {0}
          BY <3>1, <4>1, <4>2, <4>3, <4>4
        <4>6. abandoned' \subseteq 1..Posts
          BY <3>3 DEF PostLog, TypeOK
        <4> QED  BY <4>4, <4>5, <4>6
      <3> QED  BY <1>8, <3>2, <3>3
    <2>3. TypeOK'
      BY <2>1, <2>2 DEF TypeOK
    <2> QED  BY <2>1, <2>3 DEF HubKnows
  <1>9. CASE Idle \/ UNCHANGED vars
    BY <1>9 DEF Idle, vars, hub, TypeOK, HubKnows
  <1> QED  BY <1>1, <1>2, <1>3, <1>4, <1>5, <1>6, <1>7, <1>8, <1>9 DEF Next

(* broadcastLogs never sends on a channel that its connection has closed (server.go lines *)
(* 101-146).                                                                              *)
THEOREM NeverSendsOnClosed == Spec => []NoSendOnClosed
  <1>1. IInv => NoSendOnClosed
    BY DEF IInv, TypeOK, HubKnows, NoSendOnClosed
  <1> QED  BY <1>1, InitInvariant, StepInvariant, PTL DEF Spec

-----------------------------------------------------------------------------
(* Moving the first element of the channel to the connection leaves the stream as it is. *)
LEMMA StreamMoved ==
    ASSUME NEW S, NEW g \in Seq(S), NEW b \in Seq(S), b # <<>>
    PROVE  Append(g, Head(b)) \o Tail(b) = g \o b
  <1>1. /\ Append(g, Head(b)) \in Seq(S) /\ Len(g) \in Nat /\ Len(b) \in Nat
        /\ Len(Append(g, Head(b))) = Len(g) + 1
        /\ \A i \in 1..Len(g) : Append(g, Head(b))[i] = g[i]
        /\ Append(g, Head(b))[Len(g) + 1] = b[1]
        /\ Tail(b) \in Seq(S) /\ Len(Tail(b)) = Len(b) - 1
        /\ \A i \in 1..(Len(b) - 1) : Tail(b)[i] = b[i + 1]
    BY AppendFacts, TailFacts
  <1> DEFINE l == Append(g, Head(b)) \o Tail(b)
             r == g \o b
  <1>2. /\ l \in Seq(S) /\ Len(l) = Len(g) + Len(b)
        /\ \A i \in 1..(Len(g) + Len(b)) :
              l[i] = IF i <= Len(g) + 1 THEN Append(g, Head(b))[i] ELSE Tail(b)[i - (Len(g) + 1)]
    <2>1. /\ l \in Seq(S) /\ Len(l) = (Len(g) + 1) + (Len(b) - 1)
          /\ \A i \in 1..((Len(g) + 1) + (Len(b) - 1)) :
              l[i] = IF i <= Len(g) + 1 THEN Append(g, Head(b))[i] ELSE Tail(b)[i - (Len(g) + 1)]
      BY <1>1, ConcatProperties
    <2> QED  BY <1>1, <2>1
  <1>3. /\ r \in Seq(S) /\ Len(r) = Len(g) + Len(b)
        /\ \A i \in 1..(Len(g) + Len(b)) : r[i] = IF i <= Len(g) THEN g[i] ELSE b[i - Len(g)]
    BY <1>1, ConcatProperties
  <1> HIDE DEF l, r
  <1>4. ASSUME NEW i \in 1..Len(l) PROVE l[i] = r[i]
    <2>1. CASE i <= Len(g)
      BY <1>1, <1>2, <1>3, <2>1
    <2>2. CASE i = Len(g) + 1
      BY <1>1, <1>2, <1>3, <2>2
    <2>3. CASE i > Len(g) + 1
      <3>1. i - (Len(g) + 1) \in 1..(Len(b) - 1) /\ i - (Len(g) + 1) + 1 = i - Len(g)
        BY <1>1, <1>2, <2>3
      <3> QED  BY <1>1, <1>2, <1>3, <2>3, <3>1
    <2> QED  BY <1>1, <2>1, <2>2, <2>3
  <1>5. l = r
    BY <1>2, <1>3, <1>4, SeqEqual
  <1> QED  BY <1>5 DEF l, r

(* A message put into the channel is one more at the end of the stream. *)
LEMMA StreamAppended ==
    ASSUME NEW S, NEW g \in Seq(S), NEW b \in Seq(S), NEW m \in S
    PROVE  g \o Append(b, m) = Append(g \o b, m)
  <1>1. <<m>> \in Seq(S) /\ g \o b \in Seq(S)
    BY ConcatProperties
  <1>2. Append(b, m) = b \o <<m>> /\ Append(g \o b, m) = (g \o b) \o <<m>>
    BY <1>1, AppendIsConcat
  <1> QED  BY <1>1, <1>2, ConcatAssociative

(* One message more has been taken. *)
LEMMA TakenAppended ==
    ASSUME TypeOK, NEW m \in Messages, taken' = Append(taken, m)
    PROVE  /\ \A x : Holds(taken', x) <=> Holds(taken, x) \/ x = m
           /\ \A x, y : Before(taken, x, y) => Before(taken', x, y)
           /\ \A x : Holds(taken, x) => Before(taken', x, m)
           /\ taken' # <<>> /\ taken'[Len(taken')] = m
  <1>1. /\ Append(taken, m) # <<>> /\ Len(taken) \in Nat /\ Len(Append(taken, m)) = Len(taken) + 1
        /\ DOMAIN taken = 1..Len(taken) /\ DOMAIN taken' = 1..(Len(taken) + 1)
        /\ \A i \in 1..Len(taken) : taken'[i] = taken[i]
        /\ taken'[Len(taken) + 1] = m
    BY AppendFacts DEF TypeOK
  <1>2. ASSUME NEW x PROVE Holds(taken', x) <=> Holds(taken, x) \/ x = m
    BY <1>1 DEF Holds
  <1>3. ASSUME NEW x, NEW y, Before(taken, x, y) PROVE Before(taken', x, y)
    BY <1>1, <1>3 DEF Before
  <1>4. ASSUME NEW x, Holds(taken, x) PROVE Before(taken', x, m)
    <2>1. PICK i \in 1..Len(taken) : taken[i] = x
      BY <1>1, <1>4 DEF Holds
    <2>2. i \in DOMAIN taken' /\ Len(taken) + 1 \in DOMAIN taken' /\ i < Len(taken) + 1
      BY <1>1
    <2> QED  BY <1>1, <2>1, <2>2 DEF Before
  <1> QED  BY <1>1, <1>2, <1>3, <1>4

LEMMA InitOrder == Init => OrderInv
  <1> SUFFICES ASSUME Init PROVE TakenOnce /\ SendsLast
    BY InitInvariant DEF OrderInv
  <1>1. DOMAIN <<>> = {} /\ <<>> \o <<>> = <<>>
    BY ConcatEmptySeq, EmptySeq
  <1>2. TakenOnce
    BY <1>1 DEF Init, TakenOnce, Once
  <1>3. SendsLast
    BY <1>1 DEF Init, SendsLast
  <1> QED  BY <1>2, <1>3

(* No step makes a message be taken twice. *)
LEMMA StepTakenOnce ==
    ASSUME IInv, TakenOnce, [Next]_vars
    PROVE  TakenOnce'
  <1> USE StreamAssumption DEF IInv
  <1>1. ASSUME UNCHANGED <<taken, logChan, externalLogChan>>, Routed \subseteq Routed'
        PROVE  TakenOnce'
    BY <1>1 DEF TakenOnce, Once, Holds
  <1>2. ASSUME NEW c \in Clients,
               \/ Connect(c) \/ Disconnect(c) \/ ContextDone(c) \/ CloseClient(c)
               \/ AddClient(c) \/ RemoveClient(c) \/ WriteEvent(c) \/ Written(c) \/ SendToClient(c)
        PROVE  TakenOnce'
    <2>1. UNCHANGED <<taken, logChan, externalLogChan, unlogged, posted, blocked>>
      BY <1>2 DEF Connect, Disconnect, ContextDone, CloseClient, AddClient, RemoveClient,
                  WriteEvent, Written, SendToClient, hub, sources
    <2> QED  BY <1>1, <2>1 DEF Routed
  <1>3. CASE Idle \/ UNCHANGED vars
    BY <1>1, <1>3 DEF Idle, vars, hub, Routed
  <1>4. CASE PostLog \/ PostTimeout
    <2>1. UNCHANGED <<taken, logChan, externalLogChan, unlogged>>
      BY <1>4 DEF PostLog, PostTimeout, hub
    <2>2. 1..posted \ blocked \subseteq 1..posted' \ blocked'
      BY <1>4 DEF PostLog, PostTimeout, TypeOK
    <2> QED  BY <1>1, <2>1, <2>2 DEF Routed
  <1>5. ASSUME NEW m \in Local, RouteToDashboard(m) PROVE TakenOnce'
    <2>1. Routed' = Routed \cup {m} /\ m \notin Routed /\ UNCHANGED <<taken, externalLogChan>>
      <3>1. m \in unlogged /\ unlogged' = unlogged \ {m} /\ m \in Local
        BY <1>5 DEF RouteToDashboard
      <3>2. m \notin 1..posted
        <4>1. 1..posted \subseteq 0..Posts
          BY DEF TypeOK
        <4> QED  BY <4>1
      <3>3. UNCHANGED <<taken, externalLogChan, posted, blocked>>
        BY <1>5 DEF RouteToDashboard, hub
      <3> QED  BY <3>1, <3>2, <3>3 DEF Routed
    <2>2. Once(logChan)'
      <3>1. CASE logChan' = logChan
        BY <2>1, <3>1 DEF TakenOnce, Once, Holds
      <3>2. CASE logChan' = Append(logChan, m)
        <4>1. /\ Len(logChan) \in Nat
              /\ DOMAIN logChan = 1..Len(logChan) /\ DOMAIN logChan' = 1..(Len(logChan) + 1)
              /\ \A i \in 1..Len(logChan) : logChan'[i] = logChan[i]
              /\ logChan'[Len(logChan) + 1] = m
          BY <3>2, AppendFacts DEF TypeOK
        <4>2. ~Holds(taken, m)
          BY <2>1 DEF TakenOnce, Holds
        <4> QED  BY <2>1, <4>1, <4>2 DEF TakenOnce, Once, Holds
      <3> QED  BY <1>5, <3>1, <3>2 DEF RouteToDashboard
    <2> QED  BY <2>1, <2>2 DEF TakenOnce, Once, Holds
  <1>6. ASSUME NEW m \in 1..Posts, BroadcastRawLog(m) PROVE TakenOnce'
    <2>1. Routed' = Routed \cup {m} /\ m \notin Routed /\ UNCHANGED <<taken, logChan>>
      <3>1. m \in blocked /\ blocked' = blocked \ {m} /\ m \in 1..posted /\ m \notin Local
        <4>1. m \in blocked /\ blocked' = blocked \ {m}
          BY <1>6 DEF BroadcastRawLog
        <4>2. m \in 1..posted
          BY <4>1 DEF TypeOK
        <4>3. m \in 0..Posts
          OBVIOUS
        <4> QED  BY <4>1, <4>2, <4>3
      <3> QED  BY <1>6, <3>1 DEF BroadcastRawLog, hub, Routed
    <2>2. Once(externalLogChan)'
      <3>1. /\ Len(externalLogChan) \in Nat
            /\ DOMAIN externalLogChan = 1..Len(externalLogChan)
            /\ DOMAIN externalLogChan' = 1..(Len(externalLogChan) + 1)
            /\ \A i \in 1..Len(externalLogChan) : externalLogChan'[i] = externalLogChan[i]
            /\ externalLogChan'[Len(externalLogChan) + 1] = m
        BY <1>6, AppendFacts DEF BroadcastRawLog, TypeOK
      <3>2. ~Holds(taken, m)
        BY <2>1 DEF TakenOnce, Holds
      <3> QED  BY <2>1, <3>1, <3>2 DEF TakenOnce, Once, Holds
    <2> QED  BY <2>1, <2>2 DEF TakenOnce, Once, Holds
  <1>7. ASSUME NEW m \in Messages, taken' = Append(taken, m), Routed' = Routed,
               m \in Routed, ~Holds(taken, m)
        PROVE  /\ \A i \in DOMAIN taken' : taken'[i] \in Routed'
               /\ \A i, j \in DOMAIN taken' : taken'[i] = taken'[j] => i = j
    <2>1. /\ Len(taken) \in Nat
          /\ DOMAIN taken = 1..Len(taken) /\ DOMAIN taken' = 1..(Len(taken) + 1)
          /\ \A i \in 1..Len(taken) : taken'[i] = taken[i]
          /\ taken'[Len(taken) + 1] = m
      BY <1>7, AppendFacts DEF TypeOK
    <2> QED  BY <1>7, <2>1 DEF TakenOnce, Holds
  <1>8. CASE TakeLog
    <2>1. /\ logChan # <<>> /\ logChan \in Seq(Local) /\ logChan' = Tail(logChan)
          /\ taken' = Append(taken, Head(logChan))
          /\ UNCHANGED <<externalLogChan, unlogged, posted, blocked>>
      BY <1>8 DEF TakeLog, StartSend, TypeOK
    <2>2. /\ Head(logChan) \in Local /\ Head(logChan) = logChan[1]
          /\ Len(logChan) \in Nat /\ Len(logChan) >= 1
          /\ DOMAIN logChan = 1..Len(logChan) /\ DOMAIN logChan' = 1..(Len(logChan) - 1)
          /\ \A i \in 1..(Len(logChan) - 1) : logChan'[i] = logChan[i + 1]
      BY <2>1, TailFacts
    <2>3. Routed' = Routed /\ Head(logChan) \in Routed /\ ~Holds(taken, Head(logChan))
      BY <2>1, <2>2 DEF TakenOnce, Once, Routed
    <2>4. \A x : Holds(taken', x) <=> Holds(taken, x) \/ x = Head(logChan)
      BY <2>1, <2>2, TakenAppended DEF Messages
    <2>5. Once(logChan)'
      <3>1. ASSUME NEW i \in DOMAIN logChan'
            PROVE  /\ i \in Int /\ i + 1 \in DOMAIN logChan /\ logChan'[i] = logChan[i + 1]
                   /\ logChan[i + 1] # Head(logChan)
        <4>1. i \in Int /\ i + 1 \in DOMAIN logChan /\ 1 \in DOMAIN logChan /\ i + 1 # 1
          BY <2>2
        <4> QED  BY <2>2, <4>1 DEF TakenOnce, Once
      <3>2. \A i \in DOMAIN logChan' : logChan'[i] \in Routed' /\ ~Holds(taken', logChan'[i])
        BY <2>3, <2>4, <3>1 DEF TakenOnce, Once
      <3>3. ASSUME NEW i \in DOMAIN logChan', NEW j \in DOMAIN logChan', logChan'[i] = logChan'[j]
            PROVE  i = j
        <4>1. i + 1 = j + 1
          BY <3>1, <3>3 DEF TakenOnce, Once
        <4> QED  BY <3>1, <4>1
      <3> QED  BY <3>2, <3>3 DEF Once
    <2>6. \A i \in DOMAIN externalLogChan : externalLogChan[i] # Head(logChan)
      <3>1. \A i \in DOMAIN externalLogChan : externalLogChan[i] \in 1..Posts
        BY LenProperties, ElementOfSeq DEF TypeOK
      <3> QED  BY <2>2, <3>1
    <2>7. Once(externalLogChan)'
      BY <2>1, <2>3, <2>4, <2>6 DEF TakenOnce, Once
    <2>8. Head(logChan) \in Messages
      BY <2>2 DEF Messages
    <2> QED  BY <1>7, <2>1, <2>3, <2>5, <2>7, <2>8 DEF TakenOnce
  <1>9. CASE TakeExternal
    <2> DEFINE e == externalLogChan
    <2>1. /\ e # <<>> /\ e \in Seq(1..Posts) /\ e' = Tail(e)
          /\ taken' = Append(taken, Head(e))
          /\ UNCHANGED <<logChan, unlogged, posted, blocked>>
      BY <1>9 DEF TakeExternal, StartSend, TypeOK
    <2>2. /\ Head(e) \in 1..Posts /\ Head(e) = e[1]
          /\ Len(e) \in Nat /\ Len(e) >= 1
          /\ DOMAIN e = 1..Len(e) /\ DOMAIN e' = 1..(Len(e) - 1)
          /\ \A i \in 1..(Len(e) - 1) : e'[i] = e[i + 1]
      BY <2>1, TailFacts
    <2>3. Routed' = Routed /\ Head(e) \in Routed /\ ~Holds(taken, Head(e))
      <3>1. Routed' = Routed
        BY <2>1 DEF Routed
      <3>2. e[1] \in Routed /\ ~Holds(taken, e[1])
        BY <2>2 DEF TakenOnce, Once
      <3> QED  BY <2>2, <3>1, <3>2
    <2>4. \A x : Holds(taken', x) <=> Holds(taken, x) \/ x = Head(e)
      BY <2>1, <2>2, TakenAppended DEF Messages
    <2>5. Once(e)'
      <3>1. ASSUME NEW i \in DOMAIN e'
            PROVE  /\ i \in Int /\ i + 1 \in DOMAIN e /\ e'[i] = e[i + 1]
                   /\ e[i + 1] # Head(e)
        <4>1. i \in Int /\ i + 1 \in DOMAIN e /\ 1 \in DOMAIN e /\ i + 1 # 1
          BY <2>2
        <4> QED  BY <2>2, <4>1 DEF TakenOnce, Once
      <3>2. \A i \in DOMAIN e' : e'[i] \in Routed' /\ ~Holds(taken', e'[i])
        BY <2>3, <2>4, <3>1 DEF TakenOnce, Once
      <3>3. ASSUME NEW i \in DOMAIN e', NEW j \in DOMAIN e', e'[i] = e'[j]
            PROVE  i = j
        <4>1. i + 1 = j + 1
          BY <3>1, <3>3 DEF TakenOnce, Once
        <4> QED  BY <3>1, <4>1
      <3> QED  BY <3>2, <3>3 DEF Once
    <2>6. \A i \in DOMAIN logChan : logChan[i] # Head(e)
      <3>1. \A i \in DOMAIN logChan : logChan[i] \in Local
        BY LenProperties, ElementOfSeq DEF TypeOK
      <3> QED  BY <2>2, <3>1
    <2>7. Once(logChan)'
      BY <2>1, <2>3, <2>4, <2>6 DEF TakenOnce, Once
    <2>8. Head(e) \in Messages
      BY <2>2 DEF Messages
    <2> QED  BY <1>7, <2>1, <2>3, <2>5, <2>7, <2>8 DEF TakenOnce
  <1> QED  BY <1>2, <1>3, <1>4, <1>5, <1>6, <1>8, <1>9 DEF Next

(* A connection is sent the message taken last, after everything it was sent before. *)
LEMMA StepSendsLast ==
    ASSUME IInv, SendsLast, [Next]_vars
    PROVE  SendsLast'
  <1> USE DEF IInv
  <1>1. ASSUME UNCHANGED <<taken, msg, left>>,
               \A c \in Clients : got'[c] \o buffer'[c] = got[c] \o buffer[c]
        PROVE  SendsLast'
    <2>1. ASSUME NEW c \in Clients
          PROVE  LET stream == got'[c] \o buffer'[c]
                 IN  /\ \A i, j \in DOMAIN stream : i < j => Before(taken, stream[i], stream[j])
                     /\ \A i \in DOMAIN stream :
                           Holds(taken, stream[i]) /\ (c \in left => Before(taken, stream[i], msg))
      BY <1>1 DEF SendsLast
    <2> QED  BY <1>1, <2>1 DEF SendsLast
  <1>2. ASSUME NEW c \in Clients,
               \/ Connect(c) \/ Disconnect(c) \/ ContextDone(c) \/ CloseClient(c)
               \/ AddClient(c) \/ RemoveClient(c) \/ Written(c)
        PROVE  SendsLast'
    <2>1. UNCHANGED <<taken, msg, left, got, buffer>>
      BY <1>2 DEF Connect, Disconnect, ContextDone, CloseClient, AddClient, RemoveClient, Written, hub
    <2> QED  BY <1>1, <2>1
  <1>3. CASE \/ PostLog \/ PostTimeout \/ Idle \/ UNCHANGED vars
             \/ \E m \in Local : RouteToDashboard(m)
             \/ \E m \in 1..Posts : BroadcastRawLog(m)
    <2>1. UNCHANGED <<taken, msg, left, got, buffer>>
      BY <1>3 DEF PostLog, PostTimeout, Idle, vars, RouteToDashboard, BroadcastRawLog, hub
    <2> QED  BY <1>1, <2>1
  <1>4. ASSUME NEW c \in Clients, WriteEvent(c) PROVE SendsLast'
    <2>1. /\ buffer[c] # <<>> /\ buffer[c] \in Seq(Messages) /\ got[c] \in Seq(Messages)
          /\ buffer' = [buffer EXCEPT ![c] = Tail(buffer[c])]
          /\ got' = [got EXCEPT ![c] = Append(got[c], Head(buffer[c]))]
          /\ UNCHANGED <<taken, msg, left>>
      BY <1>4 DEF WriteEvent, hub, TypeOK
    <2>2. Append(got[c], Head(buffer[c])) \o Tail(buffer[c]) = got[c] \o buffer[c]
      BY <2>1, StreamMoved
    <2>3. \A d \in Clients : got'[d] \o buffer'[d] = got[d] \o buffer[d]
      BY <2>1, <2>2 DEF TypeOK
    <2> QED  BY <1>1, <2>1, <2>3
  <1>5. CASE TakeLog \/ TakeExternal
    <2>1. PICK m \in Messages : StartSend(m)
      BY <1>5, TailFacts DEF TakeLog, TakeExternal, TypeOK, Messages
    <2>2. taken' = Append(taken, m) /\ msg' \in {None, m} /\ UNCHANGED <<got, buffer>>
      BY <2>1 DEF StartSend
    <2>3. left' # {} => msg' = m
      BY <2>1 DEF StartSend
    <2>4. /\ \A x : Holds(taken', x) <=> Holds(taken, x) \/ x = m
          /\ \A x, y : Before(taken, x, y) => Before(taken', x, y)
          /\ \A x : Holds(taken, x) => Before(taken', x, m)
          /\ taken' # <<>> /\ taken'[Len(taken')] = m
      BY <2>2, TakenAppended
    <2> QED  BY <2>2, <2>3, <2>4 DEF SendsLast
  <1>6. ASSUME NEW c \in Clients, SendToClient(c) PROVE SendsLast'
    <2>1. /\ msg # None /\ c \in left /\ left' = left \ {c} /\ msg \in Messages
          /\ msg' = IF left = {c} THEN None ELSE msg
          /\ UNCHANGED <<taken, got>>
          /\ buffer[c] \in Seq(Messages) /\ got[c] \in Seq(Messages)
      BY <1>6 DEF SendToClient, TypeOK
    <2>2. /\ \A x, y : Before(taken', x, y) <=> Before(taken, x, y)
          /\ \A x : Holds(taken', x) <=> Holds(taken, x)
      BY <2>1 DEF Before, Holds
    <2>3. Holds(taken, msg)
      BY <2>1, LenProperties, EmptySeq DEF SendsLast, Holds, TypeOK
    <2>4. left' # {} => msg' = msg
      BY <2>1
    <2>5. CASE buffer' = buffer
      BY <2>1, <2>2, <2>4, <2>5 DEF SendsLast
    <2>6. CASE buffer' = [buffer EXCEPT ![c] = Append(buffer[c], msg)]
      <3> DEFINE old == got[c] \o buffer[c]
                 new == got'[c] \o buffer'[c]
      <3>1. new = Append(old, msg) /\ old \in Seq(Messages)
        BY <2>1, <2>6, StreamAppended, ConcatProperties DEF TypeOK
      <3>2. \A d \in Clients : d # c => got'[d] \o buffer'[d] = got[d] \o buffer[d]
        BY <2>1, <2>6 DEF TypeOK
      <3>3. /\ \A i, j \in DOMAIN old : i < j => Before(taken, old[i], old[j])
            /\ \A i \in DOMAIN old : Holds(taken, old[i]) /\ Before(taken, old[i], msg)
        BY <2>1 DEF SendsLast
      <3> HIDE DEF old, new
      <3>4. /\ Len(old) \in Nat /\ DOMAIN old = 1..Len(old) /\ DOMAIN new = 1..(Len(old) + 1)
            /\ \A i \in 1..Len(old) : new[i] = old[i]
            /\ new[Len(old) + 1] = msg
        BY <2>1, <3>1, AppendFacts
      <3>5. ASSUME NEW i \in DOMAIN new, NEW j \in DOMAIN new, i < j
            PROVE  Before(taken, new[i], new[j])
        <4>1. i \in 1..Len(old) /\ (j \in 1..Len(old) \/ j = Len(old) + 1)
          BY <3>4, <3>5
        <4> QED  BY <3>3, <3>4, <3>5, <4>1
      <3>6. ASSUME NEW i \in DOMAIN new PROVE Holds(taken, new[i])
        <4>1. i \in 1..Len(old) \/ i = Len(old) + 1
          BY <3>4
        <4> QED  BY <2>3, <3>3, <3>4, <4>1
      <3>7. c \notin left'
        BY <2>1
      <3>8. ASSUME NEW d \in Clients
            PROVE  LET stream == got'[d] \o buffer'[d]
                   IN  /\ \A i, j \in DOMAIN stream : i < j => Before(taken, stream[i], stream[j])
                       /\ \A i \in DOMAIN stream :
                             Holds(taken, stream[i]) /\ (d \in left' => Before(taken, stream[i], msg'))
        <4>1. CASE d = c
          BY <3>5, <3>6, <3>7, <4>1 DEF new
        <4>2. CASE d # c
          <5>1. got'[d] \o buffer'[d] = got[d] \o buffer[d]
            BY <3>2, <4>2
          <5>2. d \in left' => d \in left /\ msg' = msg
            BY <2>1, <2>4
          <5> QED  BY <5>1, <5>2 DEF SendsLast
        <4> QED  BY <4>1, <4>2
      <3>9. msg' # None => taken' # <<>> /\ taken'[Len(taken')] = msg'
        BY <2>1 DEF SendsLast
      <3> QED  BY <2>1, <3>8, <3>9 DEF SendsLast
    <2> QED  BY <1>6, <2>5, <2>6 DEF SendToClient, Send
  <1> QED  BY <1>2, <1>3, <1>4, <1>5, <1>6 DEF Next

(* Every connection gets its messages in the order broadcastLogs took them, each once,    *)
(* whatever was dropped for it (server.go lines 101-126).                                 *)
THEOREM StreamsInOrder == Spec => []StreamInOrder
  <1>1. OrderInv => StreamInOrder
    <2> SUFFICES ASSUME OrderInv, NEW m, NEW n, Before(taken, m, n)
                 PROVE  Place(m) < Place(n)
      BY DEF OrderInv, SendsLast, StreamInOrder
    <2>1. PICK i \in DOMAIN taken, j \in DOMAIN taken : taken[i] = m /\ taken[j] = n /\ i < j
      BY DEF Before
    <2>2. Place(m) = i /\ Place(n) = j
      BY <2>1 DEF OrderInv, TakenOnce, Place
    <2> QED  BY <2>1, <2>2
  <1>2. OrderInv /\ [Next]_vars => OrderInv'
    BY StepInvariant, StepTakenOnce, StepSendsLast DEF OrderInv
  <1> QED  BY <1>1, <1>2, InitOrder, PTL DEF Spec

-----------------------------------------------------------------------------
(* What a queue gains with an element, and has left without its first one. *)
LEMMA AppendOrder ==
    ASSUME NEW S, NEW q \in Seq(S), NEW m \in S
    PROVE  /\ \A x : Holds(Append(q, m), x) => Holds(q, x) \/ x = m
           /\ \A x, y : Before(Append(q, m), x, y) => Before(q, x, y) \/ (y = m /\ Holds(q, x))
  <1>1. /\ Len(q) \in Nat /\ DOMAIN q = 1..Len(q) /\ DOMAIN Append(q, m) = 1..(Len(q) + 1)
        /\ \A i \in 1..Len(q) : Append(q, m)[i] = q[i]
        /\ Append(q, m)[Len(q) + 1] = m
    BY AppendFacts
  <1>2. \A x : Holds(Append(q, m), x) => Holds(q, x) \/ x = m
    BY <1>1 DEF Holds
  <1>3. ASSUME NEW x, NEW y, Before(Append(q, m), x, y)
        PROVE  Before(q, x, y) \/ (y = m /\ Holds(q, x))
    <2>1. PICK i \in 1..(Len(q) + 1), j \in 1..(Len(q) + 1) :
             Append(q, m)[i] = x /\ Append(q, m)[j] = y /\ i < j
      BY <1>1, <1>3 DEF Before
    <2>2. i \in 1..Len(q) /\ q[i] = x /\ (j \in 1..Len(q) \/ j = Len(q) + 1)
      BY <1>1, <2>1
    <2> QED  BY <1>1, <2>1, <2>2 DEF Before, Holds
  <1> QED  BY <1>2, <1>3

LEMMA TailOrder ==
    ASSUME NEW S, NEW q \in Seq(S), q # <<>>
    PROVE  /\ Holds(q, Head(q))
           /\ \A x : Holds(Tail(q), x) => Holds(q, x) /\ Before(q, Head(q), x)
           /\ \A x, y : Before(Tail(q), x, y) => Before(q, x, y)
  <1>1. /\ Head(q) = q[1] /\ Len(q) \in Nat /\ Len(q) >= 1
        /\ DOMAIN q = 1..Len(q) /\ DOMAIN Tail(q) = 1..(Len(q) - 1)
        /\ \A i \in 1..(Len(q) - 1) : Tail(q)[i] = q[i + 1]
    BY TailFacts
  <1>2. \A i \in 1..(Len(q) - 1) : i + 1 \in 1..Len(q) /\ 1 \in 1..Len(q) /\ 1 < i + 1
    BY <1>1
  <1>3. Holds(q, Head(q))
    BY <1>1 DEF Holds
  <1>4. \A x : Holds(Tail(q), x) => Holds(q, x) /\ Before(q, Head(q), x)
    BY <1>1, <1>2 DEF Holds, Before
  <1>5. ASSUME NEW x, NEW y, Before(Tail(q), x, y) PROVE Before(q, x, y)
    <2>1. PICK i \in 1..(Len(q) - 1), j \in 1..(Len(q) - 1) :
             Tail(q)[i] = x /\ Tail(q)[j] = y /\ i < j
      BY <1>1, <1>5 DEF Before
    <2>2. i + 1 < j + 1 /\ q[i + 1] = x /\ q[j + 1] = y
      BY <1>1, <2>1
    <2> QED  BY <1>1, <1>2, <2>1, <2>2 DEF Before
  <1> QED  BY <1>3, <1>4, <1>5

(* Only the newest post, or one that was given up, is still to be put into the channel. *)
LEMMA StepPosts ==
    ASSUME PostInv, [Next]_vars
    PROVE  Waits' /\ PostsInOrder'
  <1> USE StreamAssumption DEF PostInv, IInv
  <1>0. posted \in Nat /\ blocked \subseteq 1..posted /\ awaited \in blocked \cup {0} /\ Posts \in Nat
    BY DEF TypeOK
  <1>1. ASSUME UNCHANGED <<posted, blocked, awaited, abandoned>> PROVE Waits'
    BY <1>1 DEF Waits
  <1>2. ASSUME abandoned \subseteq abandoned',
               \A n, m \in 1..Posts : Overtakes(n, m)' => Overtakes(n, m) \/ m \in abandoned \/ n <= m
        PROVE  PostsInOrder'
    BY <1>2 DEF PostsInOrder
  <1>3. ASSUME UNCHANGED <<taken, externalLogChan, abandoned>> PROVE PostsInOrder'
    BY <1>3 DEF PostsInOrder, Overtakes, Before, Holds
  <1>4. ASSUME NEW c \in Clients,
               \/ Connect(c) \/ Disconnect(c) \/ ContextDone(c) \/ CloseClient(c)
               \/ AddClient(c) \/ RemoveClient(c) \/ WriteEvent(c) \/ Written(c) \/ SendToClient(c)
        PROVE  Waits' /\ PostsInOrder'
    <2>1. UNCHANGED <<taken, externalLogChan, posted, blocked, awaited, abandoned>>
      BY <1>4 DEF Connect, Disconnect, ContextDone, CloseClient, AddClient, RemoveClient,
                  WriteEvent, Written, SendToClient, hub, sources
    <2> QED  BY <1>1, <1>3, <2>1
  <1>5. CASE Idle \/ UNCHANGED vars \/ \E m \in Local : RouteToDashboard(m)
    <2>1. UNCHANGED <<taken, externalLogChan, posted, blocked, awaited, abandoned>>
      BY <1>5 DEF Idle, vars, RouteToDashboard, hub
    <2> QED  BY <1>1, <1>3, <2>1
  <1>6. CASE PostLog
    <2>1. \A m \in blocked : m \in abandoned
      BY <1>0, <1>6 DEF PostLog, Waits
    <2>2. Waits'
      BY <1>6, <2>1 DEF PostLog, Waits
    <2> QED  BY <1>3, <1>6, <2>2 DEF PostLog, hub
  <1>7. CASE PostTimeout
    <2>1. Waits'
      BY <1>7 DEF PostTimeout, Waits
    <2>2. abandoned \subseteq abandoned' /\ UNCHANGED <<taken, externalLogChan>>
      BY <1>7 DEF PostTimeout, hub
    <2> QED  BY <1>2, <2>1, <2>2 DEF Overtakes, Before, Holds
  <1>8. ASSUME NEW x \in 1..Posts, BroadcastRawLog(x) PROVE Waits' /\ PostsInOrder'
    <2>1. /\ x \in blocked /\ blocked' = blocked \ {x}
          /\ externalLogChan' = Append(externalLogChan, x) /\ externalLogChan \in Seq(1..Posts)
          /\ awaited' = IF awaited = x THEN 0 ELSE awaited
          /\ UNCHANGED <<taken, posted, abandoned>>
      BY <1>8 DEF BroadcastRawLog, hub, TypeOK
    <2>2. Waits'
      BY <2>1 DEF Waits
    <2>3. ASSUME NEW n \in 1..Posts, Holds(taken, n) \/ Holds(externalLogChan, n), x \notin abandoned
          PROVE  n <= x
      <3>1. x = posted
        BY <2>1, <2>3 DEF Waits
      <3>2. n \in Routed
        BY <2>3 DEF Holds, TakenOnce, Once
      <3>3. n \in 1..posted
        BY <3>2 DEF Routed
      <3> QED  BY <1>0, <3>1, <3>3
    <2>4. ASSUME NEW n \in 1..Posts, NEW m \in 1..Posts, Overtakes(n, m)'
          PROVE  Overtakes(n, m) \/ m \in abandoned \/ n <= m
      <3>1. CASE Before(taken, n, m)'
        BY <2>1, <3>1 DEF Overtakes, Before
      <3>2. CASE Before(externalLogChan, n, m)'
        <4>1. Before(externalLogChan, n, m) \/ (m = x /\ Holds(externalLogChan, n))
          <5>1. Before(Append(externalLogChan, x), n, m)
            BY <2>1, <3>2 DEF Before
          <5> QED  BY <2>1, <5>1, AppendOrder
        <4> QED  BY <2>3, <4>1 DEF Overtakes
      <3>3. CASE Holds(taken, n)' /\ Holds(externalLogChan, m)'
        <4>1. Holds(taken, n)
          BY <2>1, <3>3 DEF Holds
        <4>2. Holds(externalLogChan, m) \/ m = x
          <5>1. Holds(Append(externalLogChan, x), m)
            BY <2>1, <3>3 DEF Holds
          <5> QED  BY <2>1, <5>1, AppendOrder
        <4> QED  BY <2>3, <4>1, <4>2 DEF Overtakes
      <3> QED  BY <2>4, <3>1, <3>2, <3>3 DEF Overtakes
    <2> QED  BY <1>2, <2>1, <2>2, <2>4
  <1>9. CASE TakeLog
    <2>1. /\ Head(logChan) \in Local /\ taken \in Seq(Messages) /\ Head(logChan) \in Messages
          /\ taken' = Append(taken, Head(logChan))
          /\ UNCHANGED <<externalLogChan, posted, blocked, awaited, abandoned>>
      BY <1>9, TailFacts DEF TakeLog, StartSend, TypeOK, Messages
    <2>2. ASSUME NEW n \in 1..Posts, NEW m \in 1..Posts, Overtakes(n, m)'
          PROVE  Overtakes(n, m)
      <3>1. n # Head(logChan) /\ m # Head(logChan)
        <4>1. n \in 0..Posts /\ m \in 0..Posts
          BY <1>0
        <4> QED  BY <2>1, <4>1
      <3>2. Before(taken, n, m)' => Before(taken, n, m)
        <4>1. Before(taken, n, m)' => Before(Append(taken, Head(logChan)), n, m)
          BY <2>1 DEF Before
        <4> QED  BY <2>1, <3>1, <4>1, AppendOrder
      <3>3. Holds(taken, n)' => Holds(taken, n)
        <4>1. Holds(taken, n)' => Holds(Append(taken, Head(logChan)), n)
          BY <2>1 DEF Holds
        <4> QED  BY <2>1, <3>1, <4>1, AppendOrder
      <3>4. /\ Before(externalLogChan, n, m)' => Before(externalLogChan, n, m)
            /\ Holds(externalLogChan, m)' => Holds(externalLogChan, m)
        BY <2>1 DEF Before, Holds
      <3> QED  BY <2>2, <3>2, <3>3, <3>4 DEF Overtakes
    <2> QED  BY <1>1, <1>2, <2>1, <2>2
  <1>10. CASE TakeExternal
    <2> DEFINE e == externalLogChan
    <2>1. /\ e # <<>> /\ e \in Seq(1..Posts) /\ e' = Tail(e)
          /\ Head(e) \in 1..Posts /\ Head(e) \in Messages /\ taken \in Seq(Messages)
          /\ taken' = Append(taken, Head(e))
          /\ UNCHANGED <<posted, blocked, awaited, abandoned>>
      BY <1>10, TailFacts DEF TakeExternal, StartSend, TypeOK, Messages
    <2>2. ASSUME NEW n \in 1..Posts, NEW m \in 1..Posts, Overtakes(n, m)'
          PROVE  Overtakes(n, m)
      <3>1. Before(taken, n, m)' => Before(taken, n, m) \/ (Holds(taken, n) /\ Holds(e, m))
        <4>1. Before(taken, n, m)' => Before(Append(taken, Head(e)), n, m)
          BY <2>1 DEF Before
        <4>2. Holds(e, Head(e))
          BY <2>1, TailOrder
        <4> QED  BY <2>1, <4>1, <4>2, AppendOrder
      <3>2. Before(e, n, m)' => Before(e, n, m)
        <4>1. Before(e, n, m)' => Before(Tail(e), n, m)
          BY <2>1 DEF Before
        <4> QED  BY <2>1, <4>1, TailOrder
      <3>3. Holds(taken, n)' => Holds(taken, n) \/ n = Head(e)
        <4>1. Holds(taken, n)' => Holds(Append(taken, Head(e)), n)
          BY <2>1 DEF Holds
        <4> QED  BY <2>1, <4>1, AppendOrder
      <3>4. Holds(e, m)' => Holds(e, m) /\ Before(e, Head(e), m)
        <4>1. Holds(e, m)' => Holds(Tail(e), m)
          BY <2>1 DEF Holds
        <4> QED  BY <2>1, <4>1, TailOrder
      <3> QED  BY <2>2, <3>1, <3>2, <3>3, <3>4 DEF Overtakes
    <2> QED  BY <1>1, <1>2, <2>1, <2>2
  <1> QED  BY <1>4, <1>5, <1>6, <1>7, <1>8, <1>9, <1>10 DEF Next

(* The log posts of an agent are broadcast in the order it made them; only one that the   *)
(* agent had given up on can be passed by a newer one (fleet_client.go lines 79-97,       *)
(* server.go lines 128-131).                                                              *)
THEOREM PostsKeepOrder == Spec => []PostsInOrder
  <1>1. Init => PostInv
    <2>1. ASSUME Init PROVE Waits /\ PostsInOrder
      <3>1. DOMAIN <<>> = {}
        OBVIOUS
      <3> QED  BY <2>1, <3>1 DEF Init, Waits, PostsInOrder, Overtakes, Before, Holds
    <2> QED  BY <2>1, InitOrder DEF PostInv, OrderInv
  <1>2. PostInv /\ [Next]_vars => PostInv'
    BY StepInvariant, StepTakenOnce, StepPosts DEF PostInv
  <1>3. PostInv => PostsInOrder
    BY DEF PostInv
  <1> QED  BY <1>1, <1>2, <1>3, PTL DEF Spec

-----------------------------------------------------------------------------
(* FleetTelemetry.  FleetIInv is inductive. *)

(* The three counters, each looked up once. *)
LEMMA CounterFacts ==
    /\ Len(Counters) = 3 /\ DOMAIN Counters = 1..3
    /\ \A i \in 1..3 : Counters[i] \in Names
    /\ \A k \in Names : \E i \in 1..3 : Counters[i] = k
  <1>1. Len(Counters) = 3 /\ DOMAIN Counters = 1..3
    BY DEF Counters
  <1>2. Counters[1] = "dropped" /\ Counters[2] = "authSuccess" /\ Counters[3] = "authFailed"
    BY DEF Counters
  <1> QED  BY <1>1, <1>2 DEF Names

(* The counters of a new map. *)
LEMMA ZeroFacts ==
    ASSUME MaxCount \in Nat
    PROVE  Zero \in Values /\ \A k \in Names : Zero[k] = 0
  BY DEF Zero, Values

(* What a request carries. *)
LEMMA ReportFacts ==
    ASSUME FleetTypeOK, NEW a \in Agents
    PROVE  /\ Report(a, FALSE) \in Reports /\ Report(a, TRUE) \in Reports
           /\ Report(a, FALSE).agent = a /\ Report(a, TRUE).agent = a
           /\ Report(a, FALSE).snap = snap[a] /\ Report(a, TRUE).snap = snap[a]
           /\ Report(a, FALSE).life = life[a] /\ Report(a, TRUE).life = life[a]
           /\ Report(a, FALSE).late = FALSE /\ Report(a, TRUE).late = TRUE
           /\ Report(a, FALSE).missed = missed[a] /\ Report(a, TRUE).missed = missed[a]
  BY DEF Report, FleetTypeOK, Reports

(* Giving up on a request changes nothing but its mark. *)
Marked(p, a) == [p EXCEPT !.late = @ \/ p.agent = a]

LEMMA MarkedFacts ==
    ASSUME NEW a \in Agents, NEW p \in Reports
    PROVE  /\ Marked(p, a) \in Reports /\ Marked(p, a).agent = p.agent
           /\ Marked(p, a).snap = p.snap /\ Marked(p, a).life = p.life
           /\ Marked(p, a).late = (p.late \/ p.agent = a)
           /\ ~Marked(p, a).late => Marked(p, a) = p /\ p.agent # a
  <1> DEFINE q == Marked(p, a)
  <1>1. p.late \in BOOLEAN
    BY DEF Reports
  <1>2. /\ q \in Reports /\ q.agent = p.agent
        /\ q.snap = p.snap /\ q.life = p.life /\ q.late = (p.late \/ p.agent = a)
        /\ q.missed = p.missed
    BY <1>1 DEF Marked, Reports
  <1>3. ASSUME ~q.late PROVE q = p /\ p.agent # a
    <2>1. q.late = p.late /\ p.agent # a
      BY <1>1, <1>2, <1>3
    <2>2. \A r \in Reports : r = [agent |-> r.agent, snap |-> r.snap, life |-> r.life,
                                 late |-> r.late, missed |-> r.missed]
      BY DEF Reports
    <2>3. q = p
      BY <1>2, <2>1, <2>2
    <2> QED  BY <2>1, <2>3
  <1> QED  BY <1>2, <1>3

(* What the steps of one agent do to the bound of its next report. *)
LEMMA RaisesFloor ==
    ASSUME MaxCount \in Nat, FleetTypeOK, NextIsNewer, NEW a \in Agents, NEW b \in Agents, NEW k \in Names,
           \/ \E j \in Names : Count(b, j)
           \/ TelemetryLoop(b) \/ LookupFails(b) \/ TelemetryTimeout(b)
    PROVE  Floor(a, k) <= Floor(a, k)'
  <1> USE DEF Values
  <1>1. /\ count[a][k] \in Nat /\ snap[a][k] \in Nat /\ snap[a][k] <= count[a][k]
        /\ next[a] \in 1..3 /\ pc[a] \in {"wait", "read", "post", "await"}
    BY CounterFacts DEF FleetTypeOK, NextIsNewer
  <1>2. CASE \E j \in Names : Count(b, j)
    <2> PICK j \in Names : Count(b, j)
      BY <1>2
    <2>1. count'[a][k] \in {count[a][k], count[a][k] + 1}
      BY DEF Count, FleetTypeOK
    <2>2. Looked(a, k)' <=> Looked(a, k)
      BY DEF Count, Looked
    <2> QED  BY <1>1, <2>1, <2>2 DEF Floor, Count
  <1>3. CASE TickerFires(b)
    <2>1. CASE a = b
      BY <1>1, <1>3, <2>1 DEF TickerFires, Floor, Looked, FleetTypeOK
    <2>2. CASE a # b
      BY <1>1, <1>3, <2>2 DEF TickerFires, Floor, Looked, FleetTypeOK
    <2> QED  BY <2>1, <2>2
  <1>4. CASE Lookup(b) \/ LookupFails(b)
    <2>1. CASE a = b
      <3>0. pc[a] = "read" /\ LookedUp(a)
        BY <1>4, <2>1 DEF Lookup, LookupFails, LookedUp
      <3>1. Counters[next[a]] \in Names /\ Len(Counters) = 3 /\ count'[a][k] = count[a][k]
        BY <1>1, <3>0, CounterFacts DEF LookedUp
      <3>2. \/ k # Counters[next[a]] /\ snap'[a][k] = snap[a][k]
            \/ k = Counters[next[a]] /\ snap'[a][k] = count[a][k]
            \/ k = Counters[next[a]] /\ k \in missed'[a]
        BY <1>4, <2>1, <3>1 DEF Lookup, LookupFails, FleetTypeOK
      <3>3. Looked(a, k) => Looked(a, k)' \/ k \in missed'[a]
        BY <1>1, <3>0, <3>1 DEF LookedUp, Looked, FleetTypeOK
      <3>4. Looked(a, k)' => Looked(a, k) \/ k = Counters[next[a]]
        <4>0. missed[a] \subseteq missed'[a]
          BY <1>4, <2>1 DEF Lookup, LookupFails, FleetTypeOK
        <4>1. CASE next[a] = 3
          <5>1. \E i \in 1..3 : Counters[i] = k
            BY CounterFacts
          <5> QED  BY <3>0, <4>0, <4>1, <5>1 DEF LookedUp, Looked, FleetTypeOK
        <4>2. CASE next[a] # 3
          BY <1>1, <3>0, <3>1, <4>0, <4>2 DEF LookedUp, Looked, FleetTypeOK
        <4> QED  BY <4>1, <4>2
      <3>5. k \in missed'[a] => ~Looked(a, k)'
        BY DEF Looked
      <3>6. Floor(a, k)' \in {snap'[a][k], count[a][k]}
        BY <3>1 DEF Floor
      <3>7. CASE Looked(a, k)'
        <4>1. Floor(a, k)' = snap'[a][k]
          BY <3>7 DEF Floor
        <4>2. CASE k = Counters[next[a]]
          <5>1. Floor(a, k)' = count[a][k]
            BY <3>2, <3>5, <3>7, <4>1, <4>2
          <5> QED  BY <1>1, <5>1 DEF Floor
        <4>3. CASE k # Counters[next[a]]
          <5>1. Floor(a, k)' = snap[a][k] /\ Floor(a, k) = snap[a][k]
            BY <3>2, <3>4, <3>7, <4>1, <4>3 DEF Floor
          <5> QED  BY <1>1, <5>1
        <4> QED  BY <4>2, <4>3
      <3>8. CASE ~Looked(a, k)'
        <4>1. Floor(a, k)' = count[a][k]
          BY <3>1, <3>8 DEF Floor
        <4> QED  BY <1>1, <4>1 DEF Floor
      <3> QED  BY <3>7, <3>8
    <2>2. CASE a # b
      <3>1. /\ pc'[a] = pc[a] /\ next'[a] = next[a] /\ snap'[a] = snap[a] /\ missed'[a] = missed[a]
            /\ count' = count
        BY <1>4, <2>2 DEF Lookup, LookupFails, LookedUp, FleetTypeOK
      <3> QED  BY <1>1, <3>1 DEF Floor, Looked
    <2> QED  BY <2>1, <2>2
  <1>5. CASE Post(b)
    <2>1. CASE a = b
      BY <1>1, <1>5, <2>1 DEF Post, Floor, Looked, FleetTypeOK
    <2>2. CASE a # b
      BY <1>1, <1>5, <2>2 DEF Post, Floor, Looked, FleetTypeOK
    <2> QED  BY <2>1, <2>2
  <1>6. CASE PostReturns(b) \/ TelemetryTimeout(b)
    <2>1. /\ pc[b] = "await" /\ pc' = [pc EXCEPT ![b] = "wait"]
          /\ snap' = [snap EXCEPT ![b] = Zero] /\ missed' = [missed EXCEPT ![b] = {}]
          /\ UNCHANGED <<count, next>>
      BY <1>6 DEF PostReturns, TelemetryTimeout, RoundEnds
    <2>2. CASE a = b
      BY <1>1, <2>1, <2>2 DEF Floor, Looked, FleetTypeOK
    <2>3. CASE a # b
      BY <1>1, <2>1, <2>3 DEF Floor, Looked, FleetTypeOK
    <2> QED  BY <2>2, <2>3
  <1> QED  BY <1>2, <1>3, <1>4, <1>5, <1>6 DEF TelemetryLoop

(* Before the first ticker all counters, snapshots and rows are empty. *)
LEMMA FleetInitInvariant ==
    ASSUME MaxCount \in Nat, MaxRestarts \in Nat, MaxFaults \in Nat, FleetInit
    PROVE  FleetIInv
  <1>1. FleetTypeOK
    BY ZeroFacts, CounterFacts DEF FleetInit, FleetTypeOK
  <1>2. NextIsNewer
    BY ZeroFacts DEF FleetInit, NextIsNewer, Known
  <1>3. OneAwaited
    BY DEF FleetInit, OneAwaited
  <1> QED  BY <1>1, <1>2, <1>3 DEF FleetIInv

(* No step leaves the types, and no row holds two reports. *)
LEMMA FleetTypeStep ==
    ASSUME MaxCount \in Nat, MaxRestarts \in Nat, MaxFaults \in Nat, FleetTypeOK, [FleetNext]_fleetVars
    PROVE  FleetTypeOK'
  <1> USE DEF FleetTypeOK
  <1>1. ASSUME NEW a \in Agents, NEW k \in Names, Count(a, k) PROVE FleetTypeOK'
    <2>1. count' \in [Agents -> Values]
      <3>1. count[a] \in Values /\ count[a][k] + 1 \in 0..MaxCount
        BY <1>1 DEF Count, Values
      <3>2. [count[a] EXCEPT ![k] = count[a][k] + 1] \in Values
        BY <3>1 DEF Values
      <3> QED  BY <1>1, <3>2 DEF Count
    <2> QED  BY <1>1, <2>1 DEF Count
  <1>2. ASSUME NEW a \in Agents, TickerFires(a) PROVE FleetTypeOK'
    <2>1. 1 \in DOMAIN Counters
      BY CounterFacts
    <2> QED  BY <1>2, <2>1, ZeroFacts DEF TickerFires
  <1>3. ASSUME NEW a \in Agents, Lookup(a) \/ LookupFails(a) PROVE FleetTypeOK'
    <2> DEFINE k == Counters[next[a]]
    <2>1. k \in Names /\ next[a] \in 1..3 /\ Len(Counters) = 3
      BY CounterFacts
    <2>2. snap' \in [Agents -> Values]
      <3>1. snap[a] \in Values /\ count[a][k] \in 0..MaxCount
        BY <2>1 DEF Values
      <3>2. [snap[a] EXCEPT ![k] = count[a][k]] \in Values
        BY <2>1, <3>1 DEF Values
      <3> QED  BY <1>3, <3>2 DEF Lookup, LookupFails
    <2>3. next' \in [Agents -> DOMAIN Counters]
      <3>1. (IF next[a] = 3 THEN 1 ELSE next[a] + 1) \in DOMAIN Counters
        BY <2>1, CounterFacts
      <3> QED  BY <1>3, <2>1, <3>1 DEF Lookup, LookupFails, LookedUp
    <2>4. missed' \in [Agents -> SUBSET Names] /\ faults' \in [Agents -> 0..MaxFaults]
      <3>1. CASE Lookup(a)
        BY <3>1 DEF Lookup
      <3>2. CASE LookupFails(a)
        BY <2>1, <3>2 DEF LookupFails
      <3> QED  BY <1>3, <3>1, <3>2
    <2> QED  BY <1>3, <2>2, <2>3, <2>4 DEF Lookup, LookupFails, LookedUp
  <1>4. ASSUME NEW a \in Agents, Post(a) PROVE FleetTypeOK'
    BY <1>4, ReportFacts DEF Post
  <1>5. ASSUME NEW a \in Agents, PostReturns(a) PROVE FleetTypeOK'
    BY <1>5, ZeroFacts DEF PostReturns, RoundEnds
  <1>6. ASSUME NEW a \in Agents, TelemetryTimeout(a) PROVE FleetTypeOK'
    <2>1. posts' \subseteq Reports
      BY <1>6, ReportFacts DEF TelemetryTimeout
    <2> QED  BY <1>6, <2>1, ZeroFacts DEF TelemetryTimeout, RoundEnds
  <1>7. ASSUME NEW a \in Agents, AgentRestart(a) PROVE FleetTypeOK'
    <2>1. posts' \subseteq Reports
      <3>1. posts' = {Marked(p, a) : p \in posts}
        BY <1>7 DEF AgentRestart, Marked
      <3> QED  BY <3>1, MarkedFacts
    <2>2. life' \in [Agents -> 0..MaxRestarts]
      BY <1>7 DEF AgentRestart
    <2>3. 1 \in DOMAIN Counters
      BY CounterFacts
    <2> QED  BY <1>7, <2>1, <2>2, <2>3, ZeroFacts DEF AgentRestart, RoundEnds
  <1>8. ASSUME NEW p \in posts, NotSaved(p) PROVE FleetTypeOK'
    BY <1>8 DEF NotSaved, agentVars
  <1>9. ASSUME NEW p \in posts, RegisterAgent(p) PROVE FleetTypeOK'
    <2>1. p \in Reports /\ p.agent \in Agents
      BY DEF Reports
    <2> QED  BY <1>9, <2>1 DEF RegisterAgent, agentVars
  <1>10. CASE ManagerRestart
    BY <1>10 DEF ManagerRestart, agentVars
  <1>11. CASE UNCHANGED fleetVars
    BY <1>11 DEF fleetVars, agentVars
  <1> QED
    BY <1>1, <1>2, <1>3, <1>4, <1>5, <1>6, <1>7, <1>8, <1>9, <1>10, <1>11
    DEF FleetNext, TelemetryLoop

(* A step within the agents' lives that lowers no bound keeps what it knew *)
(* within the bounds, marked or not; a new report has to be checked.       *)
LEMMA Carried ==
    ASSUME MaxCount \in Nat, MaxRestarts \in Nat, MaxFaults \in Nat, FleetTypeOK, FleetTypeOK', NextIsNewer,
           \A b \in Agents : life'[b] = life[b],
           \A b \in Agents, k \in Names : snap'[b][k] <= count'[b][k],
           \A b \in Agents, k \in Names : Floor(b, k) <= Floor(b, k)',
           \A b \in Agents : \A r \in Known(b)' :
              \/ \E q \in Known(b) : q.life = r.life /\ q.snap = r.snap
              \/ r.life = life[b] /\ \A k \in Names : r.snap[k] <= Floor(b, k)'
    PROVE  NextIsNewer'
  <1> SUFFICES ASSUME NEW b \in Agents, NEW r \in Known(b)'
               PROVE  /\ r.life <= life'[b]
                      /\ r.life = life'[b] => \A k \in Names : r.snap[k] <= Floor(b, k)'
    BY DEF NextIsNewer
  <1>1. CASE \E q \in Known(b) : q.life = r.life /\ q.snap = r.snap
    <2> PICK q \in Known(b) : q.life = r.life /\ q.snap = r.snap
      BY <1>1
    <2>1. /\ q.life <= life[b]
          /\ q.life = life[b] => \A k \in Names : q.snap[k] <= Floor(b, k)
      BY DEF NextIsNewer
    <2>2. \A k \in Names : /\ q.snap[k] \in Nat /\ Floor(b, k) \in Nat /\ Floor(b, k)' \in Nat
                           /\ Floor(b, k) <= Floor(b, k)'
      <3>1. q \in Reports
        BY DEF Known, FleetTypeOK
      <3>2. \A k \in Names : q.snap[k] \in Nat
        BY <3>1 DEF Reports, Values
      <3>3. \A k \in Names : Floor(b, k) \in Nat
        BY DEF Floor, FleetTypeOK, Values
      <3>4. \A k \in Names : Floor(b, k)' \in Nat
        BY DEF Floor, FleetTypeOK, Values
      <3> QED  BY <3>2, <3>3, <3>4
    <2>3. ASSUME NEW k \in Names, q.life = life[b] PROVE r.snap[k] <= Floor(b, k)'
      <3>1. q.snap[k] <= Floor(b, k)
        BY <2>1, <2>3
      <3> QED  BY <2>2, <3>1
    <2> QED  BY <2>1, <2>3
  <1>2. CASE r.life = life[b] /\ \A k \in Names : r.snap[k] <= Floor(b, k)'
    BY <1>2 DEF FleetTypeOK
  <1> QED  BY <1>1, <1>2

(* What is known of an agent stays within what its next report will show;  *)
(* a restart puts all of it into an earlier life.                          *)
LEMMA NewerStep ==
    ASSUME MaxCount \in Nat, MaxRestarts \in Nat, MaxFaults \in Nat, FleetTypeOK, FleetTypeOK', NextIsNewer, [FleetNext]_fleetVars
    PROVE  NextIsNewer'
  <1> USE DEF FleetTypeOK
  <1>0. \A b \in Agents, k \in Names : /\ count[b][k] \in Nat /\ snap[b][k] \in Nat
                                       /\ snap[b][k] <= count[b][k]
    BY DEF NextIsNewer, Values
  <1>1. ASSUME NEW a \in Agents, NEW k \in Names, Count(a, k) PROVE NextIsNewer'
    <2>1. \A b \in Agents, j \in Names :
             count'[b][j] \in {count[b][j], count[b][j] + 1} /\ snap'[b][j] = snap[b][j]
      BY <1>1 DEF Count, Values
    <2>2. \A b \in Agents : Known(b)' = Known(b) /\ life'[b] = life[b]
      BY <1>1 DEF Count, Known
    <2>3. \A b \in Agents, j \in Names : Floor(b, j) <= Floor(b, j)'
      BY <1>1, RaisesFloor
    <2>4. ASSUME NEW b \in Agents, NEW j \in Names PROVE snap'[b][j] <= count'[b][j]
      <3>1. snap[b][j] \in Nat /\ count[b][j] \in Nat /\ snap[b][j] <= count[b][j]
        BY <1>0
      <3>2. count'[b][j] = count[b][j] \/ count'[b][j] = count[b][j] + 1
        BY <2>1
      <3> QED  BY <2>1, <3>1, <3>2
    <2> QED  BY <2>2, <2>3, <2>4, Carried
  <1>2. ASSUME NEW a \in Agents, TickerFires(a) \/ PostReturns(a) PROVE NextIsNewer'
    <2>1. snap' = [snap EXCEPT ![a] = Zero] /\ UNCHANGED <<count, life, posts, row>>
      BY <1>2 DEF TickerFires, PostReturns, RoundEnds
    <2>2. \A b \in Agents : Known(b)' = Known(b) /\ life'[b] = life[b]
      BY <2>1 DEF Known
    <2>3. \A b \in Agents, j \in Names : Floor(b, j) <= Floor(b, j)'
      BY <1>2, RaisesFloor DEF TelemetryLoop
    <2>4. \A b \in Agents, j \in Names : snap'[b][j] <= count'[b][j]
      BY <1>0, <2>1, ZeroFacts
    <2> QED  BY <2>2, <2>3, <2>4, Carried
  <1>3. ASSUME NEW a \in Agents, Lookup(a) \/ LookupFails(a) PROVE NextIsNewer'
    <2>1. Counters[next[a]] \in Names
      BY CounterFacts
    <2>2. \A b \in Agents, j \in Names : snap'[b][j] \in {snap[b][j], count[b][j]}
      <3>1. CASE Lookup(a)
        BY <2>1, <3>1 DEF Lookup, Values
      <3>2. CASE LookupFails(a)
        BY <3>2 DEF LookupFails
      <3> QED  BY <1>3, <3>1, <3>2
    <2>3. \A b \in Agents : Known(b)' = Known(b) /\ life'[b] = life[b]
      <3>1. UNCHANGED <<life, posts, row>>
        BY <1>3 DEF Lookup, LookupFails, LookedUp
      <3> QED  BY <3>1 DEF Known
    <2>4. \A b \in Agents, j \in Names : Floor(b, j) <= Floor(b, j)'
      BY <1>3, RaisesFloor DEF TelemetryLoop
    <2>5. \A b \in Agents, j \in Names : snap'[b][j] <= count'[b][j]
      <3>1. count' = count
        BY <1>3 DEF Lookup, LookupFails, LookedUp
      <3> QED  BY <1>0, <2>2, <3>1
    <2> QED  BY <2>3, <2>4, <2>5, Carried
  <1>4. ASSUME NEW a \in Agents, Post(a) PROVE NextIsNewer'
    <2>1. \A b \in Agents, j \in Names : Floor(b, j) <= Floor(b, j)'
      BY <1>4, RaisesFloor DEF TelemetryLoop
    <2>2. ASSUME NEW b \in Agents, NEW r \in Known(b)', r \notin Known(b)
          PROVE  r.life = life[b] /\ \A k \in Names : r.snap[k] <= Floor(b, k)'
      <3>1. r = Report(a, FALSE) /\ r.agent = b
        BY <1>4, <2>2 DEF Post, Known
      <3>2. b = a /\ r.snap = snap[a] /\ r.life = life[a]
        BY <3>1, ReportFacts
      <3>3. \A k \in Names : Floor(a, k)' \in {snap[a][k], count[a][k]}
        BY <1>4 DEF Post, Floor
      <3> QED  BY <1>0, <3>2, <3>3
    <2>3. UNCHANGED <<life, snap, count>>
      BY <1>4 DEF Post
    <2> QED  BY <1>0, <2>1, <2>2, <2>3, Carried
  <1>5. ASSUME NEW a \in Agents, TelemetryTimeout(a) PROVE NextIsNewer'
    <2>1. \A b \in Agents, j \in Names : Floor(b, j) <= Floor(b, j)'
      BY <1>5, RaisesFloor
    <2>2. ASSUME NEW b \in Agents, NEW r \in Known(b)', r \notin Known(b)
          PROVE  \E q \in Known(b) : q.life = r.life /\ q.snap = r.snap
      <3>1. r = Report(a, TRUE) /\ r.agent = b /\ Report(a, FALSE) \in posts
        BY <1>5, <2>2 DEF TelemetryTimeout, Known
      <3>2. r.agent = a /\ r.snap = snap[a] /\ r.life = life[a]
        BY <3>1 DEF Report
      <3>3. PICK q : q = Report(a, FALSE)
        OBVIOUS
      <3>4. q \in posts /\ q.agent = a /\ q.snap = snap[a] /\ q.life = life[a]
        BY <3>1, <3>3 DEF Report
      <3> QED  BY <3>1, <3>2, <3>4 DEF Known
    <2>3. /\ snap' = [snap EXCEPT ![a] = Zero] /\ UNCHANGED <<count, life>>
      BY <1>5 DEF TelemetryTimeout, RoundEnds
    <2>4. \A b \in Agents, j \in Names : snap'[b][j] <= count'[b][j]
      BY <1>0, <2>3, ZeroFacts
    <2> QED  BY <2>1, <2>2, <2>3, <2>4, Carried
  <1>6. ASSUME NEW a \in Agents, AgentRestart(a) PROVE NextIsNewer'
    <2>1. posts' = {Marked(p, a) : p \in posts}
      BY <1>6 DEF AgentRestart, Marked
    <2>2. ASSUME NEW b \in Agents, NEW r \in Known(b)'
          PROVE  \E q \in Known(b) : q.life = r.life /\ q.snap = r.snap
      <3>1. CASE r \in row[b]
        BY <3>1 DEF Known
      <3>2. CASE r \notin row[b]
        <4>1. r \in posts' /\ r.agent = b
          BY <1>6, <3>2 DEF AgentRestart, Known
        <4>2. PICK p \in posts : r = Marked(p, a)
          BY <2>1, <4>1
        <4>3. r.agent = p.agent /\ r.snap = p.snap /\ r.life = p.life
          BY <4>2, MarkedFacts
        <4> QED  BY <4>1, <4>3 DEF Known
      <3> QED  BY <3>1, <3>2
    <2>3. \A b \in Agents : \A r \in Known(b) : r.life \in Nat /\ r.life <= life[b]
      BY DEF NextIsNewer, Known, Reports
    <2>4. ASSUME NEW b \in Agents
          PROVE  /\ \A k \in Names : snap'[b][k] <= count'[b][k]
                 /\ \A r \in Known(b)' :
                       /\ r.life <= life'[b]
                       /\ r.life = life'[b] => \A k \in Names : r.snap[k] <= Floor(b, k)'
      <3>1. CASE b = a
        <4>1. life[a] \in Nat /\ life'[a] = life[a] + 1 /\ snap'[a] = Zero /\ count'[a] = Zero
          BY <1>6 DEF AgentRestart, RoundEnds
        <4>2. \A r \in Known(b)' : r.life <= life[a] /\ r.life \in Nat
          BY <2>2, <2>3, <3>1
        <4> QED  BY <3>1, <4>1, <4>2, ZeroFacts
      <3>2. CASE b # a
        <4>1. life'[b] = life[b] /\ snap'[b] = snap[b] /\ count'[b] = count[b]
          BY <1>6, <3>2 DEF AgentRestart, RoundEnds
        <4>2. \A k \in Names : Floor(b, k)' = Floor(b, k)
          BY <1>6, <3>2 DEF AgentRestart, RoundEnds, Floor, Looked
        <4> QED  BY <1>0, <2>2, <4>1, <4>2 DEF NextIsNewer
      <3> QED  BY <3>1, <3>2
    <2> QED  BY <2>4 DEF NextIsNewer
  <1>7. CASE \/ \E p \in posts : NotSaved(p) \/ RegisterAgent(p)
             \/ ManagerRestart \/ UNCHANGED fleetVars
    <2>1. UNCHANGED agentVars
      BY <1>7 DEF NotSaved, RegisterAgent, ManagerRestart, fleetVars
    <2>2. \A b \in Agents, j \in Names : Floor(b, j)' = Floor(b, j)
      BY <2>1 DEF agentVars, Floor, Looked
    <2>3. \A b \in Agents : \A r \in Known(b)' : r \in Known(b)
      <3>1. CASE \E p \in posts : RegisterAgent(p)
        <4> PICK p \in posts : RegisterAgent(p)
          BY <3>1
        <4> QED  BY DEF RegisterAgent, Known, Reports
      <3>2. CASE ~\E p \in posts : RegisterAgent(p)
        BY <1>7, <3>2 DEF NotSaved, ManagerRestart, fleetVars, Known
      <3> QED  BY <3>1, <3>2
    <2>4. \A b \in Agents, j \in Names : Floor(b, j) \in Nat
      BY DEF Floor, Values
    <2> QED  BY <1>0, <2>1, <2>2, <2>3, <2>4, Carried DEF agentVars
  <1> QED
    BY <1>1, <1>2, <1>3, <1>4, <1>5, <1>6, <1>7 DEF FleetNext, TelemetryLoop

(* The loop waits for its only request, and marks it when it gives up. *)
LEMMA AwaitedStep ==
    ASSUME FleetTypeOK, OneAwaited, [FleetNext]_fleetVars
    PROVE  OneAwaited'
  <1> USE DEF FleetTypeOK
  <1>0. \A p \in posts : p.agent \in Agents /\ p \in Reports
    BY DEF Reports
  <1>1. ASSUME NEW a \in Agents, NEW k \in Names, Count(a, k) PROVE OneAwaited'
    BY <1>1 DEF Count, OneAwaited, Report
  <1>2. ASSUME NEW a \in Agents, TickerFires(a) \/ Lookup(a) \/ LookupFails(a) PROVE OneAwaited'
    <2>1. /\ pc[a] # "await" /\ UNCHANGED <<life, posts>>
          /\ \A b \in Agents : b # a => /\ pc'[b] = pc[b] /\ snap'[b] = snap[b]
                                        /\ missed'[b] = missed[b]
      BY <1>2 DEF TickerFires, Lookup, LookupFails, LookedUp
    <2> QED  BY <1>0, <2>1 DEF OneAwaited, Report
  <1>3. ASSUME NEW a \in Agents, Post(a) PROVE OneAwaited'
    <2> SUFFICES ASSUME NEW p \in posts', ~p.late
                 PROVE  pc'[p.agent] = "await" /\ p = Report(p.agent, FALSE)'
      BY DEF OneAwaited
    <2>1. \A b : Report(b, FALSE)' = Report(b, FALSE)
      BY <1>3 DEF Post, Report
    <2>2. CASE p \in posts
      BY <1>0, <1>3, <2>1, <2>2 DEF Post, OneAwaited
    <2>3. CASE p = Report(a, FALSE)
      <3>1. p.agent = a
        BY <2>3 DEF Report
      <3> QED  BY <1>3, <2>1, <2>3, <3>1 DEF Post
    <2> QED  BY <1>3, <2>2, <2>3 DEF Post
  <1>4. ASSUME NEW a \in Agents, PostReturns(a) \/ TelemetryTimeout(a) PROVE OneAwaited'
    <2> SUFFICES ASSUME NEW p \in posts', ~p.late
                 PROVE  pc'[p.agent] = "await" /\ p = Report(p.agent, FALSE)'
      BY DEF OneAwaited
    <2>1. p \in posts /\ p # Report(a, FALSE)
      <3>1. Report(a, FALSE).late = FALSE /\ Report(a, TRUE).late = TRUE
        BY DEF Report
      <3>2. CASE PostReturns(a)
        BY <3>2 DEF PostReturns
      <3>3. CASE TelemetryTimeout(a)
        <4>1. p # Report(a, TRUE)
          BY <3>1
        <4> QED  BY <3>3, <4>1 DEF TelemetryTimeout
      <3> QED  BY <1>4, <3>2, <3>3
    <2>2. p.agent # a
      BY <2>1 DEF OneAwaited
    <2>3. /\ life' = life /\ pc'[p.agent] = pc[p.agent] /\ snap'[p.agent] = snap[p.agent]
          /\ missed'[p.agent] = missed[p.agent]
      BY <1>0, <1>4, <2>1, <2>2 DEF PostReturns, TelemetryTimeout, RoundEnds
    <2> QED  BY <2>1, <2>3 DEF OneAwaited, Report
  <1>5. ASSUME NEW a \in Agents, AgentRestart(a) PROVE OneAwaited'
    <2> SUFFICES ASSUME NEW r \in posts', ~r.late
                 PROVE  pc'[r.agent] = "await" /\ r = Report(r.agent, FALSE)'
      BY DEF OneAwaited
    <2>1. PICK p \in posts : r = Marked(p, a)
      BY <1>5 DEF AgentRestart, Marked
    <2>2. r = p /\ p.agent # a
      BY <1>0, <2>1, MarkedFacts
    <2>3. /\ life'[p.agent] = life[p.agent] /\ pc'[p.agent] = pc[p.agent]
          /\ snap'[p.agent] = snap[p.agent] /\ missed'[p.agent] = missed[p.agent]
      BY <1>0, <1>5, <2>2 DEF AgentRestart, RoundEnds
    <2> QED  BY <2>2, <2>3 DEF OneAwaited, Report
  <1>6. CASE \/ \E p \in posts : NotSaved(p) \/ RegisterAgent(p)
             \/ ManagerRestart \/ UNCHANGED fleetVars
    <2>1. UNCHANGED agentVars /\ posts' \subseteq posts
      BY <1>6 DEF NotSaved, RegisterAgent, ManagerRestart, fleetVars
    <2> QED  BY <2>1 DEF agentVars, OneAwaited, Report
  <1> QED  BY <1>1, <1>2, <1>3, <1>4, <1>5, <1>6 DEF FleetNext, TelemetryLoop

(* Only RegisterAgent changes a row, and only to the request it handles. *)
LEMMA RowStep ==
    ASSUME MaxCount \in Nat, MaxRestarts \in Nat, MaxFaults \in Nat, FleetIInv, [FleetNext]_fleetVars,
           NEW a \in Agents, NEW old \in row[a], NEW new \in row'[a],
           old.life = new.life, NEW k \in Names, new.snap[k] < old.snap[k]
    PROVE  new.late \/ k \in new.missed
  <1> USE DEF FleetIInv, FleetTypeOK
  <1>0. old \in Reports /\ old.snap[k] \in Nat
    BY DEF Reports, Values
  <1>1. new # old
    BY <1>0
  <1>2. row'[a] # row[a]
    BY <1>1
  <1>3. PICK p \in posts : RegisterAgent(p)
    <2>1. row' # row
      BY <1>2
    <2> QED
      BY <2>1 DEF FleetNext, Count, TelemetryLoop, TickerFires, Lookup, LookupFails, LookedUp, Post, PostReturns,
                  TelemetryTimeout, AgentRestart, NotSaved, ManagerRestart, fleetVars
  <1>4. new = p /\ p.agent = a
    BY <1>2, <1>3 DEF RegisterAgent, Reports
  <1>5. SUFFICES ASSUME ~p.late, k \notin p.missed PROVE FALSE
    BY <1>4
  <1>6. pc[a] = "await" /\ p = Report(a, FALSE)
    BY <1>4, <1>5 DEF OneAwaited
  <1>7. p.snap = snap[a] /\ p.life = life[a] /\ k \notin missed[a]
    BY <1>5, <1>6, ReportFacts
  <1>8. old.snap[k] <= Floor(a, k)
    BY <1>4, <1>7 DEF NextIsNewer, Known
  <1>9. Floor(a, k) = snap[a][k]
    BY <1>6, <1>7 DEF Floor, Looked
  <1>10. snap[a][k] \in Nat
    BY DEF Values
  <1> QED  BY <1>0, <1>4, <1>7, <1>8, <1>9, <1>10

(* FleetIInv is inductive. *)
LEMMA FleetInv == FleetSpec => []FleetIInv
  <1>1. FleetInit => FleetIInv
    BY FleetAssumption, FleetInitInvariant
  <1>2. FleetIInv /\ [FleetNext]_fleetVars => FleetIInv'
    <2> SUFFICES ASSUME FleetIInv, [FleetNext]_fleetVars PROVE FleetIInv'
      OBVIOUS
    <2>1. FleetTypeOK'
      BY FleetAssumption, FleetTypeStep DEF FleetIInv
    <2> QED  BY <2>1, FleetAssumption, NewerStep, AwaitedStep DEF FleetIInv
  <1> QED  BY <1>1, <1>2, PTL DEF FleetSpec

(* What is shown of an agent, and what is on its way, comes from one of    *)
(* its lives so far, and of the present one it shows no more than the maps *)
(* have counted since that life began (fleet_client.go lines 48-62,        *)
(* fleet.go lines 51-56).                                                  *)
THEOREM RowsWithinCounters == FleetSpec => []ShownWasCounted
  <1>1. FleetIInv => ShownWasCounted
    <2> SUFFICES ASSUME FleetIInv, NEW a \in Agents, NEW r \in Known(a)
                 PROVE  /\ r.life <= life[a]
                        /\ r.life = life[a] => \A k \in Names : r.snap[k] <= count[a][k]
      BY DEF ShownWasCounted
    <2>1. /\ r.life <= life[a]
          /\ r.life = life[a] => \A k \in Names : r.snap[k] <= Floor(a, k)
      BY DEF FleetIInv, NextIsNewer
    <2>2. ASSUME NEW k \in Names PROVE Floor(a, k) <= count[a][k] /\ Floor(a, k) \in Nat /\ count[a][k] \in Nat
      BY FleetAssumption DEF FleetIInv, FleetTypeOK, NextIsNewer, Floor, Values
    <2>3. ASSUME NEW k \in Names PROVE r.snap[k] \in Nat
      BY FleetAssumption DEF FleetIInv, FleetTypeOK, Known, Reports, Values
    <2> QED  BY <2>1, <2>2, <2>3
  <1> QED  BY <1>1, FleetInv, PTL

(* The counters shown for one life of an agent go back only when a request *)
(* that the agent had given up on is handled after a newer one, or to the  *)
(* zero of a failed look-up (fleet_client.go lines 52-54 and 64-75,        *)
(* fleet.go lines 51-56).                                                  *)
THEOREM ShownNeverGoesBack == FleetSpec => OnlyLateGoesBack
  <1>1. FleetIInv /\ [FleetNext]_fleetVars =>
          [\A a \in Agents : \A old \in row[a], new \in row'[a] : \A k \in Names :
             old.life = new.life /\ new.snap[k] < old.snap[k]
                 => new.late \/ k \in new.missed]_fleetVars
    BY FleetAssumption, RowStep
  <1> QED  BY <1>1, FleetInv, PTL DEF FleetSpec, OnlyLateGoesBack
=============================================================================
