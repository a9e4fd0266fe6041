--------------------------- MODULE CaptureProofs ---------------------------
(***************************************************************************)
(* Proofs about what the honeypot captures and where it goes: LogExport,   *)
(* for any number of messages and nodes, any capacities and any answers of *)
(* the nodes; and HoneypotSession, whose lines fill the channel that       *)
(* LogExport drains, for any connections, ports, arguments of cd and any   *)
(* capacity of the channel.                                                *)
(***************************************************************************)
EXTENDS LogExport, HoneypotSession, SequenceTheorems, TLAPS

(***************************************************************************)
(* Conserved and IndexedOnce as one message sees them: it is in some       *)
(* place, indexed or rejected, in one place only, and only a silent one is *)
(* both indexed and still somewhere.                                       *)
(***************************************************************************)
Posted(m) == \E f \in Flushers : m \in batch[f]

Somewhere(m) == m \in unsent \/ m \in logChan \/ m \in held \/ m \in buffer \/ Posted(m)

InPlace(m) ==
    /\ m \in Messages => Somewhere(m) \/ m \in indexed \/ m \in rejected
    /\ m \in unsent => m \notin logChan /\ m \notin held /\ m \notin buffer /\ ~Posted(m)
    /\ m \in logChan => m \notin held /\ m \notin buffer /\ ~Posted(m)
    /\ m \in held => m \notin buffer /\ ~Posted(m)
    /\ m \in buffer => ~Posted(m)
    /\ \A f, g \in Flushers : m \in batch[f] /\ m \in batch[g] => f = g
    /\ m \in indexed /\ Somewhere(m) => m \in silent

LEMMA InvariantPointwise == IInv <=> TypeOK /\ CloserIdle /\ \A m : InPlace(m)
  <1>1. \A m : m \in InFlight <=> Posted(m)
    BY DEF InFlight, Posted
  <1>2. ASSUME IInv, NEW m PROVE InPlace(m)
    BY <1>1, <1>2 DEF IInv, Conserved, OneCopy, IndexedOnce, InPlace, Somewhere
  <1>3. ASSUME TypeOK, \A m : InPlace(m) PROVE Conserved /\ IndexedOnce
    BY <1>1, <1>3 DEF Conserved, OneCopy, IndexedOnce, InPlace, Somewhere
  <1> QED  BY <1>2, <1>3 DEF IInv, Conserved

(* A pipeline that starts has every message before it. *)
LEMMA InitInvariant == Init => IInv
  <1> SUFFICES ASSUME Init PROVE IInv
    OBVIOUS
  <1>1. TypeOK /\ CloserIdle
    BY ExportAssumption DEF Init, TypeOK, CloserIdle, Flushers
  <1>2. ASSUME NEW m PROVE InPlace(m)
    BY DEF Init, InPlace, Somewhere, Posted
  <1> QED  BY <1>1, <1>2, InvariantPointwise

(* Taking the buffer, and what processLogs holds, as a batch of an idle goroutine *)
(* moves these messages and no others.                                            *)
LEMMA TakeBatchMoves ==
    ASSUME TypeOK, \A m : InPlace(m), NEW f \in Flushers, node[f] = 0,
           NEW docs, docs = buffer \/ docs = buffer \cup held,
           TakeBatch(f, docs),
           held' = IF docs = buffer THEN held ELSE {},
           UNCHANGED <<unsent, logChan, indexed, silent, rejected>>
    PROVE  /\ \A m : InPlace(m)'
           /\ buffer' = {}
           /\ batch' \in [Flushers -> SUBSET Messages]
           /\ node' \in [Flushers -> 0 .. NodeCount + 1]
           /\ \A g \in Flushers : node'[g] = 0 <=> batch'[g] = {}
           /\ \A g \in Flushers : g # f => node'[g] = node[g]
           /\ body' \in [Flushers -> BOOLEAN]
  <1>1. batch[f] = {} /\ docs \subseteq Messages
    BY DEF TypeOK
  <1>2. CASE docs = {}
    <2>1. buffer = {} /\ buffer' = {} /\ held' = held /\ UNCHANGED <<batch, node, body>>
      BY <1>2 DEF TakeBatch
    <2>2. ASSUME NEW m PROVE InPlace(m)'
      BY <2>1 DEF InPlace, Somewhere, Posted
    <2> QED  BY <2>1, <2>2 DEF TypeOK
  <1>3. CASE docs # {}
    <2>1. /\ batch' = [batch EXCEPT ![f] = docs] /\ buffer' = {}
          /\ node' = [node EXCEPT ![f] = 1] /\ body' = [body EXCEPT ![f] = TRUE]
      BY <1>3 DEF TakeBatch
    <2>2. ASSUME NEW m PROVE InPlace(m)'
      <3>1. Posted(m)' <=> Posted(m) \/ m \in docs
        BY <1>1, <2>1 DEF Posted, TypeOK
      <3>2. ASSUME NEW g \in Flushers, NEW h \in Flushers, m \in batch'[g], m \in batch'[h]
            PROVE  g = h
        BY <1>1, <2>1, <3>2 DEF InPlace, Posted, TypeOK
      <3> QED  BY <1>1, <2>1, <3>1, <3>2 DEF InPlace, Somewhere
    <2> QED  BY <1>1, <1>3, <2>1, <2>2, ExportAssumption DEF TypeOK
  <1> QED  BY <1>2, <1>3

(* Every step keeps every message in place. *)
LEMMA StepInvariant == IInv /\ [Next]_vars => IInv'
  <1> SUFFICES ASSUME TypeOK, CloserIdle, \A m : InPlace(m), [Next]_vars
               PROVE  TypeOK' /\ CloserIdle' /\ \A m : InPlace(m)'
    <2>1. \A m : m \in InFlight' <=> Posted(m)'
      BY DEF InFlight, Posted
    <2>2. ASSUME TypeOK', \A m : InPlace(m)' PROVE Conserved' /\ IndexedOnce'
      BY <2>1, <2>2 DEF Conserved, OneCopy, IndexedOnce, InPlace, Somewhere
    <2> QED  BY <2>2, InvariantPointwise DEF IInv
  <1>1. ASSUME NEW n \in Messages, Log(n) \/ Receive(n)
        PROVE  TypeOK' /\ CloserIdle' /\ \A m : InPlace(m)'
    <2>1. UNCHANGED <<buffer, batch, node, indexed, silent, rejected, closing>>
      BY <1>1 DEF Log, Receive, remote
    <2>2. ASSUME NEW m PROVE InPlace(m)'
      <3>1. Posted(m)' = Posted(m)
        BY <2>1 DEF Posted
      <3> QED  BY <1>1, <2>1, <3>1 DEF Log, Receive, InPlace, Somewhere
    <2> QED  BY <1>1, <2>1, <2>2 DEF Log, Receive, TypeOK, CloserIdle
  <1>2. CASE DrainEnds \/ Close \/ CloseReturns \/ UNCHANGED vars
    <2>1. UNCHANGED <<unsent, logChan, held, buffer, batch, node, body, indexed, silent, rejected>>
      BY <1>2 DEF DrainEnds, Close, CloseReturns, vars, remote
    <2>2. ASSUME NEW m PROVE InPlace(m)'
      BY <2>1 DEF InPlace, Somewhere, Posted
    <2>3. TypeOK' /\ CloserIdle'
      BY <1>2, <2>1 DEF DrainEnds, Close, CloseReturns, vars, TypeOK, CloserIdle
    <2> QED  BY <2>2, <2>3
  <1>3. CASE Export
    <2>1. CASE Cardinality(buffer \cup held) >= BatchSize
      <3>1. TakeBatch("drain", buffer \cup held) /\ node["drain"] = 0 /\ held' = {}
        BY <1>3, <2>1 DEF Export
      <3>2. buffer \cup held # buffer
        BY <1>3 DEF Export, InPlace
      <3>3. UNCHANGED <<unsent, logChan, open, ctx, loops, closing, indexed, silent, rejected>>
        BY <1>3 DEF Export, remote
      <3>4. "drain" \in Flushers /\ "closer" \in Flushers /\ "drain" # "closer"
        BY DEF Flushers
      <3>5. /\ \A m : InPlace(m)'
            /\ buffer' = {}
            /\ batch' \in [Flushers -> SUBSET Messages]
            /\ node' \in [Flushers -> 0 .. NodeCount + 1]
            /\ \A g \in Flushers : node'[g] = 0 <=> batch'[g] = {}
            /\ \A g \in Flushers : g # "drain" => node'[g] = node[g]
            /\ body' \in [Flushers -> BOOLEAN]
        BY <3>1, <3>2, <3>3, <3>4, TakeBatchMoves
      <3> QED  BY <3>1, <3>3, <3>4, <3>5 DEF TypeOK, CloserIdle
    <2>2. CASE ~(Cardinality(buffer \cup held) >= BatchSize)
      <3>1. /\ buffer' = buffer \cup held /\ held' = {}
            /\ UNCHANGED <<unsent, logChan, open, batch, node, body, ctx, loops, closing,
                           indexed, silent, rejected>>
        BY <1>3, <2>2 DEF Export, remote
      <3>2. ASSUME NEW m PROVE InPlace(m)'
        BY <3>1 DEF InPlace, Somewhere, Posted
      <3> QED  BY <3>1, <3>2 DEF TypeOK, CloserIdle
    <2> QED  BY <2>1, <2>2
  <1>4. ASSUME NEW f \in Flushers, Requeue(f)
        PROVE  TypeOK' /\ CloserIdle' /\ \A m : InPlace(m)'
    <2>1. ASSUME NEW m PROVE InPlace(m)'
      <3>1. Posted(m)' <=> \E g \in Flushers : g # f /\ m \in batch[g]
        BY <1>4 DEF Requeue, Posted, TypeOK
      <3>2. ASSUME NEW g \in Flushers, NEW h \in Flushers, m \in batch'[g], m \in batch'[h]
            PROVE  g = h
        BY <1>4, <3>2 DEF Requeue, InPlace, TypeOK
      <3> QED  BY <1>4, <3>1, <3>2 DEF Requeue, InPlace, Somewhere, Posted, remote
    <2>2. TypeOK'
      BY <1>4, ExportAssumption DEF Requeue, TypeOK, remote
    <2>3. CloserIdle'
      <3>1. node' = [node EXCEPT ![f] = 0] /\ closing' = closing /\ "closer" \in Flushers
        BY <1>4 DEF Requeue, Flushers
      <3> QED  BY <3>1 DEF TypeOK, CloserIdle
    <2> QED  BY <2>1, <2>2, <2>3
  <1>5. ASSUME NEW f \in Flushers, NEW a \in Answer, Post(f, a)
        PROVE  TypeOK' /\ CloserIdle' /\ \A m : InPlace(m)'
    <2> DEFINE done == body[f] /\ a \in {"ok", "partial"}
    <2>1. PICK kept \in SUBSET batch[f] :
            /\ a # "partial" => kept = batch[f]
            /\ indexed' = IF done \/ (body[f] /\ a = "lost") THEN indexed \cup kept ELSE indexed
            /\ rejected' = IF done THEN rejected \cup (batch[f] \ kept) ELSE rejected
            /\ node[f] \in Nodes
            /\ batch' = [batch EXCEPT ![f] = IF done THEN {} ELSE @]
            /\ node' = [node EXCEPT ![f] = IF done THEN 0 ELSE @ + 1]
            /\ UNCHANGED <<unsent, logChan, open, held, buffer, ctx, loops, closing>>
            /\ silent' = IF body[f] /\ a = "lost" THEN silent \cup batch[f] ELSE silent
            /\ body' = [body EXCEPT ![f] = body[f] /\ a = "refused"]
      BY <1>5 DEF Post
    <2>2. ASSUME NEW m PROVE InPlace(m)'
      <3>1. ASSUME NEW g \in Flushers, NEW h \in Flushers, m \in batch'[g], m \in batch'[h]
            PROVE  g = h
        BY <2>1, <3>1 DEF InPlace, TypeOK
      <3>2. CASE done
        <4>1. Posted(m)' <=> \E g \in Flushers : g # f /\ m \in batch[g]
          BY <2>1, <3>2 DEF Posted, TypeOK
        <4> QED  BY <2>1, <3>1, <3>2, <4>1 DEF InPlace, Somewhere, Posted
      <3>3. CASE ~done
        <4>1. batch' = batch /\ (Posted(m)' <=> Posted(m))
          BY <2>1, <3>3 DEF Posted, TypeOK
        <4> QED  BY <2>1, <3>1, <3>3, <4>1 DEF InPlace, Somewhere, Posted
      <3> QED  BY <3>2, <3>3
    <2>3. TypeOK'
      BY <2>1, ExportAssumption DEF TypeOK, Nodes
    <2>4. CloserIdle'
      BY <2>1 DEF CloserIdle, TypeOK, Nodes, Flushers
    <2> QED  BY <2>2, <2>3, <2>4
  <1>6. ASSUME NEW f \in Flushers, node[f] = 0, TakeBatch(f, buffer),
               UNCHANGED <<unsent, logChan, open, held, ctx, indexed, silent, rejected>>,
               loops' \in [{"drain", "ticker"} -> {"running", "ended"}],
               closing' \in {"no", "wait", "flush", "closed"},
               closing' \in {"no", "wait"} => closing = closing' /\ f # "closer"
        PROVE  TypeOK' /\ CloserIdle' /\ \A m : InPlace(m)'
    <2>1. /\ \A m : InPlace(m)'
          /\ buffer' = {}
          /\ batch' \in [Flushers -> SUBSET Messages]
          /\ node' \in [Flushers -> 0 .. NodeCount + 1]
          /\ \A g \in Flushers : node'[g] = 0 <=> batch'[g] = {}
          /\ \A g \in Flushers : g # f => node'[g] = node[g]
          /\ body' \in [Flushers -> BOOLEAN]
      BY <1>6, TakeBatchMoves
    <2> QED  BY <1>6, <2>1 DEF TypeOK, CloserIdle, Flushers
  <1>7. CASE TickFlush \/ LastTickFlush \/ CloseFlush
    <2>1. "ticker" \in Flushers /\ "closer" \in Flushers /\ "ticker" # "closer"
      BY DEF Flushers
    <2>2. CASE TickFlush
      BY <1>6, <2>1, <2>2 DEF TickFlush, TypeOK, remote
    <2>3. CASE LastTickFlush
      BY <1>6, <2>1, <2>3 DEF LastTickFlush, TypeOK, remote
    <2>4. CASE CloseFlush
      BY <1>6, <2>1, <2>4 DEF CloseFlush, TypeOK, CloserIdle, remote
    <2> QED  BY <1>7, <2>2, <2>3, <2>4
  <1> QED  BY <1>1, <1>2, <1>3, <1>4, <1>5, <1>7 DEF Next, Drain, Flush

(* No message vanishes or is doubled on its way to Elasticsearch, whatever the nodes       *)
(* answer, whoever flushes meanwhile and whenever Close is called (elk.go lines 86-114).   *)
THEOREM MessagesConserved == Spec => []Conserved
  <1>1. IInv => Conserved
    BY DEF IInv
  <1> QED  BY <1>1, InitInvariant, StepInvariant, PTL DEF Spec

(* Only a lost reply makes BulkIndex send again what is already indexed (elk.go 228-256). *)
THEOREM NoNeedlessDuplicate == Spec => []IndexedOnce
  <1>1. IInv => IndexedOnce
    BY DEF IInv
  <1> QED  BY <1>1, InitInvariant, StepInvariant, PTL DEF Spec

-----------------------------------------------------------------------------
(* HoneypotSession.  SessionIInv is inductive. *)

(* The fake file system is made of paths, and each lies in its own tree. *)
LEMMA TreeFacts ==
    /\ Root \in Seq(Segments) /\ Home \in Seq(Segments) /\ InTree(Root) /\ InTree(Home)
    /\ \A p \in Files \cup Dirs : p \in Seq(Segments) /\ InTree(p)
  <1>1. Root \in Seq(Segments) /\ Home \in Seq(Segments)
    BY DEF Root, Home, Segments
  <1>2. Files \subseteq Seq(Segments)
    BY DEF Files, Segments
  <1>3. Dirs \subseteq Seq(Segments)
    BY DEF Dirs, Root, Home, Segments
  <1>4. ASSUME NEW p \in Files \cup Dirs PROVE InTree(p)
    <2>1. p \in Seq(Segments) /\ Len(p) \in Nat
      BY <1>2, <1>3
    <2>2. SubSeq(p, 1, Len(p)) = p
      BY <2>1
    <2> QED  BY <2>1, <2>2 DEF InTree, IsAbove
  <1>5. Root \in Dirs /\ Home \in Dirs
    BY DEF Dirs
  <1> QED  BY <1>1, <1>2, <1>3, <1>4, <1>5

(* cd .. stays in the tree, at the root too. *)
LEMMA UpInTree ==
    ASSUME NEW d \in Seq(Segments), InTree(d)
    PROVE  Up(d) \in Seq(Segments) /\ InTree(Up(d))
  <1>1. CASE Len(d) > 1
    <2>0. Len(d) \in Nat /\ Len(d) - 1 \in 1..Len(d)
      BY <1>1
    <2>1. d # Root
      <3>1. ~(Len(Root) > 1)
        BY DEF Root
      <3> QED  BY <1>1, <3>1, Zenon
    <2>2. PICK p \in Files \cup Dirs : Len(d) <= Len(p) /\ SubSeq(p, 1, Len(d)) = d
      BY <2>1 DEF InTree, IsAbove
    <2>3. p \in Seq(Segments) /\ Len(p) \in Nat
      BY TreeFacts
    <2> DEFINE u == SubSeq(d, 1, Len(d) - 1)
               v == SubSeq(p, 1, Len(d) - 1)
    <2>4. u \in Seq(Segments) /\ Len(u) = Len(d) - 1 /\ \A i \in 1..(Len(d) - 1) : u[i] = d[i]
      BY <2>0
    <2>5. v \in Seq(Segments) /\ Len(v) = Len(d) - 1 /\ \A i \in 1..(Len(d) - 1) : v[i] = p[i]
      BY <2>0, <2>2, <2>3
    <2>6. \A i \in 1..(Len(d) - 1) : d[i] = p[i]
      BY <2>0, <2>2, <2>3
    <2>7. u = v
      BY <2>0, <2>4, <2>5, <2>6, SeqEqual
    <2>8. IsAbove(u, p)
      BY <2>0, <2>2, <2>3, <2>4, <2>7 DEF IsAbove
    <2> QED  BY <1>1, <2>4, <2>8 DEF Up, InTree
  <1>2. CASE ~(Len(d) > 1)
    BY <1>2, TreeFacts DEF Up
  <1> QED  BY <1>1, <1>2

(* Nor does any other cd: it goes only where something is. *)
LEMMA CdInTree ==
    ASSUME NEW d \in Seq(Segments), InTree(d), NEW arg,
           arg.to \in {"home", "up", "abs", "rel"}
    PROVE  Cd(d, arg) \in Seq(Segments) /\ InTree(Cd(d, arg))
  <1>1. \/ Cd(d, arg) = Home \/ Cd(d, arg) = Up(d) \/ Cd(d, arg) = d
        \/ FileExists(Cd(d, arg))
    BY Zenon DEF Cd
  <1>2. FileExists(Cd(d, arg)) => Cd(d, arg) \in Files \cup Dirs
    BY DEF FileExists
  <1> QED  BY <1>1, <1>2, TreeFacts, UpInTree

-----------------------------------------------------------------------------
(* A reaction that leaves the state of the dialogue alone calls for no record. *)
LEMMA SaySound ==
    ASSUME SessionIInv, NEW c \in Conns, NEW lines \in Seq(Kinds)
    PROVE  /\ Sound(service[c], sent[c], Say(c, lines))
           /\ Sound(service[c], sent[c], End(c, lines))
           /\ Say(c, lines).stage = stage[c] /\ End(c, lines).stage = stage[c]
  <1>1. /\ dir[c] \in Seq(Segments) /\ prompt[c] = dir[c] /\ InTree(dir[c]) /\ stage[c] \in 0..3
        /\ Needs(service[c], stage[c]) \subseteq sent[c]
    BY DEF SessionIInv, SessionTypeOK, DirsInTree, Recorded, Session
  <1>2. /\ Say(c, lines) \in Plans /\ Say(c, lines).dir = dir[c]
        /\ Say(c, lines).prompt = prompt[c] /\ Say(c, lines).stage = stage[c]
    BY <1>1 DEF Say, Plans
  <1>3. /\ End(c, lines) \in Plans /\ End(c, lines).dir = dir[c]
        /\ End(c, lines).prompt = prompt[c] /\ End(c, lines).stage = stage[c]
    BY <1>1, <1>2 DEF Say, End, Plans
  <1>4. Sound(service[c], sent[c], Say(c, lines))
    BY <1>1, <1>2 DEF Sound, Covered
  <1>5. Sound(service[c], sent[c], End(c, lines))
    BY <1>1, <1>3 DEF Sound, Covered
  <1> QED  BY <1>2, <1>3, <1>4, <1>5

(* The line sequences the services log. *)
LEMMA LineFacts ==
    /\ <<>> \in Seq(Kinds) /\ <<"command">> \in Seq(Kinds) /\ <<"command", "detail">> \in Seq(Kinds)
    /\ <<"command", "credentials">> \in Seq(Kinds) /\ <<"command", "post">> \in Seq(Kinds)
    /\ <<"command", "credentials", "post">> \in Seq(Kinds) /\ <<"connection">> \in Seq(Kinds)
    /\ <<"username">> \in Seq(Kinds) /\ <<"password">> \in Seq(Kinds) /\ <<"again">> \in Seq(Kinds)
    /\ <<"login">> \in Seq(Kinds) /\ <<"login", "password">> \in Seq(Kinds)
    /\ <<"error">> \in Seq(Kinds)
  BY DEF Kinds

(* A reaction that goes on to stage n. *)
Staged(c, lines, n) == [Say(c, lines) EXCEPT !.stage = n]

(* The stages of telnet and MySQL. *)
LEMMA StageRange == 1 \in 0..3 /\ 2 \in 0..3 /\ 3 \in 0..3
  OBVIOUS

(* A reaction to a further stage has to log what that stage calls for. *)
LEMMA StageSound ==
    ASSUME SessionIInv, NEW c \in Conns, NEW lines \in Seq(Kinds), NEW n \in 0..3,
           Covered(service[c], n, sent[c], lines)
    PROVE  Sound(service[c], sent[c], Staged(c, lines, n))
  <1>1. /\ dir[c] \in Seq(Segments) /\ prompt[c] = dir[c] /\ InTree(dir[c]) /\ stage[c] \in 0..3
    BY DEF SessionIInv, SessionTypeOK, DirsInTree
  <1> DEFINE r == Staged(c, lines, n)
  <1>2. r \in Plans /\ r.lines = lines /\ r.dir = dir[c] /\ r.prompt = prompt[c] /\ r.stage = n
    BY <1>1 DEF Say, Plans, Staged
  <1> QED  BY <1>1, <1>2 DEF Sound

(* The shell moves only in the tree, and its dialogue has one stage. *)
LEMMA SshSound ==
    ASSUME SessionIInv, \A arg \in CdArgs : arg.to \in {"home", "up", "abs", "rel"},
           NEW c \in Conns, NEW r \in SshReactions(c)
    PROVE  Sound(service[c], sent[c], r)
  <1>1. CASE r \in {SshCd(c, arg) : arg \in CdArgs}
    <2> PICK arg \in CdArgs : r = SshCd(c, arg)
      BY <1>1
    <2> DEFINE to == Cd(dir[c], arg)
    <2>1. /\ dir[c] \in Seq(Segments) /\ InTree(dir[c]) /\ stage[c] \in 0..3
          /\ Needs(service[c], stage[c]) \subseteq sent[c]
      BY DEF SessionIInv, SessionTypeOK, DirsInTree, Recorded, Session
    <2>2. to \in Seq(Segments) /\ InTree(to)
      BY <2>1, CdInTree
    <2> HIDE DEF to
    <2>3. r = [lines |-> <<"command">>, ends |-> FALSE, dir |-> to, prompt |-> to, stage |-> stage[c]]
      BY DEF SshCd, Say, to
    <2>4. r \in Plans /\ r.dir = to /\ r.prompt = to /\ r.stage = stage[c]
      BY <2>1, <2>2, <2>3, LineFacts DEF Plans
    <2> QED  BY <2>1, <2>2, <2>4 DEF Sound, Covered
  <1>2. CASE r \notin {SshCd(c, arg) : arg \in CdArgs}
    <2>1. r \in {Say(c, <<>>), Say(c, <<"command">>), End(c, <<"command">>)}
      BY <1>2 DEF SshReactions, SshShow, SshProgram
    <2> QED  BY <2>1, SaySound, LineFacts
  <1> QED  BY <1>1, <1>2

(* A second name or password is asked for only after the first was noted. *)
LEMMA TelnetSound ==
    ASSUME SessionIInv, NEW c \in Conns, service[c] = "telnet", NEW r \in TelnetReactions(c)
    PROVE  Sound(service[c], sent[c], r)
  <1>1. stage[c] \in 0..3 /\ Needs(service[c], stage[c]) \subseteq sent[c]
    BY DEF SessionIInv, SessionTypeOK, Recorded, Session
  <1> DEFINE To(lines) == [Say(c, lines) EXCEPT !.stage = @ + 1]
  <1>2. \/ stage[c] = 0 /\ r = To(<<"username">>)
        \/ stage[c] = 1 /\ r = To(<<"password">>)
        \/ stage[c] = 2 /\ r = To(<<>>)
        \/ stage[c] = 3 /\ r = End(c, <<"again">>)
    <2>1. stage[c] = 0 \/ stage[c] = 1 \/ stage[c] = 2 \/ stage[c] = 3
      BY <1>1
    <2>2. r = CASE stage[c] = 0 -> To(<<"username">>) [] stage[c] = 1 -> To(<<"password">>)
                [] stage[c] = 2 -> To(<<>>) [] stage[c] = 3 -> End(c, <<"again">>)
      BY Zenon DEF TelnetReactions
    <2>3. 0 # 1 /\ 0 # 2 /\ 0 # 3 /\ 1 # 2 /\ 1 # 3 /\ 2 # 3
      OBVIOUS
    <2> HIDE DEF To
    <2>4. stage[c] = 0 => r = To(<<"username">>)
      BY <2>2, <2>3, Zenon
    <2>5. stage[c] = 1 => r = To(<<"password">>)
      BY <2>2, <2>3, Zenon
    <2>6. stage[c] = 2 => r = To(<<>>)
      BY <2>2, <2>3, Zenon
    <2>7. stage[c] = 3 => r = End(c, <<"again">>)
      BY <2>2, <2>3, Zenon
    <2> QED  BY <2>1, <2>4, <2>5, <2>6, <2>7, Zenon
  <1>3. \A lines \in Seq(Kinds) : To(lines) = Staged(c, lines, stage[c] + 1)
    BY DEF Say, Staged
  <1> HIDE DEF To
  <1>4. CASE stage[c] = 0
    <2>1. Covered(service[c], 1, sent[c], <<"username">>)
      BY DEF Needs, Covered
    <2>2. Sound(service[c], sent[c], Staged(c, <<"username">>, 1))
      BY <2>1, StageSound, LineFacts, StageRange
    <2>3. r = To(<<"username">>) /\ stage[c] + 1 = 1
      BY <1>2, <1>4
    <2> QED  BY <1>3, <2>2, <2>3, LineFacts
  <1>5. CASE stage[c] = 1
    <2>1. Covered(service[c], 2, sent[c], <<"password">>)
      BY <1>1, <1>5 DEF Needs, Covered
    <2>2. Sound(service[c], sent[c], Staged(c, <<"password">>, 2))
      BY <2>1, StageSound, LineFacts, StageRange
    <2>3. r = To(<<"password">>) /\ stage[c] + 1 = 2
      BY <1>2, <1>5
    <2> QED  BY <1>3, <2>2, <2>3, LineFacts
  <1>6. CASE stage[c] = 2
    <2>1. Covered(service[c], 3, sent[c], <<>>)
      BY <1>1, <1>6 DEF Needs, Covered
    <2>2. Sound(service[c], sent[c], Staged(c, <<>>, 3))
      BY <2>1, StageSound, LineFacts, StageRange
    <2>3. r = To(<<>>) /\ stage[c] + 1 = 3
      BY <1>2, <1>6
    <2> QED  BY <1>3, <2>2, <2>3, LineFacts
  <1>7. CASE stage[c] = 3
    <2>1. r = End(c, <<"again">>)
      BY <1>2, <1>7
    <2> QED  BY <2>1, SaySound, LineFacts
  <1> QED  BY <1>1, <1>4, <1>5, <1>6, <1>7

(* A login is taken for granted only together with the line that notes it. *)
LEMMA MySQLSound ==
    ASSUME SessionIInv, NEW c \in Conns, service[c] = "mysql", NEW r \in MySQLReactions(c)
    PROVE  Sound(service[c], sent[c], r)
  <1>1. \/ r = Say(c, <<>>) \/ r = End(c, <<"command">>)
        \/ r = Say(c, <<"command">>) \/ r = Say(c, <<"command", "detail">>)
        \/ r = Staged(c, <<"login">>, 1) \/ r = Staged(c, <<"login", "password">>, 1)
    BY DEF MySQLReactions, MySQLQuery, Staged
  <1>2. Sound(service[c], sent[c], Staged(c, <<"login">>, 1))
    <2>1. Covered(service[c], 1, sent[c], <<"login">>)
      BY DEF Needs, Covered
    <2> QED  BY <2>1, StageSound, LineFacts, StageRange
  <1>3. Sound(service[c], sent[c], Staged(c, <<"login", "password">>, 1))
    <2>1. Covered(service[c], 1, sent[c], <<"login", "password">>)
      BY DEF Needs, Covered
    <2> QED  BY <2>1, StageSound, LineFacts, StageRange
  <1> QED  BY <1>1, <1>2, <1>3, SaySound, LineFacts

(* A web page ends the session. *)
LEMMA HttpSound ==
    ASSUME SessionIInv, NEW c \in Conns, NEW r \in HttpReactions(c)
    PROVE  Sound(service[c], sent[c], r)
  <1>1. \/ r = End(c, <<"command">>) \/ r = End(c, <<"command", "credentials">>)
        \/ r = End(c, Append(<<"command">>, "post"))
        \/ r = End(c, Append(<<"command", "credentials">>, "post"))
    BY DEF HttpReactions, HttpPage, HttpElsewhere
  <1>2. \A lines \in Seq(Kinds) : Append(lines, "post") \in Seq(Kinds)
    BY AppendProperties DEF Kinds
  <1> QED  BY <1>1, <1>2, SaySound, LineFacts

(* Handler.Handle: whatever the service. *)
LEMMA ReactionsSound ==
    ASSUME SessionIInv, \A arg \in CdArgs : arg.to \in {"home", "up", "abs", "rel"},
           NEW c \in Conns, NEW r \in Reactions(c)
    PROVE  Sound(service[c], sent[c], r)
  <1>1. \/ service[c] = "telnet" /\ Reactions(c) = TelnetReactions(c)
        \/ service[c] = "mysql" /\ Reactions(c) = MySQLReactions(c)
        \/ Reactions(c) \in {HttpReactions(c), RedisReactions(c), FTPReactions(c), SshReactions(c)}
    BY Zenon DEF Reactions
  <1>2. CASE r \in RedisReactions(c) \/ r \in FTPReactions(c)
    <2>1. r \in {Say(c, <<"command">>), Say(c, <<"command", "detail">>), End(c, <<"command">>)}
      BY <1>2 DEF RedisReactions, RedisCommand, RedisOther, FTPReactions
    <2> QED  BY <2>1, SaySound, LineFacts
  <1> QED  BY <1>1, <1>2, TelnetSound, MySQLSound, HttpSound, SshSound

-----------------------------------------------------------------------------
(* A step of one connection leaves the others as they are. *)
LEMMA OneSession ==
    ASSUME Recorded, NEW c \in Conns,
           \A d \in Conns : d # c => /\ at'[d] = at[d] /\ service'[d] = service[d]
                                     /\ stage'[d] = stage[d] /\ sent'[d] = sent[d]
                                     /\ pending'[d] = pending[d],
           Session(at'[c], service'[c], stage'[c], sent'[c], pending'[c])
    PROVE  Recorded'
  BY DEF Recorded

(* No reaction under way, and a dialogue that has not begun. *)
LEMMA IdleFacts ==
    /\ Idle \in Plans /\ Idle.stage = 0 /\ Idle.dir = Home /\ Idle.prompt = Home
    /\ \A s, done : Needs(s, 0) = {} /\ Sound(s, done, Idle)
  <1>1. Idle \in Plans /\ Idle.stage = 0 /\ Idle.dir = Home /\ Idle.prompt = Home
    BY TreeFacts, LineFacts DEF Idle, Plans
  <1>2. \A s : Needs(s, 0) = {}
    BY DEF Needs
  <1> QED  BY <1>1, <1>2, TreeFacts DEF Sound, Covered

(* Every port is answered by one of the six services. *)
LEMMA ServicesKnown ==
    ASSUME NEW p
    PROVE  Services(p) \subseteq ServiceTypes
  <1>1. SelectServiceByPort(p) =
          CASE p \in HttpPorts -> {"http"} [] p \in DatabasePorts -> {"mysql"}
            [] p \in CachePorts -> {"redis"} [] p = 21 -> {"ftp"} [] p = 23 -> {"telnet"}
            [] p \in ScreenPorts -> {"ssh"} [] OTHER -> ServiceTypes
    BY Zenon DEF SelectServiceByPort
  <1>2. \/ SelectServiceByPort(p) = {"http"} \/ SelectServiceByPort(p) = {"mysql"}
        \/ SelectServiceByPort(p) = {"redis"} \/ SelectServiceByPort(p) = {"ftp"}
        \/ SelectServiceByPort(p) = {"telnet"} \/ SelectServiceByPort(p) = {"ssh"}
        \/ SelectServiceByPort(p) = ServiceTypes
    BY <1>1, Zenon
  <1> QED  BY <1>2 DEF Services, ServiceTypes

(* The goroutine returns. *)
LEMMA CloseStep ==
    ASSUME LogCap \in Nat, None \notin Conns, SessionIInv, NEW c \in Conns, at[c] # "accepted",
           CloseConn(c), UNCHANGED <<port, loop, queued>>
    PROVE  SessionIInv'
  <1> USE DEF CloseConn, Goto
  <1>1. SessionTypeOK'
    BY DEF SessionIInv, SessionTypeOK, Places
  <1>2. DirsInTree'
    BY TreeFacts DEF SessionIInv, DirsInTree
  <1>3. InHand'
    BY DEF SessionIInv, InHand, SessionTypeOK
  <1>4. pending' \in [Conns -> Plans] /\ sent' \in [Conns -> SUBSET Records]
    BY IdleFacts DEF SessionIInv
  <1>5. Recorded'
    <2>1. /\ at'[c] = "closed" /\ service'[c] = None /\ stage'[c] = 0 /\ sent'[c] = {}
          /\ pending'[c] = Idle
      BY DEF SessionIInv, SessionTypeOK
    <2>2. Session("closed", None, 0, {}, Idle)
      BY IdleFacts DEF Session
    <2> QED  BY <2>1, <2>2, OneSession DEF SessionIInv
  <1> QED  BY <1>1, <1>2, <1>3, <1>4, <1>5 DEF SessionIInv

(* Up to the start of its goroutine a connection has no dialogue. *)
LEMMA ArriveStep ==
    ASSUME LogCap \in Nat, None \notin Conns, SessionIInv, NEW c \in Conns,
           Connect(c) \/ Accept(c) \/ Spawn(c) \/ FallSilent(c)
    PROVE  SessionIInv'
  <1>0. /\ UNCHANGED <<port, service, dir, prompt, stage, pending, sent>>
        /\ at' = [at EXCEPT ![c] = at'[c]] /\ at'[c] \in Places
        /\ ~FallSilent(c) => at[c] \in {"none", "backlog", "accepted"}
        /\ ~FallSilent(c) => at'[c] \in {"backlog", "accepted", "spawned"}
        /\ FallSilent(c) => at' = at
    BY DEF SessionIInv, SessionTypeOK, InHand, Connect, Accept, Spawn, FallSilent, Goto, Places
  <1>1. SessionTypeOK'
    <2>1. queued' \in 0..LogCap
      BY DEF Connect, Accept, Spawn, FallSilent, SendLine, SessionIInv, SessionTypeOK
    <2>2. loop' \in [Ports -> Conns \cup {None}]
      BY DEF Connect, Accept, Spawn, FallSilent, SessionIInv, SessionTypeOK
    <2>3. quiet' \in [Conns -> BOOLEAN]
      BY DEF Connect, Accept, Spawn, FallSilent, SessionIInv, SessionTypeOK
    <2>4. at' \in [Conns -> Places]
      BY <1>0 DEF SessionIInv, SessionTypeOK
    <2> QED  BY <1>0, <2>1, <2>2, <2>3, <2>4 DEF SessionIInv, SessionTypeOK
  <1>2. DirsInTree'
    BY <1>0 DEF SessionIInv, DirsInTree
  <1>3. InHand'
    BY DEF SessionIInv, InHand, SessionTypeOK, Connect, Accept, Spawn, FallSilent, Goto
  <1>4. pending' \in [Conns -> Plans] /\ sent' \in [Conns -> SUBSET Records]
    BY <1>0 DEF SessionIInv
  <1>5. Recorded'
    <2>1. Session(at'[c], service[c], stage[c], sent[c], pending[c])
      BY <1>0 DEF SessionIInv, Recorded, Session
    <2> QED  BY <1>0, <2>1, OneSession DEF SessionIInv, SessionTypeOK
  <1> QED  BY <1>1, <1>2, <1>3, <1>4, <1>5 DEF SessionIInv

(* The trap hit is logged before the banner is sent. *)
LEMMA TrapStep ==
    ASSUME LogCap \in Nat, SessionIInv, NEW c \in Conns, TrapHit(c)
    PROVE  SessionIInv'
  <1>0. PICK s \in ServiceTypes : service' = [service EXCEPT ![c] = s]
    BY ServicesKnown DEF TrapHit
  <1> USE DEF TrapHit, Note, Goto
  <1>1. SessionTypeOK'
    <2>1. queued' \in 0..LogCap
      BY DEF SendLine, SessionIInv, SessionTypeOK
    <2> QED  BY <1>0, <2>1 DEF SessionIInv, SessionTypeOK, Places
  <1>2. DirsInTree'
    BY DEF SessionIInv, DirsInTree
  <1>3. InHand'
    BY DEF SessionIInv, InHand, SessionTypeOK
  <1>4. pending' \in [Conns -> Plans] /\ sent' \in [Conns -> SUBSET Records]
    BY DEF SessionIInv
  <1>5. Recorded'
    <2>1. /\ at'[c] = "banner" /\ service'[c] = s /\ stage'[c] = 0 /\ "trap" \in sent'[c]
          /\ pending'[c] = pending[c] /\ pending[c].stage = 0
      BY <1>0 DEF SessionIInv, SessionTypeOK, Recorded, Session, Records
    <2>2. pending[c] \in Plans /\ InTree(pending[c].dir) /\ pending[c].prompt = pending[c].dir
      BY DEF SessionIInv, Recorded, Session, Sound
    <2>3. Sound(s, sent'[c], pending[c])
      BY <2>1, <2>2, IdleFacts DEF Sound, Covered
    <2>4. Session("banner", s, 0, sent'[c], pending[c])
      BY <2>1, <2>3, IdleFacts DEF Session
    <2> QED  BY <1>0, <2>1, <2>4, OneSession DEF SessionIInv, SessionTypeOK
  <1> QED  BY <1>1, <1>2, <1>3, <1>4, <1>5 DEF SessionIInv

(* A sound reaction is put under way. *)
LEMMA ReactStep ==
    ASSUME LogCap \in Nat, SessionIInv, NEW c \in Conns, at[c] \in {"banner", "read"}, Goto(c, "react"),
           NEW r, pending' = [pending EXCEPT ![c] = r], Sound(service[c], sent[c], r),
           UNCHANGED <<port, service, dir, prompt, stage, quiet, loop, queued, sent>>
    PROVE  SessionIInv'
  <1>1. SessionTypeOK'
    BY DEF SessionIInv, SessionTypeOK, Goto, Places
  <1>2. DirsInTree'
    BY DEF SessionIInv, DirsInTree
  <1>3. InHand'
    BY DEF SessionIInv, InHand, SessionTypeOK, Goto
  <1>4. pending' \in [Conns -> Plans] /\ sent' \in [Conns -> SUBSET Records]
    BY DEF SessionIInv, Sound
  <1>5. Recorded'
    <2>1. at'[c] = "react" /\ pending'[c] = r
      BY DEF Goto, SessionIInv, SessionTypeOK
    <2>2. Session("react", service[c], stage[c], sent[c], r)
      BY DEF SessionIInv, Recorded, Session
    <2> QED  BY <2>1, <2>2, OneSession DEF SessionIInv, SessionTypeOK, Goto
  <1> QED  BY <1>1, <1>2, <1>3, <1>4, <1>5 DEF SessionIInv

(* A line is logged: what was to be logged is logged now, or still to be. *)
LEMMA LogStep ==
    ASSUME LogCap \in Nat, SessionIInv, NEW c \in Conns, LogLine(c)
    PROVE  SessionIInv'
  <1> DEFINE lines == pending[c].lines
             kind == Head(pending[c].lines)
  <1>0. pending[c] \in Plans /\ lines \in Seq(Kinds) /\ lines # <<>>
    BY DEF SessionIInv, Plans, LogLine
  <1>1. /\ kind = lines[1] /\ Tail(lines) \in Seq(Kinds) /\ Len(lines) \in Nat \ {0}
        /\ DOMAIN lines = 1..Len(lines) /\ DOMAIN Tail(lines) = 1..(Len(lines) - 1)
        /\ \A i \in 1..(Len(lines) - 1) : Tail(lines)[i] = lines[i + 1]
    <2>1. /\ Tail(lines) \in Seq(Kinds) /\ Len(Tail(lines)) = Len(lines) - 1
          /\ \A i \in 1..Len(Tail(lines)) : Tail(lines)[i] = lines[i + 1]
      BY <1>0, HeadTailProperties
    <2>2. Len(lines) \in Nat \ {0}
      BY <1>0, EmptySeq
    <2>3. DOMAIN lines = 1..Len(lines) /\ DOMAIN Tail(lines) = 1..Len(Tail(lines))
      BY <1>0, <2>1, LenProperties
    <2>4. kind = lines[1]
      BY <1>0
    <2> QED  BY <2>1, <2>2, <2>3, <2>4
  <1>2. /\ pending'[c] \in Plans /\ pending'[c].lines = Tail(lines)
        /\ pending'[c].stage = pending[c].stage /\ pending'[c].dir = pending[c].dir
        /\ pending'[c].prompt = pending[c].prompt
        /\ \A d \in Conns : d # c => pending'[d] = pending[d]
        /\ pending' \in [Conns -> Plans]
    BY <1>0, <1>1 DEF LogLine, SessionIInv, Plans
  <1>3. SessionTypeOK'
    <2>1. queued' \in 0..LogCap
      BY DEF SendLine, Note, LogLine, SessionIInv, SessionTypeOK
    <2> QED  BY <2>1 DEF SessionIInv, SessionTypeOK, LogLine
  <1>4. DirsInTree'
    BY DEF SessionIInv, DirsInTree, LogLine
  <1>5. InHand'
    BY DEF SessionIInv, InHand, LogLine
  <1>6. /\ sent' \in [Conns -> SUBSET Records] /\ sent'[c] = sent[c] \cup ({kind} \cap Records)
        /\ \A d \in Conns : d # c => sent'[d] = sent[d]
    BY DEF SessionIInv, LogLine, Note
  <1>7. Recorded'
    <2>1. Covered(service[c], pending[c].stage, sent'[c], Tail(lines))
      <3>1. SUFFICES ASSUME NEW k \in Needs(service[c], pending[c].stage), k \notin sent'[c]
                     PROVE  \E i \in DOMAIN Tail(lines) : Tail(lines)[i] = k
        BY DEF Covered
      <3>2. k \in Records /\ k \notin sent[c] /\ k # kind
        BY <1>6, <3>1 DEF Needs
      <3>3. PICK i \in DOMAIN lines : lines[i] = k
        BY <3>2 DEF SessionIInv, Recorded, Session, Sound, Covered
      <3>4. i # 1 /\ i - 1 \in 1..(Len(lines) - 1)
        BY <1>1, <3>2, <3>3
      <3>5. Tail(lines)[i - 1] = k
        BY <1>1, <3>3, <3>4
      <3> QED  BY <1>1, <3>4, <3>5
    <2>2. Sound(service[c], sent'[c], pending'[c])
      BY <1>2, <2>1 DEF Sound, SessionIInv, Recorded, Session
    <2>3. Session(at[c], service[c], stage[c], sent'[c], pending'[c])
      BY <1>2, <1>6, <2>2 DEF SessionIInv, Recorded, Session
    <2> QED  BY <1>2, <1>6, <2>3, OneSession DEF SessionIInv, LogLine
  <1> QED  BY <1>2, <1>3, <1>4, <1>5, <1>6, <1>7 DEF SessionIInv

(* The answer: the reaction's variables become those of the session. *)
LEMMA AnswerStep ==
    ASSUME LogCap \in Nat, SessionIInv, NEW c \in Conns, AnswerAndRead(c)
    PROVE  SessionIInv'
  <1>0. /\ pending[c] \in Plans /\ pending[c].lines = <<>> /\ InTree(pending[c].dir)
        /\ pending[c].prompt = pending[c].dir /\ pending[c].stage \in 0..3
        /\ pending[c].dir \in Seq(Segments)
    BY DEF SessionIInv, Recorded, Session, Sound, Plans, AnswerAndRead
  <1>1. SessionTypeOK'
    BY <1>0 DEF SessionIInv, SessionTypeOK, AnswerAndRead, Goto, Places
  <1>2. DirsInTree'
    BY <1>0 DEF SessionIInv, DirsInTree, AnswerAndRead
  <1>3. InHand'
    BY DEF SessionIInv, InHand, SessionTypeOK, AnswerAndRead, Goto
  <1>4. pending' \in [Conns -> Plans] /\ sent' \in [Conns -> SUBSET Records]
    BY IdleFacts DEF SessionIInv, AnswerAndRead
  <1>5. Recorded'
    <2>1. Needs(service[c], pending[c].stage) \subseteq sent[c]
      BY <1>0 DEF SessionIInv, Recorded, Session, Sound, Covered
    <2>2. at'[c] = "read" /\ stage'[c] = pending[c].stage /\ pending'[c] = Idle
      BY DEF SessionIInv, SessionTypeOK, AnswerAndRead, Goto
    <2>3. Session("read", service[c], pending[c].stage, sent[c], Idle)
      BY <2>1, IdleFacts DEF SessionIInv, Recorded, Session, AnswerAndRead
    <2> QED  BY <2>2, <2>3, OneSession DEF SessionIInv, SessionTypeOK, AnswerAndRead, Goto
  <1> QED  BY <1>1, <1>2, <1>3, <1>4, <1>5 DEF SessionIInv

(* Steps that touch no connection. *)
LEMMA QueueStep ==
    ASSUME LogCap \in Nat, SessionIInv, TakeLine \/ (\E p \in Ports : AcceptFails(p)) \/ UNCHANGED sessionVars
    PROVE  SessionIInv'
  <1>1. /\ UNCHANGED <<at, port, service, dir, prompt, stage, pending, quiet, loop, sent>>
        /\ queued' \in 0..LogCap
    BY DEF TakeLine, AcceptFails, SendLine, SessionIInv, SessionTypeOK, sessionVars
  <1> QED  BY <1>1 DEF SessionIInv, SessionTypeOK, DirsInTree, InHand, Recorded

(* SessionIInv is inductive. *)
LEMMA HoneypotInit ==
    ASSUME LogCap \in Nat, None \notin Conns, SessionInit
    PROVE  SessionIInv
  <1>1. SessionTypeOK
    BY DEF SessionInit, SessionTypeOK, Places
  <1>2. DirsInTree
    BY TreeFacts DEF SessionInit, DirsInTree
  <1>3. InHand
    BY <1>1 DEF SessionInit, InHand, SessionTypeOK
  <1>4. pending \in [Conns -> Plans] /\ sent \in [Conns -> SUBSET Records]
    BY IdleFacts DEF SessionInit
  <1>5. Recorded
    BY IdleFacts DEF SessionInit, Recorded, Session
  <1> QED  BY <1>1, <1>2, <1>3, <1>4, <1>5 DEF SessionIInv

LEMMA HoneypotStep ==
    ASSUME LogCap \in Nat, None \notin Conns,
           \A arg \in CdArgs : arg.to \in {"home", "up", "abs", "rel"}, SessionIInv, [SessionNext]_sessionVars
    PROVE  SessionIInv'
  <1>1. ASSUME NEW c \in Conns, SendBanner(c) PROVE SessionIInv'
    <2>1. Sound(service[c], sent[c], Greeting(c))
      BY SaySound, LineFacts DEF Greeting
    <2> QED  BY <1>1, <2>1, ReactStep DEF SendBanner
  <1>2. ASSUME NEW c \in Conns, BannerFails(c) PROVE SessionIInv'
    <2>1. Sound(service[c], sent[c], End(c, <<"error">>))
      BY SaySound, LineFacts
    <2> QED  BY <1>2, <2>1, ReactStep DEF BannerFails
  <1>3. ASSUME NEW c \in Conns, Read(c) PROVE SessionIInv'
    <2>1. PICK r \in Reactions(c) : pending' = [pending EXCEPT ![c] = r]
      BY <1>3 DEF Read
    <2>2. Sound(service[c], sent[c], r)
      BY ReactionsSound
    <2> QED  BY <1>3, <2>1, <2>2, ReactStep DEF Read
  <1>4. ASSUME NEW c \in Conns, AnswerAndReturn(c) \/ ReadFails(c) \/ ReadTimeout(c) PROVE SessionIInv'
    BY <1>4, CloseStep DEF AnswerAndReturn, ReadFails, ReadTimeout
  <1> QED
    BY <1>1, <1>2, <1>3, <1>4, ArriveStep, TrapStep, LogStep, AnswerStep, QueueStep DEF SessionNext

LEMMA HoneypotInv == SessionSpec => []SessionIInv
  <1>1. SessionInit => SessionIInv
    BY SessionAssumption, HoneypotInit
  <1>2. SessionIInv /\ [SessionNext]_sessionVars => SessionIInv'
    BY SessionAssumption, HoneypotStep
  <1> QED  BY <1>1, <1>2, PTL DEF SessionSpec

(* However a peer moves with cd, its directory is a place of the fake file system or above  *)
(* one, and its prompt shows it (ssh_handler.go 20-21 and 103-137, filesystem.go 183-202).  *)
THEOREM PeersStayInTree == SessionSpec => []WorkingDirKnown
  <1>1. SessionIInv => WorkingDirKnown
    BY DEF SessionIInv, DirsInTree, WorkingDirKnown
  <1> QED  BY <1>1, HoneypotInv, PTL

(* A banner, an accepted MySQL login and a second telnet prompt are given only after what   *)
(* they rest on was sent to logChan (honeypot.go 114-122, mysql_handler.go 44-75,           *)
(* handlers.go 26-52).                                                                      *)
THEOREM RecordedBeforeGiven == SessionSpec => []CapturedFirst
  <1>1. SessionIInv => CapturedFirst
    <2> SUFFICES ASSUME SessionIInv, NEW c \in Conns
                 PROVE  /\ at[c] \in {"react", "read"} => "trap" \in sent[c]
                        /\ service[c] = "mysql" /\ stage[c] = 1 => "login" \in sent[c]
                        /\ service[c] = "telnet" /\ stage[c] >= 2 => {"username", "password"} \subseteq sent[c]
      BY DEF CapturedFirst
    <2> QED  BY DEF SessionIInv, SessionTypeOK, Recorded, Session, Needs, Records
  <1> QED  BY <1>1, HoneypotInv, PTL
=============================================================================
