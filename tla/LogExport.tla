----------------------------- MODULE LogExport -----------------------------
(***************************************************************************)
(* The log pipeline: logger.Manager (internal/logger/manager.go) drains    *)
(* logChan into ELKExporter (internal/exporter/elk.go), which batches the  *)
(* documents and posts them with BulkIndex.  Three goroutines flush: the   *)
(* drain (when a batch is full), flushLoop (ticker, and once more when     *)
(* cancelled) and the caller of Close.                                     *)
(*                                                                         *)
(* bufferMutex is held except during the network call, so each locked      *)
(* stretch is one action.  Messages are distinct and their order is not    *)
(* observed: the channel, the buffer and a batch are sets.                 *)
(***************************************************************************)
EXTENDS Integers, FiniteSets

CONSTANTS
    Messages,   \* log messages, each sent once
    ChanSize,   \* capacity of logChan (1000)
    BatchSize,  \* ELKConfiguration.BatchSize (100)
    NodeCount,  \* number of configured Elasticsearch addresses
    Answers     \* Answers[n]: how node n may answer, a subset of Answer

Nodes == 1 .. NodeCount

(* ok: indexed and 2xx; partial: 2xx, though some documents of the batch are refused;      *)
(* refused: no connection; error: another status; lost: indexed, but the reply does not    *)
(* arrive before the client timeout                                                        *)
Answer == {"ok", "partial", "refused", "error", "lost"}

ASSUME ExportAssumption ==
    /\ ChanSize \in Nat \ {0} /\ BatchSize \in Nat \ {0}
    /\ NodeCount \in Nat \ {0}
    /\ Answers \in [Nodes -> SUBSET Answer]

Flushers == {"drain", "ticker", "closer"}

VARIABLES
    unsent,   \* messages no goroutine has logged yet
    logChan,  \* Manager.logChan
    open,     \* logChan is not closed
    held,     \* messages processLogs took and has not exported yet
    buffer,   \* ELKExporter.buffer
    batch,    \* toSend of each goroutine inside flushLocked
    node,     \* address BulkIndex tries next, 0 outside BulkIndex
    body,     \* the request body still has its bytes
    ctx,      \* e.ctx: "live" or "cancelled"
    loops,    \* "running" or "ended", for drain (processLogs) and ticker (flushLoop)
    closing,  \* where Manager.Close is
    indexed,  \* messages Elasticsearch holds (history)
    silent,   \* messages of a batch that was indexed without a reply (history)
    rejected  \* messages Elasticsearch refused in a 2xx reply (history)

remote == <<indexed, silent, rejected>>
vars == <<unsent, logChan, open, held, buffer, batch, node, body, ctx, loops, closing, remote>>

Init ==
    /\ unsent = Messages /\ logChan = {} /\ open = TRUE
    /\ held = {} /\ buffer = {} /\ indexed = {} /\ silent = {} /\ rejected = {}
    /\ batch = [f \in Flushers |-> {}]
    /\ node = [f \in Flushers |-> 0]
    /\ body = [f \in Flushers |-> FALSE]
    /\ ctx = "live"
    /\ loops = [f \in {"drain", "ticker"} |-> "running"]
    /\ closing = "no"

(* A component logs a message on the open channel. *)
Log(m) ==
    /\ m \in unsent /\ open /\ Cardinality(logChan) < ChanSize
    /\ unsent' = unsent \ {m}
    /\ logChan' = logChan \cup {m}
    /\ UNCHANGED <<open, held, buffer, batch, node, body, ctx, loops, closing, remote>>

(* processLogs takes the next message; it ends when the channel is closed and empty. *)
Receive(m) ==
    /\ loops["drain"] = "running" /\ node["drain"] = 0 /\ held = {}
    /\ m \in logChan
    /\ logChan' = logChan \ {m}
    /\ held' = {m}
    /\ UNCHANGED <<unsent, open, buffer, batch, node, body, ctx, loops, closing, remote>>

DrainEnds ==
    /\ loops["drain"] = "running" /\ node["drain"] = 0 /\ held = {}
    /\ ~open /\ logChan = {}
    /\ loops' = [loops EXCEPT !["drain"] = "ended"]
    /\ UNCHANGED <<unsent, logChan, open, held, buffer, batch, node, body, ctx, closing, remote>>

(* flushLocked up to the unlock, on the documents "docs"; nothing to do when there are none. *)
TakeBatch(f, docs) ==
    IF docs = {}
    THEN buffer' = {} /\ UNCHANGED <<batch, node, body>>
    ELSE /\ batch' = [batch EXCEPT ![f] = docs]
         /\ buffer' = {}
         /\ node' = [node EXCEPT ![f] = 1]
         /\ body' = [body EXCEPT ![f] = TRUE]

(* Export: append, and flush when the batch is full. *)
Export ==
    /\ held # {} /\ node["drain"] = 0
    /\ held' = {}
    /\ IF Cardinality(buffer \cup held) >= BatchSize
       THEN TakeBatch("drain", buffer \cup held)
       ELSE buffer' = buffer \cup held /\ UNCHANGED <<batch, node, body>>
    /\ UNCHANGED <<unsent, logChan, open, ctx, loops, closing, remote>>

(* Mutant: BulkIndex goes on to the next address after a success. *)
PostAll(f, a) ==
    /\ node[f] \in Nodes
    /\ a \in Answers[node[f]]
    /\ indexed' = IF body[f] /\ a \in {"ok", "lost"} THEN indexed \cup batch[f] ELSE indexed
    /\ silent' = IF body[f] /\ a = "lost" THEN silent \cup batch[f] ELSE silent
    /\ body' = [body EXCEPT ![f] = @ /\ a = "refused"]
    /\ node' = [node EXCEPT ![f] = @ + 1]
    /\ UNCHANGED <<unsent, logChan, open, held, buffer, batch, ctx, loops, closing, rejected>>

(* BulkIndex tries one address.  A request that reached a server has used up the body:     *)
(* the next address is sent an empty one, which Elasticsearch refuses.  Any 2xx ends the    *)
(* call: the per-document errors in the reply's body are not read.                          *)
Post(f, a) ==
    LET full == body[f]
        done == full /\ a \in {"ok", "partial"}
    IN  /\ node[f] \in Nodes
        /\ a \in Answers[node[f]]
        /\ \E kept \in IF a = "partial" THEN SUBSET batch[f] ELSE {batch[f]} :
             /\ indexed' = IF done \/ (full /\ a = "lost") THEN indexed \cup kept ELSE indexed
             /\ rejected' = IF done THEN rejected \cup (batch[f] \ kept) ELSE rejected
        /\ silent' = IF full /\ a = "lost" THEN silent \cup batch[f] ELSE silent
        /\ body' = [body EXCEPT ![f] = full /\ a = "refused"]
        /\ batch' = [batch EXCEPT ![f] = IF done THEN {} ELSE @]
        /\ node' = [node EXCEPT ![f] = IF done THEN 0 ELSE @ + 1]
        /\ UNCHANGED <<unsent, logChan, open, held, buffer, ctx, loops, closing>>

(* Mutant: the failed documents replace what was buffered meanwhile. *)
RequeueOver(f) ==
    /\ node[f] > 0 /\ node[f] \notin Nodes
    /\ buffer' = batch[f]
    /\ batch' = [batch EXCEPT ![f] = {}]
    /\ node' = [node EXCEPT ![f] = 0]
    /\ body' = [body EXCEPT ![f] = FALSE]
    /\ UNCHANGED <<unsent, logChan, open, held, ctx, loops, closing, remote>>

(* All addresses failed: flushLocked locks again and puts the documents back. *)
Requeue(f) ==
    /\ node[f] > 0 /\ node[f] \notin Nodes
    /\ buffer' = batch[f] \cup buffer
    /\ batch' = [batch EXCEPT ![f] = {}]
    /\ node' = [node EXCEPT ![f] = 0]
    /\ body' = [body EXCEPT ![f] = FALSE]
    /\ UNCHANGED <<unsent, logChan, open, held, ctx, loops, closing, remote>>

(* flushLoop: Flush on every tick, and once more when cancelled. *)
TickFlush ==
    /\ loops["ticker"] = "running" /\ node["ticker"] = 0
    /\ TakeBatch("ticker", buffer)
    /\ UNCHANGED <<unsent, logChan, open, held, ctx, loops, closing, remote>>

LastTickFlush ==
    /\ loops["ticker"] = "running" /\ node["ticker"] = 0 /\ ctx = "cancelled"
    /\ TakeBatch("ticker", buffer)
    /\ loops' = [loops EXCEPT !["ticker"] = "ended"]
    /\ UNCHANGED <<unsent, logChan, open, held, ctx, closing, remote>>

(* Mutant: Close does not cancel the exporter's context. *)
CloseNoCancel ==
    /\ closing = "no"
    /\ open' = FALSE
    /\ closing' = "wait"
    /\ UNCHANGED <<unsent, logChan, held, buffer, batch, node, body, ctx, loops, remote>>

(* Manager.Close: close the channel, cancel, wait for flushLoop, flush, return. *)
Close ==
    /\ closing = "no"
    /\ open' = FALSE
    /\ ctx' = "cancelled"
    /\ closing' = "wait"
    /\ UNCHANGED <<unsent, logChan, held, buffer, batch, node, body, loops, remote>>

CloseFlush ==
    /\ closing = "wait" /\ loops["ticker"] = "ended" /\ node["ticker"] = 0
    /\ TakeBatch("closer", buffer)
    /\ closing' = "flush"
    /\ UNCHANGED <<unsent, logChan, open, held, ctx, loops, remote>>

CloseReturns ==
    /\ closing = "flush" /\ node["closer"] = 0
    /\ closing' = "closed"
    /\ UNCHANGED <<unsent, logChan, open, held, buffer, batch, node, body, ctx, loops, remote>>

Flush(f) == Requeue(f) \/ \E a \in Answer : Post(f, a)

Drain == Export \/ DrainEnds \/ \E m \in Messages : Receive(m)

Next ==
    \/ \E m \in Messages : Log(m)
    \/ Drain
    \/ \E f \in Flushers : Flush(f)
    \/ TickFlush
    \/ LastTickFlush
    \/ Close
    \/ CloseFlush
    \/ CloseReturns

(* Goroutines are scheduled, the ticker fires, and every request ends, well or badly.  When *)
(* a tick and the cancellation are both there, flushLoop's select picks one at random: it    *)
(* cannot choose the tick for ever.                                                          *)
Fairness ==
    /\ WF_vars(Drain)
    /\ WF_vars(TickFlush)
    /\ SF_vars(LastTickFlush)
    /\ WF_vars(CloseFlush) /\ WF_vars(CloseReturns)
    /\ \A f \in Flushers : WF_vars(Flush(f))

Spec == Init /\ [][Next]_vars /\ Fairness

-----------------------------------------------------------------------------
(* Type invariant; a goroutine has a batch exactly while it is in BulkIndex. *)
TypeOK ==
    /\ unsent \subseteq Messages /\ logChan \subseteq Messages
    /\ held \subseteq Messages /\ buffer \subseteq Messages
    /\ indexed \subseteq Messages /\ silent \subseteq indexed /\ rejected \subseteq Messages
    /\ open \in BOOLEAN
    /\ batch \in [Flushers -> SUBSET Messages]
    /\ node \in [Flushers -> 0 .. NodeCount + 1]
    /\ \A f \in Flushers : node[f] = 0 <=> batch[f] = {}
    /\ body \in [Flushers -> BOOLEAN]
    /\ ctx \in {"live", "cancelled"}
    /\ loops \in [{"drain", "ticker"} -> {"running", "ended"}]
    /\ closing \in {"no", "wait", "flush", "closed"}

InFlight == UNION {batch[f] : f \in Flushers}

OneCopy ==
    /\ unsent \cap (logChan \cup held \cup buffer \cup InFlight) = {}
    /\ logChan \cap (held \cup buffer \cup InFlight) = {}
    /\ held \cap (buffer \cup InFlight) = {}
    /\ buffer \cap InFlight = {}
    /\ \A f, g \in Flushers : f # g => batch[f] \cap batch[g] = {}

(* No failed request, concurrent flush or shutdown makes a message vanish: until it is    *)
(* indexed, or refused by Elasticsearch itself in a reply, it is in the channel, with      *)
(* processLogs, in the buffer or in a batch, and in one of them only: putting a failed     *)
(* batch back, while others append and flush, never makes a second copy (elk.go 86-114).   *)
Conserved ==
    /\ TypeOK
    /\ Messages \subseteq unsent \cup logChan \cup held \cup buffer \cup InFlight
                          \cup indexed \cup rejected
    /\ OneCopy

(* Only a lost reply makes an indexed document be sent again: no error, refusal, *)
(* failover or concurrent flush does (elk.go lines 101-111 and 228-256).         *)
IndexedOnce ==
    indexed \cap (unsent \cup logChan \cup held \cup buffer \cup InFlight) \subseteq silent

(* The caller of Close has a batch only in its own flush. *)
CloserIdle == closing \in {"no", "wait"} => node["closer"] = 0

(* The inductive invariant behind Conserved and IndexedOnce. *)
IInv == Conserved /\ IndexedOnce /\ CloserIdle

(* Manager.Close comes back, whatever Elasticsearch answers: also when it never accepts     *)
(* anything (manager.go 168-174, elk.go 122-157).                                           *)
CloseTerminates == closing = "wait" ~> closing = "closed"

(* What the code says of itself and does not do: "Try each address until one succeeds"      *)
(* (elk.go 226).  While the pipeline is open every logged message gets indexed, if an       *)
(* address accepts all it is sent.                                                          *)
Delivered ==
    \A m \in Messages : m \in logChan ~> m \in indexed \/ closing # "no"
=============================================================================
