----------------------------- MODULE LogStream -----------------------------
(***************************************************************************)
(* The dashboard's log stream (internal/webdash/server.go) and the log     *)
(* posts of the fleet (fleet.go, fleet_client.go).                         *)
(*                                                                         *)
(* One goroutine, broadcastLogs, owns the set of client channels.  Every   *)
(* HTTP connection to /api/logs has a goroutine of its own, handleLogs,    *)
(* that joins and leaves through unbuffered channels: a rendezvous with    *)
(* broadcastLogs, hence one action of both.  Messages come from the log    *)
(* manager through logChan and from other agents through externalLogChan.  *)
(***************************************************************************)
EXTENDS Naturals, Sequences, FiniteSets

CONSTANTS
    Clients,     \* connections to /api/logs
    Local,       \* messages of this host's log manager
    Posts,       \* messages of a remote agent, in the order 1..Posts it logged them
    ClientCap,   \* capacity of a client's channel (100)
    LogCap,      \* capacity of the dashboard's logChan (1000)
    ExternalCap  \* capacity of externalLogChan (100)

ASSUME StreamAssumption ==
    /\ Posts \in Nat /\ Local \cap 0..Posts = {}
    /\ ClientCap \in Nat \ {0} /\ LogCap \in Nat \ {0} /\ ExternalCap \in Nat \ {0}

VARIABLES
    clients,      \* s.clients
    conn,         \* where each connection's handleLogs is
    gone,         \* connections whose request context is done
    buffer,       \* the channel of each connection
    closed,       \* connections whose channel was closed
    msg,          \* the message sendToClients is sending, or None
    left,         \* the clients it has still to visit
    logChan,
    externalLogChan,
    unlogged,     \* local messages the log manager has not routed yet
    posted,       \* how many messages the agent's logLoop has posted
    blocked,      \* posts whose handler is at the send in broadcastRawLog
    awaited,      \* the post whose answer logLoop waits for, or 0
    abandoned,    \* the posts it has given up on (history)
    taken,        \* messages in the order broadcastLogs took them (history)
    got           \* what was written to each connection (history)

hub == <<clients, msg, left, taken>>
vars == <<hub, conn, gone, buffer, closed, logChan, externalLogChan, unlogged,
          posted, blocked, awaited, abandoned, got>>

None == 0  \* posts are numbered from 1
Messages == Local \cup 1..Posts

Init ==
    /\ clients = {} /\ msg = None /\ left = {} /\ taken = <<>>
    /\ conn = [c \in Clients |-> "off"] /\ gone = {}
    /\ buffer = [c \in Clients |-> <<>>] /\ closed = {}
    /\ logChan = <<>> /\ externalLogChan = <<>>
    /\ unlogged = Local /\ posted = 0 /\ blocked = {} /\ awaited = 0 /\ abandoned = {}
    /\ got = [c \in Clients |-> <<>>]

Enter(c, place) == conn' = [conn EXCEPT ![c] = place]

sources == <<logChan, externalLogChan, unlogged, posted, blocked, awaited, abandoned>>

-----------------------------------------------------------------------------
(* handleLogs. *)

Connect(c) ==
    /\ conn[c] = "off"
    /\ Enter(c, "adding")
    /\ UNCHANGED <<hub, gone, buffer, closed, got, sources>>

(* The browser goes away; the server cancels the context of its request. *)
Disconnect(c) ==
    /\ conn[c] # "off" /\ c \notin gone
    /\ gone' = gone \cup {c}
    /\ UNCHANGED <<hub, conn, buffer, closed, got, sources>>

(* s.addClient <- clientChan.  A writer that cannot flush ends the handler. *)
AddClient(c) ==
    /\ msg = None /\ conn[c] = "adding"
    /\ clients' = clients \cup {c}
    /\ \E place \in {"streaming", "removing"} : Enter(c, place)
    /\ UNCHANGED <<msg, left, taken, gone, buffer, closed, got, sources>>

(* Fprintf and Flush begin: no deadline is set for them. *)
WriteEvent(c) ==
    /\ conn[c] = "streaming" /\ buffer[c] # <<>>
    /\ Enter(c, "writing")
    /\ buffer' = [buffer EXCEPT ![c] = Tail(@)]
    /\ got' = [got EXCEPT ![c] = Append(@, Head(buffer[c]))]
    /\ UNCHANGED <<hub, gone, closed, sources>>

(* They return, with an error that nobody looks at when the browser is     *)
(* gone.  A browser that stops reading keeps them waiting.                 *)
Written(c) ==
    /\ conn[c] = "writing"
    /\ Enter(c, "streaming")
    /\ UNCHANGED <<hub, gone, buffer, closed, got, sources>>

ContextDone(c) ==
    /\ conn[c] = "streaming" /\ c \in gone
    /\ Enter(c, "removing")
    /\ UNCHANGED <<hub, gone, buffer, closed, got, sources>>

(* Mutant: the deferred function closes the channel before it has left. *)
RemoveClientClosing(c) ==
    /\ conn[c] = "removing"
    /\ closed' = closed \cup {c}
    /\ Enter(c, "closing")
    /\ UNCHANGED <<hub, gone, buffer, got, sources>>

(* s.removeClient <- clientChan *)
RemoveClient(c) ==
    /\ msg = None /\ conn[c] = "removing"
    /\ clients' = clients \ {c}
    /\ Enter(c, "closing")
    /\ UNCHANGED <<msg, left, taken, gone, buffer, closed, got, sources>>

CloseClient(c) ==
    /\ conn[c] = "closing"
    /\ closed' = closed \cup {c}
    /\ Enter(c, "ended")
    /\ UNCHANGED <<hub, gone, buffer, got, sources>>

-----------------------------------------------------------------------------
(* broadcastLogs and sendToClients. *)

StartSend(m) ==
    /\ msg' = IF clients = {} THEN None ELSE m
    /\ left' = clients
    /\ taken' = Append(taken, m)
    /\ UNCHANGED <<clients, conn, gone, buffer, closed, got, unlogged, posted, blocked, awaited,
                   abandoned>>

TakeLog ==
    /\ msg = None /\ logChan # <<>>
    /\ logChan' = Tail(logChan)
    /\ StartSend(Head(logChan))
    /\ UNCHANGED externalLogChan

TakeExternal ==
    /\ msg = None /\ externalLogChan # <<>>
    /\ externalLogChan' = Tail(externalLogChan)
    /\ StartSend(Head(externalLogChan))
    /\ UNCHANGED logChan

(* Mutant: a plain send, without the default branch, waits for room. *)
SendWaiting(c) ==
    /\ Len(buffer[c]) < ClientCap
    /\ buffer' = [buffer EXCEPT ![c] = Append(@, msg)]

(* The non-blocking send: a full channel drops the message. *)
Send(c) ==
    buffer' = IF Len(buffer[c]) < ClientCap
                THEN [buffer EXCEPT ![c] = Append(@, msg)]
                ELSE buffer

SendToClient(c) ==
    /\ msg # None /\ c \in left
    /\ Send(c)
    /\ left' = left \ {c}
    /\ msg' = IF left = {c} THEN None ELSE msg
    /\ UNCHANGED <<clients, taken, conn, gone, closed, got, sources>>

-----------------------------------------------------------------------------
(* The log manager's route to the dashboard: a full channel skips the message. *)
RouteToDashboard(m) ==
    /\ m \in unlogged
    /\ unlogged' = unlogged \ {m}
    /\ logChan' = IF Len(logChan) < LogCap THEN Append(logChan, m) ELSE logChan
    /\ UNCHANGED <<hub, conn, gone, buffer, closed, got, externalLogChan, posted, blocked, awaited,
                   abandoned>>

(* Mutant: logLoop starts a goroutine for each message and waits for none. *)
PostLogAsync ==
    /\ posted < Posts
    /\ posted' = posted + 1
    /\ blocked' = blocked \cup {posted + 1}
    /\ UNCHANGED <<hub, conn, gone, buffer, closed, got, logChan, externalLogChan, unlogged,
                   awaited, abandoned>>

(* The remote agent's logLoop posts its next message.  The request reaches the server or not. *)
PostLog ==
    /\ awaited = 0 /\ posted < Posts
    /\ posted' = posted + 1
    /\ \/ awaited' = posted + 1 /\ blocked' = blocked \cup {posted + 1}
       \/ UNCHANGED <<awaited, blocked>>
    /\ UNCHANGED <<hub, conn, gone, buffer, closed, got, logChan, externalLogChan, unlogged,
                   abandoned>>

(* httpClient gives up after 5 s; the server's handler goes on. *)
PostTimeout ==
    /\ awaited # 0
    /\ awaited' = 0
    /\ abandoned' = abandoned \cup {awaited}
    /\ UNCHANGED <<hub, conn, gone, buffer, closed, got, logChan, externalLogChan, unlogged,
                   posted, blocked>>

(* Mutant: a request whose answer was lost is repeated. *)
BroadcastRawLogRepeated(m) ==
    /\ m \in blocked /\ Len(externalLogChan) < ExternalCap
    /\ externalLogChan' = Append(externalLogChan, m)
    /\ UNCHANGED <<hub, conn, gone, buffer, closed, got, logChan, unlogged, posted, blocked, awaited,
                   abandoned>>

(* Mutant: a full channel drops the post, as the other sends do. *)
BroadcastRawLogDropping(m) ==
    /\ m \in blocked
    /\ externalLogChan' = IF Len(externalLogChan) < ExternalCap
                             THEN Append(externalLogChan, m) ELSE externalLogChan
    /\ blocked' = blocked \ {m}
    /\ awaited' = IF awaited = m THEN 0 ELSE awaited
    /\ UNCHANGED <<hub, conn, gone, buffer, closed, got, logChan, unlogged, posted, abandoned>>

(* handleFleetLogs: a send that waits for room, then the answer. *)
BroadcastRawLog(m) ==
    /\ m \in blocked /\ Len(externalLogChan) < ExternalCap
    /\ externalLogChan' = Append(externalLogChan, m)
    /\ blocked' = blocked \ {m}
    /\ awaited' = IF awaited = m THEN 0 ELSE awaited
    /\ UNCHANGED <<hub, conn, gone, buffer, closed, got, logChan, unlogged, posted, abandoned>>

-----------------------------------------------------------------------------
Idle ==
    /\ unlogged = {} /\ posted = Posts /\ \A c \in Clients : conn[c] = "ended" /\ c \in gone
    /\ UNCHANGED vars

Next ==
    \/ \E c \in Clients :
          \/ Connect(c) \/ Disconnect(c) \/ AddClient(c) \/ WriteEvent(c)
          \/ Written(c) \/ ContextDone(c) \/ RemoveClient(c) \/ CloseClient(c) \/ SendToClient(c)
    \/ TakeLog \/ TakeExternal \/ PostLog \/ PostTimeout
    \/ \E m \in Local : RouteToDashboard(m)
    \/ \E m \in 1..Posts : BroadcastRawLog(m)
    \/ Idle

(***************************************************************************)
(* Goroutines are scheduled, and a select that stays ready for a case      *)
(* takes it in the end: it picks at random among the ready ones.  Since    *)
(* messages run out here, weak fairness is all that is needed.  A write to *)
(* a browser that is gone returns.  Nothing else is assumed of browsers    *)
(* and agents: a write to one that stays may wait for ever.                *)
(***************************************************************************)
Fairness ==
    /\ \A c \in Clients :
          /\ WF_vars(AddClient(c)) /\ WF_vars(RemoveClient(c))
          /\ WF_vars(c \in gone /\ Written(c))
          /\ WF_vars(ContextDone(c)) /\ WF_vars(CloseClient(c)) /\ WF_vars(SendToClient(c))
    /\ WF_vars(TakeLog) /\ WF_vars(TakeExternal)
    /\ \A m \in 1..Posts : WF_vars(BroadcastRawLog(m))

Spec == Init /\ [][Next]_vars /\ Fairness

-----------------------------------------------------------------------------
(* The channels stay within their capacities and everything has its type. *)
TypeOK ==
    /\ clients \subseteq Clients /\ left \subseteq clients /\ gone \subseteq Clients
    /\ closed \subseteq Clients /\ msg \in Messages \cup {None}
    /\ conn \in [Clients -> {"off", "adding", "streaming", "writing", "removing", "closing", "ended"}]
    /\ buffer \in [Clients -> Seq(Messages)] /\ \A c \in Clients : Len(buffer[c]) <= ClientCap
    /\ got \in [Clients -> Seq(Messages)] /\ taken \in Seq(Messages)
    /\ logChan \in Seq(Local) /\ Len(logChan) <= LogCap
    /\ externalLogChan \in Seq(1..Posts) /\ Len(externalLogChan) <= ExternalCap
    /\ blocked \subseteq 1..posted /\ posted \in 0..Posts /\ awaited \in blocked \cup {0}
    /\ unlogged \subseteq Local /\ abandoned \subseteq 1..Posts

(* broadcastLogs never sends on a closed channel, which would panic and take the agent    *)
(* down: what it may still send to is open, though the channel is closed by the           *)
(* connection's goroutine (server.go 143-146).                                            *)
NoSendOnClosed ==
    /\ TypeOK
    /\ (clients \cup left) \cap closed = {}

Place(m) == CHOOSE i \in DOMAIN taken : taken[i] = m

(* What a connection was sent is in the order broadcastLogs took it, and nothing comes    *)
(* twice, whatever was dropped for it and whenever it joined (server.go 118-126).         *)
StreamInOrder ==
    \A c \in Clients :
        LET stream == got[c] \o buffer[c]
        IN  \A i, j \in DOMAIN stream : i < j => Place(stream[i]) < Place(stream[j])

(* broadcastLogs knows a connection only between its joining and its leaving, closes      *)
(* nothing, and goes through its clients only while it has a message.                     *)
HubKnows ==
    /\ \A c \in clients : conn[c] \in {"streaming", "writing", "removing"}
    /\ \A c \in closed : conn[c] = "ended"
    /\ msg = None => left = {}

(* The inductive invariant behind NoSendOnClosed. *)
IInv == TypeOK /\ HubKnows

(* A message is waiting with its sender, in one channel once, or taken once. *)
Routed == (Local \ unlogged) \cup (1..posted \ blocked)

Holds(seq, m) == \E i \in DOMAIN seq : seq[i] = m

Once(queue) ==
    /\ \A i \in DOMAIN queue : queue[i] \in Routed /\ ~Holds(taken, queue[i])
    /\ \A i, j \in DOMAIN queue : queue[i] = queue[j] => i = j

TakenOnce ==
    /\ \A i \in DOMAIN taken : taken[i] \in Routed
    /\ \A i, j \in DOMAIN taken : taken[i] = taken[j] => i = j
    /\ Once(logChan) /\ Once(externalLogChan)

Before(seq, m, n) == \E i, j \in DOMAIN seq : seq[i] = m /\ seq[j] = n /\ i < j

(* The message being sent is the last one taken, and who has still to get it has earlier  *)
(* ones only.                                                                             *)
SendsLast ==
    /\ msg # None => taken # <<>> /\ taken[Len(taken)] = msg
    /\ \A c \in Clients :
          LET stream == got[c] \o buffer[c]
          IN  /\ \A i, j \in DOMAIN stream : i < j => Before(taken, stream[i], stream[j])
              /\ \A i \in DOMAIN stream :
                    Holds(taken, stream[i]) /\ (c \in left => Before(taken, stream[i], msg))

(* The inductive invariant behind StreamInOrder. *)
OrderInv == IInv /\ TakenOnce /\ SendsLast

(* n reached the hub, or the channel to it, before m. *)
Overtakes(n, m) ==
    \/ Before(taken, n, m) \/ Before(externalLogChan, n, m)
    \/ Holds(taken, n) /\ Holds(externalLogChan, m)

(* An agent's messages are broadcast in the order it logged them, except for one whose    *)
(* post it had given up on: its handler is still at the full channel then, and a newer    *)
(* post may pass it (fleet_client.go 79-97, server.go 128-131).                           *)
PostsInOrder == \A m, n \in 1..Posts : m < n /\ Overtakes(n, m) => m \in abandoned

(* A handler that still waits is of a post given up, or of the last one. *)
Waits == \A m \in blocked : m \in abandoned \/ (m = awaited /\ m = posted)

(* The inductive invariant behind PostsInOrder. *)
PostInv == IInv /\ TakenOnce /\ Waits /\ PostsInOrder

(* A connection that is gone is eventually forgotten and its goroutine ends, even when    *)
(* nobody reads its full channel and other clients and agents keep the hub busy           *)
(* (server.go 101-126, 143-146).                                                          *)
GoneForgotten ==
    \A c \in Clients : c \in gone ~> (conn[c] = "ended" /\ c \notin clients)

(* A fleet log that reached the server is eventually broadcast: its handler does not wait *)
(* for ever at the full externalLogChan, however slow the browsers are (server.go 128-131).*)
PostsBroadcast ==
    \A m \in 1..Posts : m \in blocked ~> (\E i \in DOMAIN taken : taken[i] = m)
=============================================================================
