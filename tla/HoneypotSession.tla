-------------------------- MODULE HoneypotSession --------------------------
(***************************************************************************)
(* The connections of the honeypot: acceptLoop and handleConnection of     *)
(* internal/honeypot/honeypot.go and the fake services behind them, the    *)
(* *_handler.go files, handlers.go and filesystem.go.                      *)
(*                                                                         *)
(* Every connection has a goroutine.  All of them, and the accept loops,   *)
(* send their log lines to logChan, which is bounded; a send waits for     *)
(* room.  A handler reads an input, sends the log lines it calls for and   *)
(* then answers.  An input is reduced to that reaction.                    *)
(***************************************************************************)
EXTENDS Naturals, Sequences

CONSTANTS
    Conns,        \* TCP connections that peers open
    Ports,        \* ports the honeypot listens on
    HoneypotPort, \* 9999, where phantom_prog redirects to
    LogCap,       \* capacity of logChan
    CdArgs,       \* arguments of cd: [to : {"home", "up", "abs", "rel"}, path]
    None

ASSUME SessionAssumption ==
    /\ LogCap \in Nat \ {0} /\ None \notin Conns
    /\ \A arg \in CdArgs : arg.to \in {"home", "up", "abs", "rel"}

VARIABLES
    at,      \* where each connection is
    port,    \* the port it came in on
    service, \* serviceType
    dir,     \* currentDir of handleSSH
    prompt,  \* the directory that the variable prompt shows
    stage,   \* telnet: answers read so far; mysql: 1 when authenticated
    pending, \* the reaction under way: lines still to log, and what follows
    quiet,   \* the peer stays connected and sends nothing more
    loop,    \* each accept loop's connection in hand, or None
    queued,  \* lines in logChan
    sent     \* history: the Records of each open connection that are there

sessionVars == <<at, port, service, dir, prompt, stage, pending, quiet, loop, queued, sent>>

-----------------------------------------------------------------------------
(* The fake file system.  A path is the list of what its slashes separate, without the      *)
(* empty text before the first: "/" is <<"">>, "/etc" is <<"etc">>, "//etc" is <<"", "etc">>. *)

Root == <<"">>
Home == <<"root">>

Dirs == {Root, Home, <<"home">>, <<"etc">>, <<"var">>, <<"var", "log">>, <<"var", "www">>,
         <<"tmp">>}

Files == {<<"etc", "passwd">>, <<"etc", "hosts">>, <<"var", "log", "auth.log">>,
          <<"var", "log", "syslog">>, <<"root", ".bash_history">>, <<"root", "config.txt">>,
          <<"var", "www", "config.php">>, <<"etc", "nginx", "nginx.conf">>}

FileExists(path) == path \in Files \cup Dirs

Up(path) == IF Len(path) > 1 THEN SubSeq(path, 1, Len(path) - 1) ELSE Root

(* Mutant: the argument is looked up as it is, and normalizePath starts at /root. *)
CdUnjoined(cur, arg) ==
    CASE arg.to = "home" -> Home
      [] arg.to = "up"   -> Up(cur)
      [] arg.to = "abs"  -> IF FileExists(arg.path) THEN arg.path ELSE cur
      [] arg.to = "rel"  -> IF FileExists(Home \o arg.path) THEN cur \o arg.path ELSE cur

(* The new currentDir; an unknown path leaves it alone. *)
Cd(cur, arg) ==
    CASE arg.to = "home" -> Home
      [] arg.to = "up"   -> Up(cur)
      [] arg.to = "abs"  -> IF FileExists(arg.path) THEN arg.path ELSE cur
      [] arg.to = "rel"  -> IF FileExists(cur \o arg.path) THEN cur \o arg.path ELSE cur

-----------------------------------------------------------------------------
(* Reactions of the services to one input. *)

Say(c, lines) ==
    [lines |-> lines, ends |-> FALSE, dir |-> dir[c], prompt |-> prompt[c], stage |-> stage[c]]
End(c, lines) == [Say(c, lines) EXCEPT !.ends = TRUE]

SshCd(c, arg) ==
    LET to == Cd(dir[c], arg) IN [Say(c, <<"command">>) EXCEPT !.dir = to, !.prompt = to]

(* history to grep: print something. *)
SshShow(c) == {Say(c, <<"command">>)}

(* find to python, and unknown commands: pretend to run; what they ask for is not read. *)
SshProgram(c) == {Say(c, <<"command">>)}

(* An empty line is answered with the prompt and not logged.  Commands other than cd and    *)
(* exit change nothing.                                                                     *)
SshReactions(c) ==
    {Say(c, <<>>), Say(c, <<"command">>), End(c, <<"command">>)}
        \cup SshShow(c) \cup SshProgram(c) \cup {SshCd(c, arg) : arg \in CdArgs}

HttpPage(c, lines) == {End(c, lines)}

(* Any other path: a POST is logged once more. *)
HttpElsewhere(c, lines) == {End(c, lines), End(c, Append(lines, "post"))}

(* One request; a request line of fewer than two words gets no page. *)
HttpReactions(c) ==
    {End(c, <<"command">>)} \cup
    UNION {HttpPage(c, lines) \cup HttpElsewhere(c, lines) :
              lines \in {<<"command">>, <<"command", "credentials">>}}

(* Login, password, and both once more; the second name is not logged. *)
TelnetReactions(c) ==
    LET next(lines) == [Say(c, lines) EXCEPT !.stage = @ + 1]
    IN  {CASE stage[c] = 0 -> next(<<"username">>)
           [] stage[c] = 1 -> next(<<"password">>)
           [] stage[c] = 2 -> next(<<>>)
           [] stage[c] = 3 -> End(c, <<"again">>)}

(* A command; USE, SHOW CREATE TABLE and the modifying queries are logged twice. *)
MySQLQuery(c) == {Say(c, <<"command">>), Say(c, <<"command", "detail">>)}

(* Mutant: any packet of more than four bytes counts as a login. *)
MySQLAnyLogin(c) ==
    {Say(c, <<>>)} \cup
    IF stage[c] = 0
      THEN {[Say(c, lines) EXCEPT !.stage = 1] :
               lines \in {<<>>, <<"login">>, <<"login", "password">>}}
      ELSE {End(c, <<"command">>)} \cup MySQLQuery(c)

(* A packet that is too short, or not a login before the login, is ignored. *)
MySQLReactions(c) ==
    {Say(c, <<>>)} \cup
    IF stage[c] = 0
      THEN {[Say(c, lines) EXCEPT !.stage = 1] : lines \in {<<"login">>, <<"login", "password">>}}
      ELSE {End(c, <<"command">>)} \cup MySQLQuery(c)

(* Most known commands, with enough arguments, are logged a second time. *)
RedisCommand(c) == {Say(c, <<"command">>), Say(c, <<"command", "detail">>)}

(* SELECT, QUIT, and whatever else parseRESP makes of the input. *)
RedisOther(c) == {Say(c, <<"command">>), Say(c, <<"command", "detail">>), End(c, <<"command">>)}

(* An input without a word is logged too. *)
RedisReactions(c) == {Say(c, <<"command">>)} \cup RedisCommand(c) \cup RedisOther(c)

(* USER and PASS with an argument are logged twice; there is no way to log in. *)
FTPReactions(c) ==
    {Say(c, <<"command">>), Say(c, <<"command", "detail">>), End(c, <<"command">>)}

(* Handler.Handle *)
Reactions(c) ==
    CASE service[c] = "http"   -> HttpReactions(c)
      [] service[c] = "telnet" -> TelnetReactions(c)
      [] service[c] = "mysql"  -> MySQLReactions(c)
      [] service[c] = "redis"  -> RedisReactions(c)
      [] service[c] = "ftp"    -> FTPReactions(c)
      [] OTHER                 -> SshReactions(c)

(* What a handler logs before its first read. *)
Greeting(c) == Say(c, IF service[c] \in {"mysql", "redis", "ftp"} THEN <<"connection">> ELSE <<>>)

HasDeadline(s) == s \in {"ssh", "http", "mysql", "redis"}

-----------------------------------------------------------------------------
ServiceTypes == {"ssh", "http", "mysql", "redis", "ftp", "telnet"}

HttpPorts == {80, 443, 8080, 8443, 8000, 8888, 9200, 5601, 3000, 5000}
DatabasePorts == {3306, 5432, 1433, 1521, 27017, 27018}
CachePorts == {6379, 11211}
ScreenPorts == {3389, 5900}

SelectServiceByPort(p) ==
    CASE p \in HttpPorts     -> {"http"}
      [] p \in DatabasePorts -> {"mysql"}
      [] p \in CachePorts    -> {"redis"}
      [] p = 21              -> {"ftp"}
      [] p = 23              -> {"telnet"}
      [] p \in ScreenPorts   -> {"ssh"}
      [] OTHER               -> ServiceTypes

Services(p) == IF p = HoneypotPort THEN ServiceTypes ELSE SelectServiceByPort(p)

Idle == [lines |-> <<>>, ends |-> FALSE, dir |-> Home, prompt |-> Home, stage |-> 0]

SessionInit ==
    /\ at = [c \in Conns |-> "none"]
    /\ port \in [Conns -> Ports]
    /\ service = [c \in Conns |-> None]
    /\ dir = [c \in Conns |-> Home] /\ prompt = [c \in Conns |-> Home]
    /\ stage = [c \in Conns |-> 0]
    /\ pending = [c \in Conns |-> Idle]
    /\ quiet = [c \in Conns |-> FALSE]
    /\ loop = [p \in Ports |-> None]
    /\ queued = 0
    /\ sent = [c \in Conns |-> {}]

(* The kinds of lines that CapturedFirst asks for. *)
Records == {"trap", "login", "username", "password"}

Goto(c, place) == at' = [at EXCEPT ![c] = place]

(* h.logChan <- ... *)
SendLine == queued < LogCap /\ queued' = queued + 1

Note(c, kind) == SendLine /\ sent' = [sent EXCEPT ![c] = @ \cup ({kind} \cap Records)]

(* The goroutine returns: the deferred conn.Close(), and its variables are gone. *)
CloseConn(c) ==
    /\ Goto(c, "closed")
    /\ service' = [service EXCEPT ![c] = None]
    /\ dir' = [dir EXCEPT ![c] = Home] /\ prompt' = [prompt EXCEPT ![c] = Home]
    /\ stage' = [stage EXCEPT ![c] = 0]
    /\ pending' = [pending EXCEPT ![c] = Idle]
    /\ quiet' = [quiet EXCEPT ![c] = FALSE]
    /\ sent' = [sent EXCEPT ![c] = {}]

(* The kernel completes the handshake and the connection waits for Accept. *)
Connect(c) ==
    /\ at[c] = "none" /\ Goto(c, "backlog")
    /\ UNCHANGED <<port, service, dir, prompt, stage, pending, quiet, loop, queued, sent>>

(* Mutant: the loop calls handleConnection without go. *)
AcceptSerially(c) ==
    /\ at[c] = "backlog" /\ loop[port[c]] = None /\ Goto(c, "accepted")
    /\ \A d \in Conns : port[d] = port[c] => at[d] \in {"none", "backlog", "closed"}
    /\ loop' = [loop EXCEPT ![port[c]] = c]
    /\ UNCHANGED <<port, service, dir, prompt, stage, pending, quiet, queued, sent>>

Accept(c) ==
    /\ at[c] = "backlog" /\ loop[port[c]] = None /\ Goto(c, "accepted")
    /\ loop' = [loop EXCEPT ![port[c]] = c]
    /\ UNCHANGED <<port, service, dir, prompt, stage, pending, quiet, queued, sent>>

AcceptFails(p) ==
    /\ loop[p] = None /\ SendLine
    /\ UNCHANGED <<at, port, service, dir, prompt, stage, pending, quiet, loop, sent>>

(* The loop logs the connection and starts its goroutine. *)
Spawn(c) ==
    /\ loop[port[c]] = c /\ SendLine /\ Goto(c, "spawned")
    /\ loop' = [loop EXCEPT ![port[c]] = None]
    /\ UNCHANGED <<port, service, dir, prompt, stage, pending, quiet, sent>>

TrapHit(c) ==
    /\ at[c] = "spawned" /\ Note(c, "trap") /\ Goto(c, "banner")
    /\ \E s \in Services(port[c]) : service' = [service EXCEPT ![c] = s]
    /\ UNCHANGED <<port, dir, prompt, stage, pending, quiet, loop>>

SendBanner(c) ==
    /\ at[c] = "banner" /\ Goto(c, "react")
    /\ pending' = [pending EXCEPT ![c] = Greeting(c)]
    /\ UNCHANGED <<port, service, dir, prompt, stage, quiet, loop, queued, sent>>

(* The peer has gone: the error is logged and the connection closed. *)
BannerFails(c) ==
    /\ at[c] = "banner" /\ Goto(c, "react")
    /\ pending' = [pending EXCEPT ![c] = End(c, <<"error">>)]
    /\ UNCHANGED <<port, service, dir, prompt, stage, quiet, loop, queued, sent>>

Read(c) ==
    /\ at[c] = "read" /\ ~quiet[c] /\ Goto(c, "react")
    /\ \E r \in Reactions(c) : pending' = [pending EXCEPT ![c] = r]
    /\ UNCHANGED <<port, service, dir, prompt, stage, quiet, loop, queued, sent>>

LogLine(c) ==
    /\ at[c] = "react" /\ pending[c].lines # <<>>
    /\ Note(c, Head(pending[c].lines))
    /\ pending' = [pending EXCEPT ![c].lines = Tail(@)]
    /\ UNCHANGED <<at, port, service, dir, prompt, stage, quiet, loop>>

(* Write the answer and read again; errors of Write are ignored. *)
AnswerAndRead(c) ==
    /\ at[c] = "react" /\ pending[c].lines = <<>> /\ ~pending[c].ends
    /\ Goto(c, "read")
    /\ dir' = [dir EXCEPT ![c] = pending[c].dir]
    /\ prompt' = [prompt EXCEPT ![c] = pending[c].prompt]
    /\ stage' = [stage EXCEPT ![c] = pending[c].stage]
    /\ pending' = [pending EXCEPT ![c] = Idle]
    /\ UNCHANGED <<port, service, quiet, loop, queued, sent>>

(* Write the last answer, if there is one, and return. *)
AnswerAndReturn(c) ==
    /\ at[c] = "react" /\ pending[c].lines = <<>> /\ pending[c].ends
    /\ CloseConn(c)
    /\ UNCHANGED <<port, loop, queued>>

(* The peer closed or reset the connection. *)
ReadFails(c) ==
    /\ at[c] = "read" /\ CloseConn(c)
    /\ UNCHANGED <<port, loop, queued>>

(* Mutant: the redis handler sets no deadline. *)
ReadTimeoutNotRedis(c) ==
    /\ at[c] = "read" /\ service[c] \in {"ssh", "http", "mysql"} /\ CloseConn(c)
    /\ UNCHANGED <<port, loop, queued>>

ReadTimeout(c) ==
    /\ at[c] = "read" /\ HasDeadline(service[c]) /\ CloseConn(c)
    /\ UNCHANGED <<port, loop, queued>>

(* The peer stops sending, at any time. *)
FallSilent(c) ==
    /\ at[c] \notin {"none", "closed"}
    /\ ~quiet[c] /\ quiet' = [quiet EXCEPT ![c] = TRUE]
    /\ UNCHANGED <<at, port, service, dir, prompt, stage, pending, loop, queued, sent>>

(* The log manager takes a line. *)
TakeLine ==
    /\ queued > 0 /\ queued' = queued - 1
    /\ UNCHANGED <<at, port, service, dir, prompt, stage, pending, quiet, loop, sent>>

-----------------------------------------------------------------------------
SessionNext ==
    \/ \E c \in Conns :
          \/ Connect(c) \/ Accept(c) \/ Spawn(c) \/ TrapHit(c) \/ SendBanner(c) \/ BannerFails(c)
          \/ Read(c) \/ LogLine(c) \/ AnswerAndRead(c) \/ AnswerAndReturn(c)
          \/ ReadFails(c) \/ ReadTimeout(c) \/ FallSilent(c)
    \/ \E p \in Ports : AcceptFails(p)
    \/ TakeLine

(* What the accept loop and the goroutine do for a connection without the peer's help.  A   *)
(* write may block where no deadline was set.                                               *)
Serve(c) ==
    \/ Accept(c) \/ Spawn(c) \/ TrapHit(c) \/ SendBanner(c) \/ LogLine(c) \/ ReadTimeout(c)
    \/ HasDeadline(service[c]) /\ (AnswerAndRead(c) \/ AnswerAndReturn(c))

(* Goroutines are scheduled and deadlines expire.  Senders that wait on a full channel, and *)
(* connections that wait for Accept, are served in the order in which they came, so none    *)
(* starves.  Accept does not fail for ever and the log manager goes on reading.             *)
SessionFairness == WF_sessionVars(TakeLine) /\ \A c \in Conns : SF_sessionVars(Serve(c))

SessionSpec == SessionInit /\ [][SessionNext]_sessionVars /\ SessionFairness

-----------------------------------------------------------------------------
Places == {"none", "backlog", "accepted", "spawned", "banner", "react", "read", "closed"}

(* Types; logChan is never over its capacity and no telnet session gets a third try. *)
SessionTypeOK ==
    /\ at \in [Conns -> Places]
    /\ port \in [Conns -> Ports]
    /\ service \in [Conns -> ServiceTypes \cup {None}]
    /\ stage \in [Conns -> 0..3]
    /\ quiet \in [Conns -> BOOLEAN]
    /\ loop \in [Ports -> Conns \cup {None}]
    /\ queued \in 0..LogCap

IsAbove(p, q) == p = Root \/ (Len(p) <= Len(q) /\ SubSeq(q, 1, Len(p)) = p)

InTree(d) == \E p \in Files \cup Dirs : IsAbove(d, p)

(* However a peer moves through the fake file system, in and out of files (cd accepts       *)
(* them), by names that are right in another directory, above the root: its directory is    *)
(* a place that the file system has or that one of its files lies under,                    *)
(* and its prompt shows it (ssh_handler.go 20-21 and 103-137, filesystem.go 183-202).       *)
WorkingDirKnown ==
    /\ SessionTypeOK
    /\ \A c \in Conns :
          /\ InTree(dir[c])
          /\ prompt[c] = dir[c]

(* Nothing is given away before it is recorded: a peer has seen a banner only when its      *)
(* trap hit is logged, MySQL pretends to accept a login only when the name is logged, and   *)
(* telnet asks a second time only when the first name and password are (honeypot.go         *)
(* 114-122, mysql_handler.go 44-75, handlers.go 26-52).                                     *)
CapturedFirst ==
    \A c \in Conns :
        /\ at[c] \in {"react", "read"} => "trap" \in sent[c]
        /\ service[c] = "mysql" /\ stage[c] = 1 => "login" \in sent[c]
        /\ service[c] = "telnet" /\ stage[c] >= 2 => {"username", "password"} \subseteq sent[c]

(* The inductive invariant behind WorkingDirKnown and CapturedFirst: what the reaction under *)
(* way will do to the variables is as good as what they are, and each record that a state    *)
(* of the dialogue calls for is logged, or is still to be logged before that state is there. *)
Segments == {"", "root", "home", "etc", "var", "log", "www", "tmp", "passwd", "hosts", "auth.log",
             "syslog", ".bash_history", "config.txt", "config.php", "nginx", "nginx.conf"}

Kinds == {"command", "post", "credentials", "username", "password", "again", "login", "detail",
          "connection", "error"}

Plans == [lines : Seq(Kinds), ends : BOOLEAN, dir : Seq(Segments), prompt : Seq(Segments),
          stage : 0..3]

Needs(s, n) ==
    {k \in Records : \/ k = "login" /\ s = "mysql" /\ n = 1
                     \/ k = "username" /\ s = "telnet" /\ n >= 1
                     \/ k = "password" /\ s = "telnet" /\ n >= 2}

(* The records that stage n calls for are logged already or are among the lines to log. *)
Covered(s, n, done, lines) ==
    \A k \in Needs(s, n) : k \in done \/ \E i \in DOMAIN lines : lines[i] = k

(* A reaction that may follow when the records in done are logged. *)
Sound(s, done, r) ==
    /\ r \in Plans /\ InTree(r.dir) /\ r.prompt = r.dir
    /\ Covered(s, r.stage, done, r.lines)

DirsInTree ==
    /\ dir \in [Conns -> Seq(Segments)] /\ prompt = dir
    /\ \A c \in Conns : InTree(dir[c])

(* One connection: its place, service and stage, its records and its reaction under way. *)
Session(place, s, n, done, r) ==
    /\ place \in {"banner", "react", "read"} => "trap" \in done
    /\ place \notin {"react", "read"} => n = 0 /\ r.stage = 0
    /\ Needs(s, n) \subseteq done
    /\ Sound(s, done, r)

Recorded == \A c \in Conns : Session(at[c], service[c], stage[c], sent[c], pending[c])

(* A loop has in hand only what it has accepted and not passed on. *)
InHand == \A c \in Conns : loop[port[c]] = c => at[c] = "accepted"

SessionIInv ==
    /\ SessionTypeOK /\ DirsInTree /\ InHand /\ Recorded
    /\ pending \in [Conns -> Plans] /\ sent \in [Conns -> SUBSET Records]

(* A connection is answered with a banner, whatever other peers of the same port do, those  *)
(* included that hold a telnet or FTP session open for ever (honeypot.go 80-95).            *)
Greeted == \A c \in Conns : at[c] = "backlog" ~> at[c] \in {"react", "read", "closed"}

(* "Set deadline to prevent Slowloris resource exhaustion" (ssh_handler.go 28, also in the   *)
(* http, mysql and redis handlers): the session of a peer that stays silent ends, also when *)
(* it is in the middle of logging to a full channel.                                        *)
SilentEnds ==
    \A c \in Conns :
        (quiet[c] /\ at[c] \in {"react", "read"} /\ HasDeadline(service[c])) ~> at[c] = "closed"
=============================================================================
