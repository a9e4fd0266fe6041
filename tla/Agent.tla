------------------------------- MODULE Agent -------------------------------
(***************************************************************************)
(* The life of the agent process: cmd/agent/main.go, internal/agent/       *)
(* agent.go, and the listeners of internal/honeypot/honeypot.go and        *)
(* internal/proxy/mtls.go.                                                 *)
(*                                                                         *)
(* The main goroutine starts everything in order, waits for a signal and   *)
(* closes everything in order.  The honeypot binds its ports in a          *)
(* goroutine of its own, the dashboard in another.  A process can be       *)
(* killed at any moment and started again with other options.              *)
(***************************************************************************)
EXTENDS Naturals, Sequences, Functions

CONSTANTS
    FakePorts,    \* the sequence config.FakePorts
    HoneypotPort, \* the fallback port 9999, also the dashboard's
    MtlsPort      \* -mtls-port, 8443

Ports == Range(FakePorts) \cup {HoneypotPort, MtlsPort}

ASSUME AgentAssumption ==
    /\ FakePorts \in Seq(Ports)
    /\ HoneypotPort \notin Range(FakePorts) /\ MtlsPort # HoneypotPort

VARIABLES
    main,      \* where the main goroutine is; "dead" when there is no process
    options,   \* [dashboard, mtls]: what the command line asks for
    owner,     \* who listens on each port
    xdp,       \* is phantom_prog attached?
    egress,    \* were the egress objects loaded?
    filter,    \* the TC egress filter: "none", "own", or "old" (an earlier process's)
    handler,   \* is the SPA handler running?
    starter,   \* the honeypot's Start: index of its port, 0 before, Ended after
    stage,     \* what Start does next with that port: "listen", "append" or "serve"
    failed,    \* honeypotErrChan holds an error
    listeners, \* h.listeners
    loops,     \* ports with an acceptLoop: what h.wg counts
    web,       \* the dashboard's ListenAndServe: "off", "binding", "done"
    logsClosed, \* was logChan closed?
    ending     \* history: how the last process ended: "exit", "fault" or "send"

ebpf == <<xdp, egress, filter>>
pot == <<starter, stage, failed, listeners, loops>>
vars == <<main, options, owner, ebpf, handler, pot, web, logsClosed, ending>>

Options == [dashboard : BOOLEAN, mtls : BOOLEAN]
Fallback == Len(FakePorts) + 1
Ended == Fallback + 1

Init ==
    /\ main = "dead"
    /\ options = [dashboard |-> FALSE, mtls |-> FALSE]
    /\ owner \in [Ports -> {"free", "other"}]
    /\ xdp = FALSE /\ egress = FALSE /\ filter = "none" /\ handler = FALSE
    /\ starter = 0 /\ stage = "listen" /\ failed = FALSE /\ web = "off"
    /\ listeners = <<>> /\ loops = {} /\ logsClosed = FALSE /\ ending = "exit"

Alive == main # "dead"

(* The kernel takes back what the process held; a TC filter belongs to the interface. *)
Die(how) ==
    /\ main' = "dead"
    /\ owner' = [p \in Ports |-> IF owner[p] = "other" THEN "other" ELSE "free"]
    /\ filter' = IF filter = "own" THEN "old" ELSE filter
    /\ xdp' = FALSE /\ egress' = FALSE /\ handler' = FALSE
    /\ starter' = 0 /\ stage' = "listen" /\ failed' = FALSE /\ web' = "off"
    /\ listeners' = <<>> /\ loops' = {} /\ logsClosed' = FALSE
    /\ ending' = how
    /\ UNCHANGED options

(* log.Fatalf, or the end of main. *)
Exit == Die("exit")

(* The main goroutine goes from one place to the next. *)
Step(from, to) == main = from /\ main' = to

-----------------------------------------------------------------------------
(* Starting: main, agent.New, agent.Start. *)

(* A fresh process: nothing but other programs' ports is in use. *)
StartProcess ==
    /\ Step("dead", "new")
    /\ options' \in Options
    /\ UNCHANGED <<owner, ebpf, handler, pot, web, logsClosed, ending>>

(* Bad options, no interface, no eBPF or no exporter end in log.Fatalf. *)
NewFails == main = "new" /\ Exit

New ==
    /\ Step("new", "attachXDP")
    /\ egress' \in BOOLEAN
    /\ UNCHANGED <<options, owner, xdp, filter, handler, pot, web, logsClosed, ending>>

AttachFails == main = "attachXDP" /\ Exit

AttachXDP ==
    /\ Step("attachXDP", "attachTC")
    /\ xdp' = TRUE
    /\ UNCHANGED <<options, owner, egress, filter, handler, pot, web, logsClosed, ending>>

(* Adding the filter fails when one is there already; any failure is only a warning. *)
AttachTCEgress ==
    /\ Step("attachTC", "initSPA")
    /\ filter' \in IF egress /\ filter = "none" THEN {"none", "own"} ELSE {filter}
    /\ UNCHANGED <<options, owner, xdp, egress, handler, pot, web, logsClosed, ending>>

(* initStaticSPA or initDynamicSPA: a UDP port in use is only a warning. *)
InitSPA ==
    /\ Step("initSPA", "launch")
    /\ handler' \in BOOLEAN
    /\ UNCHANGED <<options, owner, ebpf, pot, web, logsClosed, ending>>

LaunchHoneypot ==
    /\ Step("launch", "check")
    /\ starter' = 1
    /\ UNCHANGED <<options, owner, ebpf, handler, stage, failed, listeners, loops, web,
                   logsClosed, ending>>

(* The non-blocking look at honeypotErrChan; an error makes main call log.Fatalf. *)
CheckHoneypot ==
    \/ main = "check" /\ failed /\ Exit
    \/ /\ Step("check", "mtls") /\ ~failed
       /\ UNCHANGED <<options, owner, ebpf, handler, pot, web, logsClosed, ending>>

(* Not asked for, or the certificates cannot be read. *)
SkipMtls ==
    /\ Step("mtls", "output")
    /\ UNCHANGED <<options, owner, ebpf, handler, pot, web, logsClosed, ending>>

(* The port cannot be bound, or the certificates do not parse: log.Fatalf. *)
MtlsFails == main = "mtls" /\ options.mtls /\ Exit

StartMtls ==
    /\ Step("mtls", "output") /\ options.mtls
    /\ owner[MtlsPort] = "free"
    /\ owner' = [owner EXCEPT ![MtlsPort] = "mtls"]
    /\ UNCHANGED <<options, ebpf, handler, pot, web, logsClosed, ending>>

(* The dashboard's server opens fleet.db: log.Fatalf when it cannot. *)
DashboardFails == main = "output" /\ options.dashboard /\ Exit

(* The dashboard, or a mode without a listener (fleet, ELK only). *)
StartOutput ==
    /\ Step("output", "waiting")
    /\ web' = IF options.dashboard THEN "binding" ELSE "off"
    /\ UNCHANGED <<options, owner, ebpf, handler, pot, logsClosed, ending>>

(* http.ListenAndServe in its goroutine; an error, whatever its cause, is only logged. *)
WebListen ==
    /\ web = "binding" /\ web' = "done"
    /\ \/ UNCHANGED owner
       \/ /\ owner[HoneypotPort] = "free"
          /\ owner' = [owner EXCEPT ![HoneypotPort] = "dashboard"]
    /\ UNCHANGED <<main, options, ebpf, handler, pot, logsClosed, ending>>

-----------------------------------------------------------------------------
(* The honeypot's Start and bindFallback, for one port after the other: net.Listen, then   *)
(* append to h.listeners, then a log line, h.wg.Add and go acceptLoop.                      *)

Current == IF starter = Fallback THEN HoneypotPort ELSE FakePorts[starter]

(* net.Listen succeeds only on a free port; it can fail on any. *)
Listen ==
    /\ owner[Current] = "free"
    /\ owner' = [owner EXCEPT ![Current] = "honeypot"]
    /\ stage' = "append"
    /\ UNCHANGED <<starter, failed>>

ListenFake ==
    /\ starter \in DOMAIN FakePorts /\ stage = "listen"
    /\ \/ Listen
       \/ ~logsClosed /\ starter' = starter + 1 /\ UNCHANGED <<owner, stage, failed>>
    /\ UNCHANGED <<main, options, ebpf, handler, listeners, loops, web, logsClosed, ending>>

(* Mutant: the fallback is bound only when some fake port could not be. *)
ListenFallbackIfNeeded ==
    /\ starter = Fallback /\ stage = "listen" /\ ~logsClosed
    /\ \/ Len(listeners) < Len(FakePorts) /\ Listen
       \/ starter' = Ended /\ failed' = (Len(listeners) < Len(FakePorts)) /\ UNCHANGED <<owner, stage>>
    /\ UNCHANGED <<main, options, ebpf, handler, listeners, loops, web, logsClosed, ending>>

(* bindFallback logs before it listens; its error is put into honeypotErrChan. *)
ListenFallback ==
    /\ starter = Fallback /\ stage = "listen" /\ ~logsClosed
    /\ \/ Listen
       \/ starter' = Ended /\ failed' = TRUE /\ UNCHANGED <<owner, stage>>
    /\ UNCHANGED <<main, options, ebpf, handler, listeners, loops, web, logsClosed, ending>>

(* Mutant: the fallback's listener is not remembered. *)
AppendFakeOnly ==
    /\ stage = "append" /\ stage' = "serve"
    /\ listeners' = IF starter = Fallback THEN listeners ELSE Append(listeners, Current)
    /\ UNCHANGED <<main, options, owner, ebpf, handler, starter, failed, loops, web, logsClosed,
                   ending>>

AppendListener ==
    /\ stage = "append" /\ stage' = "serve"
    /\ listeners' = Append(listeners, Current)
    /\ UNCHANGED <<main, options, owner, ebpf, handler, starter, failed, loops, web, logsClosed,
                   ending>>

ServeListener ==
    /\ stage = "serve" /\ stage' = "listen" /\ ~logsClosed
    /\ loops' = loops \cup {Current}
    /\ starter' = starter + 1
    /\ UNCHANGED <<main, options, owner, ebpf, handler, failed, listeners, web, logsClosed, ending>>

-----------------------------------------------------------------------------
(* Closing: the deferred agent.Close, whose error nobody looks at. *)

(* SIGINT or SIGTERM is only caught once main waits for it; before, it kills. *)
Signal ==
    /\ Step("waiting", "stopHandler")
    /\ UNCHANGED <<options, owner, ebpf, handler, pot, web, logsClosed, ending>>

(* An error of the handler's Stop makes Close return at once. *)
StopHandler ==
    /\ \/ Step("stopHandler", "closeListeners")
       \/ Step("stopHandler", "returning") /\ handler
    /\ handler' = FALSE
    /\ UNCHANGED <<options, owner, ebpf, pot, web, logsClosed, ending>>

Release(ports) == owner' = [p \in Ports |-> IF p \in ports THEN "free" ELSE owner[p]]

(* The range over h.listeners sees the slice as it was when it began. *)
CloseListeners ==
    /\ Step("closeListeners", "waitLoops")
    /\ Release(Range(listeners))
    /\ UNCHANGED <<options, ebpf, handler, pot, web, logsClosed, ending>>

(* The first listener whose Close fails is the last that is closed. *)
CloseListenersFails ==
    /\ Step("closeListeners", "returning")
    /\ \E n \in DOMAIN listeners : Release(Range(SubSeq(listeners, 1, n)))
    /\ UNCHANGED <<options, ebpf, handler, pot, web, logsClosed, ending>>

(* A range that begins while append stores pointer, length and capacity of the slice may   *)
(* take the new length with the old array, and read a listener that is not there.           *)
CloseListenersTorn == main = "closeListeners" /\ stage = "append" /\ Die("fault")

(* h.wg.Wait().  acceptLoop has no way out of its for: an error of Accept, which is what    *)
(* a closed listener returns, is logged and Accept is called again.                         *)
WaitLoops ==
    /\ Step("waitLoops", "closeLogs") /\ loops = {}
    /\ UNCHANGED <<options, owner, ebpf, handler, pot, web, logsClosed, ending>>

(* Mutant: the eBPF objects are closed together with the logs. *)
CloseLogsAndEbpf ==
    /\ Step("closeLogs", "closeEbpf")
    /\ logsClosed' = TRUE /\ xdp' = FALSE
    /\ UNCHANGED <<options, owner, egress, filter, handler, pot, web, ending>>

(* The exporter's error, were there one, would keep the eBPF objects from being closed. *)
CloseLogs ==
    /\ Step("closeLogs", "closeEbpf")
    /\ logsClosed' = TRUE
    /\ UNCHANGED <<options, owner, ebpf, handler, pot, web, ending>>

(* When the link of the XDP program cannot be closed the objects stay open. *)
CloseEbpf ==
    /\ Step("closeEbpf", "returning")
    /\ \/ xdp' = FALSE /\ egress' = FALSE
       \/ UNCHANGED <<xdp, egress>>
    /\ UNCHANGED <<options, owner, filter, handler, pot, web, logsClosed, ending>>

Return == main = "returning" /\ Exit

(* A goroutine that still logs panics: the honeypot's Start, or the SPA statistics, whose   *)
(* ticker (spa/manager.go 36-59) runs as long as the process.                               *)
SendOnClosed == Alive /\ logsClosed /\ Die("send")

Killed == Alive /\ Exit

-----------------------------------------------------------------------------
Main ==
    \/ NewFails \/ New \/ AttachFails \/ AttachXDP \/ AttachTCEgress \/ InitSPA
    \/ LaunchHoneypot \/ CheckHoneypot \/ SkipMtls \/ MtlsFails \/ StartMtls
    \/ DashboardFails \/ StartOutput
    \/ StopHandler \/ CloseListeners \/ CloseListenersFails \/ CloseListenersTorn
    \/ WaitLoops \/ CloseLogs \/ CloseEbpf \/ Return

Honeypot == ListenFake \/ ListenFallback \/ AppendListener \/ ServeListener

Next == StartProcess \/ Main \/ WebListen \/ Honeypot \/ Signal \/ SendOnClosed \/ Killed

(* Goroutines are scheduled and no system call blocks.  Nothing is assumed of signals. *)
Fairness == WF_vars(Main) /\ WF_vars(WebListen) /\ WF_vars(Honeypot)

Spec == Init /\ [][Next]_vars /\ Fairness

-----------------------------------------------------------------------------
(* Types of the state.  A port is in the hands of the honeypot's Start only between        *)
(* net.Listen and acceptLoop (honeypot.go 36-46, 61-78).                                   *)
TypeOK ==
    /\ main \in {"dead", "new", "attachXDP", "attachTC", "initSPA", "launch", "check", "mtls",
                 "output", "waiting", "stopHandler", "closeListeners", "waitLoops",
                 "closeLogs", "closeEbpf", "returning"}
    /\ options \in Options
    /\ owner \in [Ports -> {"free", "other", "honeypot", "mtls", "dashboard"}]
    /\ xdp \in BOOLEAN /\ egress \in BOOLEAN /\ filter \in {"none", "own", "old"}
    /\ handler \in BOOLEAN /\ failed \in BOOLEAN /\ logsClosed \in BOOLEAN
    /\ ending \in {"exit", "fault", "send"}
    /\ starter \in 0..Ended /\ stage \in {"listen", "append", "serve"}
    /\ stage # "listen" => starter \in 1..Fallback
    /\ listeners \in Seq(Ports) /\ loops \subseteq Ports
    /\ web \in {"off", "binding", "done"}

Ours == {p \in Ports : owner[p] \in {"honeypot", "mtls", "dashboard"}}
Trapped == {p \in Ports : owner[p] = "honeypot"}

(* Until Close has closed everything else, none of the agent's ports is open without        *)
(* phantom_prog in front of it, though three goroutines bind them (agent.go 76, 146-151,    *)
(* 297-318; main.go 244-252).  Between CloseEbpf and the end of the process the dashboard   *)
(* and the proxy, which nothing closes, are open without it.                                *)
NeverUnguarded == Ours # {} => xdp \/ main = "returning"

(* When the honeypot's Start has ended before Close walks over h.listeners, that walk       *)
(* frees every port of the honeypot (honeypot.go 36-78, 139-146).                           *)
ClosedIfStarted ==
    [][main = "closeListeners" /\ main' = "waitLoops" /\ starter = Ended => Trapped' = {}]_vars

(* Once the agent is up, the honeypot gets port 9999, to which phantom_prog redirects, or   *)
(* its error is in honeypotErrChan (honeypot.go 61-78, agent.go 146-151).                   *)
FallbackServed ==
    main = "waiting" ~> (main # "waiting" \/ owner[HoneypotPort] = "honeypot" \/ failed)

(* What the code says of itself and does not do.                                            *)

(* "FAILING FAST": without the required port 9999 the agent ends (honeypot.go 67-73,        *)
(* agent.go 153-159).  The check is made before the goroutine had time to fail.             *)
FailsFast == failed ~> main = "dead"

(* "graceful shutdown": after a signal the process ends, and nobody panics (main.go         *)
(* 258-262, agent.go 297-318, manager.go 168-174).  Close waits for accept loops that       *)
(* nothing ends; where there are none, the ticker of the SPA statistics and the honeypot's  *)
(* Start may log on the closed channel.                                                     *)
GracefulShutdown == main = "stopHandler" ~> (main = "dead" /\ ending = "exit")
=============================================================================
