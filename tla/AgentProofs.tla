---------------------------- MODULE AgentProofs ----------------------------
(***************************************************************************)
(* Proofs about Agent, for any list of fake ports.  Neither NeverUnguarded *)
(* nor ClosedIfStarted is inductive: they do not say that nobody binds a   *)
(* port before phantom_prog is attached, nor that it stays attached until  *)
(* Close has finished, nor where the listener of each open port is kept.   *)
(***************************************************************************)
EXTENDS Agent, SequenceTheorems, TLAPS

Early == {"dead", "new", "attachXDP"}
Unlaunched == Early \cup {"attachTC", "initSPA", "launch"}

(* Before the program is attached no goroutine that binds a port runs. *)
QuietBefore ==
    /\ main \in Early => web = "off" /\ Ours = {}
    /\ main \in Unlaunched => starter = 0

(* From then on it is attached until Close has closed everything else. *)
AttachedAfter == main \notin Early \cup {"returning"} => xdp

(* The port Start has listened on and not yet put into h.listeners. *)
Pending == IF stage = "append" THEN {Current} ELSE {}

(* Every open port of the honeypot is in h.listeners or on its way there. *)
Listed == Trapped \subseteq Range(listeners) \cup Pending

(* The inductive invariant. *)
IInv == TypeOK /\ QuietBefore /\ AttachedAfter /\ Listed

Owners == {"free", "other", "honeypot", "mtls", "dashboard"}

(* The indices of the honeypot's Start are natural numbers. *)
LEMMA StarterRange == Len(FakePorts) \in Nat /\ Fallback \in Nat /\ Ended \in Nat
                      /\ Ended = Len(FakePorts) + 2 /\ Fallback = Len(FakePorts) + 1
                      /\ DOMAIN FakePorts = 1..Len(FakePorts)
BY AgentAssumption DEF AgentAssumption, Fallback, Ended

LEMMA PortsKnown == HoneypotPort \in Ports /\ MtlsPort \in Ports
                    /\ \A i \in DOMAIN FakePorts : FakePorts[i] \in Ports
BY DEF Ports, Range

LEMMA CurrentKnown == starter \in 1..Fallback => Current \in Ports
BY StarterRange, PortsKnown DEF Current

(* The initial state: no process, no port of ours. *)
LEMMA InitEstablishes == Init => IInv
<1> SUFFICES ASSUME Init PROVE IInv  OBVIOUS
<1>1. TypeOK
  <2>1. starter \in 0..Ended /\ stage = "listen"  BY StarterRange DEF Init
  <2>2. listeners \in Seq(Ports)  BY DEF Init
  <2>3. owner \in [Ports -> Owners]  BY DEF Init, Owners
  <2> QED  BY <2>1, <2>2, <2>3 DEF Init, TypeOK, Options, Owners
<1>2. Ours = {} /\ Trapped = {}  BY DEF Init, Ours, Trapped
<1> QED  BY <1>1, <1>2 DEF Init, IInv, QuietBefore, AttachedAfter, Listed, Early

(* Whatever the process held when it ended, the invariant holds afterwards. *)
LEMMA DieRestores == ASSUME IInv, NEW how \in {"exit", "fault", "send"}, Die(how) PROVE IInv'
<1>1. TypeOK'
  <2>1. starter' \in 0..Ended /\ stage' = "listen"  BY StarterRange DEF Die
  <2>2. listeners' \in Seq(Ports)  BY DEF Die
  <2>3. owner' \in [Ports -> Owners]  BY DEF Die, Owners
  <2> QED  BY <2>1, <2>2, <2>3 DEF Die, TypeOK, IInv, Owners
<1>2. Ours' = {} /\ Trapped' = {}  BY DEF Die, Ours, Trapped
<1> QED  BY <1>1, <1>2 DEF Die, IInv, QuietBefore, AttachedAfter, Listed, Early

(* Closing listeners opens no port. *)
LEMMA ReleaseKeeps ==
    ASSUME TypeOK, NEW ports, Release(ports)
    PROVE  owner' \in [Ports -> Owners] /\ Trapped' = Trapped \ ports
BY DEF Release, TypeOK, Trapped, Owners

(* A port on which the honeypot's Start has just listened is on its way to h.listeners. *)
LEMMA ListenKeeps ==
    ASSUME IInv, starter \in 1..Fallback, stage = "listen", Listen, UNCHANGED <<main, xdp, listeners>>
    PROVE  /\ owner' \in [Ports -> Owners] /\ stage' = "append" /\ starter' = starter
           /\ main \notin Early /\ Listed'
<1>1. Current \in Ports  BY CurrentKnown
<1>2. owner \in [Ports -> Owners]  BY DEF IInv, TypeOK, Owners
<1>3. owner' \in [Ports -> Owners] /\ Trapped' \subseteq Trapped \cup {Current}
  BY <1>1, <1>2 DEF Listen, Owners, Trapped
<1>4. Current' = Current /\ Pending' = {Current}  BY DEF Listen, Current, Pending
<1>5. Trapped \subseteq Range(listeners)  BY DEF IInv, Listed, Pending
<1>6. Listed'  BY <1>3, <1>4, <1>5 DEF Listed
<1>7. main \notin Early  BY StarterRange DEF IInv, QuietBefore, Unlaunched
<1> QED  BY <1>3, <1>6, <1>7 DEF Listen

(* The steps of the honeypot's Start keep the invariant. *)
LEMMA HoneypotPreserves == ASSUME IInv, Honeypot PROVE IInv'
<1> USE DEF IInv
<1>0. \/ stage = "listen" /\ (ListenFake \/ ListenFallback)
      \/ stage = "append" /\ AppendListener
      \/ stage = "serve" /\ ServeListener
  BY DEF Honeypot, ListenFake, ListenFallback, AppendListener, ServeListener
<1>1. starter \in 1..Fallback
  BY <1>0, StarterRange DEF ListenFake, ListenFallback, TypeOK
<1>2. main \notin Unlaunched  BY <1>1, StarterRange DEF QuietBefore
<1>3. UNCHANGED <<main, options, xdp, egress, filter, handler, web, logsClosed, ending>>
  BY <1>0 DEF ListenFake, ListenFallback, AppendListener, ServeListener, ebpf
<1>4. QuietBefore' /\ AttachedAfter'  BY <1>2, <1>3 DEF QuietBefore, AttachedAfter, Unlaunched
<1>5. SUFFICES TypeOK' /\ Listed'  BY <1>4
<1>6. CASE stage = "listen" /\ Listen /\ (ListenFake \/ ListenFallback)
  <2>1. UNCHANGED <<listeners, loops, starter, failed>>  BY <1>6 DEF ListenFake, ListenFallback, Listen
  <2>2. owner' \in [Ports -> Owners] /\ stage' = "append" /\ Listed'
    BY <1>1, <1>3, <1>6, <2>1, ListenKeeps
  <2> QED  BY <1>1, <1>3, <2>1, <2>2 DEF TypeOK, Owners
<1>7. CASE stage = "listen" /\ ~Listen /\ (ListenFake \/ ListenFallback)
  <2>1. /\ UNCHANGED <<owner, stage, listeners, loops>> /\ starter' = starter + 1 /\ failed' \in BOOLEAN
    BY <1>7, StarterRange DEF ListenFake, ListenFallback, TypeOK, Ended
  <2>2. starter' \in 0..Ended  BY <1>1, <2>1, StarterRange
  <2>3. TypeOK'  BY <1>3, <1>7, <2>1, <2>2 DEF TypeOK
  <2>4. Listed'  BY <1>7, <2>1 DEF Listed, Trapped, Pending
  <2> QED  BY <2>3, <2>4
<1>8. CASE stage = "append" /\ AppendListener
  <2>1. Current \in Ports  BY <1>1, CurrentKnown
  <2>2. listeners \in Seq(Ports) /\ listeners' = Append(listeners, Current)
    BY <1>8 DEF AppendListener, TypeOK
  <2>3. listeners' \in Seq(Ports)  BY <2>1, <2>2
  <2>4. Range(listeners') = Range(listeners) \cup {Current}
    <3>1. /\ DOMAIN listeners = 1..Len(listeners) /\ Len(listeners) \in Nat
          /\ DOMAIN listeners' = 1..(Len(listeners) + 1)
          /\ \A i \in 1..Len(listeners) : listeners'[i] = listeners[i]
          /\ listeners'[Len(listeners) + 1] = Current
      BY <2>1, <2>2
    <3> QED  BY <3>1 DEF Range
  <2>5. TypeOK'  BY <1>1, <1>3, <1>8, <2>3 DEF AppendListener, TypeOK
  <2>6. Listed'  BY <1>8, <2>4 DEF AppendListener, Listed, Trapped, Pending
  <2> QED  BY <2>5, <2>6
<1>9. CASE stage = "serve" /\ ServeListener
  <2>1. starter' \in 0..Ended  BY <1>1, <1>9, StarterRange DEF ServeListener
  <2>2. TypeOK'  BY <1>1, <1>3, <1>9, <2>1, CurrentKnown DEF ServeListener, TypeOK
  <2>3. Listed'  BY <1>9 DEF ServeListener, Listed, Trapped, Pending
  <2> QED  BY <2>2, <2>3
<1> QED  BY <1>0, <1>6, <1>7, <1>8, <1>9

(* Every step keeps the invariant. *)
LEMMA StepPreserves == IInv /\ [Next]_vars => IInv'
<1> SUFFICES ASSUME IInv, [Next]_vars PROVE IInv'  OBVIOUS
<1> USE DEF IInv
<1>0. CASE UNCHANGED vars
  BY <1>0 DEF vars, ebpf, pot, TypeOK, QuietBefore, AttachedAfter, Listed, Ours, Trapped, Pending, Current
<1>1. CASE StartProcess \/ New
  <2>1. /\ UNCHANGED <<owner, starter, stage, web, listeners, xdp>>
        /\ main \in Early /\ main' \in Early
    BY <1>1 DEF StartProcess, New, Step, Early, ebpf, pot
  <2>2. TypeOK'  BY <1>1 DEF StartProcess, New, Step, TypeOK, ebpf, pot
  <2> QED
    BY <2>1, <2>2 DEF QuietBefore, AttachedAfter, Listed, Ours, Trapped, Pending, Current, Unlaunched
<1>2. CASE \/ NewFails \/ AttachFails \/ MtlsFails \/ DashboardFails \/ Return
          \/ SendOnClosed \/ Killed \/ CloseListenersTorn
  BY <1>2, DieRestores DEF NewFails, AttachFails, MtlsFails, DashboardFails, Return, SendOnClosed,
     Killed, CloseListenersTorn, Exit
<1>3. CASE AttachXDP
  <2>1. TypeOK'  BY <1>3 DEF AttachXDP, Step, TypeOK, pot
  <2> QED  BY <1>3, <2>1 DEF AttachXDP, Step, QuietBefore, AttachedAfter, Listed, Early, Unlaunched,
              Trapped, Pending, Current, pot
<1>4. CASE \/ AttachTCEgress \/ InitSPA \/ SkipMtls \/ StartOutput \/ Signal \/ StopHandler
          \/ WaitLoops \/ CloseLogs
  <2>1. /\ main \notin Early \cup {"returning"} /\ main' \notin Early
        /\ main' \in Unlaunched => main \in Unlaunched
        /\ UNCHANGED <<xdp, owner, listeners, starter, stage>>
    BY <1>4 DEF AttachTCEgress, InitSPA, SkipMtls, StartOutput, Signal, StopHandler, WaitLoops,
       CloseLogs, Step, Early, Unlaunched, ebpf, pot
  <2>2. TypeOK'
    <3>1. CASE AttachTCEgress  BY <3>1 DEF AttachTCEgress, Step, TypeOK, pot
    <3>2. CASE InitSPA  BY <3>2 DEF InitSPA, Step, TypeOK, ebpf, pot
    <3>3. CASE SkipMtls \/ StartOutput  BY <3>3 DEF SkipMtls, StartOutput, Step, TypeOK, ebpf, pot
    <3>4. CASE Signal \/ WaitLoops
      <4>1. /\ main' \in {"stopHandler", "closeLogs"}
            /\ UNCHANGED <<options, owner, ebpf, handler, pot, web, logsClosed, ending>>
        BY <3>4 DEF Signal, WaitLoops, Step
      <4> QED  BY <4>1 DEF TypeOK, ebpf, pot
    <3>5. CASE StopHandler \/ CloseLogs
      <4>1. /\ main' \in {"closeListeners", "returning", "closeEbpf"}
            /\ handler' \in BOOLEAN /\ logsClosed' \in BOOLEAN
            /\ UNCHANGED <<options, owner, ebpf, pot, web, ending>>
        BY <3>5 DEF StopHandler, CloseLogs, Step, TypeOK
      <4> QED  BY <4>1 DEF TypeOK, ebpf, pot
    <3> QED  BY <1>4, <3>1, <3>2, <3>3, <3>4, <3>5
  <2> QED  BY <2>1, <2>2 DEF QuietBefore, AttachedAfter, Listed, Trapped, Pending, Current
<1>5. CASE LaunchHoneypot
  <2>1. starter = 0  BY <1>5 DEF LaunchHoneypot, Step, QuietBefore, Unlaunched
  <2>2. stage = "listen"  BY <2>1, StarterRange DEF TypeOK
  <2>3. TypeOK'  BY <1>5, <2>2, StarterRange DEF LaunchHoneypot, Step, TypeOK, ebpf
  <2>4. Listed'  BY <1>5, <2>2 DEF LaunchHoneypot, Listed, Pending, Trapped
  <2> QED  BY <1>5, <2>3, <2>4 DEF LaunchHoneypot, Step, QuietBefore, AttachedAfter, Early, Unlaunched, ebpf
<1>6. CASE CheckHoneypot
  <2>1. CASE main = "check" /\ failed /\ Exit  BY <2>1, DieRestores DEF Exit
  <2>2. CASE Step("check", "mtls") /\ UNCHANGED <<options, owner, ebpf, handler, pot, web, logsClosed, ending>>
    <3>1. TypeOK'  BY <2>2 DEF Step, TypeOK, ebpf, pot
    <3> QED  BY <2>2, <3>1 DEF Step, Early, Unlaunched, QuietBefore, AttachedAfter, Listed, Trapped,
                Pending, Current, ebpf, pot
  <2> QED  BY <1>6, <2>1, <2>2 DEF CheckHoneypot
<1>7. CASE StartMtls
  <2>1. TypeOK'  BY <1>7, PortsKnown DEF StartMtls, Step, TypeOK, ebpf, pot
  <2>2. Trapped' = Trapped  BY <1>7, PortsKnown DEF StartMtls, TypeOK, Trapped
  <2> QED  BY <1>7, <2>1, <2>2 DEF StartMtls, Step, Early, Unlaunched, QuietBefore, AttachedAfter,
              Listed, Pending, Current, ebpf, pot
<1>8. CASE WebListen
  <2>1. main \notin Early  BY <1>8 DEF WebListen, QuietBefore
  <2>2. TypeOK'  BY <1>8, PortsKnown DEF WebListen, TypeOK, ebpf, pot
  <2>3. Trapped' = Trapped  BY <1>8, PortsKnown DEF WebListen, TypeOK, Trapped
  <2> QED  BY <1>8, <2>1, <2>2, <2>3 DEF WebListen, QuietBefore, AttachedAfter, Listed, Pending,
              Current, ebpf, pot
<1>9. CASE Honeypot
  BY <1>9, HoneypotPreserves
<1>10. CASE CloseListeners \/ CloseListenersFails
  <2>1. PICK ports : Release(ports)
    BY <1>10 DEF CloseListeners, CloseListenersFails
  <2>2. owner' \in [Ports -> Owners] /\ Trapped' \subseteq Trapped  BY <2>1, ReleaseKeeps
  <2>3. /\ main = "closeListeners" /\ main' \in {"waitLoops", "returning"}
        /\ UNCHANGED <<options, ebpf, handler, pot, web, logsClosed, ending>>
    BY <1>10 DEF CloseListeners, CloseListenersFails, Step
  <2>4. TypeOK'  BY <2>2, <2>3 DEF TypeOK, Owners, ebpf, pot
  <2> QED  BY <2>2, <2>3, <2>4 DEF Early, Unlaunched, QuietBefore, AttachedAfter, Listed, Pending,
              Current, ebpf, pot
<1>11. CASE CloseEbpf
  <2>0. /\ main' = "returning" /\ xdp' \in BOOLEAN /\ egress' \in BOOLEAN
        /\ UNCHANGED <<options, owner, filter, handler, starter, stage, failed, listeners, loops, web,
                       logsClosed, ending>>
    BY <1>11 DEF CloseEbpf, Step, TypeOK, pot
  <2>1. TypeOK'  BY <2>0 DEF TypeOK
  <2> QED  BY <1>11, <2>1 DEF CloseEbpf, Step, Early, Unlaunched, QuietBefore, AttachedAfter, Listed,
              Trapped, Pending, Current, pot
<1> QED
  BY <1>0, <1>1, <1>2, <1>3, <1>4, <1>5, <1>6, <1>7, <1>8, <1>9, <1>10, <1>11 DEF Next, Main

(* The invariant holds in every state of the agent's life. *)
LEMMA Invariant == Spec => []IInv
BY InitEstablishes, StepPreserves, PTL DEF Spec

(* No port of the agent is open without phantom_prog in front of it until Close has        *)
(* closed everything else: attachXDP comes before every goroutine that binds, and Close     *)
(* detaches the program last (agent.go 76, 146-151, 297-318; main.go 244-252).              *)
THEOREM GuardedThroughout == Spec => []NeverUnguarded
<1>1. IInv => NeverUnguarded
  BY DEF IInv, QuietBefore, AttachedAfter, NeverUnguarded
<1> QED  BY <1>1, Invariant, PTL

(* Once the honeypot's Start has ended, Close frees every port the honeypot listens on,     *)
(* whichever of them Start could get (honeypot.go 36-78, 139-146).                          *)
THEOREM StartedIsClosed == Spec => ClosedIfStarted
<1> DEFINE Claim == main = "closeListeners" /\ main' = "waitLoops" /\ starter = Ended => Trapped' = {}
<1>1. IInv /\ [Next]_vars => [Claim]_vars
  <2> SUFFICES ASSUME IInv, Next, main = "closeListeners", main' = "waitLoops", starter = Ended
               PROVE Trapped' = {}
    OBVIOUS
  <2>1. CloseListeners
    BY DEF Next, Main, StartProcess, NewFails, New, AttachFails, AttachXDP, AttachTCEgress, InitSPA,
       LaunchHoneypot, CheckHoneypot, SkipMtls, MtlsFails, StartMtls, DashboardFails, StartOutput,
       StopHandler, CloseListenersFails, CloseListenersTorn, WaitLoops, CloseLogs, CloseEbpf, Return,
       WebListen, Honeypot, ListenFake, ListenFallback, AppendListener, ServeListener, Signal,
       SendOnClosed, Killed, Exit, Die, Step
  <2>2. stage = "listen"  BY StarterRange DEF IInv, TypeOK
  <2>3. Trapped \subseteq Range(listeners)  BY <2>2 DEF IInv, Listed, Pending
  <2>4. Trapped' = Trapped \ Range(listeners)  BY <2>1, ReleaseKeeps DEF CloseListeners, IInv
  <2> QED  BY <2>3, <2>4
<1>2. IInv /\ [Next]_vars => [main = "closeListeners" /\ main' = "waitLoops" /\ starter = Ended => Trapped' = {}]_vars
  BY <1>1
<1> QED  BY <1>2, Invariant, PTL DEF Spec, ClosedIfStarted
=============================================================================
