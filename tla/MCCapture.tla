----------------------------- MODULE MCCapture ------------------------------
(***************************************************************************)
(* What the honeypot captures and where it goes: small instances of        *)
(* HoneypotSession and LogExport in one run.  They share no variable, so   *)
(* every behaviour of both is one of each, and it is enough to let one of  *)
(* them go on while the other rests.                                       *)
(***************************************************************************)
EXTENDS HoneypotSession, LogExport

CONSTANTS c1, c2

SomeArgs ==
    {[to |-> "home", path |-> <<>>], [to |-> "up", path |-> <<>>],
     [to |-> "abs", path |-> Root], [to |-> "abs", path |-> <<"etc", "nginx", "nginx.conf">>],
     [to |-> "abs", path |-> <<"etc", "nginx">>],
     [to |-> "rel", path |-> <<"etc">>], [to |-> "rel", path |-> <<"config.txt">>]}

(* How the two nodes answer. *)
Unreliable == [n \in 1 .. 2 |-> Answer]
FirstErrs == <<{"error"}, {"ok"}>>

VARIABLE running

Both == <<sessionVars, vars, running>>

(* Nothing follows the exporter's end. *)
Ended ==
    /\ running = "exporter" /\ closing = "closed"
    /\ UNCHANGED Both

CaptureInit == SessionInit /\ Init /\ running \in {"sessions", "exporter"}

CaptureNext ==
    \/ running = "sessions" /\ SessionNext /\ UNCHANGED <<vars, running>>
    \/ running = "exporter" /\ Next /\ UNCHANGED <<sessionVars, running>>
    \/ Ended

CaptureSpec ==
    /\ CaptureInit /\ [][CaptureNext]_Both
    /\ \/ running = "sessions" /\ SessionFairness
       \/ running = "exporter" /\ Fairness
=============================================================================
