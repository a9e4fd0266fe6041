----------------------------- MODULE AccessGate ----------------------------
(***************************************************************************)
(* What the whitelist promises to a protected service, with no map, key    *)
(* or processor in sight: a connection attempt is admitted only while the  *)
(* address holds an unexpired grant.  Nothing is promised to the holder of *)
(* a grant; XdpGate's GrantHonoured is about that.                         *)
(***************************************************************************)
EXTENDS Integers

CONSTANTS Addresses, Checkers, MaxTime, MaxExpiry

VARIABLES
    time,
    grants,   \* set of [ip, until]
    verdict   \* what each checker decided last: "none", "admitted", "refused"

vars == <<time, grants, verdict>>

Init ==
    /\ time = 0
    /\ grants = {}
    /\ verdict = [c \in Checkers |-> "none"]

Grant(a, until) ==
    /\ grants' = grants \cup {[ip |-> a, until |-> until]}
    /\ UNCHANGED <<time, verdict>>

Admit(c, a) ==
    /\ verdict[c] = "none"
    /\ \E g \in grants : g.ip = a /\ time <= g.until
    /\ verdict' = [verdict EXCEPT ![c] = "admitted"]
    /\ UNCHANGED <<time, grants>>

Refuse(c) ==
    /\ verdict[c] = "none"
    /\ verdict' = [verdict EXCEPT ![c] = "refused"]
    /\ UNCHANGED <<time, grants>>

Done(c) ==
    /\ verdict[c] # "none"
    /\ verdict' = [verdict EXCEPT ![c] = "none"]
    /\ UNCHANGED <<time, grants>>

Pass == time < MaxTime /\ time' = time + 1 /\ UNCHANGED <<grants, verdict>>

Next ==
    \/ \E a \in Addresses, until \in 0 .. MaxExpiry : Grant(a, until)
    \/ \E c \in Checkers : Refuse(c) \/ Done(c) \/ \E a \in Addresses : Admit(c, a)
    \/ Pass

Spec == Init /\ [][Next]_vars
=============================================================================
