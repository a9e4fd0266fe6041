--------------------------- MODULE FleetTelemetry ---------------------------
(***************************************************************************)
(* Telemetry of the fleet: FleetClient.telemetryLoop in the agents         *)
(* (internal/agent/fleet_client.go) and FleetManager in the control plane  *)
(* (internal/webdash/fleet.go), with requests that are lost, time out or   *)
(* are handled late, look-ups of a counter that fail, agents that restart  *)
(* with counters at zero and a manager that restarts with its database.    *)
(*                                                                         *)
(* The address, LastSeen and the reads of the database are left out: no    *)
(* code decides anything on them.                                          *)
(***************************************************************************)
EXTENDS Naturals, Sequences, FiniteSets

CONSTANTS
    Agents,
    MaxCount,     \* bound: last value of a counter
    MaxRestarts,  \* bound: restarts of each agent, and of the manager
    MaxLate,      \* bound: abandoned requests of an agent that are still open
    MaxFaults     \* bound: failed look-ups of each agent

ASSUME FleetAssumption ==
    MaxCount \in Nat /\ MaxRestarts \in Nat /\ MaxLate \in Nat /\ MaxFaults \in Nat

(* The maps that are looked up, in this order, for one report. *)
Counters == <<"dropped", "authSuccess", "authFailed">>
Names == {"dropped", "authSuccess", "authFailed"}
Zero == [k \in Names |-> 0]

VARIABLES
    count,     \* the eBPF counters of each agent
    life,      \* how often the agent has been restarted
    pc,        \* telemetryLoop: "wait", "read", "post", "await"
    next,      \* index of the next counter to look up
    snap,      \* dropped, authSuccess and authFailed of this round
    missed,    \* the counters whose look-up failed in this round
    faults,    \* how many look-ups have failed
    posts,     \* requests that are neither answered nor lost
    row,       \* the agent's row in fleet.db: {} or one report
    restarts   \* restarts of the manager

agentVars == <<count, life, pc, next, snap, missed, faults>>
fleetVars == <<agentVars, posts, row, restarts>>

FleetInit ==
    /\ count = [a \in Agents |-> Zero]
    /\ life = [a \in Agents |-> 0]
    /\ pc = [a \in Agents |-> "wait"]
    /\ next = [a \in Agents |-> 1]
    /\ snap = [a \in Agents |-> Zero]
    /\ missed = [a \in Agents |-> {}]
    /\ faults = [a \in Agents |-> 0]
    /\ posts = {}
    /\ row = [a \in Agents |-> {}]
    /\ restarts = 0

-----------------------------------------------------------------------------
(* phantom_prog counts. *)
Count(a, k) ==
    /\ count[a][k] < MaxCount
    /\ count' = [count EXCEPT ![a][k] = @ + 1]
    /\ UNCHANGED <<life, pc, next, snap, missed, faults, posts, row, restarts>>

TickerFires(a) ==
    /\ pc[a] = "wait"
    /\ pc' = [pc EXCEPT ![a] = "read"]
    /\ next' = [next EXCEPT ![a] = 1]
    /\ snap' = [snap EXCEPT ![a] = Zero]
    /\ UNCHANGED <<count, life, missed, faults, posts, row, restarts>>

(* On to the next map, or to the request. *)
LookedUp(a) ==
    /\ pc[a] = "read"
    /\ pc' = [pc EXCEPT ![a] = IF next[a] = Len(Counters) THEN "post" ELSE "read"]
    /\ next' = [next EXCEPT ![a] = IF @ = Len(Counters) THEN 1 ELSE @ + 1]
    /\ UNCHANGED <<count, life, posts, row, restarts>>

(* One Lookup; traffic goes on between two of them. *)
Lookup(a) ==
    /\ LookedUp(a)
    /\ snap' = [snap EXCEPT ![a][Counters[next[a]]] = count[a][Counters[next[a]]]]
    /\ UNCHANGED <<missed, faults>>

(* Its error is dropped, and zero is reported. *)
LookupFails(a) ==
    /\ LookedUp(a)
    /\ faults[a] < MaxFaults
    /\ faults' = [faults EXCEPT ![a] = @ + 1]
    /\ missed' = [missed EXCEPT ![a] = @ \cup {Counters[next[a]]}]
    /\ UNCHANGED snap

(* One request.  Its life, whether the agent has given it up and the       *)
(* look-ups that failed are known to no code.                              *)
Report(a, late) ==
    [agent |-> a, snap |-> snap[a], life |-> life[a], late |-> late, missed |-> missed[a]]

(* The round is over: its variables go out of scope. *)
RoundEnds(a) ==
    /\ pc' = [pc EXCEPT ![a] = "wait"]
    /\ snap' = [snap EXCEPT ![a] = Zero]
    /\ missed' = [missed EXCEPT ![a] = {}]

(* Mutant: the loop does not wait for the answer. *)
PostAsync(a) ==
    /\ pc[a] = "post"
    /\ pc' = [pc EXCEPT ![a] = "wait"]
    /\ posts' = posts \cup {Report(a, FALSE)}
    /\ UNCHANGED <<count, life, next, snap, missed, faults, row, restarts>>

Post(a) ==
    /\ pc[a] = "post"
    /\ pc' = [pc EXCEPT ![a] = "await"]
    /\ posts' = posts \cup {Report(a, FALSE)}
    /\ UNCHANGED <<count, life, next, snap, missed, faults, row, restarts>>

(* The answer, or an error when the manager's side of the connection is gone. *)
PostReturns(a) ==
    /\ pc[a] = "await" /\ Report(a, FALSE) \notin posts
    /\ RoundEnds(a)
    /\ UNCHANGED <<count, life, next, faults, posts, row, restarts>>

(* http.Client gives up; the manager may have the request already. *)
TelemetryTimeout(a) ==
    /\ pc[a] = "await" /\ Report(a, FALSE) \in posts
    /\ Cardinality({p \in posts : p.agent = a /\ p.late}) < MaxLate
    /\ RoundEnds(a)
    /\ posts' = (posts \ {Report(a, FALSE)}) \cup {Report(a, TRUE)}
    /\ UNCHANGED <<count, life, next, faults, row, restarts>>

(* The agent dies and starts again, with new maps. *)
AgentRestart(a) ==
    /\ life[a] < MaxRestarts
    /\ life' = [life EXCEPT ![a] = @ + 1]
    /\ count' = [count EXCEPT ![a] = Zero]
    /\ RoundEnds(a)
    /\ next' = [next EXCEPT ![a] = 1]
    /\ posts' = {[p EXCEPT !.late = @ \/ p.agent = a] : p \in posts}
    /\ UNCHANGED <<faults, row, restarts>>

-----------------------------------------------------------------------------
(* A request is lost or cut off before its body was read, or db.Save fails: *)
(* its error is dropped and the agent is told that all is well.             *)
NotSaved(p) ==
    /\ posts' = posts \ {p}
    /\ UNCHANGED <<agentVars, row, restarts>>

(* Mutant: db.Create, which fails for an agent that has a row. *)
RegisterAgentOnce(p) ==
    /\ posts' = posts \ {p}
    /\ row' = [row EXCEPT ![p.agent] = IF @ = {} THEN {p} ELSE @]
    /\ UNCHANGED <<agentVars, restarts>>

(* Mutant: the reported totals are added to the stored ones. *)
RegisterAgentAdds(p) ==
    /\ posts' = posts \ {p}
    /\ row' = [row EXCEPT ![p.agent] =
                  IF @ = {} THEN {p}
                  ELSE {[p EXCEPT !.snap = [k \in Names |-> p.snap[k] + r.snap[k]]] : r \in @}]
    /\ UNCHANGED <<agentVars, restarts>>

(* handleFleetTelemetry: the row is replaced under FleetManager.mu. *)
RegisterAgent(p) ==
    /\ posts' = posts \ {p}
    /\ row' = [row EXCEPT ![p.agent] = {p}]
    /\ UNCHANGED <<agentVars, restarts>>

(* NewFleetManager opens the database of its predecessor. *)
ManagerRestart ==
    /\ restarts < MaxRestarts
    /\ restarts' = restarts + 1
    /\ posts' = {}
    /\ UNCHANGED <<agentVars, row>>

TelemetryLoop(a) == TickerFires(a) \/ Lookup(a) \/ Post(a) \/ PostReturns(a)

FleetNext ==
    \/ \E a \in Agents :
          \/ \E k \in Names : Count(a, k)
          \/ TelemetryLoop(a)
          \/ LookupFails(a)
          \/ TelemetryTimeout(a)
          \/ AgentRestart(a)
    \/ \E p \in posts : NotSaved(p) \/ RegisterAgent(p)
    \/ ManagerRestart

(* The ticker ticks, and not every request is lost, late or refused by the database. *)
FleetFairness ==
    \A a \in Agents :
        /\ WF_fleetVars(TelemetryLoop(a))
        /\ SF_fleetVars(\E p \in posts : p.agent = a /\ RegisterAgent(p))

FleetSpec == FleetInit /\ [][FleetNext]_fleetVars /\ FleetFairness

-----------------------------------------------------------------------------
Values == [Names -> 0 .. MaxCount]
Reports == [agent : Agents, snap : Values, life : 0 .. MaxRestarts, late : BOOLEAN,
            missed : SUBSET Names]

(* Type invariant; an agent has one row at most. *)
FleetTypeOK ==
    /\ count \in [Agents -> Values]
    /\ life \in [Agents -> 0 .. MaxRestarts]
    /\ pc \in [Agents -> {"wait", "read", "post", "await"}]
    /\ next \in [Agents -> DOMAIN Counters]
    /\ snap \in [Agents -> Values]
    /\ missed \in [Agents -> SUBSET Names]
    /\ faults \in [Agents -> 0 .. MaxFaults]
    /\ posts \subseteq Reports
    /\ row \in [Agents -> SUBSET Reports] /\ \A a \in Agents : \A r, s \in row[a] : r = s
    /\ restarts \in 0 .. MaxRestarts

Known(a) == row[a] \cup {p \in posts : p.agent = a}

(* What is shown of an agent, and what is still on its way, comes from one *)
(* of its lives so far; of the present one it shows no more than the maps  *)
(* have counted since that life began (fleet_client.go lines 48-62,        *)
(* fleet.go lines 51-56).                                                  *)
ShownWasCounted ==
    \A a \in Agents : \A r \in Known(a) :
        /\ r.life <= life[a]
        /\ r.life = life[a] => \A k \in Names : r.snap[k] <= count[a][k]

(* Counters shown for one life of an agent go back only when a request     *)
(* that the agent had given up on is handled after a newer one, or to the  *)
(* zero of a failed look-up (fleet_client.go lines 52-54 and 64-75,        *)
(* fleet.go lines 51-56).                                                  *)
OnlyLateGoesBack ==
    [][\A a \in Agents : \A old \in row[a], new \in row'[a] : \A k \in Names :
          old.life = new.life /\ new.snap[k] < old.snap[k]
              => new.late \/ k \in new.missed]_fleetVars

(* What the agent's next report will show at least, failed look-ups apart. *)
Looked(a, k) ==
    /\ k \notin missed[a]
    /\ \/ pc[a] \in {"post", "await"}
       \/ pc[a] = "read" /\ \E i \in 1 .. next[a] - 1 : Counters[i] = k

Floor(a, k) == IF Looked(a, k) THEN snap[a][k] ELSE count[a][k]

(* Reports of the agent's present life, shown, under way or late, show no more than its  *)
(* next one will.                                                                        *)
NextIsNewer ==
    \A a \in Agents :
        /\ \A k \in Names : snap[a][k] <= count[a][k]
        /\ \A r \in Known(a) : /\ r.life <= life[a]
                               /\ r.life = life[a] => \A k \in Names : r.snap[k] <= Floor(a, k)

(* A request that was not given up is the one its agent waits for. *)
OneAwaited ==
    \A p \in posts : ~p.late => pc[p.agent] = "await" /\ p = Report(p.agent, FALSE)

(* The inductive invariant behind OnlyLateGoesBack. *)
FleetIInv == FleetTypeOK /\ NextIsNewer /\ OneAwaited

(* Once counters rest, every row comes to show them and keeps showing      *)
(* them: periodic reports repair lost, failed and late ones, and failed      *)
(* look-ups.                                                              *)
CatchesUp == <>[](\A a \in Agents : \E r \in row[a] : r.snap = count[a] /\ r.life = life[a])
=============================================================================
