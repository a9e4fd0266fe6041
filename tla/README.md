# Phantom Grid in TLA+

TLA+ models of the phantom-grid agent, the TLC runs that check them on small instances, and
proofs that TLAPS checks for every value of the constants. Every definition is translated from
the Go and C sources; `PROJECT.json` maps each one to its lines.

## 1. The system

Phantom Grid protects a host with an eBPF/XDP program and a user-space agent.

| Component | State it keeps | Operations | What makes it correct |
|---|---|---|---|
| SPA packets and client (`internal/spa/packet.go`, `totp.go`, `pkg/spa`) | none | create, parse, validate TOTP, verify signature | what a known client with a close clock creates is accepted |
| Verifier (`internal/spa/verifier.go`) | `seenCache`, a map hash -> time behind a mutex | `VerifyPacket` from many goroutines; purge above 1000 entries | no packet accepted twice; nothing fresh called a replay; purging is safe |
| Handler (`internal/spa/handler.go`) | one receive buffer, stop channel, UDP socket | read loop, one goroutine per datagram, `Stop` | a verdict should be about the datagram it belongs to, and is not; `Stop` ends everything |
| Whitelist (`phantom.c`, `internal/spa/map_loader.go`) | LRU map address -> expiry, shared by all CPUs and user space | magic packet, check on a critical port, `WhitelistIP` | admitted only with an unexpired grant; a grant lasts until it expires |
| XDP classification (`phantom.c`) | counters | pass, drop, redirect to the honeypot, rewrite TTL and window | protected ports stay closed; traps answer; a redirected connection should work and does not; checksums stay right |
| Log pipeline (`internal/logger`, `internal/exporter`) | `logChan`, buffer, batches in flight | `processLogs`, `Export`, `flushLoop`, `BulkIndex`, `Close` | nothing vanishes or is duplicated on the way; everything should arrive, whichever node fails and `Close` included; `Close` returns |
| Dashboard login (`internal/webdash/auth.go`) | users, sessions, the users file | login, logout, password change, clean-up, restart | an ended session stays dead, and a replaced password unless the users file was spoilt |
| Dashboard stream and statistics (`internal/webdash/server.go`) | set of client channels, owned by one goroutine | add, remove, broadcast | a slow or leaving client never stops the hub |
| Fleet (`internal/webdash/fleet.go`, `internal/agent/fleet_client.go`) | agents by id with their last telemetry | post telemetry, post logs, list | the database follows the agents through lost, late and repeated posts and restarts |
| Agent (`internal/agent/agent.go`, `cmd/agent/main.go`) | eBPF objects, links, sub-components | start, close | nothing is open unguarded; what is required is there; everything started is closed, in order |
| Honeypot (`internal/honeypot`, `internal/mirage`) | listeners, wait group; per connection a service, a login stage, a current directory | bind, fallback, accept, `Close`; banner, read, log, answer | `Close` returns; every connection is served whatever others do, silent ones end, and what a peer does is logged first |
| mTLS proxy (`internal/proxy`) | connections | accept, handshake, identity check, dial, two copying goroutines per connection | only listed identities reach the target; nothing sent is lost while its reader still talks; both directions end |
| Egress filter (`phantom_egress.c`) | counters | classify a payload prefix; it only counts, nothing is dropped | a payload is counted under the pattern it has |

Interaction: phantom_prog and the map loader share `spa_whitelist`; the handler's goroutines
share the verifier's cache and, by accident, the receive buffer; every component writes to
`logChan`, which the log manager drains into the exporter and the dashboard; HTTP goroutines
share the `AuthManager`; the agent starts and closes all of them.

What is hard here: goroutines and CPUs that interleave between two map operations or around
an unlock (`phantom.c` 134-143, `elk.go` 98-104, `handler.go` 161, `honeypot.go` 36-46 against 141); windows of time that have
to fit each other (`verifier.go` 139 against the TOTP window); retries of what was already
done (`elk.go` 226-241); shutdown while others still work (`manager.go` 167); a crash in the
middle of a file (`auth.go` 96); three goroutines after the same two ports (`main.go` 246,
`honeypot.go` 63); two copying goroutines of which the first to end closes for both
(`mtls.go` 135); reports that arrive after newer ones (`fleet.go` 92); TCP through a filter that keeps no connections (`phantom.c` 242-295); and
arithmetic at its edges (`verifier.go` 61, `phantom.c` 91-97). The list is
under "hazards" in `PROJECT.json`.

## 2. Modules

| Module | Models |
|---|---|
| `SpaPacket` | parsing, address binding, timestamp, TOTP and signature checks, and the client's packet construction, as operators |
| `SpaVerifier` | concurrent `VerifyPacket` calls, the replay cache and the clock |
| `SpaHandler` | extends `SpaVerifier` with the receive loop, the shared buffer, goroutines and `Stop` |
| `SpaVerifierProofs` | theorems about both |
| `AccessGate` | abstract: a connection is admitted only while its address holds an unexpired grant |
| `XdpGate` | the whitelist map under several CPUs and user space; implements `AccessGate` |
| `XdpGateProofs` | its theorems |
| `XdpTraffic` | TCP segments through `phantom_prog`: classification, redirection, checksums, handshakes |
| `XdpTrafficProofs` | its theorems, and those about `EgressFilter` |
| `LogExport` | log manager and Elasticsearch exporter |
| `WebAuth` | dashboard login under concurrent requests, file writes and restarts |
| `WebAuthProofs` | its theorems |
| `LogStream` | the dashboard's hub of SSE connections, the log manager's route to it, log posts of the fleet |
| `Agent` | start, close, kill and restart of the agent; honeypot, dashboard and proxy binding ports |
| `AgentProofs` | its theorems |
| `HoneypotSession` | the honeypot's connections: accept loops, six fake services, the fake file system, deadlines, the shared log channel |
| `CaptureProofs` | theorems about `LogExport` and `HoneypotSession`: what is captured and where it goes |
| `MtlsProxy` | the proxy's connections: accept, handshake, SPIFFE check, dial, two `io.Copy`, closing |
| `MtlsProxyProofs` | its theorems |
| `FleetTelemetry` | telemetry of agents and the fleet manager's database, with unreliable posts and restarts |
| `WebdashProofs` | theorems about `LogStream` and `FleetTelemetry` |
| `EgressFilter` | the classification of payloads that leave the honeypot, as operators |
| `MC...` | values of the constants for TLC |

Definitions whose comment begins with "Mutant" are not part of a specification. Each is what a
plausible slip in the code would make of the definition after it; `PROJECT.json` names the
property it breaks.

### SpaPacket and SpaVerifier

A datagram is a record `[body, sig]`; `sig` says which key signed which body, so a signature
verifies exactly for that body and key, and equal records stand for equal SHA-256 hashes. The
timestamp difference is computed in two's complement (`Int64`, with `Half` for 2^63). `TOTP` is
an arbitrary function of secret and step; the assumptions say what is needed of it.

`VerifyPacket` is one action per step at which another goroutine or the clock can intervene:
`Parse`, `CheckBinding`, `CheckTimestamp` (reads the clock), `TryTOTPSecret` (each iteration reads
the clock again), `CheckSignature`, `HashPacket`, and `CheckReplay`, the section under the mutex
with its purge. `accepts` counts acceptances and is history only. The clock does not go back, and
a call ends at most `MaxDelay` seconds after it read the clock: without such a bound a suspended
goroutine could insert an entry that is already old.

The client is `SendMagicPacket` with `CreateAsymmetricPacket` and `CreateDynamicPacket`: version 2, bound to
the client's address, a code and a timestamp from two reads of the client's clock, no padding or 16
to 64 bytes of it. `ClientPackets(a, t)` is what a client that the server knows may send when its clock
shows t, `CloseClocks(u)` the clocks that are close enough to the server's u; `HonestAccepted` says that
no such packet is rejected. A client with another clock, another address (behind NAT) or no
common secret is outside it.

The steps that look at bytes take them as a parameter, so `SpaHandler` runs the same actions on
`View(g)`, the part of the shared buffer that goroutine `g` was given. `ReadBody` and
`ReadSignatureAndSpawn` split the kernel's copy into the buffer, so that goroutines may also see a
new body before an old signature. Any number of goroutines may run in the code; the instances
have one for every datagram.

### AccessGate and XdpGate

An address is its four bytes in network order, a map key the four bytes the map compares.
`phantom_prog` on a CPU is `CriticalPacket` (lookup), `CompareExpiry`, `DeleteExpired`, `Verdict`,
or `MagicPacket`, `StoreToken`; user space is `WhitelistIP` (reads `/proc/uptime`, which may fail)
and `PutGrant`. `Update` is the kernel's LRU update: a new key in a full map evicts another one.
A lookup returns a copy of the expiry; the kernel returns a pointer, and what an evicted element's
memory holds afterwards is not modelled. `puts` and `latest` are history.

The refinement maps `puts` to the abstract grants and a CPU's position to its verdict, over map
keys. What is proved is therefore about keys; that user space writes the key the kernel reads is
a different question, which run `gate_byteorder` answers.

### LogExport

`bufferMutex` is held except during the network call, so each locked stretch is one action.
`drain`, `ticker` and `closer` are the goroutines that can be inside `flushLocked`. A node
may accept (`ok`), refuse the connection, answer with an error, index the batch and lose the reply, or
answer 200 and reject a document in the item list of its answer (`partial`, `rejected`), which the code does not read.
`Answers` gives each node the answers it may give in a run.
A request that reached a server has consumed the shared body, which is why the next address gets
an empty one. Messages are distinct and their order is not observed. The dashboard branch of
`processLogs` is a non-blocking send and touches none of this state; `LogEvent` has no caller.

### WebAuth

A locked stretch is one action, except that `ChangePassword` holds the lock while the file is
truncated (`ChangePassword`) and written (`SaveUsers`, `WriteFile`). `Restart` is a stop and start of the
process: sessions are lost, users come from the file, and a file without an admin gives the
default account. `Torn` lets it happen in the middle of a write, `WriteFails` lets the write fail.
`ended` and `retired` are history, and so is `spoilt`: the last
save of the file was torn by a restart or did not go through.

### XdpTraffic

A segment has the fields `phantom_prog` reads or writes and its two checksums; the sum of all other
words is `Rest`, which is not zero because the protocol number is among them. `CsumReplace2`,
`MutateOsPersonality` and `Redirect` do the arithmetic of the code on numbers (the code's byte
swaps do not change a ones' complement sum). `PhantomProg` gives the segment that reaches the
host, or nothing. The network keeps every segment, so any of them may come late, again, or never.
Peers and host have the handshake of TCP and answer what they do not expect with a reset; this
part is external. `white` is the answer of `is_spa_whitelisted`, whose own steps are in `XdpGate`: `Grant` and
`Expire` change it as a whole.
IP options and fragments are left out: headers have their usual length.

### LogStream

`broadcastLogs` owns `clients`; joining and leaving are rendezvous on unbuffered channels, one action
of both sides that needs the hub idle (`msg = None`). A broadcast visits one client per step, so
connections go on between two visits. The code sets no deadline for `Fprintf` and `Flush`, so writing an event is two
steps, `WriteEvent` and `Written`, and only for a browser that is gone is the second one sure to come: another may read slowly or never. Closing the channel is a step after leaving. A fleet post may be lost before it reaches
the server, and its client may give up while the server's handler still waits for room (`abandoned` is
history: the posts given up on).

### Agent

`main` is the position of the main goroutine; the honeypot's `Start` (`starter`) and the dashboard's
`ListenAndServe` (`web`) are goroutines of their own. For each port `Start` listens, appends to `h.listeners` and
starts the accept loop, and `stage` says which of these is next, so that `Close` may come between any two. `net.Listen`
succeeds only on a free port and may fail on any. `Close` of the honeypot goes over the slice as it is then; it may stop at a
listener that does not close (`CloseListenersFails`), and while `append` stores a new slice it may
read an element that is not there (`CloseListenersTorn`, the data race's worst outcome). A port has at most one
owner, and other programs may hold ports from the beginning. `Die` is every end of the process: `log.Fatalf`, a kill,
a panic, or the return from `main`; the kernel takes back sockets and the XDP link, but a TC filter
stays on the interface, and `ending` remembers how the process ended. Accept loops have no exit in the code, so `loops` never shrinks before
the process ends.

### HoneypotSession

A connection goes from the kernel's backlog through its accept loop (`Accept`, `Spawn`) to a
goroutine that logs the trap hit, sends a banner and then reads and reacts. What a handler does
with one input is a reaction: the log lines it sends, one `LogLine` step each because every send
may have to wait, and then one `AnswerAndRead` with the state that follows (directory and prompt of the fake
shell, telnet's question, MySQL's `authenticated`). `Reactions` gives the set of reactions of each
service. A path is the list of what its slashes separate, so that `currentDir + "/" + dir` in `/`
is `//dir`, as in the code. `FallSilent` is a peer that keeps its connection and sends nothing;
`ReadTimeout` exists for the four handlers that set a deadline.

### MtlsProxy

A connection goes through the steps of `handleConnection`; the two goroutines of `io.Copy` are `copy[c][s]`,
the copy that reads from side s, with a read, a write and a report per step. `errc` is the channel of two results; the first one
lets the handler return, and its deferred calls close the target, then the client. Peers send
chunks, half-close (`PeerFin`), or vanish (`PeerGone`) whenever they like; a chunk is only a number, since
`io.Copy` keeps order. A read or write on a connection that the proxy has closed fails. The
handshake succeeds for a certificate of the CA, whose chain check is the TLS library's. After the
dial the proxy never looks at an identity again.

### FleetTelemetry

`telemetryLoop` is one action per map lookup (`Lookup`, or `LookupFails`, which leaves a zero behind), since traffic
goes on between two of them, then `Post` and
the wait for its answer. A request in `posts` may be registered, lost, or given up by the agent (`TelemetryTimeout`)
and still be registered later. `NotSaved` also stands for `db.Save` failing: its error is dropped and the
agent gets status 200. `RegisterAgent` replaces the row under `FleetManager.mu`. An agent that restarts counts
from zero; a manager that restarts keeps `fleet.db` and loses open requests. `life`, `late` and `missed` are
history. `GetAgents`, `GetAgent`, `handleStats` and `handleMetrics` only read.

### EgressFilter

A payload is its length, the pattern it begins with and the positions of its Base64 characters.
`PhantomEgressProg` gives the class under which a packet is counted. The module has theorems and no run:
it has no steps, and the theorems cover all payloads.

## 3. Runs

| Run | Shows |
|---|---|
| `verifier_replay` | `NoReplay`, `NoFalseReplay`, `ForgottenIsStale`, `HonestAccepted`: two overlapping calls, three good packets, purge above one entry, all windows passed |
| `handler_mixed` | `GrantNeedsGenuine`, `StopEnds`: three goroutines on the shared buffer, a padded, a wrongly signed and a static packet |
| `gate_sound` | `GateSpec`: two CPUs, user space, a map of one entry, two addresses each of which is the other reversed, so that a user-space key is looked up too |
| `capture` | `WorkingDirKnown`, `CapturedFirst`, `Greeted`, `SilentEnds`: two connections with any of the six services, a log channel of one line, peers that talk, hang up or fall silent. `Conserved`, `IndexedOnce`, `CloseTerminates`: three flushing goroutines, two nodes with all answers |
| `webdash` | `EndedStaysEnded`, `OnlySpoiltComesBack`: two requests, three passwords, writes that are torn by a restart or fail. `ShownWasCounted`, `OnlyLateGoesBack`, `FleetCatchesUp`: one agent with three counters, a failed look-up, a late post, a restart of either side, failed saves |
| `agent_life` | `NeverUnguarded`, `ClosedIfStarted`, `FallbackServed`: any process life, repeated, with two fake ports. `TrafficTypeOK`, `OnlyTrapsReached`, `LooksDead`, `ChecksumsValid`, `TrapAnswers`: a port of every kind, 21 on both lists, scans, a whitelist that comes and goes |
| `stream_busy` | `NoSendOnClosed`, `StreamInOrder`, `PostsInOrder`, `GoneForgotten`, `PostsBroadcast`: two browsers that may stop reading in the middle of a write, a local message and two posts, all channels of size one |
| `proxy_relay` | `OnlyAuthorised`, `HungUpAfterAll`, `EndsTogether`, `AlwaysAccepts`: two connections, certificates with a listed, an unlisted and no identity, peers that stall, half-close and vanish |

`capture`, `webdash` and `agent_life` each check two modules that share no variable. Every behaviour of the two side by side
is a behaviour of the one interleaved with a behaviour of the other, and each property speaks of one of them, so
nothing is lost when `running`, chosen once at the beginning, lets one of them go on while the other rests in an initial state.
The fairness is that of the one that goes on, and `FleetCatchesUp` is `CatchesUp` where the fleet does.

Four runs expect a violation: each checks one property that a comment or a message of the
repository states and that the code does not have. `PROJECT.json` quotes the line under "findings".

| Run | Property | What TLC finds |
|---|---|---|
| `gate_byteorder` | `GrantHonoured` | a user-space grant is stored under the reversed address (`map_loader.go` 87) |
| `capture_drained` | `Delivered` | a first node that answers with an error uses up the body meant for the second one (`elk.go` 228-241), so nothing is ever delivered; with a first node that refuses the connection `Delivered` holds |
| `agent_failfast` | `FailsFast` | the look at `honeypotErrChan` comes before the goroutine had time to fail, and the agent runs on without port 9999 (`agent.go` 154) |
| `agent_shutdown` | `GracefulShutdown` | after a signal the process stays in `wg.Wait`: an accept loop answers the error of its closed listener with `continue` (`honeypot.go` 85-88 and 146). Where there is no accept loop, a goroutine that still logs panics on the closed `logChan` (`manager.go` 169) |

The type invariant of a module without one in its run is the first conjunct of its main invariant, or, in `Agent` and
`FleetTelemetry`, part of the inductive invariant that is proved.

What the runs leave room for, so that no property is read for more than it says:

- `GrantNeedsGenuine` does not say whose datagram was verified. A goroutine's slice aliases the receive buffer
  (`handler.go` 161), so it can verify the bytes of the datagram that came after its own and whitelist its own sender for
  them; the address check and the signature check may even concern different datagrams.
- `GateSpec` says who is admitted, not who is kept admitted: a CPU that saw an expired entry deletes the one another CPU has
  put in its place (`phantom.c` 134-143).
- `LooksDead` is about critical ports only. Redirection does not work: the answer to a redirected SYN comes from port
  9999, not from the dialled port, and the peer resets it (`phantom.c` 281-294, `redirect_map` is never used), against
  "redirects it transparently" (README of the repository, line 22). It follows from `OnlyTrapsReached`: no segment from outside, one for a connection
  that the host itself opened included, reaches an ordinary port.
- `Conserved` counts a document rejected inside a 200 answer as accounted for; the code neither reads the item list nor
  puts the document back (`elk.go` 248). And what `processLogs` still holds when `Close` returns stays in the buffer: nobody
  flushes it any more (`manager.go` 167-174).
- `OnlySpoiltComesBack` leaves the fault itself: a process that dies between truncating and writing `users.json` comes back with
  the default password, and a failed write is reported as a success, so that a restart brings the old password back
  (`auth.go` 96), against "Old password should no longer work" (`auth_test.go` 88).
- `NeverUnguarded` ends where `Close` has closed everything else: from `CloseEbpf` to the end of the process the dashboard
  and the proxy, which `Close` does not know of, are open without `phantom_prog`.
- `ClosedIfStarted` is about a `Start` that has ended. While it binds, `Close` misses the listener that is not appended yet
  (`honeypot.go` 36-46 and 141), against "Close stops all listeners" (`honeypot.go` 138).
- `FallbackServed` counts an error in `honeypotErrChan` as an answer; that nobody reads it is what `agent_failfast` shows.
- `HungUpAfterAll` speaks of sides that still talk: the proxy hangs up when the first direction ends, so a client that
  half-closes after its request loses the rest of the answer (`mtls.go` 135), and without deadlines a connection
  lasts as long as its peers keep it.

The whitelist is an LRU map and evicts
unexpired grants when it is full, and without `/proc/uptime` an expiry may lie years ahead (`map_loader.go` 96-98). An int64
timestamp difference of -2^63 passes (`verifier.go` 61).
A late
telemetry post, or a failed look-up, sets the shown counters back until the next one, and the list of "all active
agents" (`fleet.go` 58) has every agent ever seen. In the fake shell a relative `cd` never works in `/`, and `cd` enters files; a telnet peer
gets two attempts, not three (`handlers.go` 48); telnet and FTP sessions have no deadline.

Outside the models, met while reading for them: `LoadKeysFromFile` trims white space from raw binary keys,
so a generated key that begins or ends with such a byte is refused (`config/spa.go` 90-93 and 104-107);
`spa-client` strips one newline from the TOTP file where the agent strips all of newline, return and
NUL (`cmd/spa-client/main.go` 201, `cmd/agent/main.go` 181); `spa-client -mode dynamic` never sets an HMAC
secret and always fails (`cmd/spa-client/main.go` 147-181, `client_dynamic.go` 41).

**Bounds.** Verifier: a TOTP step of 2 s with tolerance 1, a window of 7 s and a delay of 1 s
satisfy the same inequality as 30 s, 1 step and 300 s; ten seconds let an entry be accepted,
purged and tried again; codes repeat after 11 steps, just outside the horizon. Three packets
and `PurgeAbove = 1` make purges happen with live and dead entries in the cache. Handler: three
datagrams give every pair of overlaps and a mixture of body and signature. Gate: two addresses, 10.0.0.1 and
1.0.0.10, of which each is the key user space writes for the other, and a map of one entry in which every new
grant evicts another. Export: three messages and batches of two
give a full batch, a remainder and appends during a flush. Auth: two tokens and four moments
cover a session that expires while another is logged out. Traffic: windows 0, 29200 and 65535
and an ordinary port 55536 reach both ends of the 16 bits, an unchanged field and a double carry;
one peer is enough because `phantom_prog` relates segments of different addresses in no way.
Stream: capacity one makes every channel full at once. Sessions: two connections
on one port and a log channel of one line make each wait for the other; the arguments of `cd` lead into
a file, to a directory that only files' paths name, and to names that are right elsewhere. Proxy: two connections and two chunks per side make one
wait for the other and every order of chunk, end and failure. Fleet: a counter that reaches one is enough
for a report to be older than another, one late post and one failed look-up for either to set a row back; agents share nothing
but the lock, so there is one. Agent: two fake ports, one of them the
proxy's, and any set of ports held by others.

**Deadlock** is checked, except in the handler run, where the system stops for good after `Stop`, and the proxy run,
where peers may stop sending. In the capture runs `Ended` says where the exporter may come to rest; the sessions
are checked as everywhere.

**Fairness.** Goroutines are scheduled (weak fairness of each goroutine's steps); a UDP read
returns within its deadline of one second; the ticker fires; a request to Elasticsearch ends, well or badly, by its
timeout. `flushLoop`'s `select` picks at random when a tick and the cancellation are both there, hence strong fairness for
`LastTickFlush`. Nothing is assumed of Elasticsearch: `CloseTerminates` holds when no request ever succeeds, and `Delivered` fails with
a second node that accepts everything. A handshake
segment that stays in the network is delivered in the end, by retransmission; `select` in
`broadcastLogs` picks at random among what is ready, and as messages run out weak fairness of each
of its cases is enough, and a write to a browser that is gone returns. Senders on a full Go channel queue up in order, and so do
connections that wait for `Accept`, hence strong fairness for `Serve` in `HoneypotSession`; it leaves out
the writes of telnet and FTP, which no deadline bounds. In the proxy the handler and the reads of each
connection's copies are scheduled; a write may wait for its reader for ever and has no fairness. The
telemetry ticker ticks, and of infinitely many posts of an agent not all are lost, late and refused (strong
fairness of registering some post of it). Nothing is assumed of clients, browsers, agents, signals, of `Stop`, of
`Close` or of the clock.

## 4. Proofs

`SpaVerifierProofs` proves, for any numbers of calls, packets, keys and secrets:
`TypeCorrect`, `ReplayProtection` (`NoReplay`), `NoPacketLost` (`NoFalseReplay`), `PurgeIsSafe`
(`ForgottenIsStale`) and `HonestClientAccepted` (`HonestAccepted`). `NoReplay` is not inductive: nothing in it says why a forgotten packet
cannot come back. `IInv` adds that a call works on its own bytes (`OwnBytes`), that its clock read
is recent and found the timestamp in order (`InTime`), that its code was valid after that read
(`CodeChecked`), and `CacheExact`: every accepted packet was acceptable at some time c, is in the
cache with time c, or was accepted more than `MaxTimeDiff` ago. The step that matters is a call
about to accept a packet that was accepted before and forgotten (lemma `MissingIsNew`). Its code
was valid then and is valid now; within the timestamp's span codes of different steps differ
(`CodeAssumption`), so both reads fall in the lifetime of one code (`CodeLifetime`), which
`WindowAssumption` makes shorter than the age at which an entry may be purged.

The assumptions: `WindowAssumption`, (2 * tolerance + 1) * step - 1 + 2 * MaxDelay <= MaxTimeDiff, is
89 s + 2 * MaxDelay <= 300 s for the defaults, so replay protection tolerates delays of 105 s.
`CodeAssumption` is cryptographic: six-digit codes repeat by chance about once in 10^6, and the
theorem does not cover that chance. It also shows what the code relies on: were TOTP checked
with a tolerance near 300 s, purging would let packets in again.

`HonestClientAccepted` needs one more invariant, `SecretsTried`: a call in the TOTP loop has found the code
invalid, at some time since its clock read, under every secret it has tried. A rejection there would
mean that the client's own secret failed, but a clock within the tolerance puts the code's step
within `TOTPTolerance` of the server's at every such time (`StepDistance`, `CloseCode`); the other rejections
contradict the form of a client's packet (`ClientPacketForm`).

`XdpGateProofs` proves `GateTypeCorrect` and `GateRefinement`: for any CPUs, tasks, addresses,
capacity and durations `XdpGate` implements `AccessGate`. The invariant `EntriesGranted` says that
a map entry, and an expiry a CPU has looked up, was stored for that key.

`XdpTrafficProofs` proves, for any peers, port lists, windows and source ports, `TrafficTypeCorrect`,
`TrapsOnly` (`OnlyTrapsReached`), `DeadToStrangers` (`LooksDead`) and `RewritesKeepChecksums`
(`ChecksumsValid`). The arithmetic is `ReplacedChecksumAccepted`: two foldings of a sum of at most four
words change it by a multiple of 65535 (`FoldTwice`), so the new checksum makes up exactly for the
new word; a sum that is not zero stays so because of the words left alone. The invariant adds
to the properties that segments in the network are sound (`InboundOK`) and that the host sends a
SYN, or anything else, only from a port the peer could reach (`OutboundOK`), without which `LooksDead` is not inductive.

The same module proves of `EgressFilter`, for payloads of any length and content, `PatternsFound` (a payload
that begins with one of the three patterns is counted), `Base64Window` (only a scan of 65 to 67 bytes ever counts
as Base64: the count stops at 64 bytes while 95 percent are asked of the whole length) and `Base64Found` (there,
it does).

`SpaVerifierProofs` also proves `GrantsFromSignedBytes` (`GrantNeedsGenuine`) of the handler, for any datagrams and
goroutines. `HandlerIInv` adds `BytesArrived`: what the buffer holds is the body of one arrived datagram, cut to
the length of another, beside the signature of a third, and a goroutine past the signature check has seen such a
mixture verify. `BufferAssumption` says that a mixture of byte strings is a byte string, so it restricts nothing;
`Packets` of the run is closed under it.

`CaptureProofs` proves `MessagesConserved` (`Conserved`) and `NoNeedlessDuplicate` (`IndexedOnce`) for any messages,
nodes, batch size and capacity. The two together are almost inductive: who puts a batch back holds it alone, and
what it may hold of `indexed` is what was indexed without an answer. `CloserIdle` is missing: the third flusher,
`Close` itself, has no batch before it comes to its own flush.

`WebAuthProofs` proves `EndedForGood` (`EndedStaysEnded`) with `RequestsKnown`: a request that is past the login check
carries a token that was drawn, so that a logout in progress cannot end a token that is yet to be drawn. It proves
`OnlyFaultsBringBack` (`OnlySpoiltComesBack`), with torn and failed writes allowed at any moment, from `Saved`: unless a
save is under way or the last one was spoilt, file and memory agree, so a restart brings nothing back, and a save that goes
through makes good all earlier faults.

`MtlsProxyProofs` proves `AuthorisedOnly` (`OnlyAuthorised`) and `NothingCutOff` (`HungUpAfterAll`) for any connections,
certificates and allow list. `Checked` says which stage a connection reaches only with what earlier stages have
found, `Counted` that nothing moves before the copies start and no more than was sent. `EndedFirst` says why the
proxy hung up: while it relays nobody has been hung up on, so the direction that ended first had come to its end
(`Finished`), with everything delivered or with one peer gone; afterwards that direction is remembered.

`WebdashProofs` proves, for any browsers, messages and capacities, `NeverSendsOnClosed` (`NoSendOnClosed`) with
`HubKnows` (the hub knows a connection only between its joining and leaving, and visits clients only while it
has a message), and `StreamsInOrder` (`StreamInOrder`). The latter needs `TakenOnce`, without which `Place` would not
be a position (a message is in one channel, once, or was taken, once), and `SendsLast`: the message being sent is the last one
taken, and a client still to be visited has only earlier ones. `PostsKeepOrder` (`PostsInOrder`) rests on `Waits`: a post still
waiting for room is the newest one, for whose answer the agent waits, or one it has given up on.

Of `FleetTelemetry` it proves, for any number of agents, `RowsWithinCounters` (`ShownWasCounted`) and `ShownNeverGoesBack`
(`OnlyLateGoesBack`). The invariant `NextIsNewer` bounds every report of an agent's present life, shown, under way or
late, by `Floor`, what its next report will show at least: the snapshot for counters already looked up and the counter
itself for the others, also for those whose look-up failed. No step within a life lowers it (`RaisesFloor`), though `Lookup` moves it from one to the
other and the end of a round back; a restart puts all reports into an earlier life. `OneAwaited` says that
a request nobody gave up is the one its agent waits for, so it carries the snapshot, that is, `Floor`.

`AgentProofs` proves, for any list of fake ports, `GuardedThroughout` (`NeverUnguarded`) and `StartedIsClosed`
(`ClosedIfStarted`). The first needs `QuietBefore` (no goroutine that binds runs before `phantom_prog` is attached) and
`AttachedAfter` (it stays attached until `Close` has closed everything else). The second needs `Listed`: every open port
of the honeypot is in `h.listeners`, or is the one `Start` has listened on and not yet appended; once `Start` has ended there is no such
port, and what `Close` walks over is all there is.

Of `HoneypotSession` `CaptureProofs` proves `PeersStayInTree` (`WorkingDirKnown`) and `RecordedBeforeGiven` (`CapturedFirst`), for any
connections, arguments of `cd` and capacity of `logChan`. Both depend on what a reaction under way will do once its
lines are logged, so the invariant is about reactions too: `Sound` says that the directory a reaction leads to
is in the tree and that each record its stage calls for (`Needs`) is logged or among its lines (`Covered`). The cases are the
reactions of the six services (`TelnetSound`, `MySQLSound`, ...) and the moves of `cd` (`CdInTree`; `UpInTree` for
`cd ..`, which cuts the last name off a path that may only exist as part of a file's). `InHand` keeps an accept loop
from starting a connection's goroutine twice.

Every inductive invariant (`IInv`, `AuthIInv`, `OrderInv`, `PostInv`, `HandlerIInv`, `FleetIInv`, `SessionIInv`) was first checked with TLC on the
instance of its run. `SpaHandler`, `FleetTelemetry`, `HoneypotSession`, `WebAuth` and `XdpTraffic` have their own names for `Spec`, `TypeOK` and the like
(`FleetSpec`, `AuthSpec`), so that one module can extend two of them.

Left to TLC, because they are out of the prover's reach: liveness under fairness (`StopEnds`,
`CloseTerminates`, `GoneForgotten`, `PostsBroadcast`, `FallbackServed`, `TrapAnswers`,
`Greeted`, `SilentEnds`, `EndsTogether`, `AlwaysAccepts`, `FleetCatchesUp`). The properties of the violation runs are false and
have no theorem. Every safety property of the passing runs has one, except that the type invariants of `Agent` and
`FleetTelemetry` are parts of inductive invariants only.

## 5. Plan

1. Proofs: what the liveness properties rest on (that a step of each waiting goroutine is possible), stated as
   invariants.
2. Key and secret files: `SaveKeysToFile`, `LoadKeysFromFile` and the two ways of reading the TOTP file.

## 6. Not modelled

Menus, key generation and code generation of the command line tools (text in, text out), and the
reading of key and secret files; certificate generation (library calls); the loading of eBPF objects;
`phantom_spa.c` and `phantom_spa_dynamic.c`, which the agent does not load; `LoadConfiguration` beyond its first
line, since the agent passes no config map and it returns an error at once (`agent.go` 178-190, `map_loader.go` 40);
dashboard settings, which are stored and shown and steer nothing; statistics and metrics, which only read;
`handleProvisionAccess`, which stores nothing; log formatting; IP options and fragments. Chance collisions of
hashes, codes and tokens.
