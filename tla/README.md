# A verification project for NetworkUSB

NetworkUSB lets programs on one machine (libimobiledevice tools, the *local
programs*) talk to the `usbmuxd` daemon of another machine as if it ran locally.
The *bridge* (`src/networkusb/bridge/client.py`) runs beside the programs, the
*agent* (`src/networkusb/agent/server.py`) beside usbmuxd; all programs share one
TLS connection between the two, multiplexed by session ids. This directory holds
TLA+ models of the two programs and of what they share, TLC configurations that
check them on small instances, and TLAPS proofs of what holds for all instances.

Paths below are relative to the root of the repository. Line numbers of every
definition are in `PROJECT.json` under `map`.

## 1. The system

| Component | State | Operations | Talks to |
|---|---|---|---|
| Session id allocator, `src/networkusb/protocol.py` | `_current` | `next_id(active)` | called by every local handler |
| Frames, `protocol.py` | none | `read_frame`, `build_frame` | both programs |
| Bridge, `bridge/client.py` | `_local_clients`, `_agent_writer`, `_unix_server`, `_running` | `run` / `_connect_and_serve`, `_handle_local_client` (a task per program), `_agent_reader_loop`, `_heartbeat_loop`, `_teardown` | local programs over a UNIX socket, the agent over TLS |
| Agent, `agent/server.py` | per bridge connection: `sessions`, relay tasks, `last_heartbeat_ts`; `_bridge_tasks`, `_bridge_writers` | dispatch loop, `relay_usbmuxd_to_bridge` (a task per session), `close_session`, `heartbeat_watchdog`, `start` / `stop` / `_cleanup` | bridges over TLS, usbmuxd over a UNIX socket |
| Flow control, `flow.py` | queues and byte counts per session | `enqueue`, `dequeue`, `remove_session`, `clear` | nobody: only its tests use it |
| TLS files, `tls.py` | certificate, key, `known_hosts` | generate, load, save | files |
| Utilities, `utils.py` | lock file | token lookup, lock, socket check | files |
| Menu bar, `menubar/` | `bridge` process handle, `currentDevices`, `checkInFlight` | start, stop, poll, menu | bridge process, `active.json` |
| Scripts, installer, launch daemon, research | | | not part of the running tunnel |

How they interact. Every actor of the two programs is an asyncio task; a step is
atomic between two awaits that really suspend. Tasks share `_local_clients` and
`_agent_writer` in the bridge, `sessions` and the writer in the agent. Any send
may suspend in `drain()`; and a task that resumes finds the shared state as the
others have left it. That, together with reconnections that old handlers
survive, is where the difficulty lies. Nothing is retransmitted: a lost
connection ends its sessions, and the programs start over.

What makes each part correct:

- allocator: it never issues 0 or an id in use, fails only when every id is in
  use, and issues an id again only after a full turn since it last issued it;
- tunnel, safety: the bytes of one session never reach another; each side gets a
  prefix of what the other wrote; a session is closed only because one of its
  ends is over; both sides agree on the sessions when nothing is under way; what
  a connection held is released when it ends;
- tunnel, liveness: a close travels to the other end, a disconnect is cleaned up,
  and one session should not wait for another program (it does, `slow_client`);
- identities and pins: an agent starts after any crash with the identity it had,
  a bridge refuses an agent only if somebody has changed it, sends its token to
  the pinned agent, and no pin is lost;
- lives: a bridge offers a socket only while a connection serves it, and a clean
  slate otherwise, whatever failed and whenever it was interrupted (one failure
  is an exception: that of `active.json`'s directory); the agent serves whom it has
  authenticated; both come to an end when told to, with two exceptions for a
  cancelled bridge (`CancelHeeded`, `wait_closed`);
- flow control: the byte count of a queue is what is in it.

The hazards, each at its line, are listed in `PROJECT.json` with the properties
that would catch them.

## 2. Modules

    SessionIds --- SessionIdsMC, SessionIdsProofs
    Wire --+-- Bridge --+-- Tunnel --- TunnelPipes (BytePipe) --- TunnelMC
           +-- Agent  --+      +------ TunnelProofs --- TunnelInOrder
                                                             |
                                       TunnelAgrees --- TunnelRefines
    Dialogue --+-- BridgeLife --+-- Lifecycle --- LifecycleProofs
               +-- AgentLife  --+
    CertStore --- KnownHosts --- Trust --- TrustMC, TrustProofs
    FlowControl --- FlowControlProofs

**SessionIds** is `SessionIdAllocator`, with `MaxId` for 2^32 - 1. The loop of
`next_id()` is modelled one iteration at a time (`Call`, `Skip`, `Issue`,
`Exhaust`), because what its error claims depends on what the loop has skipped.
No id is released while it runs: the function does not await. `seen` is history for
`LateReuse`: which ids were issued or found in use since an id was last issued; no
guard reads it.

**Wire** is what the sides share: the frames of `protocol.py` and the
connections. Each connection is a new element of `Conns` with two FIFO channels.
A channel stands for all buffers between `write()` and `read_frame()`; `drain()`
waits while it holds more than `HighWater` frames. `LinkLost` is the network.

**Bridge** is `BridgeClient`. The program counters are per task: `hpc[c]` for
`_handle_local_client()` of program `c`, `bpc` for `_connect_and_serve()` with
its reader loop and teardown, `hbpc` for the heartbeat task. One action is one
stretch between awaits: `HandlerStarts` takes an id, registers the writer and
sends CONNECT; `Finally` is the `finally` block up to its `drain()`, `Leaves`
what comes after. `lt[c]` is the bridge's transport to `c`, which outlives the
`close()` until its buffer is flushed.

**Agent** is `_handle_bridge_inner()` after authentication. `apc[e]` is the
dispatch loop of connection `e`, `rpc[l]` the relay of session `l = <<e, id>>`.
`ClosesSession` is `close_session()` up to its first await: the session leaves
the map and the relay is cancelled, which does something different to a relay
that has not run yet, one that reads or sends, and one already in its `finally`
block (`CancelsRelay`). `Watchdog` closes the connection without touching the
loop, as the code does.

**Tunnel** puts the two together with the network, the programs and usbmuxd,
and states the properties.

**BytePipe** is what the tunnel promises: per program a connection to usbmuxd
with two ends. Each opens once and closes once, and each receives, piece by piece,
a prefix of what the other has written. **TunnelPipes** has the refinement mapping:
the near end is the bridge's transport to the program, the far end the agent's
transport to usbmuxd on the link that was opened for it. Tasks, frames, ids and
connections disappear; every step of `Tunnel` must be a step of a pipe or none.

**Dialogue**, **BridgeLife**, **AgentLife** and **Lifecycle** tell the lives of the
two programs around what `Tunnel` details. `Dialogue` has the two ends of every
connection, the one-line handshake and the connections the network has lost
without a word. In `BridgeLife` `bpc` is the await that `run()`'s task is at:
`open_connection()` and its TLS, the AUTH answer, the creation of the UNIX socket,
the reader loop, the wait for the heartbeat task, the teardown's `wait_closed()`,
the backoff's sleep, the final teardown's `wait_closed()`. `cancel()` may be called
at each of them and is delivered where the task waits. An attempt may fail before the
socket is bound (`ListenFails`) and after, when the directory of `active.json`
cannot be made (`MetadataFails`): then the server stays open, and the next one takes
its place in `_unix_server` while its programs stay (`former`). `unlisted` is history
that remembers this failure for the properties; no guard reads it. The teardown
closes the programs whose writers are registered; one that is accepted is closed
when its handler starts (`ProgramHandled`), which it has done before the backoff's
sleep of a second or more is over (`Wakes`). In `AgentLife` `start()` and
`stop()` each run `_cleanup()` (`cpc`, with `waits` for what their `gather()` waits
for), and `hp[e]` is the await of connection `e`'s handler, from the TLS handshake
over the dispatch loop and `close_session()` to the bounded wait at its end. A
cancellation that `UsbmuxdSession.close()` swallows (`RelayJoined`) is swallowed
here too. `Lifecycle` connects them; the watchdog acts on connections over which no
heartbeat comes (`Beating`).

Of the frames, `AgentLife` keeps only that sessions are opened and closed, and of
the local programs `BridgeLife` keeps only whether there is an accepted one and
whether there is a registered one, of the present server and of those before it:
`Tunnel` is about the rest. Where both model the same code (teardown, watchdog, close_session),
each states what its own variables tell apart.

**FlowControl** is `SessionFlowControl`. A queue is an object with an identity of
its own: `dequeue()` looks it up, waits on it, and afterwards reduces the count of
the *id* (`Takes`), although `remove_session()` and `get_or_create_queue()` may have
given the id another queue by then. `strayed` remembers such ids for the
properties; no guard reads it.

**CertStore** is the start of an agent up to the listener: `generate_self_signed()`
looks for two files, makes a new pair if one is missing and replaces the files
one after the other; then both are loaded. A process may end between any two
looks or replacements (`AgentEnds`) and is started again; the operator may remove
the directory of an agent that does not run.

**KnownHosts** is a bridge from the handshake to the token: `_verify_fingerprint()`
with `load_known_fingerprint()` and `save_known_fingerprint()`. Inside a bridge
this runs without an await, but other processes see each look at the file and
each replacement of it: `exists()`, `read_text()`, `exists()`, `read_text()`,
`os.replace()`. `Home[b]` is the user whose file a bridge uses. The operator may
remove the file at any moment, and copies `--expected-fingerprint` from the
banner the agent printed last.

**Trust** puts agents and bridges together. `era` and `made` number the pairs an
agent has had; they keep pairs apart, and no guard but the bounds reads them.

In `Tunnel` two things are in the model for the properties' sake only. Every piece of data
carries the client it belongs to, and `peer[l]` remembers the client a link was
opened for. No guard reads the first; the second is read only to label what
usbmuxd writes on the link.

## 3. What the runs check

| Run | Instance | Shows |
|---|---|---|
| `session_ids` | 5 ids, all constructor arguments | `TypeOK`, `NoSpuriousExhaustion`, `ScanInvariant`, `LateReuse` |
| `tunnel_sessions` | 2 programs, 1 connection, `HighWater` 0, one piece each way | `TypeOK`, `DownIsolation`, `CloseIsEarnedDown`, `Agreement` |
| `tunnel_reconnect` | 2 programs, 2 connections, one fault, one piece up, drains that never wait | `UpIsolation`, `CloseIsEarnedUp`, `BridgeReleasesAll` |
| `tunnel_order` | 1 program, 2 connections, one fault, two pieces each way, one heartbeat, `HighWater` 0, blocking `wait_closed()` | `InOrder`, `AgentReleasesAll`, `ImplementsPipes` |
| `tunnel_live` | 1 program, 1 connection, one fault, one piece each way, watchdog, fairness | `CloseReachesUsbmuxd`, `CloseReachesClient`, `DisconnectTearsDown`, `DisconnectCleansUp`, `CyclicWaitEnds` |
| `lifecycle` | 2 connections, 2 cancellations, no sessions, blocking `wait_closed()` | `NothingStale`, `CleanExit`, `ServesAuthenticated` |
| `lifecycle_live` | 1 connection that may be lost silently, 1 cancellation, 2 sessions, blocking `wait_closed()`, fairness | `TypeOK`, `ForgetsOnShutdownOnly`, `ShutdownEnds`, `AbandonedEnds`, `CancelHeeded` |
| `flow` | 2 ids, 2 tasks, 1 session, 3 bytes, 2 payloads, 3 queues | `TypeOK`, `NeverOvercounts`, `ExactUnlessStrayed`, `ReleasesCounts` |
| `trust` | 2 agents, 1 bridge restarted against either, 1 reset per agent, 3 pairs per era | `TypeOK`, `StartsClean`, `NoFalseMismatch`, `TokenGoesToPinned`, `PinKept` |
| `lost_pin` | 2 agents, 2 bridges of one user | `PinKept` fails |
| `wait_closed` | the lives, 1 connection, 1 cancellation, blocking `wait_closed()`, fairness | `TeardownEnds` fails |
| `slow_client` | 2 programs, one may stop reading | `OwnPace` fails |

The runs of the tunnel, of the lives and of flow control turn deadlock checking
off: the bounds on connections, pieces, faults and queues are used up, the system
may come to rest with no session open, and a bridge and an agent may both have
ended.

The bounds and why they are enough:

- two programs are what it takes to confuse two sessions, and two connections to
  carry a handler over a reconnect. Programs are symmetric;
- `MaxSessions` equals the number of programs: each takes one id, so the bound
  never stops a program. Ids do not wrap in `Tunnel`; `SessionIds` is about the
  wrap;
- `HighWater` 0 makes every send wait that can wait; the larger value makes none
  wait. Where both matter (`InOrder`, `AgentReleasesAll`) 0 is used;
- `MaxUp` and `MaxDown` bound all pieces together: one is enough to be misrouted,
  two to be swapped or repeated;
- `MaxFaults` bounds lost connections, and heartbeats that stay away while the
  dispatch loop reads. `MaxBeats` bounds the heartbeats;
- in `lifecycle` the second connection is what an earlier failure's leftovers can
  spoil (a connection, a server, programs), and the second cancellation is what
  tells a first teardown from the final one. What the agent does with sessions
  touches none of the three properties, so it has none there. Lost connections are
  left to `lifecycle_live`: for safety a lost connection is one whose ends see its
  end, which the other side's close gives as well;
- in `lifecycle_live` two sessions are what a cleanup can leave half done. It has one
  connection, so the case of `AbandonedEnds` in which a newer one was dialled does
  not occur there; a connection the bridge has left open, or that was lost, does,
  and once the only one is used up the bridge still goes through sleep and dial.
  `TypeOK` and `ForgetsOnShutdownOnly` are checked there with one connection, and
  proved for any number;
- both have a `wait_closed()` that blocks, the richer case; the other is covered by
  the proofs and, for liveness, by `tunnel_live`. There `DisconnectTearsDown` holds
  because the teardown does not wait; `wait_closed` shows what happens where it does;
- `tunnel_reconnect` has a `wait_closed()` that does not block: only then do handlers
  of one connection live to see the next, and do programs whose handlers have not
  run survive a teardown. That a blocking one leaves nobody either is part of
  `BridgeReleases`;
- in `flow` one session at a time is what makes `remove_session()` and the session
  limit interfere, 3 queues let an id have two successors, lengths 1 and 2 with 3
  bytes and 2 payloads make either limit the first one to be met.
- `MaxMade` 3 lets an agent crash twice while it replaces its files, `MaxResets` 1
  gives it two identities; two agents are what it takes to lose or mix up the
  entries of one file. When an agent has used up its pairs it cannot make
  another, everything else goes on, so deadlock is checked in these runs. One
  bridge is enough for `trust`: `PinKept` and `TokenGoesToPinned` are properties
  of users who run one bridge, and `NoFalseMismatch` is proved for any number.

Each property of a passing run has a mutant in `PROJECT.json`: a plausible bug in
one definition that TLC finds with that property.

### Fairness

`FairSpec` assumes that the event loops run every task that can go on (weak
fairness of each handler, each dispatch loop, each relay, the reader loop, the
teardown), that transports deliver or fail, that `run()` connects again, and that
usbmuxd, and the programs not in `SlowClients`, keep reading.
Nobody is assumed to write, to close or to connect, and the network need not
fail. The watchdog must fire only while the dispatch loop is held up outside
`read_frame()`: then no heartbeat is taken and 90 seconds pass.

`Lifecycle!FairSpec` assumes the same of the tasks there, and that the limits of
time pass: AUTH's 10 s, TLS's own, the bounded waits, and the watchdog's 90 s
where no heartbeat arrives. Three assumptions are weaker than for other steps. A
handler joins a relay for certain only when it is in its cleanup or its connection
has been closed, since the relay may be waiting for the bridge to read. The
dispatch loop meets the end of its connection for certain only where its own end
is closed or the network has not lost the connection: of a silent loss the agent
need never hear. And this one is strong fairness: the frames that are left to read
before the end, and the sessions they open and close, keep switching the step off,
but they are finitely many. Garbage collection of a forgotten `StreamWriter` is
assumed to come eventually; nobody need interrupt, stop, attach or open sessions.

### Disagreements between code and documents

- `wait_closed`: `_teardown()` waits for the accepted clients before it closes
  them. Python 3.11 returns at once, 3.12 and later wait; `pyproject.toml` allows
  both, and the agent's `start()` documents and avoids the same trap. The constant
  `WaitClosedBlocks` is TRUE for the later versions. With a program that stays
  attached nothing follows the wait: not the cleanup of "on any disconnect: clean up
  all local clients + unix socket, reconnect" (`client.py:12`), and not the end of
  a `run()` that "runs until `stop()` is called or the task is cancelled"
  (`client.py:99`). In the trace both happen: the agent has closed the connection,
  the bridge is cancelled in its reader loop, and it stays in the teardown for ever.
- `slow_client`: `PROBLEMS.md` says sessions have queues of their own
  (`flow.py`); the reader loop does not use them.
- `lost_pin`: `PROBLEMS.md` says (F-11) that `known_hosts` is written under
  `flock`; `save_known_fingerprint()` takes no lock, and of two bridges that pin
  at the same time one loses its entry. Its next connection counts as a first
  one.

Seven more were met while modelling; they are in the models, and the properties are
stated so as to hold beside them.

- If `mkdir()` for `active.json` raises (`client.py:295`), the socket is bound and the
  `try`/`finally` that tears down is not entered yet: `run()` sleeps and dials again
  with the server open, and programs may attach, also when the connection to the
  agent has ended meanwhile; a later teardown closes only the newest server.
  `client.py:12` promises otherwise. `MetadataFails` is an action of the model, and
  `NothingStale` and `CleanExit` make this exception, and no other, by name
  (`unlisted`).
- A cancellation that comes during `await hb_task` (`client.py:193`) is swallowed
  with the heartbeat's own, and the bridge goes on, whatever `client.py:99` says.
  `CancelHeeded` says that a cancelled bridge ends, but for this await and for a
  teardown that waits for a program that stays attached (`wait_closed`).
- `PROBLEMS.md` says (F-08) that the watchdog ends hung sessions. It closes the
  bridge connection, but a dispatch loop that waits in the `drain()` of a usbmuxd
  connection does not notice (`server.py:313`, `:355`). `DisconnectCleansUp`
  therefore needs the fairness of `UxReads`.
- `PROBLEMS.md` says (F-01) that backpressure eliminates the deadlock. Both loops
  may still wait in the `drain()` of a CLOSE for each other (`client.py:389`,
  `server.py:351`); `CyclicWaitEnds` says that the watchdog parts them.
- `stop()` of the agent is "safe to call from anywhere" (`server.py:148`). Before
  `start()` has come to `_stop_event.clear()` it is lost; `ShutdownEnds` speaks of
  a `start()` that is woken.
- `_cleanup()` gathers the handlers there are; a connection accepted meanwhile,
  whose handler starts during the `gather()`, is dropped from the set unasked by
  `_bridge_tasks.clear()` (`server.py:162`) and outlives the shutdown, as long as
  its bridge keeps it. A handler that is cancelled inside its cleanup leaves the
  remaining sessions open (`server.py:385`); `ForgetsOnShutdownOnly` says this is
  the only case.
- The backoff is reset after a connection "sustained for > 5s" (`client.py:116`);
  a handshake that times out after 10 s counts as one. Time is not modelled.

In `flow.py`, a `dequeue()` that outlives its queue reduces the count of the next
queue of that id, so more than `max_queue_bytes` may be queued
(`ExactUnlessStrayed`, `NeverOvercounts`), and waits for ever if nothing comes.

## 4. What is proved

For all values of the constants, under the assumptions the modules name
(`IdAssumption`, `WireAssumption`, `CertAssumption`, `NoneAssumption`,
`HomeAssumption`, `DialogueAssumption`, `BridgeLifeAssumption`,
`AgentLifeAssumption`, `FlowAssumption`):

- `SessionIdsProofs`: `TypeCorrect`, `ScanCorrect`, `ExhaustionIsReal` and
  `ReuseIsLate`. The
  scan invariant says that whatever the running call has looked at is in use; a
  full turn of the counter then covers all ids. The proof needs the arithmetic of
  the cyclic distance (`PastAfterAdvance`) and no induction over data.
- `TunnelProofs`: `Invariance` (IInv), and from it `TypeCorrect`, `NoCrossTalkDown`
  and `NoCrossTalkUp`; then `AgentReleases` and `BridgeReleases`: what a connection
  held is released at both ends, whatever order the ends came in.
- `TunnelInOrder`: `PiecesInOrder`: nothing is lost from the middle, repeated or
  reordered, in either direction.
- `TunnelRefines`: `Refines`: the tunnel implements `BytePipe`, each of its steps is a
  step of the pipes or none.
- `TunnelAgrees`: `UpClosesEarned`, `DownClosesEarned` and `SidesAgree`: CLOSE frames
  are sent for a reason, and each is sent that is needed: when nothing is under way
  the agent has the sessions that the bridge has writers for.
- `TrustProofs`: `TypeCorrect`, `CrashSafe` and `NoFalseAlarm` for any number of
  agents, bridges and users, from its own IInv; `TokenPinned` and `PinsStay`
  under the condition `OwnHome` that no two bridges share a `known_hosts`.
  `lost_pin` is what happens without it.
- `LifecycleProofs`: `Invariance` of its own IInv, and from it `TypeCorrect`,
  `NothingStaleHolds`, `CleanExitHolds`, `ServesAuthenticatedHolds` and
  `ForgetsOnShutdownOnlyHolds`, for any number of connections, cancellations, cuts
  and sessions and both behaviours of `wait_closed()`.
- `FlowControlProofs`: `Invariance` of its own IInv, and from it `TypeCorrect`,
  `Undercounts`, `CountsExactly` and `CountsReleased`, for any number of sessions,
  tasks and queues, any lengths and any limits.

`DownIsolation` alone is not inductive: it does not say why the writer under an id
belongs to the frame that carries the id. `IInv` adds the reason. An id is given
to one client ever (`UniqueIds`, with `Started` and `Arrived` for who has one);
the writer registered under an id is that client's (`Registered`); every frame on
its way carries that client's data (`Truthful`); the link opened for an id is
that client's (`Peers`), and whatever is alive at the agent has been opened
(`Opened`, `Working`). A handler that wakes up after a reconnect keeps the id it
had, so its frames stay truthful on the new connection: this is what the
docstring's "NOT reset between reconnect attempts" (`client.py:16`) is for, and
the mutant `BridgeConnectsAnew`, which does reset them, breaks both properties.

The proof splits the steps in two. `HandlerStarts` gives out an id, and the ids
of all others are smaller. Every other step is summed up by `Effect` (ids stay,
writers are only removed, only true frames are added, a link gets its client
once), and `EffectKeepsIInv` shows once that such a step preserves `IInv`. The
summaries are proved action by action, like the types.

For the releases, whatever of a session still runs or is open must be found by the
cleanup: it is in the map, or `close_session()` has it in hand (`Findable`). At the
bridge an open transport is registered unless its handler has not run
(`Reachable`), a writer that the reader loop waits for belongs to the id it would
pop (`Draining`), and nobody is registered while there is no connection
(`Disconnected`).

`InOrder` says nothing of what comes next, so the invariant behind `PiecesInOrder`
says where the next piece is: as long as a session can still receive (`UpLive`,
`DownLive`), the pieces under its id in the channel continue what was received
(`Follows`), up to what the sender has read (`UpTo`) while the link is up. When a
session starts there is nothing of it anywhere (`Fresh`, `Untouched`, `NewConns`), its
CONNECT comes before its data (`ConnectsFirst`), and data comes back only on a
link that was opened (`Answered`). `Follows` and `UpTo` are stated over the whole
channel, and the lemmas about appending a frame and taking the first one replace
an induction over it. A frame that is dropped because the connection is gone
breaks `UpTo` but not `Follows`, and nothing follows it on that connection.

For `Refines` the mapping must be a function of the client: it has one link at most,
because its id is asked for on one connection (`OneHome`) and opened there once
(`Unopened`). That the piece a step passes on is the next one is `Order`; that it has
been written is `Counted` (nothing is on its way that was not read, nothing is read
that was not written). `TouchesOne` says once what a step on one link does to the
pipes, so that the simulation has one short lemma per step the programs or usbmuxd
notice; the rest is `TouchesNone`.

For the files, `StartsClean` rests on the order of the two replacements: the key
is the last file of a pair to appear, and it never appears beside a foreign
certificate (`Files`). `NoFalseMismatch` rests on `OneIdentity`: collect whatever
anybody holds to be the identity of an agent (`Fact`: its key, its banner, its
context, what bridges expect, saw, compared or are about to write, all
entries). Of each era of the agent there is one such identity at most, and of the
present era it is the one in the files. Bridges only pass facts on
(`NothingInvented`), an agent adds one only when it completes a pair, and then it
has none of this era. A lost update can take an entry away or bring an older one
back, but each was a fact before.

For the lives, the invariants of the run are almost inductive together; three facts
are missing. `Wound`: whoever is attached came by the server, nothing is offered
while the socket is being created, a program of an earlier server is gone before
the next connection is dialled, and the final wait has been reached by a
cancellation, so that only a second one is met there; all this unless a failed
`mkdir()` has left a server open (`unlisted`), when the final wait may be reached
without one and the first cancellation is met there. `Granted`: OK is said once
the token was, and sessions are opened after it. `CancelledByCleanup`: whoever is
cancelled is gathered by a `_cleanup()`, and a `_cleanup()` that begins loses none
an earlier one gathers, since `start()` and `stop()` each run one only. The proof
takes the bridge's steps against the bridge's facts (`BridgeKeeps`; `TearsDown`,
`LeavesLoop` and `Fails` are summed up by lemmas once, and `FailureKeeps` takes the
attempts that fail) and the agent's against the
agent's (`AgentKeeps`, where `GoesOn` sums up what a step of one handler may do).
What one side needs of the other is small: the bridge never writes OK
(`BridgeSaysAuth`), and no handler goes back before its authentication
(`NoReturn`).

`Agreement` is about quiet states only, and what makes it inductive is about all
others: the sides disagree only while one of them is about to tell the other. A
session at the agent, or a CONNECT on its way there, whose client is gone has a CLOSE
on its way or a handler or a relay that is about to end it (`NoZombie`); a registered
client whose session is gone has the agent's CLOSE on its way or about to be sent, or
is itself ending (`NoOrphan`). To keep these two, a message must mean what it says.
The agent's CLOSE is its last word: no CONNECT of that id is ahead of it, and of the
session at most a relay is left that waits for its `drain()` (`Ended`, `RelayOver`).
The bridge's CLOSE comes after the CONNECT, from a handler that is over or for a
writer that is gone, and names an id that was issued (`Closing`). The dispatch loop
keeps its books: a session in the map has a relay, the one it closes has left the map
(`Tidy`). The two `CloseIsEarned` properties are parts of this. As before, the proof
says once what may happen to the facts of a connection when the other side moves
(`Narrows` and `Tells` for the agent's steps, `GoesOn`, `BridgeTells` and `Waits` for the
bridge's) and takes the actions against these summaries. `HandlerStarts` is a case of
its own again, since it is the only step that makes an id.

`LateReuse` needs the order in which the counter meets the ids: whatever was a
candidate after an id was, is among those seen since its issue (`SeenBehind`). When
an id is the candidate again, all others are behind it. The turn is counted from the
issue. It says nothing of the release: the id of a session that has outlasted a full
turn may be given out at once, while frames of that session are still under way. In
`Tunnel` an id is used once, so what holds there (`DownIsolation`, `UpIsolation`)
holds while the counter has not come round.

In `FlowControl` a `dequeue()` reduces the count of an id by a payload of a queue. So
that this is harmless where it is meant to be, no two ids have the same queue
(`Distinct`), and the queue that a `dequeue()` holds is no other id's (`Holding`); a queue
that was not made is empty (`Unmade`). What `put` and `get` do to the bytes of a queue
(`TotalAppend`, `TotalTail`) is an induction over its length. The library's induction
theorems take an operator as a parameter, so the proof goes by the least element of
a set of naturals instead (`HasLeast`, from `WFMin`).

Every safety property of the passing runs is thus a theorem. Liveness under fairness
is out of the proof system's reach and stays with TLC: the properties of `tunnel_live`
and `lifecycle_live`; and so do the six expected violations, which are
counterexamples.

## 5. What is abstracted or left out

- Bytes: a piece is one `read()`'s worth of data. `read_frame()` and
  `build_frame()` are modelled by the fields they carry; the layout, the payload
  cap and protocol errors are not (a program that talks to itself sends none).
- `drain()` has one threshold, where asyncio has a high and a low mark, and the
  channel stands for several buffers. A send either waits or does not; both are
  covered.
- In `Tunnel` a connection starts authenticated: TLS, pinning, AUTH and its
  timeout come before `BridgeConnects`. They are in `Lifecycle`, pinning in `Trust`.
- In `Trust` one agent process at a time uses a directory, and the operator
  removes both of its files, while no agent runs. With two processes, or after
  one file alone has been removed, files that do not belong together can stay
  behind; nothing in the code prevents either (the lock of `utils.py` is unused).
  The temporary files are not modelled: nobody else knows their names, and a
  crash merely leaves them. `get_fingerprint()` and `load_cert_chain()` are one
  step, since nothing writes the files between them. A home or a directory that
  cannot be written is left out.
- Half-closed local connections: a program that closes closes both directions.
- In `Tunnel` both programs keep running; their ends are `Lifecycle`. There the agent
  is started once, and the other side of a connection is one bridge.
- Two bridges or two agents on one machine.
- What a program or usbmuxd does with an end whose other end is lost.
- `Tunnel` takes it that `_start_unix_server()` succeeds; its failures are in
  `Lifecycle`. Files that cannot be removed (`unlink()` errors are ignored in the
  code) are left out, except that the old socket file may stay before the bind.
- `CleanExit` is about the connection the bridge sends on. One given up during the
  handshake, by a cancellation or by the pin check, stays open until it is collected
  or the process exits (`Collects`, `ProcessExits`).
- No passing run has usbmuxd stop reading, and none checks `OwnPace`: it fails in
  `slow_client` for a program that stops reading, and where all read it says little
  more than `CloseReachesClient` and the watchdog's `CyclicWaitEnds`.
- The agent accepts any number of bridges; their connections share nothing but
  the listener, so one bridge at a time with all its old connections is enough.
- Cryptography, logging, argument parsing, menus, installer and research scripts.

## 6. Not modelled

- `Framing`: the byte layout of `read_frame()` and `build_frame()`. What chunking
  could do is `StreamReader.readexactly()`'s business; what the length checks can
  refuse, neither program sends.
- Two bridges with one socket path, two agents with one certificate directory: the
  code has no protection (the lock of `utils.py` is unused), so no property holds.
- The menu bar application (Swift), which starts and stops bridge processes. It is
  a program of its own; the two races it has are in the list of hazards.
- Time: the length of the backoff, the 30 s of the watchdog's turns. Every limit of
  time is a step that may be taken when the code's condition allows.
- Token lookup, logging, argument parsing, the installer and the research scripts:
  sequential input and output.

Worth doing next: abstract specifications of the lives and of the files, as
`BytePipe` is one of the tunnel, with their refinements proved; and time, at least
as far as the backoff's reset and the watchdog's 90 s depend on it.
