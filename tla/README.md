# Verification of glycoprotein-rs

TLA+ models of the RPC node and its Unix-domain-socket mesh, checked with TLC,
and theorems about them checked with TLAPS. Line numbers refer to
`src/src/node.rs` ("node") and `src/src/transport/unix_mesh.rs` ("mesh").

## 1. The system

A *node* (`GlycoComplex`) registers methods and events, announces them in
*beacons*, learns from the beacons of others which methods they offer (its
*presenters*), calls those methods and answers calls. It sends and receives
through a *connexon*; the only one is `UnixDomainMeshConnexon`, which connects
every pair of nodes that share a socket directory by one stream socket.

| Component | State | Operations | Interacts through |
|---|---|---|---|
| Calls (node 697-771, 1038-1052) | `pending`: query id -> oneshot sender | `call_raw_with_options`, `process_reply` | `connexon.send`; the event channel brings replies |
| Lifecycle (node 617-695, 1055-1066) | lifecycle mutex, `started`, `active_cancellation`, task handles | `start`, `stop`, `Drop` | cancels the tasks, starts and stops the connexon, clears `pending` and `presenters` |
| Dispatch (node 1068-1123) | the broadcast receiver | one message at a time, synchronously; queries and event handlers on tasks of their own | connexon events |
| Query server (node 1125-1188) | `handler_semaphore` | `handle_query`, `send_error_reply` | replies through `connexon.send`; its tasks outlive `stop()` |
| Presenters (node 996-1036, 1226-1253) | `presenters`, `presenter_events` | `process_beacon`, `process_heartbeat`, `cleanup_loop` | dispatch, a timer, subscribers |
| Registry and beacons (node 300-611, 884-968, 1190-1224) | `methods`, `emitted_events`, `event_handlers`, `beacon_revision` | `register_*`, `remove_field`, `beacon_loop` | a watch channel, the transport |
| Mesh connections (mesh 374-523, 558-729) | `peers`, generations, threads, sockets | discovery, accept, `install_peer`, `disconnect_peer`, reader and writer threads | sockets, the cancellation token |
| Writer queue (mesh 122-181, 494-507, 531-556, 655-695) | mpsc queue and acknowledgements | `enqueue`, `writer_loop`, broadcast | caller and writer thread |
| Socket path (mesh 241-253, 310-352) | the file `<id>.sock` | probe, remove, bind, listen, remove at stop and at drop | the file system, other connexons of the id |
| Framing, ids (mesh 731-781) | none | `frame_message`, `read_message`, `validate_node_id`, `dotnet_ordinal_cmp` | |
| Protocol, schema, errors, builder | none | conversions, validation, typed wrappers | |

What is hard: tokio tasks and OS threads share `pending`, `presenters`, the
peer table and the event channel, with an await or an unlock between reading
and using them; calls end by reply, timeout, cancellation, send failure,
`stop()` or by being dropped, and several of these race; messages are lost in a
channel that overwrites its oldest entry and in sockets that close; processes
die and leave files behind; connections are replaced while threads of the old
ones still run; `stop()` joins threads that others are still adding.

What makes each component correct:

- calls: every timed call returns; no entry of `pending` outlives its call;
  what the caller is told agrees with what the handler did;
- lifecycle: `started` says what runs; a completed `stop()` leaves nobody
  waiting; `start()` and `stop()` end;
- mesh: the tables agree with the sockets; late threads of old connections do
  no harm; two nodes that stay up become and stay connected; events add up;
- socket path: a started node can be found; a crash does not block a restart;
- presenters: subscribers' events agree with the table; a healthy node is not
  taken for gone, and one that was comes back;
- registry: a registration is refused if its id is taken, every change is
  announced;
- query server: permits are returned; clients within the limit are served;
- events: handled at most once, by a handler that is registered;
- writer queue: answers are true, sockets carry what was queued in order, and
  every send returns;
- framing: what is written is read, and only bad lengths are refused;
- typed calls and events: what is told is what happened, whatever the route.

The hazards, each with the line where it bites and the properties that watch
it, are in `PROJECT.json`.

## 2. Modules

| Module | Models | Code |
|---|---|---|
| `NodeCalls` | the outgoing calls of one node across its lifecycle | node 617-771, 1038-1188 |
| `CallContract` | what a caller may conclude from a result: the abstract specification of `NodeCalls` | |
| `Lifecycle` | `start()` and `stop()` over the blocking jobs of the connexon, dropped futures, threads that cannot be spawned | node 617-695, mesh 241-315 |
| `Mesh` | connections between nodes: discovery to disconnect, stop, exit | mesh 32-61, 241-308, 393-523, 558-726 |
| `PeerEvents` | `PeerConnected` and `PeerDisconnected` of one peer | mesh 274-308, 428-523 |
| `SocketPath` | the socket file of one node id | mesh 241-351 |
| `PeerWriter` | the queues of peers, senders, acknowledgements, the drain | mesh 122-178, 494-555, 655-695 |
| `Framing` | one direction of a connection, byte by byte | mesh 586-604, 697-758 |
| `NodeIds` | id validation, UTF-16 order, who dials whom | mesh 622-653, 760-781 |
| `Presenters` | the presenter table and its events | node 996-1036, 1226-1253 |
| `Presence` | heartbeat, expiry and cleanup timers of two nodes | node 996-1036, 1190-1253 |
| `Beacons` | the registry, the revision watch and the beacon loop | node 590-661, 884-968, 1190-1222 |
| `QueryServer` | permits and the tasks of `handle_query` | node 1095-1188 |
| `Events` | event dispatch to handlers over several sessions | node 529-588, 1068-1120 |
| `TypedCalls`, `TypedEvents` | wrappers, schemas, payloads | node 300-579, 717-880, `protocol.rs`, `schema.rs` |
| `MC*` | instances for TLC | |
| `NodeCallsProofs`, `MeshProofs`, `SocketPathProofs`, `PeerWriterProofs`, `PresentersProofs`, `BeaconsProofs`, `DispatchProofs`, `LifecycleProofs` | theorems | |

The exact lines of every definition are under "map" in `PROJECT.json`.

Each module takes the others for what they promise: `Write` in `NodeCalls` is
`PeerWriter` seen from one call; a beacon that `Presenters` processes is one
that `Beacons` sent; `Mesh` leaves out what is transferred, `PeerWriter` how a
connection came to be, `Framing` everything but the bytes.

Operators whose comment says "a slip" are plausible faults of the code. No
specification uses them; each is put in the place of the operator it varies to
see that a property notices.

### NodeCalls

A call is named by its query id. A step is what the code does between two
points where another task or thread can run. `pc[c]` is the control point of
the call's future:

    idle -> lookup -> insert -> send -> route -> [sending ->] await -> finish -> done

with `unsend` for a failed send (node 734-741) and `abandoned` for a future
that was dropped at one of its two awaits. `life` is the control point of
whoever holds the lifecycle mutex. `chan[c]` is the oneshot channel of the
call; "taken" is the moment between the two halves of `process_reply`, when the
sender is no longer in `pending` and has not been used. `query[c]` tells how
far the query has travelled; the answering node is another process or, for the
calls of `Local`, this node, whose query and reply both cross its own event
channel. `events` is that channel, with `Capacity` slots.

A `start()` fails in three ways: before it has set the transport's token; at
the spawn of a thread (mesh 258-269), when the token stays and `ensure_started`
passes on a node that is not started, until a `stop()` (`StopUnstarted`); or at
its first beacon, when it shuts down without clearing `pending` and
`presenters`. `leaky` is a history variable: a start has failed in one of the
latter two ways since the last complete stop. `StopReleases` is not claimed
then: a call that read `started` before the stop inserts its entry after it,
passes `ensure_started` and waits, for ever if it has no timeout. Futures of
`start()` and `stop()` that are dropped are in `Lifecycle`, not here.

`presented` abstracts the presenter table to what the call asks of it, and may
change whenever the dispatch loop runs. `Write` is the writer thread's answer
to one request: the frame is written, or the request is answered with an error
(write error, drained at exit, or dropped). A reply is published or lost:
`ReplyReaches` allows a peer's reply only while the transport's readers run.

### CallContract

A handler runs at most once per call. *Ok* means it ran and succeeded; a remote
error that it failed or was never run (busy, not registered); a local error
that it was never run and never will be; a timeout, a cancellation and a closed
reply channel tell nothing. `NodeCalls!ImplementsContract` is the refinement,
with `effect` and `verdict` read off `query`, `outcome` and `pc`.

### Mesh

A link is a connected socket pair and at the same time the generation of the
table entry it is installed under; its two ends have a `stage` each
(`dialled`, `greeted` at the dialler; `backlog`, `handshake` at the acceptor;
then `live`, then `closed`), a reader and a writer thread. A link is dialled
again only when nothing refers to it any more, so that, as with generations, no
old thread can mistake it for a new one. `closing` holds the ends that
`disconnect_peer` or `stop_blocking` has taken from the table and not yet shut
down. Payloads are left out: the model has the failures of a read or a write
and not what is transferred.

`Stops` is the set of nodes whose users call `stop()`. `Faults` allows a thread that cannot be spawned and a handshake that times out.
`Exit` is the end of the process, at any step. A node runs one lifecycle call
at a time, which the node's lifecycle mutex ensures.

### SocketPath

One step per system call of start, stop and drop, by any number of connexons
built with one id, in one process or several. `Careful` restricts the *users*
of the id and nothing in the code: a start or a stop begins only when no other
connexon of the id is midway, and a connexon is dropped only when, besides, no
other one runs. Crashes (`Exit`) are not restricted.

### Lifecycle

`lock` is the lifecycle mutex, `call[u]` the await at which a user's `start()`
or `stop()` is. The connexon does its part in blocking jobs (`job[j]`), which
run on when the future that awaits them is dropped (`DropFuture`): the mutex is
free then and another call may begin beside the job. Tokens are numbers; a
token is in `off` (transport) or `nodeOff` (node) once cancelled. `tracked` is
the list of thread handles that any stop joins. `calm` is history: nothing was
dropped or failed since a `stop()` that began when no earlier job was left.
`NodeInner::drop` is not modelled: the loops hold an `Arc<NodeInner>`, so that
it cannot run while there is anything for it to cancel.

### PeerWriter, Framing, NodeIds, PeerEvents

A sender enqueues one frame to one peer or, as broadcaster, to all, then awaits
the acknowledgements in order. `queue`, `wire` and `accepted` are what is in
the channel, on the socket, and was ever accepted. A writer thread drains its
queue with errors and returns later; what is enqueued in between is dropped
with the channel ("lost"). `torn` marks sockets that may hold part of a frame.

`Framing` writes and reads piece by piece, in pieces of any size, over a stream
that ends anywhere; lengths are two's complement numbers of `Width` digits, and
`accepts` is the reading node's limit, which stays as it was at the start.
`NodeIds` compares Rust's `dotnet_ordinal_cmp` with .NET's ordinal comparison
(external), over ids with code points before, within and after the surrogates.
`PeerEvents` follows three connections of one peer through insertion, spawning,
publication and removal, whose events are sent after the table's lock is
released.

### Presenters and Presence

`Presenters` has no clock: a record may become `stale` at any time, and a
cleanup tick removes what is. `hand` and `dropped` are events between the
release of the lock and the publication. `view` is what a subscriber believes
who applies all events in order. `Presence` has the clock and no concurrency
of its own: one node's beacon loop, a channel that delays or loses messages,
another node's record and cleanup, in units of 0.5 s. `stuck` says that some
third peer does not read, for which each broadcast waits `WRITE_TIMEOUT`.

### Beacons

A registration is four steps (check of the other map, of the own, insertion,
revision mark), a removal three. `op[t]` is where thread `t` is. `loop` is the
control point of `start()`'s beacon and of the beacon loop; a beacon is built
in two steps, during the first of which it holds the lock of `methods`.
`missed` records a change marked before the loop subscribed. Threads may race
for an id, since the locks of the checks are released before the insertion;
`rivals[k][f]` is history: the threads that were registering `f` when the
present registration was inserted. `TooLong` are the beacons that exceed
`max_frame_length`: `frame_message` (mesh 129) refuses them, so that nobody
hears them and nobody is disconnected.

### QueryServer and Events

The tasks of queries and of event handlers are awaited by nobody. A query goes
`new`, `sent`, `spawned`, `found`, `running`, `replying`, `over`; `Holds` are
the points at which its task has a permit. `patient` records that no client has
asked while a query of its was under way. `Events` has a loop per session, with
a `cursor` each in the one bounded channel; `removed[h]` says how many events
had been sent when handler `h` was last taken out.

### TypedCalls and TypedEvents

A type is three sets of JSON values: those it writes, those serde reads as it
and those its generated schema accepts; a schema is that of a type or is given
by hand. The sets differ: the schema of `i32` accepts 3000000000 and 1.0, which
serde refuses, and an `f64` that is NaN is written as null and not read back.
`Carried` is what the wire does to a payload: null
and nothing become one. In `TypedCalls` the field may be registered anew with
another type at any time, and `known` is what the caller's presenter table says
of it; the beacon in between has no state of its own. `TypedEvents` has the
check of `emit`, the send and the handlers at both ends.

## 3. Runs

Where a run checks two machines, the variable `subject` of its MC module says
which of them moves in a behaviour; the other one stays as it began. This is
two checks in one run and no composition.

| Run | Instance | Shows |
|---|---|---|
| `calls` | 2 calls, channel capacity 1 | `PendingOwned`, `StopReleases`, `ImplementsContract`, `TimedCallsReturn`, `StopFreesWaiters` |
| `mesh_faults` | 2 nodes, links as below, spawn failures, handshake timeouts; or 3 connections of one peer | `TableMatchesEnds`, `HealthyKept`, `StopTerminates`, `WriterlessLeaves`; `PeerEventsInv` |
| `mesh_converges` | the same without faults; or 2 nodes of 6 valid ids and 4 invalid stems | `ListedIsHeard`, `MeshConverges`; `EachPairMeets` |
| `socket_turns` | 3 connexons that take turns; or 2 users, 4 jobs, 3 sessions, no dropped futures | `StartedIsReachable`, `RefusedOnlyIfRunning`; `CallsEnd` |
| `socket_shared` | 2 connexons, no rules | violates `StartedIsReachable` |
| `writer` | 2 peers, a unicast and a broadcast | `AnswersTruthful`, `CarriesPrefix`, `BroadcastReaches` |
| `writer_returns` | a broadcast to 2 peers, or both senders and 1 peer; or 3 messages of up to 5 digits, readers with the writer's limit and a smaller one | `FailedPeersLeave`, `SendsReturn`; `FramesInv`, `WholeIsRead` |
| `presenters` | 1 other node with 2 signatures, or 2 with 1; or the default times | `EventsFit`, `ViewIsRight`, `SilentNodesLeave`; `StaysPresent`, `PresenceInv` |
| `beacons` | 1 field, 2 threads and 1 peer, or 1 thread and 2 peers | `TakenIdsRefused`, `BeaconsAreSnapshots`, `NothingForgotten`, `FieldsBecomeKnown` |
| `dispatch` | 3 queries of 2 clients, 2 permits; or 3 events, or 2 handlers, in 2 sessions and 2 slots | `PermitsConserved`, `FewAreServed`, `StoppedGiveBack`; `EventsInv`, `WaitingIsHandled` |
| `lifecycle` | 1 user, 4 jobs, 2 sessions, dropped futures, spawn failures; or one typed call; or typed events | `LifecycleInv`; `TypedCallsInv`; `TypedEventsInv` |
| `lifecycle_hangs` | 1 user, 3 jobs, 2 sessions, dropped futures | violates `CallsEnd` |

The properties named `...Inv` join the type invariant of a module and its
safety invariants, named there: `CountIsRight` and `WrongOnlyIfCrossed`
(`PeerEvents`), `ReadsWhatWasSent` and `InvalidForCause` (`Framing`),
`BackInTime` (`Presence`), `HandledOnce` and `RemovedIsQuiet` (`Events`),
`StartedIsComplete` and `OrphansCancelled` (`Lifecycle`), `OutcomeIsTold` and
`CheckedRequestsFit` (`TypedCalls`), `HandlersAgree` and `SentAsRegistered`
(`TypedEvents`). The types of the other modules are proved (section 4).

### Bounds

- `calls`, `mesh_*`, `presenters`, `beacons` and `PeerWriter` need no bound on
  time, restarts or messages: every variable is finite by itself.
- Calls: one to the node itself without a timeout and one timed to a peer. A
  route and a timeout concern steps that do not look at each other, and a call
  touches only its own entries and the channel that all share; one slot makes
  the channel overflow as soon as two messages meet.
- Mesh: two links per direction when one of the nodes is stopped and started
  again, so that an old connection is torn down while its successor is
  installed; one link when both are. Either may exit at any time. A pair of
  nodes shares no state with another but the discovery thread.
- Socket path: a third connexon can interfere with two.
- Writer: a unicast and a broadcast meet in one queue. In `writer_returns` the
  case of both senders starts when the writer of the second peer has ended.
- Framing: 3 digits to the base 2 stand for 4 to the base 256, so that lengths
  reach the sign bit; limits lie below, at and above it. The first message is
  the id of the handshake, with a limit of its own.
- Presence: 0.5 s a unit: `Interval` 2, `FullTicks` 5, `Expiry` 6, `Cleanup` 2,
  `WriteTimeout` 10 are the defaults. At most `MaxLost` 1 message in a row is
  lost and none takes longer than `MaxDelay` 1.
- Beacons: two threads race for an id, either for the same kind or one for a
  method and one for an event; the beacon that has both is too long. `FullTicks`
  2 gives ticks with and without a full beacon.
- Queries: three for two permits, so that one may be refused.
- Events: `MaxEvents` 3 for two slots, so that a loop may lag behind.
- Lifecycle: `MaxJobs` and `MaxSessions` bound starts and stops; `Start` leaves
  a job for the stop of a start that fails.
- `TypedCalls`: one call, after which nothing reads what is registered. Types
  are `()` and `i32`; of three values, null, a number and one that only the
  schema of `i32` accepts. `TypedEvents` has `()`, `f64` and `Option<f64>`.

Deadlock is checked where a node or a table may always do something; not for
sockets, writers, queries and the lifecycle, whose bounded behaviours end. That
a call, a `stop()` or a send does not hang is what the liveness properties say.

### Findings

`socket_shared`: `cancel_without_joining` (mesh 336), which `Drop` calls,
removes whatever is at the socket path, though this connexon may never have
bound it. With one connexon running, dropping a second one of the same id,
which was never started or was refused with "node '{0}' is already running"
(`src/src/error.rs:75`), unlinks the running node's socket. It keeps its
connections and dials peers with larger ids, but no peer with a smaller id,
which is the one to dial, finds it when it starts or restarts later.
`src/tests/mesh.rs:197` says of a started node that its socket file exists, and
`:199` that its own `stop()` removes it.

`lifecycle_hangs`: a `start()` whose future is dropped leaves its blocking job
behind. A `stop()` that begins beside it takes the token of the session before,
while the job starts a new session, and joins that session's threads,
whose token nobody cancels: `stop()` never returns and holds the lifecycle
mutex for ever. `src/tests/mesh.rs:198` takes for granted that it returns.

Other things the models show, for which no line of the repository says
otherwise, and which the properties name as exceptions:

- Two threads that register one id at once may both succeed: the later one
  replaces the earlier one's handler, or the id is a method and an event
  (`rivals`).
- A `start()` whose accept or discovery thread cannot be spawned leaves
  `ensure_started` passing on a node that is not started (`leaky`).
- An entry of the peer table whose reader thread could not be spawned stays
  there: the node is deaf to that peer until the connection ends.
- A request may pass the caller's validation and be refused by the handler's
  wrapper, because the generated schema accepts more than serde reads
  (`CheckedRequestsFit`).
- A beacon beyond `max_frame_length` is heard by nobody, and the fields stay
  unknown; heartbeats go on. `start()` with such a registry fails.
- `Expired` can be published after the `Discovered` of a newer record: a
  subscriber then believes the node absent until its beacon changes
  (`ViewIsRight`). `stop()` clears the table and publishes nothing.
- The table is ahead of its events: `presenters()` shows a new beacon before
  `Changed` is published. `src/tests/mesh.rs:173-180` waits for the table and
  then takes the event with `try_recv`, which usually finds it.
- A field registered between `start()`'s beacon and the loop's subscription
  waits for the next full beacon (`missed`).
- One peer that does not read delays every broadcast by 5 s, longer than the
  presenter expiry of 3 s: healthy peers lose the node (`StaysPresent` asks for
  `Gap` short enough), and have it back only with a full beacon.
- `Some(null)` and `None` are different over loopback and one on the wire.
- `emit` checks the registration, then sends: it may have changed in between.

### Fairness

- Calls: weak fairness of `LifecycleProgress`, `Dispatch`, `DispatchExit`,
  `CallProgress`, `Resolve`: the tokio runtime polls ready tasks, and
  `connexon.stop()` returns (`StopTerminates`). Of `CallTimeout` for timed calls:
  the sleep elapses. Of `Write`: the writer answers every request or drops its
  sender (`SendsReturn`).
- Mesh: weak fairness per end of a link of the thread at work there, of the
  discovery thread's dialling, of a stop under way, and of `SendFails` on a
  running node, since `beacon_loop` broadcasts for ever.
- `NodeIds`: discovery scans again and again.
- Writer: writer threads, senders, `shutdown` and the drain of a stop go on;
  a write ends, since the socket has a write timeout (mesh 26, 442).
- Framing: a reader reads what is there. Nothing is assumed of the writer.
- Presenters, beacons, events: the loops go on as long as they have something
  to do, spawned tasks run. In `Beacons` `tokio::select!` takes either branch.
- Queries: tasks go on; a handler ends *once it is cancelled*, which is what
  the context asks of it and what `StoppedGiveBack` rests on.
- Lifecycle: jobs, threads and loops go on, futures are polled unless dropped.

Nothing is assumed of the user (start, stop, cancel, drop, register), of
handlers that are not cancelled, of the answering node, of the delivery of a
reply, of exits, of `ReaderQuits` and `WriterFails`, or of losses.

## 4. Proofs

All for every value of the constants that satisfies their assumptions, which
TLC evaluates on its instances: `LifecycleAssumption`, `TypesAssumption`,
`FramingAssumption` and the others say that numbers are numbers, that intervals
and capacities are positive, and that a value which means "none" is no member
of the set it stands beside. Where one module of proofs is about two machines,
the second one is the instance that the runs use (`E`, `P`, `F` and `C` of the
MC modules).

The types: `TypeCorrect` in each of the proof modules but `LifecycleProofs`;
for the machines whose run checks a property named `...Inv`, the types are part
of it.

- `NodeCallsProofs!PendingAlwaysOwned`. `TypeOK` and `PendingOwned` are
  inductive together: the sender of a call is in `pending` exactly while its
  channel is open.
- `NodeCallsProofs!StopAlwaysReleases`. `StopReleases` speaks only of the state
  after a stop; `ReleaseInv` adds what holds on the way there: `LifeCoupled`
  (what `life` says of `started`, `transport` and `dispatch`), `ResolverRuns`
  (a sender is in the dispatch loop's hands only while the loop runs) and
  `DownReleased` (what is released stays so until the next transport starts).
  The step that matters is a call that inserts its entry after `StopClear`: it
  is still before `ensure_started`, and with no failed start in between
  (`~leaky`) the transport is down.
- `NodeCallsProofs!CallsImplementContract`. The refinement rests on
  `ContractInv` (`AlwaysTruthful`): the outcome and the channel of a call agree
  with its query, and the event channel holds at most one query per call, which
  has not been handed on, so that no handler runs twice even if messages are
  overwritten. `AbstractStep` and `HiddenStep` say when a step maps to a step
  of the contract and when to a stutter.
- `MeshProofs!TableAlwaysMatches`, `HealthyAlwaysKept`. `TableMatchesEnds` is
  inductive with `TypeOK` and with the fact (`TableInv`) that no end is both
  listed and closing; `HealthyKept` follows step by step, the steps that
  disconnect being those of threads whose link is not healthy.
- `MeshProofs!ListedAlwaysHeard`, if threads can be spawned. `HeardInv` adds
  that a node that is down has no writer thread and nothing left that could
  install a connection: an entry that was installed too late for the stop's
  drain has lost both its threads when the node starts again.
- `MeshProofs!PeerEventsAlwaysInv`, for any connections of a peer. `EventsTold`:
  a connection that was put into the table is in it or on one way out of it
  (replaced or quit, drained, or gone), and each event is published once. That
  connects and disconnects add up is then a bijection between the connections
  told of and those that left.
- `SocketPathProofs!CarefulReachable`, `CarefulRefusals`, for users who take
  turns and any number of connexons. `PathInv` says who can be midway or
  running at a time, and what the file is at every step of a start or a stop.
- `PeerWriterProofs!AnswersAlwaysTruthful`. `RequestInv`: a request is in at
  most one place. Before it is enqueued it has no answer, in a queue it stands
  once and its answer is awaited, and it is on the socket exactly when the
  answer is Ok. `AlwaysCarriesPrefix` adds `OrderInv`: what was accepted is the
  wire followed by the queue. `ListedAlwaysWritten` and `TornAlwaysLast` (that
  nothing follows a frame that was cut off) need only the types.
  `BroadcastAlwaysReaches` adds `AwaitedInv`: a broadcast still waits for every
  listed peer whose queue it entered and which has not answered Ok; and
  `OkIsLast`: it says Ok only when it waits for nobody.
- `PeerWriterProofs!FramesAlwaysInv`, for every base and width of the length,
  any limits and any pieces. `NumberOfDigits`: `from_le_bytes` undoes
  `to_le_bytes` for every length up to `i32::MAX`. `StreamInv`: what the reader
  has of the frame at hand, what is on the stream and what is still to be
  written are together the frames of the messages not yet read, up to what was
  cut off at the end.
- `PresentersProofs!EventsAlwaysFit`, `ViewAlwaysRight`. The four parts are
  inductive together with `HandIsListed` (no await separates the entry and its
  publication, so that it cannot expire in between), `OneEach` (a cleanup tick
  publishes one removal a node) and `ListedIsTold`.
- `PresentersProofs!AlwaysStaysPresent`, `PresenceAlwaysInv`, for all
  intervals. The beacon loop sends within `Until`, and at most a `Gap` after
  its last message. `SilenceInv` bounds the age of a record by the messages
  that came to nothing since, `AwayInv` the time a healthy node is missing by
  the beats since the last full beacon or by the full beacon that is on its
  way.
- `BeaconsProofs!TakenIdsAlwaysRefused`, for any threads, those that race
  included. `LateIsRival`: who is past its checks of an id that has
  been registered meanwhile was registering it when that was inserted, so that
  a thread that comes later is refused by one of its two checks.
  `NothingEverForgotten`: `AnnounceInv` says at every point of the loop that a
  beacon which differs from the registry is excused by a thread that has not
  marked its change, an unseen revision, or a change from before the
  subscription. `AlwaysSnapshots`: with `methods` locked while `emitted_events`
  is read, the first half of a beacon still says what is registered.
- `DispatchProofs!AlwaysConserved`. `PermitInv` counts the permits and who
  holds them. `OutlivingAlwaysCancelled`: the tasks dispatched after a stop
  began are cancelled as those before. `FewAlwaysServed`: if a patient client
  were refused, the holders of all permits would be queries of other clients,
  one each, and there would be more clients than permits.
- `DispatchProofs!EventsAlwaysInv`, for any sessions, events and handlers.
  `QuietInv`: a handler in the table has not been taken out since it was put
  there, and what was handed out had been sent by then. `OnceInv`: unless a
  stop was dropped, the only loop that is not over is that of the present
  session, and all that was handed out lies before its cursor.
- `LifecycleProofs!LifecycleAlwaysInv`, for any users, jobs and sessions.
  `HeldInv`, whatever was dropped or failed: a session with threads is
  cancelled, in `runtime`, or in the hands of a job about to cancel it; a
  socket file is that of `runtime` or some stop is not over; loops and tasks
  that run uncancelled are those of `active`. `CalmInv`, as long as nothing was
  dropped or failed: at most one job is under way, that of the mutex's holder,
  and how far it came says what there is of the transport. `StartedIsComplete`
  follows when the mutex is free.
- `LifecycleProofs!TypedCallsAlwaysInv`, `TypedEventsAlwaysInv`, for any types
  and schemas. `Staged` and `DescribedInv` say at each stage of a call what its
  answer can be, and that what the caller knows of a field is right until it is
  registered anew; `EmissionsInv` says the same of an event that `emit` has
  checked, and that an outcome is what its handler makes of the event.

The invariants of the proofs were checked with TLC before they were proved.

Every safety invariant and action property of the passing runs is stated by one
of these theorems. Only model-checked are the liveness properties, since the
prover does not treat fairness and `ENABLED`: `TimedCallsReturn`,
`StopFreesWaiters`, `StopTerminates`, `WriterlessLeaves`, `MeshConverges`, `EachPairMeets` and with
it the order of ids, `CallsEnd`, `FailedPeersLeave`, `SendsReturn`,
`WholeIsRead`, `SilentNodesLeave`, `FieldsBecomeKnown`, `StoppedGiveBack` and
`WaitingIsHandled`.

The library states induction with an operator as parameter, which the provers
cannot instantiate. Where a proof needs it (the digits of a length), it is
stated with a set for the statement (`Inductive` in `PeerWriterProofs`) and
follows from the well-foundedness of the natural numbers. The frames on a
stream need none: the invariant says that there are sequences `tail[k]`, each
of which begins with the k-th frame and goes on with the next, and every step
says which.

## 5. Not modelled

- JSON texts, serde definitions, error texts, tracing, builder setters that
  store one value: they carry no state and no property is about them.
- Schema validation beyond the question whether a schema accepts a value.
- A `max_frame_length` that not even a heartbeat fits in.
- A listen that fails after its bind, a full backlog, a directory that cannot
  be read or created, `Fault` events, which are only logged.
- Clock jumps; the tokio runtime being shut down under a running node.
- A channel that carries all kinds of messages at once: each model has those
  that its properties tell apart, and a loss of any of them.
- Tests, the example and the CI script.

## 6. Plan

1. `Rpc`: two nodes, calls over a connection of `Mesh` that breaks and comes
   back, composed from `NodeCalls` and `QueryServer`.
2. Theorems about the order of ids: `dotnet_ordinal_cmp` is total and agrees
   with .NET's comparison, for ids of any length.
3. A `SendContract` that `PeerWriter` implements and `Write` in `NodeCalls` is
   an instance of.
