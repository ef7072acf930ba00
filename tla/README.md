# TLA+ models of the dispatch middleware

These modules model the discovery and request/reply core of
`src/a17/dispatch/py/dispatch.py`. The system is decentralised middleware: processes find each
other's zmq services by UDP multicast and talk to them over zmq sockets. `PROJECT.json` lists
every component, run, mutant and hazard. Its `map` names, for every definition, the source lines
the definition translates.

## The system

| Part | Code | State | Runs on |
|---|---|---|---|
| `TopicMap` | lines 930-1041 | `local_topics`, `network_topics[name][guid]`, `observers[name][uuid]` | whoever calls it |
| `Directory` | lines 1047-1244 | a TopicMap, the multicast socket and its handler, `broadcast_timer`, `broadcast_interval` | the node's IOLoop |
| `Node` | lines 188-279 | `active`, the IOLoop | the thread that calls `run` |
| `Server` / `Client` | lines 314-428 | a zmq socket; Server registers a Topic, Client observes a name | the application's thread, plus loop closures |
| `RequestClient` | lines 575-724 | `connected_topic`, `stream` | loop, except `close()` |
| `RpcRequestClient` | lines 727-816 | `_request_client`, `_future`, `_timeout_scheduled`, `_timeout_handle` | `execute()` on the caller's thread, the rest on the loop |

The parts interact in these ways:

- **Datagrams.** A Directory sends `DISPATCH <guid> A|R|X|S <args>` datagrams to the group.
  - `A`: a Server registered a name, or the process answers a search.
  - `R`: a Server closed.
  - `X`: the node stops.
  - `S`: a search for the names that have observers but no provider. It is sent by
    `find_missing_topics`, which re-arms itself with a doubling interval.
- **Observers.** Every change to `network_topics[name]` calls the name's observers
  synchronously: a `Client` or a `RequestClient`'s `topic_map_updated`.
- **RequestClient.** A RequestClient connects a REQ socket to the newest instance of its topic. It
  reconnects only when a strictly newer instance has a different address.
- **RpcRequestClient.** An RpcRequestClient owns one RequestClient:
  - `on_connect` (100 ms after a connect) sends the request;
  - `on_disconnect` (called from inside `close_stream`) fails the future;
  - a timeout fails it too;
  - `_cleanup` releases everything, and runs exactly once.

The loop is tornado's IOLoop:

- closures posted with `add_callback` run in FIFO order;
- timers and socket events run between them;
- `stop()` lets the current batch of callbacks finish and then returns. A closure posted from that
  batch never runs.

## Modules

### `TopicMap.tla`

The registry's operations as pure operators over its dicts:

- `AddChanges`, `NetAdd`, `LocalAdd` and `LocalFree` (`add`);
- `RemovedLocal`, `LocalRemove`, `NetRemove` and `RemoveNotifies` (`remove`);
- `NetRemoveAll` (`remove_all`);
- `ObsAdd` and `ObsRemove`;
- `Missing` (`missing`).

A dict that the code prunes when empty (`network_topics[name]`) is a total function to `NoTopic`.
`observers` keeps its dynamic key set, because the code never deletes a key and `missing()` reads
the key set. The other modules apply these operators inside their actions, so every registry
change is checked as part of the handler that makes it.

### `Directory.tla`, with `MCDirectory.tla`

Several processes, each with its own loop, registry, timer, interval and handler. The state is:

- `loop[p]`: new, running, last, halted or crashed;
- `queue[p]`: the posted closures;
- `batch[p]`: the closures the final iteration still runs.

The actions, with the code they model:

- `NodeRun` and `NodeStop` (Node.run/stop: `_stop` is posted and the loop's last batch begins);
- `Crash` (only processes in `Crashable`) and `Halt`;
- on the application's thread:
  - `RegisterBegin` and `RegisterEnd` (Server.__init__ → Directory.add → TopicMap.add, which
    runs on the application's thread, unlocked): the begin step writes local_topics and reads
    whether the name has a guid map (line 970); the end step writes the guid map (line 974 or 980)
    and posts the `A` send. `adding[p]` records what the begin step read, and how the loop has
    changed the map since: `fresh` (no map), `raced` (the loop has created one since), `shared`
    (the map was fetched) or `orphan` (the loop has deleted it since). `linear` is a history
    variable: network_topics with every add and remove applied whole at its last write;
  - `CloseServer` and `CloseEnd` (Server.close → Directory.remove → TopicMap.remove, also on
    the application's thread): `CloseServer` drops the local topic and the process's own entry,
    and tests whether the guid map is now empty (line 997). If it is, `adding[p]` becomes
    `emptied`, and `CloseEnd` is the `del` of line 998 and the `R` send. When the loop has
    pruned the map in between (`deleted`), `del` raises KeyError out of Server.close, and no `R`
    goes out. Each loop handler changes the registry through `Change`, which moves `adding[p]`
    between these states;
  - `OpenObserver` and `CloseObserver` (posting `_observe_topic` / `_unobserve_topic`);
- one action per loop closure:
  - `RunAddHandler`, `RunStop`;
  - `RunSend` (one datagram to every member, the sender included, because of IP_MULTICAST_LOOP);
  - `RunPoll` (`_start_polling`), `RunObserve`, `RunUnobserve`;
  - `TimerFire` (`find_missing_topics`);
- one action per branch of `onReceive`: `ReceiveOwn` (the loopback filter), `ReceiveExit`,
  `ReceiveAnnounce`, `ReceiveRemove` and `ReceiveSearch`;
- network and peer actions, modelled from the spec:
  - `Lose`: bounded datagram loss;
  - `PeerAnnounce` and `PeerExit`: another implementation on the group.

Intervals are in tenths of a second.

### `RequestClient.tla`, with `MCRequestClient.tla`

One RequestClient observing one name through its Directory. Provider instances start, answer
searches, stop (with an `R`) or crash (silently).

The client's reaction to a guid map is a set of pure operators, which RpcRequestClient reuses:

- `Decision`: topic_map_updated;
- `ConnectedAfter`, `StreamAfter` and `StreamsAfter`: `_connect`, with its synchronous disconnect;
- `PostedAfter`: the asynchronous `disconnect()` of an empty map.

The actions are:

- `ReceiveAnnounce` and `ReceiveRemove`: the Directory handlers, with the observer call;
- `RunObserve`, `RunUnobserve` and `RunDisconnect`: the posted closures;
- `Close`: the application's thread.

`clock` is the receiver's `time.time()`, one tick per Topic created, capped by `MaxTs`.

### `RpcRequestClient.tla`, with `MCRpcRequestClient.tla`

It INSTANCEs RequestClient for the providers and the reconnect operators, and adds:

- **execute() on the caller's thread, in three steps** (the order of lines 756-761):
  - `ExecStart`: the timeout is scheduled and the future created;
  - `ExecConstruct`: the RequestClient is built and posts `_observe_topic`;
  - `ExecAssign`: `_request_client` is assigned.
- **`RpcUpdated`: the RequestClient's handler with the owner's callbacks.** A reconnect runs
  on_disconnect inside `_connect`: the whole `_cleanup` and a ConnectionError. `_connect` then
  opens the new stream and schedules on_connect. Before `ExecAssign`, on_disconnect raises
  AttributeError, which unwinds the rest of the handler.
- **The loop actions:**
  - `RunScheduleTimeout` (`__schedule_timeout`) and `TimeoutFire` (`_on_timeout`);
  - `RunArmConnect` (`scheduleOnceCallback`) and `ConnectFire` (`_on_connect` → `request`);
  - `RunSend` (`_send`) and `Reply` (`_on_reply`);
  - `RunDisconnect`, `RunObserve` and `RunUnobserve`.
- **Instrumentation variables:** `setCalls` and `cleanups` count calls; `assertFailed` and
  `lateSend` record the events that the properties are about.

`FutureState` reads the abstract completion state off the model: the future's result, or
pending, or idle before `ExecStart`. The module instantiates `RpcOutcome` under the mapping
`state <- FutureState` and `released <- cleanups > 0`. It checks `ImplementsOutcome`, which is
`RpcOutcome`'s `Spec`, as a temporal property.

### `RpcOutcome.tla`

The abstract specification of what an RpcRequestClient promises (spec 4.5):

- `Execute`: idle → pending;
- `Resolve(o)`: from pending, exactly one outcome (replied, timed out, connection failed) becomes
  final, and the resources are released in the same step;
- weak fairness of `Resolve`: a pending request is resolved.

Every other step of the detailed model must be a stuttering step of this one. Each of these
violates the refinement:

- a second result;
- a release before the result;
- a future left pending.

A second cleanup leaves `released` TRUE, so it is a stuttering step of `RpcOutcome`: `CleanupOnce`
checks that.

### `Client.tla`, with `MCClient.tla`

The plain Clients of one process (Subscriber, PubClient) observing one name, with providers as in
RequestClient. The state is:

- `obs`: the registered handlers, in registration order;
- per Client:
  - `phase`: none, open or closed;
  - `ref`: whether `observer_ref` was assigned;
  - `addrs`: `self.addresses`, as a bag;
  - `conns`: the endpoints of the zmq socket.

The reconciliation of `topic_map_updated` is a set of operators:

- `NewAddresses`, `ToConnect` and `ToDrop`: the two loops.
- `Handled`: the outcomes of one call.
  - zmq raises on a closed socket.
  - On an open socket, zmq raises ENOENT for the disconnect of an endpoint that is not connected.
  - Only a call that ends normally assigns `self.addresses`.
- `Notified` (RECURSIVE): `call_observers`, which stops at the first handler that raises.

The actions are:

- `Create` (`__init__`) and `Close` (`close`: posts `_unobserve_topic`, closes the socket at once);
- `RunObserve`: the handler is registered, then called. A raise leaves `observer_ref` unassigned.
- `RunUnobserve`: `_unobserve_topic`, which raises AttributeError when `observer_ref` is missing.
- `ReceiveAnnounce` and `ReceiveRemove`;
- the provider actions.

### `RequestBlocking.tla`

`request_blocking` called repeatedly on one connected RequestClient. The actions are:

- `Call`: the condition, `request()` and the posted `_send`. `request()` installs the call's
  `reply_callback` as the stream's recv callback.
- `Return`: the wait ends by notify or by timeout (at any moment), `exited` is set, and the reply
  or TimeoutError comes back.
- `RunSend`: `_send` queues the message in the ZMQStream.
- `StreamWrite`: the stream writes the message once the REQ socket is writable, which is only while
  no reply is owed. This is pyzmq's behaviour, modelled from its documentation.
- `ServerReply`: the ReplyServer.
- `StreamRecv`: the reply reaches the callback installed when it is read.

Each call's lock is its own, so the caller's critical section and the callback's are single steps.

## Runs

| Run | Kind | What it shows |
|---|---|---|
| `directory` | pass | TypeOK, plus three properties. `LocalOnlyWhileServing`: local_topics follows the open Servers, whatever order a process's own datagrams come back in. `SearchScheduled`: a running process with a missing name always has its timer set or a poll queued, also after an `R`. `Discovered`: under fair loops and fair reading of every sender, an observer eventually knows a running provider, despite a lost datagram. |
| `directory_peer` | pass | `SearchScheduled` with a peer that announces and then sends `X`: `discovery_exiting` restarts the search, a path the `directory` run never takes because no process of it sends `X`. |
| `directory_register_race` | violation | `NetworkReflectsSeen`: a Server registers on the application's thread while the loop merges a peer's `A` for the same name. TopicMap.add read "no guid map" before the loop created one, and its assignment at line 980 discards the peer's entry (7 states). Spec 6 says the registry is only touched from the loop. The close has the same kind of window. If the add is made atomic, TLC finds the remove race instead: the loop inserts the peer's topic into the guid map that Server.close has emptied, and the `del` of line 998 discards it. |
| `directory_exit` | violation | `ExitAnnounced`: `_stop` posts the `X` send onto a loop that Node.stop has stopped, so it never leaves. |
| `requestclient` | pass | TypeOK and `StreamTracksConnection`: one stream, for the connected topic, through reconnects, restarts at the same address and removals. |
| `requestclient_dropped` | violation | `ConnectedWhileProvided`: the `_disconnect` posted by an empty map runs after a new provider arrived, and leaves the client unconnected while a provider is listed. |
| `requestclient_closed` | violation | `ClosedReleases`: the `_observe_topic` queued by the constructor runs after `close()`, and opens a stream nobody closes (against spec 7). |
| `rpc` | pass | TypeOK, `CleanupOnce` and `ImplementsOutcome` (the refinement of `RpcOutcome`, with a timeout). |
| `rpc_late_send` | violation | `NoSendAfterRelease`: a reconnect between `_on_connect` and the posted `_send` fails the future, and the request then goes out on the new stream. |
| `rpc_timeout_race` | violation | `TimeoutAssertHolds`: a timeout that expires before `_request_client` is assigned trips the assert that the code's comment calls impossible. |
| `client_unwind` | violation | `Reconciled`: one Client is closed while another Client of the same name is open. On the next announcement, the closed Client's handler raises ZMQError inside `call_observers`, so the open Client is never connected (8 steps). |
| `request_blocking` | violation | `RepliesCorrelated`: a call times out, and the next call installs its callback. The reply to the first request then reaches the second call, which returns it as its answer. Spec 4.4 says that reply is discarded. |

Every property of a passing run has a mutant in `PROJECT.json`: a plausible fault in a mapped
definition that makes TLC find the property violated. Each mutant's fault variant is defined just
before the definition it replaces.

## Bounds and why they suffice

- **Directory:** two processes (an observer and a server, so that both sides of every datagram
  occur) and one name.
  - `MaxQueue = 2` closures per loop is enough for a posted send and a poll to be pending at
    once.
  - `MaxLoss = 1` lost datagram is enough to lose the one announcement that matters.
  - `MaxRegs = 1`: `regs` counts registrations of the whole system and never goes down, so one
    Server registers and closes once; re-registering a closed name is not explored.
  - The interval bounds are small: seed 1, cap 2 and initial 2 tenths. The seed doubles to the
    cap, and the initial interval sits at the cap, so both the doubling and the guard that stops
    it are exercised. With these values the interval is only ever 1 or 2, so the code's
    overshoot of the cap (the 0.1 s seed becomes 25.6 s against a 16 s cap, where spec 4.2 says
    "up to a fixed cap") is not reached. It is listed as a hazard in `PROJECT.json`, with no
    property: the bound follows from the guard at line 1233 alone.
  - The register race run has one process that serves the name and one peer, with no loss: the
    smallest system in which the loop and the application's thread both write one guid map.
  - The peer is in its own small run, because adding it to the two-process run multiplies the
    state space past what TLC can explore.
- **RequestClient:** two provider instances and two addresses, the smallest set in which a
  reconnect, a restart at the same address and an older instance left behind all occur.
  `MaxTs = 4` Topics.
- **RPC:** the same providers with `MaxTs = 2`: an initial connect and one reconnect, which is
  what the late send and the disconnect paths need.
- **Client:** two Clients of one name, two provider guids and two addresses, with `MaxTs = 3`.
  One Client can be closed while the other is open, and an announcement, a restart and a removal
  all happen.
- **RequestBlocking:** `MaxCalls = 2`: one call that times out, and one that follows it.

## Fairness

The loop is the only scheduler the code relies on. Every closure posted to it runs, a due timer
fires, and a readable socket is read (the kernel buffer is FIFO).

- Directory assumes weak fairness of each process's loop actions, and of reading the datagrams
  from each sender.
- The RPC model assumes weak fairness of each loop action and of the caller thread's remaining
  steps of execute().

Nothing is fair for the application's calls, for providers, for losses or for crashes.

## What is not modelled

- The zmq data path of Publisher/Subscriber/ReplyServer, beyond the REQ/REP exchange of
  `RequestBlocking`.
- The `on_connect`/`on_disconnect` hooks of plain Clients.
- A reconnect or a disconnect of the RequestClient during `request_blocking`.
- The Repeater.
- The capnp codec.
- Address parsing and the subnet filter.
- The CLI, the tornado bridge and `maths`.
- The batching of missing names into `S` datagrams (lines 1216-1229): each run has one name, so
  a search is one `S`. The loop's length test counts a separator before the first name as well,
  so a first name of 1400 bytes or more is preceded by an `S` with no names, which receivers
  drop. `PROJECT.json` lists this as a hazard.
- The observers that TopicMap.add and remove call on the application's thread. Directory's
  observers are handles without behaviour, and the client modules run their handlers on the
  loop only.

`SearchStops` (after the last observer closes, the search timer stops) is defined in
`Directory.tla` as the spec's promise, but no run checks it: `unobserve` never deletes the key
that `missing()` reads, so the timer fires for ever. One observe/unobserve pair shows that, and
a unit test reaches it.

`PROJECT.json` gives the reason for each. Malformed datagrams and the `socket_type_values` lookup
are outside the model: every packet is well formed. Timestamps are distinct and increasing, so
ties of `time.time()` are not modelled.

## Later work

These are hazards that no property covers yet:

- the client staying on a departed newest provider;
- the decode-failure hang;
- execute() without a timeout;
- observers called on the application's thread;
- the `query_poll` that a raising observer skips in `discovery_remove`.
- the tornado bridge's abandoned RpcRequestClient, which still sends a request that timed out
  for the HTTP caller, and its poll loop, which waits floor(T)+1 seconds for a timeout of T;
- the empty `S` datagram before a first name of 1400 bytes or more.

Each has a note in `PROJECT.json`. `Client` and `RequestBlocking` are checked only by violation
runs, because every run slot is in use. The next steps are passing runs for their fixed
behaviour, and composing Client with the search timer of `Directory`.
