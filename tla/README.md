# A TLA+ verification of dsh-node

dsh-node is a plugin that turns a DSH instance into a *node*: it dials a
Coordinator over WebSocket, authenticates, and then serves unary requests and
streams by passing them to the local Typert Gateway. Around that link it keeps a
file store, a usage queue, a bridge for user questions, a configuration that is
edited at run time, and a status surface.

This directory models that program in TLA+, checks it with TLC on small
instances, and proves the invariants that matter most with TLAPS for every value
of the constants. `PROJECT.json` is the manifest: it maps each definition to the
lines it models, and lists runs, mutants, findings, hazards and theorems.

Paths below are relative to the repository's `src/` directory (`src/connector.ts`
in the repository is `src/src/connector.ts` in the manifest).

## 1. Inventory

Everything runs in one Node.js process: handlers run to completion, and the
concurrency is that of the event loop. Two steps interleave wherever code
awaits, arms a timer, or registers a callback.

| Component | State | Operations | Talks to |
|---|---|---|---|
| **Connector** `src/connector.ts` | current socket, node state, five timers, failure and refusal counters, verdicts waiting for a close event | `start`, `stop`, `reconnectNow`, `send`; socket events; timers | Coordinator; host through its delegate (`createHello`, `createReady`, `onFrame`, `onDisconnected`) |
| **Requests** `src/request-manager.ts`, `handleRequest`..`handleCancel` of `src/index.ts` | live records with abort controller and timer | `begin`, `complete`, `abort`, `failAll` | Gateway (`invoke`), connector (`send`, `isReady`) |
| **Streams** `src/stream-manager.ts`, `handleStreamOpen`, `runStream` of `src/index.ts` | live entries with `seq`, `count`, signal; bytes buffered in the socket | `open`, `ready`, `pump`, `end`, `fail`, `cancel`, `failAll` | Gateway (`stream`), connector (`send`, `bufferedBytes`) |
| **Node host and lifecycle** `src/index.ts`, `src/config-service.ts` | running host, connector, calling peer, connection intent, boot queue, stored document | boot, shutdown, `connect`, `disconnect`, save | all of the above, HTTP surface |
| **File store** `src/files/store.ts`, `src/files/service.ts` | uploads with open handles, manifests, `usedBytes`, files on disk | begin, write, commit, abort, resolve, publish, read, cleanup, open, close | Gateway surface, disk |
| **Deliver tool** `src/files/deliver-tool.ts` | none | execute | agent, file store |
| **Usage queue** `src/usage/` | SQLite outbox, three watermarks, attempts, degraded interval, lock file | append, read, ack, cleanup, recover, open, close | collector in the LLM stream, Coordinator |
| **User questions** `src/user-questions.ts` | pending questions, view leases | ask, pending, answer, cancel, dispose | agent, Coordinator |
| **Configuration** `src/config.ts`, `src/config-file.ts` | one JSON file | resolve, merge, write | config service |
| **Identity** `src/identity.ts` | one JSON file shared by processes | load or create, quarantine | host |
| **Frame codec** `src/frame-codec.ts`, `src/protocol.ts` | none | encode, decode, validate | connector |
| **Status, HTTP, trust fence** `src/status.ts`, `src/http-api.ts`, `src/net/` | none | read, route | host |
| **Admin** `src/admin/` | audit ring | node calls over the file system | host |
| **Client UI** `src/client/` | poll timer and controller of one poller | start, stop, poll | HTTP surface |
| **Release tools** `tools/` | none | build scripts | not part of the node |

What is hard, and what correctness means, per component:

- *Connector.* Events of a socket that was dropped arrive after its successor was
  dialed; `stop()` suspends for a grace period while calls go on; `createReady`
  may be a promise; a close event may be late or missing. Correct: one live
  socket, no timer without its socket, disposal is final, always a next step
  under way, bounded credential retries, backoff that survives flapping.
- *Requests.* Answer, cancel, timeout, lost link and shutdown race for one
  record, and ids are reused on the next connection. Correct: each record is
  settled once and by its own run, and every request ends.
- *Streams.* The pump holds an entry across awaits (the source, the drain) and
  comes back to a registry that has moved on. Correct: what the Coordinator sees
  of a stream is an acknowledgement, values 1, 2, 3, ..., and one terminal frame
  that counts them; buffered data stays bounded.
- *Lifecycle.* Saves reboot the node through a queue that `connect` and
  `disconnect` do not use. Correct: intent, stored document and running host agree
  when all is quiet; a host is stopped before the next one starts.
- *File store.* Each operation is several disk steps and a crash may fall between
  any two. Correct: a manifest that is `ready` has its bytes, `usedBytes` is what
  the disk holds, a retried upload is the same upload.
- *Usage queue.* Delivery is at least once, with reads, acknowledgements and
  deletions in different turns. Correct: sequence numbers without holes, nothing
  deleted before it is acknowledged, watermarks that only grow, each gap told once.
- *Questions.* Answer, abort, disposal and lease expiry race, and a local answerer
  may give up long after the bridge is gone. Correct: what the remote UI is offered
  is what waits for it, and nothing after disposal.
- *Configuration and identity.* A save is folded over what is stored, merged with
  the profile, resolved with the environment and judged before it is written; the
  identity is created, then written. Correct: a save that is let through takes
  effect, and a node has one identity for ever.

`PROJECT.json` lists each such danger at its line, with the properties that
would catch it, or a note saying why none does.

## 2. Modules

    StreamWire            the contract of one stream as the Coordinator sees it
      ^ implemented by
    Streams               registry, pump, runStream          MC_Streams
      Streams_proofs
    Requests              registry, dispatch, runRequest      MC_Requests
      Requests_proofs
    Connector             WebSocket lifecycle                 MC_Connector
      Connector_proofs

    UsageLog              what the queue promises of its events
      ^ implemented by
    UsageQueue            outbox, collector, Coordinator      MC_UsageQueue
      UsageQueue_proofs

    FileVault             what the store promises of a file
      ^ implemented by
    FileStore             uploads, artifacts, manifests       MC_FileStore
      FileStore_proofs        FileStoreCount_proofs: what it counts

    Node                  the plugin as a whole               MC_Node
      extends NodeLifecycle   apply, saves, boots, hosts, identity
                extends NodeConfig    document, profile, environment
      extends Questions       the bridge for user questions
      Node_proofs

A step of a model is one turn of the event loop: a handler with all it calls, up
to its first await. What follows an await is an action of its own, and its guard
re-reads only what the code re-reads.

### Connector

| Model | Code |
|---|---|
| `state`, `running`, `cur` | `currentState`, `running`, `socket` |
| `wire[s]` | what a socket object is: not dialed, dialing, open, closing. `closing` covers both ends' closes; the close event takes a socket back to `none` |
| `timers`, `watched` | `handshakeTimer`, `heartbeatTimer`, `stableTimer`, `reconnectTimer`; `closeWatchdog` with the socket it captured |
| `failures`, `authFailures` | `failureCount`, `authFailureCount` |
| `authRefused`, `forbidden`, `fatal` | `authRefused`, `reconnectForbidden`, `fatalFailure` |
| `stopWait` | calls of `stop()` suspended in `waitForClose`, by their socket |
| `deferred[s]` | `createReady` promises outstanding, by the socket their closure holds |
| `silence` | heartbeat ticks since `lastPongAt` |
| `configured`, `instantReset` | whether a URL and a token are set; `stableResetMs <= 0` |

`Start`, `StartUnconfigured`, `ReconnectNow`, `Stop` and `StopGrace` are the
owner's calls; `OpenEvent`, `CloseEvent`, `StaleCloseEvent`, `PeerCloses` and the
`Recv*` actions the socket's events; `HandshakeTimeout`, `HeartbeatTick`,
`StableReset`, `ReconnectTimer` and `Watchdog` the timers; `ReadyResolved` and
`ReadyRejected` the promise of `createReady`. `Connect`, `CloseSocket`,
`HandleClose`, `ArmStableReset` and `CompleteHandshake` are the private methods of
the same names.

Frames are reduced to what the connector does with them; a frame it only logs is
a stutter. `lastSocketError`, `pendingFailure` and the snapshot carry texts and
are left out. Two branches of the code are left out because they cannot be taken,
and the invariants `TimersOwned` and `StopIsFinal` say why.

### Requests

`live` is the registry, `timed` the armed timers, `serving` the suspended calls of
`runRequest`, `settled` and `reason` the two sides of its `Promise.race`. A race
that is decided goes on in a microtask. Frames of the same turn can still come
first (a cancel may follow an answer), a timer or a socket event cannot, which is
the guard `Drained`. Refusals of a request are answered at once and change no
state. Executions inside the Gateway that ignore their abort are not counted: no
code counts them either. The registry is what is modelled: a record leaves it when its
run completes it, and whether the `rpc.result` sent then is carried is not looked at,
here or in the code (section 4).

`link` is what this component can tell of the connector: `open`, still `ready`
but closing (frames arrive, `send` is refused), or `down`.

### Streams and StreamWire

`run[r]` is one call of `runStream`, with the await it is suspended in:
`opening` (the Gateway opens the source), `pulling` (the iterator), `draining`
(the poll in `drain`) and `drained` (the microtask between `drain` and `send`).
`run[r].entry` is the entry that `pump` captured, while `ready`, `fail` and `end`
look the id up again. `seq` and `count` are the fields of the entry, `buffered`
counts data frames in the transport in place of bytes, `HighWater` is
`maxBufferedBytesPerStream` in those units, and `last` is the last frame the
Coordinator has seen of each stream: the observation the contract is about. `send()` is
`Carry`, of a frame that goes out, and `Tell`, of a terminal frame whose fate nobody
looks at: `refused` (a history) holds the ids for which an open link refused it. The pump
looks at the answer of `send()` for a value, and fails the stream.

`StreamWire` has that one variable. Its `Follows` says which frame may come after
which; a connection that is lost starts every stream afresh. `WirePromise ==
Wire!Spec` is the refinement: each step of `Streams` is a step of the contract or
leaves `last` alone.

### UsageLog and UsageQueue

| Model | Code |
|---|---|
| `latest`, `degraded`, `delivered`, `acked` | `latest_issued_seq` (and `next_seq`), `degraded_since`, `delivered_through_seq`, `acked_through_seq` |
| `outbox`, `rows` | the tables `outbox` and `attempts` (state and `latest_seq`) |
| `up` | closed, inside `open()` before `interruptRunning` has ended, or open |
| `call` | where `appendAttempt` stands: before the gap, before the mark is cleared, before the event |
| `stream` | each generator of the collector: `finished` once it has seen a finish chunk, `ended` without one, `lost` with its store |
| `cursor`, `stored` | the Coordinator: `nextSeq` of the last page it stored, and the events |
| `said`, `untold` | histories: the last state issued for an attempt; a refusal was noted and no gap issued since |

The store is synchronous, so no call of it interleaves with another; but each
durable write commits alone. A step is therefore one durable write of
`appendAttempt` or `interruptRunning`, or one other call, and `Down` may come
between any two. `TellGap`, `ClearMark` and `Record` are `#recoverIfDegraded` and
`#appendEvent` in their order; `WriteFails` is any of them throwing, which
`persist` swallows; `Revise`, `Finish` and `End` are the revisions of the collector:
a usage chunk has one until the stream is terminal, every finish chunk has one (the code
of that branch does not test `terminal`), and an end without finish has one. `FinishOnce`
is the runtime's protocol, one finish chunk for each stream; the runs do not assume it.
`Refuse` is the capacity limit, a choice here because it
depends on file sizes. `Read` ends its page anywhere its limits may, and its
answer may be lost after it has raised `delivered`. `Cleanup` can run at any time,
because every `ack`, a repeated one too, schedules it. The retention window is a
point in the order of recording: the clock is taken not to step back. The
coverage rows, which `status()` counts, the lock file and a stored snapshot that
cannot be parsed are left out. `Polled` is what the Coordinator calls (`NodeUsageOwner`:
`read` and `ack`).

`UsageLog` has three variables: the last number, the events that can be read, and
those the Coordinator has. It issues the next number with its event, hands over
everything up to some event, and prunes up to an event that was handed over.
`LogSpec` maps them to `latest`, `outbox` and `stored`: a page that was lost, a
repeated `ack` and every step of `appendAttempt` that issues nothing are stutters.

### FileVault and FileStore

| Model | Code |
|---|---|
| `part`, `temp`, `final` | the bytes under `incoming/<id>.part`, `artifacts/<id>.tmp-<uuid>`, and the final name |
| `row`, `size` | the manifest on disk, and the size declared or recorded |
| `up`, `index`, `cache`, `used` | `#uploads`, `#clientIndex`, `#manifestCache`, `#usedBytes` |
| `phase` | before `open()`, inside it, rejected, open, closed |
| `op` | the operation at the head of the serial queue, at its next durable call |
| `aged` | files whose `expiresAt` has passed |
| `harmed`, `slip`, `loose` | histories: a stat failed or a file was removed by hand; the count went wrong in this process; it ever did |

A step is one durable call: a rename, a chmod, the write of a manifest, an unlink, a
stat. `Fails` is a call that fails and whose effects the code undoes, `Slips` one whose
error it swallows or whose bytes nobody counts. `Begin`, `Chunk`, `Abort`, `Commit`,
`Publish`, `Resolve`, `Read` and `List` start the operations of the same names,
`Cleanup` the sweep of the timer; `Rename`..`Discard` are `commitUpload` and
`#discardUpload`, `Copy`..`Scrap` are `publishArtifact`, and the walks over manifests
(`Look`, `Delete`, `Note`) are `#stateOf`, `#expireManifest`, `#markMissing`. `Copy`
reads to the end of the source, which may have grown since its size was tested
(`Tested`) and up to `MaxSource`. `Clear`, `Load` and `Orphans` are the reconciliation
inside `open()`. `Occupied` is what the disk holds: `Held` counts the chunks under each
kind of name. `Served` is what the Gateway calls (`SessionFilesOwner`), `Deliver` the
agent's tool. `Close` is the one operation that is not queued, and may come in the
middle of another.

`FileVault` knows a file as absent, kept or gone, and the set of those that have
lapsed. A file appears with its manifest, `Kept` being what the manifest and the
final name say together, and lapses when it has expired or was `harmed`.

### NodeConfig, NodeLifecycle, Questions, Node

| Model | Code |
|---|---|
| `file`, `ident` | the configuration and the identity file; `torn` between exclusive create and write |
| `phase` | the plugin: applied, being disposed in three stages, off |
| `stored`, `saves`, `at`, `want`, `draft` | `NodeConfigService`: its document, its queue, where each call is, what it asks for, what it writes |
| `boots`, `step`, `read` | the boot queue, the next step of its first task, what the initial task read |
| `cur`, `old`, `host`, `mounted` | the current host, the one being stopped, each host's configuration, intent, identity and link, and whose endpoints are registered |
| `queue`, `collector` | the usage queue and the observer in the LLM stream |
| `asked`, `pending`, `viewed`, `disposed` | where each question is, `#pending`, the view leases, whether there is a bridge |
| `prior` | the service that was disposed last: its document, the calls it has left, the draft of the first |
| `wanted`, `told` | histories: the last accepted decision, the identities used |
| `astray` | history: this run folded a request before it had read the file, or could not read it |
| `overtaken` | history: a call of the disposed service wrote the file after this run had read it |

`NodeConfig` holds the pure part: `Merge`, `Resolve`, `Fold`, `Acceptable` and
`SourceOf` are `mergeNodeConfig`, `resolveNodeConfig`, `foldSubmission`, the test in
`applySubmission` and `sourceOf`, which looks for the profile's token under `token`
where the profile has it under `auth`. In `NodeLifecycle`, `Ask` is a request that joins
the configuration queue, `Take` and `Write` its two halves around the disk; a submission
then appends a task to the boot queue (`Rebuild`), a decision calls the host that is
current by then (`Decide`), outside that queue. `Seed`, `Reboot`, `Withdraw` and
`StopReturns` are the stages of the boot tasks between their awaits, `ReadIdentity`,
`CreateIdentity` and `FillIdentity` those of `loadOrCreateIdentity`. `Crash` leaves the
two files. Disposal waits for the boot queue only, so `Apply` may come while calls of
the disposed service are under way: it moves them to `prior`, where `LateTake`,
`LateWrite` and `LateApplied` carry them to their end. They write the file, and touch no
host. `Overlap` is a bound: without it no new call joins while such calls are left, nor
in a run that they overtook. `Questions` is the waterfall: `Request` goes to the bridge
when the session is viewed remotely, to the local answerers otherwise, and from there to
`Bridge` when no provider would have it (`NoProvider`). `Node` composes them: the bridge
lives as long as the plugin, and remote calls (`Look`, `Reply`) come only while a host's
endpoints are mounted and its link is up.

## 3. Runs

| Run | Instance | What it shows |
|---|---|---|
| `connector` | 2 sockets, 2 refusals, 2 misses, 2 promises per socket | `OneLiveSocket`, `TimersOwned`, `StopIsFinal`, `NeverStranded`; `BackoffSurvivesFlapping`; `AuthenticatingEnds`, `HalfOpenDetected`, `StopCompletes` |
| `requests` | 3 ids, 3 runs, room for 2 | `OneRunPerRecord`, `TimersOwned`; `SettledByItsRun`; `RequestsEnd` |
| `streams` | 2 ids, 3 runs, room for 2, 2 values each, mark at 0 frames | `OneRunPerEntry`, `ClosedMeansTold`, `MemoryBounded`; `WirePromise`; `StallEnds` |
| `usage` | 2 model calls with any number of finish chunks, 5 sequence numbers | `NoSilentSkip`, `NoneLeftRunning`; `LogSpec`; `GapFirst`, `FinalIsFinal`; `CatchesUp` |
| `files` | 2 uploads, 1 artifact, 2 client ids, files of 1 or 2 chunks, a source that grows to 3, room for 2 chunks, 1 failed call, 1 restart | `Accounting`, `QuotaHeld`, `WholeUntilExpired`, `OneUploadPerKey`; `VaultSpec`; `Reclaimed` |
| `node` | 2 requests at a time (saves, a refused save, decisions), 2 host objects, 2 ids, 1 question, no `Overlap` | `Agreement`, `OneNode`, `SameIdentity`, `NoStrayQuestion`; `CallsEnd` |
| `connector_race` | the owner does not await `stop()` | `StoppedIsQuiet` fails |
| `connector_verdict` | as `connector`, 1 refusal | `VerdictOfThisSocket` fails |
| `requests_stop` | as `requests` | `StopAnswersAll` fails |
| `requests_redial` | as `requests` | `DroppedLinkFailsAll` fails |
| `streams_reuse` | ids unique on their connection only | `WirePromise` fails |
| `usage_ack` | as `usage`, reads ahead of the queue | `NothingLost` fails |

Each property of a passing run has a mutant in the manifest: a small, plausible
bug in a mapped definition that makes that property fail. The larger state spaces are
797,430 (`files`), 541,016 (`node`), 227,591 (`usage`) and 28,465 (`streams`) states.

Some properties make an exception where the code does something else than one would
expect. It is named in the property, and section 4 describes the divergence:

| Property | Excepts |
|---|---|
| `QuotaHeld` | what a source grows by during its copy; it says when those bytes are gone |
| `Accounting` | a process in which a failure was swallowed or half undone (`slip`) |
| `WholeUntilExpired`, `VaultSpec` | a file whose stat failed or that was removed by hand (`harmed`) |
| `Agreement` | a run that folded before it had read the file (`astray`); of the file and the decision, one that a disposed service's call overtook (`overtaken`) |
| `ClosedMeansTold` | a stream whose terminal frame an open link refused (`refused`) |
| `FinalIsFinal` | another finish chunk, unless `FinishOnce` |
| `OneRunPerEntry`, `WirePromise` | ids reused while their run is under way (`FreshIds`; run `streams_reuse`) |
| `NoneLeftRunning` | calls of this process: a final revision that could not be written leaves the attempt `running` until the next `open()` |

### Bounds

- *Sockets.* Two are a stale socket that still closes and the current one, each
  taken again after its close event. A third adds a second stale socket, whose
  events are filtered exactly as those of the first; the theorems cover any pool.
- *Refusals.* `MAX_CONSECUTIVE_AUTH_FAILURES` is 5 in the code and 2 in the run:
  below, at and above the limit occur. `MissesAllowed` is the code's 2.
- *`FailureCap`.* The delay of `backoffDelay` is constant once it has reached
  `maxDelayMs`; from there on the counter is not told apart.
- *`MaxDeferred`.* A peer may repeat `hello.ok` while `createReady` is pending;
  two promises are the race of one against another.
- *Ids and runs.* Two live records and a third id meet the limit; a third run is
  one left over from an earlier link next to two live ones.
- *Values.* With two values a stream can be cut before, between and after them.
  `HighWater = 0` makes every second value wait.
- *Sequence numbers.* Five hold a first revision, a gap, an end and the
  interruption of another call, with pages that cut them in two. `Room` keeps the
  numbers that a gap and the interruptions still need; it takes nothing from the
  orders in which they can come.
- *Files.* Sizes are counted in chunks: a file of two can be cut between its chunks, one
  of one cannot. `Limit` is a single large file, so that two uploads, or an upload and
  an artifact, compete for the room. One failed call and one restart fall at any durable
  call. `MaxSource` is one chunk more than the largest file: a source that grows beyond
  the limit. An expiry or a removal by hand falls between operations, since each
  operation looks at a file once. `Any` takes one unused id of several, which differ in
  nothing.
- *Node.* Two requests overlap in the configuration queue, in the boot queue and in
  the host's `disconnect`; each may be sent again after its answer. `Slots` is one host
  and its predecessor, used again; a third would show no more, as `OneNode` says there
  is never a second. Two identities show a replacement if there is one. `Ask` stops in
  a run that is `astray`: that run can no longer agree with the file. One request saves
  a label and gives up the panel's token, names a URL that is refused, or disconnects;
  the other connects. `Overlap` is off: two requests that a disposed service has left
  meet every step of the next one's `apply()` and host, but no request of its own. The
  proofs hold for both values.

### Fairness

- *Connector.* Armed timers fire, `createReady` settles, and a socket that this
  node closes gets its close event (`ws` destroys a socket whose close handshake
  is not answered). Nothing is assumed of the peer, nor that a dial ends; that is
  why no property says that `connecting` ends: the code arms no timer for it.
- *Requests.* Microtasks run (weak fairness of `Resume`). A due timer fires
  between turns however busy the node is, although each single turn with a decided
  race disables it for a moment, hence strong fairness of `Timeout`. Nothing is
  assumed of the Gateway.
- *Streams.* The poll of `drain` goes on, so that it ends at the deadline if the
  peer never reads.
- *Usage queue.* The store is opened again after a crash, and what the crash keeps
  interrupting (opening, interrupting, a page that arrives) succeeds in the end,
  hence strong fairness. A call of `appendAttempt` goes on. Nothing is assumed of the
  collector or of `ack`. A page is taken to admit its first event: `CatchesUp` is about
  a Coordinator whose limit does.
- *Files.* A durable call returns and a caller opens the store, weak fairness. The
  ten-minute timer of `src/index.ts` queues a sweep and the queue is served in order,
  so the sweep runs however many calls are queued, hence strong fairness of `Cleanup`.
- *Node.* Disk calls and the tasks of the two queues go on, those of a disposed service
  too. `connector.stop()` inside
  `disconnect()` and inside a shutdown ends, which `StopCompletes` shows of
  `Connector`. Nobody is made to apply, ask, dispose or answer.

## 4. Findings

Six statements of the repository do not hold of the code. Each is a run that
must fail, with the counterexample of TLC as evidence.

1. **`stopped` while connected** (`connector_race`). The end of `stop()` writes
   `stopped` without looking whether a `start()` has run inside its grace period.
   The manual connect and disconnect endpoints do not queue behind each other, so
   that it can.
2. **A refusal hits the wrong socket** (`connector_verdict`). `authRefused`
   survives `reconnectNow()`, `stop()` and `start()`, unlike its two siblings, and
   routes the close of a later, accepted connection to `auth_failed`.
3. **An orderly stop answers streams but not requests** (`requests_stop`).
   `failAll` forgets the records before the aborted runs could answer.
4. **A manual reconnect fails nothing** (`requests_redial`). `reconnectNow()`
   filters out the close event of the socket it drops, and with it
   `onDisconnected`.
5. **A leftover run acts on a later stream** (`streams_reuse`). The protocol asks
   for stream ids that are unique per connection; a run left over from the last
   connection finds the new entry under its old id.
6. **An acknowledgement of what was never delivered** (`usage_ack`). `read()` takes
   a cursor beyond the last event, and its empty page raises
   `delivered_through_seq` to it. `ack()` compares with that.

What else was met while modelling, and is modelled as the code has it (or left out,
where said). None of these has a run of its own: the first seven are what a property
excepts, the others concern states the models do not hold.

- *A terminal frame that nobody receives.* `send()` returns false on an open link when
  the frame cannot be encoded (too large, not serialisable) or the socket throws
  (`src/connector.ts:389-401`). `end()`, `fail()` and `openFailed()` ignore that and drop
  the entry (`src/stream-manager.ts:298`, `325`; `src/index.ts:1035`), against "every
  stream reaches exactly one terminal frame" (`src/stream-manager.ts:23`). `sendResult()`
  does the same to an `rpc.result`. `ClosedMeansTold` excepts such a stream, by `refused`.
- *A finish chunk after a finish chunk.* The collector quotes the runtime's "every stream
  ends in exactly one terminal finish" (`src/usage/collector.ts:145`) and marks a stream
  that has none as failed; one that has two gets two final revisions
  (`src/usage/collector.ts:172-176`). `FinalIsFinal` excepts exactly these.
- *A growing source has no cap.* `publishArtifact()` tests the size it has seen
  (`src/files/store.ts:887`), copies to the end of the file (`904-911`) and compares only
  then (`913`): until the copy is given up the disk may hold more than
  `storageLimitBytes`, and the file more than `maxFileBytes`. `QuotaHeld` excepts the
  bytes beyond the tested size, and says where they are.
- *A save that outlives its service.* Disposal waits for the boot queue and not for the
  queue of the configuration service (`src/index.ts:1620-1633`). A save or a decision
  that it leaves behind writes the file after the next `apply()` has read it; the node
  then runs what the file no longer says, "the one outcome that must not happen"
  (`src/config-service.ts:11-14`). The caller of a save is told that the node was not
  rebuilt; that of a decision is told nothing. `Agreement` excepts the file and the
  decision in such a run, by `overtaken`.
- *The panel cannot name the profile as the token's source.* `sourceOf()` reads
  `profile['token']?.token` (`src/config-service.ts:192-196`), below the comment that "the
  token lives under `auth`". A token of the profile that is in use is reported as the
  environment's, or as `none`. `SourceNamed` states both halves.

- *An early request erases the stored document.* The endpoints accept a save or a
  decision before the initial task has seeded the service. It is folded over an empty
  document and written (`src/index.ts:1611`). A file that is unreadable for a moment
  (`readConfigFile` reports it and boots without it) has the same effect on the next
  save. `Agreement` excepts such a run, by `astray`.
- *A swallowed manifest write counts twice.* `#expireManifest` and `#markMissing`
  swallow the failure of their write; the disk still says `ready`, and a sweep that
  reads the manifest from disk subtracts its size again (`src/files/store.ts:1139`).
  A chmod that fails after the rename leaves the final bytes to nobody
  (`src/files/store.ts:662`). `Accounting` excepts a process in which that happened,
  by `slip`.
- *Any error of stat means missing.* At `open()` a transient error deletes the bytes of
  a file that is there (`src/files/store.ts:380`). The properties except it, by
  `harmed`.
- *The identity check of the usage queue compares nothing.* `ensureUsage(host.nodeId)`
  runs before `host.start()` has loaded the identity (`src/index.ts:1542`), while its
  comment says that the id is known on the first boot; without an id from the profile
  it is empty on every boot. `usageUnsupported` is never cleared, and a later
  boot that cannot bind leaves the owner of the earlier one.
- *Two processes at the identity file.* The exclusive create and the write are two
  steps, and a second process that reads between them moves the file aside and makes
  another identity, against the comment at `src/identity.ts:137`. Not modelled: one
  process.
- *After a failed identity* `connect()` keeps the decision and does nothing else until
  the next save rebuilds the host.
- *The bridge.* `pending()` after disposal renews a view lease, and the lapse of a lease
  leaves a question that is already remote where it is.
- *Files left behind.* A failed write of the configuration leaves its `.tmp`, which
  may hold the token, although the comment of `writeConfigFile` says that a failed save
  cannot: only a failed rename removes it. Temporary manifests of the file store are
  not removed by `open()`, and a rejected `open()` is remembered for good.

## 5. Proofs

| Theorem | States |
|---|---|
| `Connector_proofs!TypeCorrect` | `Spec => []TypeOK` |
| `Connector_proofs!SingleSocket` | `Spec => []OneLiveSocket` |
| `Connector_proofs!TimersHaveOwners` | `Spec => []TimersOwned` |
| `Connector_proofs!Disposal` | `Spec => []StopIsFinal` |
| `Connector_proofs!Progress` | `Spec => []NeverStranded`, for a caller that awaits `stop()` |
| `Connector_proofs!Backoff` | `Spec => BackoffSurvivesFlapping` |
| `Connector_proofs!Contract` | `Spec => LinkContract`, for a caller that awaits `stop()` |
| `Requests_proofs!TypeCorrect` | `Spec => []TypeOK`, the ceiling included |
| `Requests_proofs!RecordsHaveRuns` | `Spec => []OneRunPerRecord` |
| `Requests_proofs!TimersHaveRecords` | `Spec => []TimersOwned` |
| `Requests_proofs!OwnAnswer` | `Spec => SettledByItsRun` |
| `Streams_proofs!TypeCorrect` | `Spec => []TypeOK`, the ceiling included, for fresh ids |
| `Streams_proofs!EntriesHaveRuns` | `Spec => []OneRunPerEntry`, for fresh ids |
| `Streams_proofs!NoSilentClose` | `Spec => []ClosedMeansTold`, for fresh ids |
| `Streams_proofs!Implements` | `Spec => WirePromise`, for fresh ids |
| `Streams_proofs!BoundedBuffer` | `Spec => []MemoryBounded`, for fresh ids |
| `UsageQueue_proofs!TypeCorrect` | `Spec => []TypeOK`, for reads not ahead |
| `UsageQueue_proofs!Durable` | `Spec => []NothingLost`, for reads not ahead |
| `UsageQueue_proofs!Refinement` | `Spec => LogSpec`, for reads not ahead |
| `UsageQueue_proofs!Accountable` | `Spec => []NoSilentSkip`, for reads not ahead |
| `UsageQueue_proofs!ToldFirst` | `Spec => GapFirst` |
| `UsageQueue_proofs!LastWord` | `Spec => FinalIsFinal` |
| `UsageQueue_proofs!NoGhosts` | `Spec => []NoneLeftRunning` |
| `FileStore_proofs!TypeCorrect` | `Spec => []TypeOK`, the byte count never negative |
| `FileStore_proofs!Wholeness` | `Spec => []WholeUntilExpired` |
| `FileStore_proofs!RetryFinds` | `Spec => []OneUploadPerKey` |
| `FileStore_proofs!Refinement` | `Spec => VaultSpec` |
| `FileStoreCount_proofs!Bookkeeping` | `Spec => []Accounting` |
| `FileStoreCount_proofs!WithinLimit` | `Spec => []QuotaHeld` |
| `Node_proofs!TypeCorrect` | `NodeSpec => []NodeTypeOK` |
| `Node_proofs!QuietAgreement` | `NodeSpec => []Agreement` |
| `Node_proofs!OneHost` | `NodeSpec => []OneNode` |
| `Node_proofs!OneIdentity` | `NodeSpec => []SameIdentity` |
| `Node_proofs!NoneStray` | `NodeSpec => []NoStrayQuestion` |
| `Node_proofs!SavedWins` | a save that is let through is what the next boot resolves to |
| `Node_proofs!SourceNamed` | the layer that `sourceOf` names is the one in use, but for a token of the profile |

They hold for every pool of sockets, ids, runs, files, requests and questions, every
layer of configuration and every bound; the
assumptions are the named `ASSUME`s of the modules. `StoreAssumption` takes the ids of
the file store to come from finite sets, as UUIDs do, so that what they hold can be
counted.

*Connector.* `OneLiveSocket`, `TimersOwned` and `StopIsFinal` are not inductive
alone. `Ownership` adds who holds which socket: a current socket belongs to a
running connector, exists, and is not one a pending `stop()` waits for; the
sockets `stop()` waits for are open or closing; a watched socket is closing; and
while a socket or a reconnect timer remains, the refusals are within the limit.
`Progress` needs in addition that a running connector has no pending `stop()`
(`Undisturbed`, where the caller that awaits `stop()` comes in: without it the
theorem is false, as finding 1 shows) and that a socket still dialing has no
`createReady` promise outstanding (`FreshDial`). `Backoff` needs no more than the types:
besides the owner's calls only `StableReset` lowers the counter, and `CompleteHandshake`
under `instantReset`.

*The link.* `Requests` and `Streams` are each modelled with a `link` of their own.
`Link` is that variable in terms of the connector's state and socket, and
`LinkContract` says of every step of the connector what those modules take for
granted: the link opens from `down`, begins to close from `open`, and goes `down`
exactly where `onDisconnected` is called or the owner drops it. `Contract` proves it
from `Undisturbed` and from the fact that an established socket was opened (`Opened`).
For an owner that does not await `stop()` it is false, once more by finding 1: the
state written at the end of an old `stop()` takes a new link away with no call of
`onDisconnected`.

*Requests.* The strengthening is that a run without a record exists only while
the link is down (`OrphansOffline`): `LinkUp` waits for decided races, so that no
leftover run meets a record of the next link.

*Streams.* "Fresh ids" is the hypothesis `FreshIds`: the Coordinator reuses no id that a
run still has. Finding 5 shows that it is needed. The strengthening ties the three views
of a stream together (`LiveMatch`): the last frame the Coordinator saw carries the
`count` of the entry, and `seq` is `count` while the run pulls and one more, equal to
the value in hand, between pulling and sending. `AskedFresh` says that an id on its way
has no run yet. `ClosedMeansTold` is part of the invariant: `TerminateKeeps` shows that
an entry goes with its frame or into `refused`. The lemmas follow the ways a step can
touch the registry (`TerminateKeeps`, `RunStepKeeps`, `LinkKeeps`, `FailAllKeeps`,
`AskKeeps`, `RefuseKeeps`, `AdmitKeeps`), each of which also shows that the step is one
of the contract; an action is then an instance of one of them. For the memory bound,
`Room` counts the frames in the transport and the values past `drain` together: `drain`
lets a value through only below the mark, and sending moves it from one count to the
other.

*Usage queue.* Three invariants for three parts of the state. `LogInv`: the outbox
is the end of the log (`Suffix`), `acked <= cursor <= delivered <= latest`
(`Watermarks`), and what is gone was acknowledged while what is behind the cursor
is stored (`Kept`); "not ahead" is the hypothesis `~CursorsAhead`, which
`delivered <= latest` rests on and finding 6 shows to be needed. `GapInv`: while a
refusal is untold the mark is set and the call under way still has its gap before
it. `AttemptsInv`: a row agrees with what was said, generators and calls exist
only in an open store, and a generator has not had its last word, or has seen a finish
chunk and may bring another (`Again`). `PageAccounts`
is the lemma about a single page. Every step touches the log in one of five ways
(`FiveWays`), which both `LogInv` and the refinement are proved by. A page that
arrives hands over everything up to its end, because what lies behind its cursor and
what it calls pruned was stored before (`ReadDelivers`); cleanup prunes a prefix, up to
the lower of acknowledgement and retention window (`CleanupPrunes`).

*File store.* A file goes from staged bytes to final bytes to a manifest, and the
operation at the head of the queue says where it is. `Staged`: an open upload has its
bytes in `incoming/` and no manifest, until its own commit has moved them. `Rows`: a
manifest has its bytes unless the file has lapsed, and only what has a manifest is
cached. `Making` and `Walking` say the same of the file under the operation, place by
place; `Opening`, that no upload exists while `open()` runs. One lemma per durable call
(`RenameKeeps`, `RowKeeps`, ...) preserves them through success, failure and crash.
For the refinement a step is one of four kinds: a manifest appears (`RowRefines`),
bytes go (`DropRefines`), a stat fails (`SeesRefines`), or the files look the same
(`QuietRefines`, `UnnamedRefines` for bytes that no manifest names).

*What the file store counts.* The disk and `used` change at different durable calls, so
`Accounting`, which speaks of an idle store, is not inductive. `Counting` states the
balance at every place of every operation: a copy is on the disk before it is counted
(`Uncounted`), an upload that is discarded is counted after its bytes have gone
(`Vanished`). To keep the balance, an operation must add and subtract what is really
there. `Attending`: the upload it moves or discards is still open, and its bytes have
moved whole. `Fresh`: nothing stands under a final name that is still to be written.
`Whole`: the bytes of a manifest are all there or none. `Cached`: the cache that an
expiry consults before it subtracts agrees with disk and manifest. `Recounting` is the
same balance inside `open()`, where only the manifests already loaded have been counted
and staged bytes have been cleared first. `LInv` is `QuotaHeld` on the way: the bytes
whose room was tested (`Within`) and those that the copy under way has still to come to
(`Coming`) are within the limit, since nothing else can take that room while the
operations are served one at a time; a copy that has outgrown its test is about to be
given up or cleared (`Grown`), and one that was placed left no temporary file
(`Placed`). The lemmas on `Held` (`HeldExcept`, `HeldSplit`, `HeldLess`, ...) say what
changing one entry does to the count of chunks; `DiskMoves` applies them to the three
kinds of name at once.

*Node.* `Agreement` speaks of quiet states only; the invariant says what is true on the
way. `Tasking` and `Queueing` describe the two queues: one initial task, which is first;
at most one task of a save, whose call is still the head of the other queue; one last
task. `Queueing` says the same of the calls a disposed service has left (`Apart`: a call
is in one of the two queues, once). `Stepping` and `Housing` tie the step of the first
task to the hosts and to the phase of the plugin, from which `OneNode` follows.
`Naming`: no identity has been used while one is being made. `Following` is agreement
under way. The file's side: what is in memory is what is in the file (`Synced`) and the
decision in the file is the last accepted one (`Chosen`), unless the run is astray or
overtaken; what was read is what stands there when the service is seeded (`Reading`);
and calls that a disposed service has left fold over a document with the decision of the
file while the new run has not read it (`Left`). The host's side, which nothing from the
disposed service reaches: a draft differs from the service's document only in what was
asked (`Drawn`), what waits to be booted is what was written (`Pending`), and the
current host runs the service's document unless its replacement is queued (`Running`).
`SavedWins` and `SourceNamed` need no state: they are about `Fold`, `Merge`, `Resolve`
and `SourceOf` for all documents and layers.

*Only model-checked.* The liveness properties (`AuthenticatingEnds`, `HalfOpenDetected`,
`StopCompletes`, `RequestsEnd`, `StallEnds`, `CatchesUp`, `Reclaimed`, `CallsEnd`) need
fairness and `ENABLED`, out of the prover's reach. Every safety property, action
property and refinement that a passing run checks is also a theorem.

## 6. What is not modelled

- *Components.* The frame codec and the error values are pure; their outcomes are
  inputs of the models. The admin surface makes single calls over the file system and
  keeps a bounded audit ring that nothing else reads. The client UI is views, and a
  poller that is its only state machine. The read-only part of the HTTP surface and
  the status projections have no state of their own. The release tools are not part of
  the node.
- *Connector, requests, streams.* Whether an `rpc.result` is carried. Each has its own
  small link in place of the other's model, which `Contract` ties to the connector;
  `NodeLink` below would run them together. The inside of the Gateway and of `ws`.
- *Usage.* The ownership lock, the size that makes a refusal (a choice), coverage
  rows, stored snapshots that cannot be parsed, and SQLite itself.
- *File store.* Content and hashes of a file, which session owns it, files of size
  zero, a call of `close()` while `open()` is under way, and real time. It is assumed that
  the operation `close()` cuts off ends before another store of the same directory opens:
  `close()` (`src/files/store.ts:1085`, called at `src/index.ts:1428`) does not wait for
  the serial queue.
- *Lifecycle.* `lastState` and `currentError`, the capability index, the switch that
  disables usage, an id that the profile gives, and a second process at any of the
  files. A shutdown that rejects: nothing that `host.stop()` awaits does, and the disposers
  of the endpoints (`src/index.ts:1746`) are external. A bound of `Apply`: the calls that
  one disposed service has left end before a third service comes.
- *Questions.* The contents of questions and answers.
- Frame encoding, logging and wording everywhere; real time, except as the order of
  timers and the counters that stand for it.

## 7. Plan

| # | Module | About | Abstract view, theorems |
|---|---|---|---|
| 1 | `Connector` | done | proved |
| 2 | `Requests` | done | proved |
| 3 | `Streams`, `StreamWire` | done | proved, refinement included |
| 4 | `UsageQueue`, `UsageLog` | done, but for the ownership lock (row 8) | proved, refinement of `UsageLog` included |
| 5 | `FileStore`, `FileVault` | done | proved, refinement and counts included |
| 6 | `NodeConfig`, `NodeLifecycle`, `Questions`, `Node` | done | proved, but for liveness |
| 7 | `NodeLink` | connector, requests, streams and the calling peer composed through the delegate: one run of all of them | each part's link is the connector's (`Contract`) |
| 8 | `Identity`, `OwnerLock` | two processes at one file: the identity and the lock of the usage queue | one winner |
| 9 | `StatusPoller`, `AuditRing` | overlapping polls; the bounded ring | |

Runs keep to small instances (two or three of each identity) and stay within
minutes; the proofs follow the models.
