# TLA+ verification of PersDB's db process

This directory holds TLA+ models of the parts of PersDB (Netsend/persdb)
whose behaviour depends on the order of events. These are the db child
process (`lib/db.js`, here `src/unnamed/part_004`), its startup chain, and the
logger it opens (`src/lib/logger.js`). TLC model-checks them on small
instances. TLAPS proves, for every value of the constants, every safety
property that a passing run checks:
- the invariants of the db process, and (proved only, not model-checked)
  that it implements an abstract specification of its channels and its
  store (`DbChannels`);
- the tree's heads index;
- the logger's counters;
- the confinement of the startup chain.

One of the logger's theorems carries a hypothesis on the constants, which
the Proofs section names.

## The system and its parts

A `pdb` launcher (`src/bin/pdb`) starts a master process. The master forks
one **db child** per configured database. Each child follows the same
sequence:

1. **Startup** (`db.js` 628-773). The child sends `init` and waits for a
   config message. It opens its **logger**, loads hooks, and looks up the
   user and group. It then ensures the chroot directory and the data path
   `dbroot/data` exist (mkdirp, stat, mkdir, chown), chroots, and opens the
   store with `level`. Finally `postChroot` builds the MergeTree, attaches
   `handleIncomingMsg` and sends `listen`. Every failing step exits with its
   own code.
2. **Running** (`db.js` 176-626). The parent sends control messages, most of
   them with a socket:
   - `headLookup`, `localDataChannel` and `remoteDataChannel` each set up a
     channel. Each registers its socket in `connections` under
     `getConnectionId(conn)`; a socket whose id is already present is
     refused.
   - `autoMerge` pipes merges into the local write stream.
   - `kill` shuts the child down: it ends every registered socket, waits for
     each `close`, then calls `mt.close()` and then `db.close()`.
   - The head lookup channel answers `{id}`, `{prefixExists}` and `{}`
     requests from the local tree. An id that is still in the tree's write
     buffer is retried every 100 ms.
3. The **local tree** of the MergeTree is the store the channels write to
   and read from. It has a write buffer, version and parent validation, and
   a heads index. Its code (`lib/tree.js`, `lib/merge_tree.js`) is not among
   the sources, so it is modelled from spec sections 3 and 4.1.

The runtime is Node's event loop: every callback runs to completion. Each
action of the models is therefore one callback, with every state change the
callback makes. Concurrency comes from the order in which callbacks,
messages and peer events are delivered.

## Modules

| Module | Models | Source |
|---|---|---|
| `Tree` | the local tree: `Submit` (write stream, back-pressure at `BufMax`), `CommitValid`/`CommitRejected` (one atomic batch: log, heads index, buffer), lookups `LiveHeads`, `HeadsOf`, `LastVersion`, `InBufferById` | spec 3, 4.1 (spec-modelled) |
| `DbProcess` | the running db child: one action per message type of `handleIncomingMsg`, the registry `connections`, socket close (`PeerClose`, `Destroy` = `connErrorHandler`), the head lookup channel (`ClientRequest`, `ReadRequest`, `ScanById`, `ScanByPrefix`, `RetryTimer`), the local writer, and shutdown (`MsgKill`, `DrainDone`, `MtClosed`, `DbClosed`) | `db.js` 176-626 |
| `DbChannels` | the abstract channel service the db child implements: `Accept`/`AcceptWriter` under a free connection id, `StartWriter`, `Release`, `Write`/`Flush` of the store's buffer, and the shutdown stages `Kill`, `CloseTree`, `CloseStore`, `Closed` | spec 5, 7, P8 (abstract) |
| `MC_DbProcess` | constants for TLC: three sockets sharing two connection ids, one known and one unknown perspective, one id with two versions | |
| `DbProcessProofs` | TLAPS proofs about `DbProcess` | |
| `DbRefinementProofs` | TLAPS proof that `DbProcess` implements `DbChannels` | |
| `Logger` | `logger()`: the option checks, the nextTick task and one `openFile` task per file (a path, a descriptor, descriptor 0, or a stream); the `tasksDone` counter; `log()` and the level functions with `mask`, `silence` and `console`; `close()` with its debug message and its own tasks; a later write error on a path stream; `levelToPrio` | `logger.js` 26-39, 42-313, 328-336 |
| `MC_Logger` | constants for TLC: the file kinds, masks (from `levelToPrio`) and message priorities | |
| `DbInit` | the startup chain, one action per callback, with the exit codes | `db.js` 628-773, 392-470 |
| `DbStartup` | `DbInit` composed with `Logger` (both by `INSTANCE`): a logger step that calls `cb` also runs the db's callback, in the same step | |
| `TreeProofs` | TLAPS proofs about `Tree` | |
| `LoggerProofs` | TLAPS proofs about `Logger` | |
| `DbStartupProofs` | TLAPS proofs about `DbStartup`, reusing `LoggerProofs` by `INSTANCE` | |

### How the state corresponds to the code

`DbProcess`:
- `headLookupReceived`, `localDataChannelReceived`, `autoMergeReceived` and
  `connections` are the globals of `db.js`.
- `connSt` is each socket's state: `new` (held by the parent), `open` (a
  head lookup or local data socket with its listeners), `remote` (a remote
  data socket), `errored` (a remote socket whose `'error'` listener has run
  and whose `'close'` is still to come), `leaked` (refused without a
  reply) or `closed`.
- `writeStreams` and `mergeStreams` count the calls of
  `mt.createLocalWriteStream()` and `mt.startMerge()`.
- `drain` holds the sockets whose `conn.once('close', cb)` shutdown still
  waits for.
- `phase` follows shutdown's callback chain.
- `sent`, `rd`, `lk` and `out` are the lookup client's requests, how many
  `ls.read()` has returned, the state of each lookup, and the answers in the
  order they were written.
- `lk[k].snap` is the set of heads the `getHeads` scan sees. It is taken
  when the scan starts, because the scan reads a snapshot.

`Logger`:
- `pending` and `tasksDone` are the unfinished tasks and the counter.
- `calls` lists every call of `cb`, so a second call is visible.
- `kind` is how each file is given: `path`, `fd` (a descriptor other than
  0), `fd0` or `stream`. `Tasked` is the files `if (file)`/`if (error)`
  accept, so `fd0` gets no task.
- `cons`, `silence` and `mask` are the options; `logged` is the
  priorities the level functions were called with, and `out` the
  `<<destination, priority>>` pairs `log()` has written (`file`, `error`,
  `stdout`, `stderr`).

`DbInit`:
- `stage` is the callback the process waits for.
- `pathKind` is what the data path is before startup: absent, a directory
  or a file.
- `exitCode` and `failed` record how the process ended.

Data is abstracted throughout. Sockets, ids, versions, perspectives and
prefixes are model values; an item keeps only `id`, `v`, `pa` and whether it
is live. Formatting, logging text and BSON/LDJSON framing are left out.

## Runs

| Run | cfg | Expect | Checks |
|---|---|---|---|
| tree | `MC_Tree.cfg` | pass | `TreeTypeOK` and `HeadsIndexExact` (the incremental heads index equals the heads defined by the parent relation) |
| dispatch | `MC_DbDispatch.cfg` | pass | `TypeOK`, `SingleLocalWriter`, `RegistryHoldsOpenSockets`, `StoreOutlivesChannels` (the registry is empty when `mt.close()` starts; it does not say every channel has closed, see double_delete), and the liveness `ShutdownCompletes` |
| lookup | `MC_DbLookup.cfg` | pass | the liveness `LookupCompletes` (every request read is answered, or the channel is destroyed) |
| stale_lookup | `MC_DbStaleLookup.cfg` | violation | `NotFoundNotStale`: a not-found answer only when no live head exists (spec P5) |
| answer_order | `MC_DbAnswerOrder.cfg` | violation | `AnswersInRequestOrder`: the lookup channel answers in request order |
| leak | `MC_DbLeak.cfg` | violation | `ChannelsAccountedFor`: every socket handed over is registered or closed |
| double_delete | `MC_DbDoubleDelete.cfg` | violation | `ChannelsEndedBeforeStore`: no accepted channel is open when `mt.close()` starts |
| logger | `Logger.cfg` (`MC_Logger`) | pass | `LoggerTypeOK`, `ReadyOnlyWhenOpened`, `ClosedOnlyWhenEnded`, and the liveness `LoggerAnswers` |
| logger_twice | `LoggerTwice.cfg` | violation | `CallbackOnce`: `cb` is called once |
| logger_fd0 | `LoggerFd0.cfg` | violation | `ReadyOnlyWhenOpened` with a file given as descriptor 0 |
| startup | `MC_DbStartup.cfg` | pass | `DbStartupTypeOK`, `ListenOnlyConfined` (the store is opened only after chroot, on a directory), and the liveness `StartupEnds` |
| startup_crash | `DbStartupCrash.cfg` | violation | `ListeningUntilKilled`: a listening child does not exit by itself |

### Bounds

- **Dispatch runs.** Three sockets share two connection ids, so every
  "connection already exists" branch is reachable. Two perspective names, one
  of them unknown, reach the unknown-perspective branch. There are no lookup
  requests. The dispatch run allows two writes, so that the refinement sees
  writes during `draining` and `mt.close()` waiting for the buffer; the
  leak and double_delete runs have none, as they are about message order
  and socket closes only.
- **Lookup runs.** One socket, up to two requests, and two writes into a
  buffer of one. This is enough to interleave a commit between a scan and
  its buffer check, to make a retry happen, and to give an id two heads
  (which destroys the channel).
- **Tree run.** Two ids, three versions and a buffer of one. Symmetry is
  used over ids and versions.
- **Logger runs** cover every combination of file and error, each given as a
  path, a descriptor or a stream, with console and silence on or off. The
  masks are NOTICE (the default) and DEBUG2; the messages are ERR (which
  goes to the error file), NOTICE and DEBUG (which the default mask drops),
  and close's DEBUG2. Descriptor 0 is given only to the logger_fd0 run.
- **Startup runs** cover every initial kind of the data path, and every
  failure of every system call.

### Fairness

The process's own callbacks get weak fairness: scans, timers, the
`readable` listener, batch commits, the close callbacks of shutdown,
logger tasks, and the startup callbacks. The event loop runs each of them
once it is due.

Peers get fairness only where the code relies on them. A peer that
shutdown has sent a FIN (`conn.end()`) is assumed to close its side,
because shutdown waits for that `close`.

A remote socket whose `'error'` listener has run is destroyed, and Node
always emits its `'close'` later, so that `close` is weakly fair too.

The parent, the lookup client, the local writer and write errors get no
fairness: they may stop at any time. `LookupCompletes` therefore holds only
because the writer's items are eventually committed. While the buffer is
non-empty, the retry loop has no budget.

## Findings

1. **Stale not-found answer** (stale_lookup, `db.js` 251). `lookupById`
   asks `inBufferById` only after its scan has finished. An item committed
   in between is in neither place, so `{}` is written for an id with a live
   head. This contradicts spec P5 and scenario 6.
2. **Leaked socket** (leak, `db.js` 526-530). A `localDataChannel` that
   arrives after `autoMerge` is refused without `connErrorHandler`. Its
   socket is never destroyed or registered, so shutdown never ends it.
3. **Logger callback called more than once** (logger_twice, `logger.js`
   64 and 294). `cb` is called once per failing task. The `once('error', cb)`
   listener stays on an opened path stream, so a later write error calls
   `cb` again.
4. **Late crash** (startup_crash, `db.js` 677). Because of finding 3, a
   write error on the db child's log file re-runs the startup callback with
   `err`. It calls `l.err` on `undefined` and throws, so a listening child
   dies with exit code 1. The spec says children are stopped only by `kill`.
5. **Double delete** (double_delete, `db.js` 375). A remote socket's
   `'error'` listener deletes its row, and its `'close'` listener, run
   later, deletes the row again, whichever socket holds it by then. A
   socket registered under the same id in between loses its row, so
   shutdown does not end it and closes the store under a live channel.
6. **Answers out of order** (answer_order, `db.js` 227). Each request read
   on the head lookup channel starts its lookup at once, and the answers
   carry no request id. A lookup that waits for the buffer is answered
   after a later request, so the client pairs answers with the wrong
   requests.
7. **Descriptor 0** (logger_fd0, `logger.js` 165). `if (file)` treats
   descriptor 0 as absent. That file gets no task, and `cb` hands out the
   api although nothing will ever be written to it.

The model also shows three differences from the documentation that no run
checks:
- When the log cannot be opened, the child exits with code 1 (the
  TypeError of finding 4), not the 2 that spec 6 gives. `LogOpened`
  models the code's behaviour.
- The mask is documented for "file", but `log()` applies it before every
  destination (`logger.js` 212). With a mask below ERR, which a db's
  configured level can give, an error reaches neither the error file nor
  stderr. No run checks this: with the masks of the logger run (NOTICE
  and DEBUG2) an error always reaches the error file, and a run with a
  lower mask would only restate the order of the checks in `log()`.
- `close()` ends the streams but leaves `logFile` and `errFile` set
  (`logger.js` 219). A later log call still writes to an ended stream,
  although `close` is documented to stop logging.

## Proofs

`DbProcessProofs` proves four theorems for every value of the constants.
The only assumptions used are `DbAssumption` (in `DbProcess`): `BufMax`,
`MaxReq` and `MaxWrites` are naturals, `ConnIdOf` maps `Conns` to
`ConnIds`, `NoConn` is not a socket, the configured perspectives are among
the names a message may carry, and `Null` is not a version.

- `TypeCorrect`: `Spec => []TypeOK`.
- `SingleWriter`: `Spec => []SingleLocalWriter`.
- `RegistryOpen`: `Spec => []RegistryHoldsOpenSockets`.
- `StoreClosedLast`: `Spec => []StoreOutlivesChannels`. This says the
  registry is empty when `mt.close()` starts, not that every accepted
  channel has closed: a socket whose row another socket's late close
  listener deleted is not waited for (the double_delete run).

None of the three safety invariants is inductive by itself. They follow
from the inductive invariant `IInv`:

```
IInv == TypeOK /\ WriterInv /\ RowsKeyed /\ RegistryHoldsOpenSockets /\ DrainCovers
```

- `WriterInv` says the stream counters agree with the flags. It states
  `writeStreams = mergeStreams <= 1`, that the two flags are never both
  set, and that a stream exists only if one of them is set. Without it,
  `MsgAutoMerge` seems to be able to raise a counter already at 1.
- `RowsKeyed` says a socket is registered only under its own connection
  id. `Destroy` needs it to know which row it clears.
- `DrainCovers` says that, once shutdown has begun, every registered socket
  is in `drain`, and that after the drain no socket is registered. Without
  it, `DrainDone` seems to be able to leave a row behind.

TLC checked `IInv` as an invariant before it was proved (three sockets, one
request, one write). The proof shows `Init => IInv` and
`IInv /\ [Next]_vars => IInv'`, with one step per action and one lemma each
for the shared sub-actions `Destroy` and `Register`. It ends with `PTL`.
`TypeOK` is split into parts, because the Boolean flags (which Zenon
handles) and the counters (which SMT handles) cannot be proved in one leaf.

`DbRefinementProofs` proves `Refinement`: `Spec => RegistrySpec`. No run
model-checks `RegistrySpec`: under the model's guards it adds little to
`SingleLocalWriter` and `StoreOutlivesChannels`, and the abstract `Release`
may drop any registered id at any time, so the service does not see the
double delete. `RegistrySpec` is
`RegistrySpec` is `DbChannels`'s `Spec` under this mapping:
- `reg` is the set of ids whose row of `connections` holds a socket;
- `writer` is `writeStreams`;
- `stage` is `phase`;
- `buffered` is the length of the tree's write buffer;
- `writes` is `writes`.

The proof follows the usual layout. `Init` maps to the abstract `Init`.
Every step, under `IInv`, is an abstract step or a stutter. The theorem
then follows by `PTL`. Four lemmas carry the step proof:
- `DestroyRows`: a socket's close listener clears at most the row of its
  own id (a `Release` or a stutter, even when the row holds another
  socket);
- `RegisterRows`: registering under a free id adds that id;
- `RowsStep` and `FrameRef` turn these facts into abstract steps.

`IInv` is needed for three of the steps:
- `WriterInv` shows the writer does not exist yet when autoMerge or the
  local data channel sets it up;
- `DrainCovers` shows the registry is empty when `mt.close()` starts;
- `TypeOK` gives the buffer's length.

### The tree

`TreeProofs` proves two theorems for every set of ids and versions and
every `BufMax` in `Nat \ {0}` (`BufMaxAssumption`):

- `TreeTypeCorrect`: `TreeSpec => []TreeTypeOK`.
- `HeadsAreExact`: `TreeSpec => []HeadsIndexExact`. It is not inductive
  by itself. The write batch makes the new item a head without looking
  for an earlier item that names its version as a parent. The
  strengthening is `ParentsCommitted`: every committed item names only
  written versions (the MissingParent check). With it, no earlier item
  can name the new version, because that version is not yet written. TLC
  checked `TreeTypeOK /\ ParentsCommitted /\ HeadsIndexExact` on the tree
  instance with a buffer of two before the proof. The step proof shows
  that the rows the log determines (`HeadRows`) change exactly as the
  batch changes `heads`: old items lose their head status only to the new
  item, and the new item is a head.

### The logger

`LoggerProofs` proves its theorems for every `FileKinds`, `Masks` and
`MsgPrios` that `LoggerAssumption` allows. `logger()` and `close()` call
back when a counter reaches the number of tasks. That this means "every
file is open" (or "ended") holds only because of how the counter relates
to the tasks. The inductive invariant `LInv` states that relation:

- `OpenCount`: `tasksDone` is `TaskCount(pending, opened)`, that is the
  tick (once done) plus the opened files. `opened` and `pending` are
  disjoint, and both lie within the tick and the tasked files. A failed
  open is never counted.
- `ReadyExact`: once `cb` has had the api, no task is pending and
  `opened = Tasked`. This is why no later open can change `opened`.
- `CloseIdle` and `CloseCount` state the same for `close()`'s counter.
  `ClosedExact` is its `ReadyExact`.
- `LoggedAfterReady`: only the api logs.

TLC checked `LInv` on the logger run and on the descriptor-0 instance. The
step proof has one lemma per action. The counting steps rest on four
lemmas about subsets of the two roles:
- `RoleSubset`: such a subset is finite, with at most two elements;
- `RoleSubsetEqual`: a subset with as many elements as its superset is
  that superset;
- `RoleAdd`: adding a new role adds one to the size;
- `CalledFinish`: the effect of a callback on `Called`.

The theorems:
- `LoggerTypeCorrect`: `Spec => []LoggerTypeOK`.
- `ReadyWhenTasksOpened`: `cb` gets the api only when `opened = Tasked`.
  This holds for every `FileKinds`, descriptor 0 included.
- `ReadyOnlyOpened`: `ReadyOnlyWhenOpened`, under the hypothesis
  `"fd0" \notin FileKinds`. The logger_fd0 run shows it is false without
  the hypothesis, because a file given as descriptor 0 gets no task.
- `ClosedAfterEnds`: `Spec => []ClosedOnlyWhenEnded`.

### Startup

`DbStartupProofs` proves two theorems for the composition `DbStartup`:

- `StartupConfined`: `Spec => []ListenOnlyConfined`. The invariant is not
  inductive, because the steps into `"listening"` and into an open store
  look at neither `chrooted` nor the data path. `Confined` adds four
  facts:
  - a chroot happens only on a directory;
  - the chown stage is reached only by creating the directory;
  - the level and listening stages come after `chroot()`;
  - the store opens only after `chroot()`.

  TLC checked `Confined` on the startup run before the proof. A logger
  step reaches the db's state only through the db's logger callback
  (`LoggerStepEffect`), which is one of the `DbInit` callbacks
  (`LogOpened`, `LogFailedLate`), so the proof covers it with the same
  lemma as the db's own callbacks.
- `StartupTypeCorrect`: `Spec => []DbStartupTypeOK`. It instantiates
  `LoggerProofs` with the db's logger options and reuses its per-action
  lemmas for the logger's steps in the composition. It discharges the
  instantiated `LoggerAssumption` in the proof.

### What stays with TLC

- The liveness properties (`ShutdownCompletes`, `LookupCompletes`,
  `LoggerAnswers`, `StartupEnds`) need fairness and `ENABLED`, which the
  provers do not handle.
- `DbChannels` has no fairness, so only the safety part of the service is
  refined. Shutdown's liveness is `ShutdownCompletes`, checked by TLC.
- The violation runs are counterexamples. There is nothing to prove
  there.

## Not modelled

- The MergeTree's merge, the conflict store, `remote_conn_handler` and the
  master process are not among the sources. The remote data channel is
  modelled only by its registry entry and socket events.
- The `pdb` launcher, `rmpe`, `adduser` and the `openDb` helper are
  sequential I/O with no concurrent state.
- The configuration files and the tests are data and test code.
- SIGUSR2 only reads state and logs, so it is left out.
- The error and close listeners of head lookup and local data sockets run
  in one step (`PeerClose`). Only remote sockets delete their row in
  `'error'`, so only they are split (`RemoteError`, then `PeerClose`).
- A socket error on the local data channel is an uncaught `'error'` event
  that ends the child (no listener is installed). `DbProcess` has no
  crashed state, so this is listed as a hazard and not modelled.
- The message window before `listen` (`db.js` 566) needs the parent, which
  is not among the sources.
- Lines 340-543 of `logger.js` are a test script for the conflict store,
  whose implementation is not among the sources.

## Plan for later work

- A refinement of the lookup answers against an abstract head lookup
  service. It would have to allow the stale answer and the reordering found
  above.
- Lifting the tree theorems to the tree inside `DbProcess` (by `INSTANCE`
  of `TreeProofs`).
- A model of the message window before `listen`, linking `DbInit` and
  `DbProcess`.
