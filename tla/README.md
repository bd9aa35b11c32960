# Verification of Стройчат: reliable websockets, jobs, cluster mutexes and the webapp's posts

Стройчат is a fork of Mattermost: a server in Go (`src/server`) and a web client in
TypeScript and React (`src/webapp`). This project models the parts of it that
have a protocol of their own, checks them with TLC on small instances and proves
what matters most with TLAPS for every value of the constants.

Five parts are modelled: the **reliable websockets** through which a client
that loses its connection goes on with its stream of events, the **job server**
through which the nodes of a cluster share background work, the **cluster mutex and
the jobs** that the server offers to plugins, and, of the web client, the **posts of a channel**, kept complete from pages, pushed posts and syncs, and
the **data loaders** that fetch single objects in batches.

## 1. Inventory

### Components that have a protocol

| component | state | operations | what makes it correct | modelled |
|---|---|---|---|---|
| websocket connection (`app/platform/web_conn.go`) | send queue, circular dead queue, sequence number, id, active | `PopulateWebConnConfig`, `writePump`, `readPump`, the dead queue's operations | the stream goes on where the client stands, or starts afresh | yes, without requests |
| hub and its index (`app/platform/web_hub.go`) | the WebConns by user, by connection, by connection id | register, unregister, checkConn, broadcast, invalidateUser, the reaper, recovery from a panic | sends only to open channels; one WebConn per id; every event of a user reaches a queue | yes, one user, one hub |
| websocket handler (`api4/websocket.go`) | none of its own | `connectWebSocket` | takeover and registration fit together | yes |
| client (`platform/client/src/websocket.ts`) | connection id, expected number, socket | `initialize`, `onmessage`, `onclose`, the ping | every event once and in order, or a full fetch | yes, without requests |
| hubs of a cluster (`websocket_reliable.go`, `web_hub.go:299`) | queues on the wire between nodes | fetch of the queues of a client that comes to another node | as on one node | planned |
| websocket requests (`websocket_router.go`, `wsapi`) | replies in the send queue | request, reply, callbacks of the client | a reply goes to the request it answers | planned |
| presence (`status.go`) | status per user | online, away, offline from several goroutines | the last connection decides | planned |
| jobs (`channels/jobs`, `job_store.go`, `indexing_job.go`) | table of jobs, replica, workers | create, claim, progress, success, error, cancel, stop, reset | one runner per job, no work lost, a finished job stays finished | yes |
| posts of a channel (`reducers/entities/posts.ts`, `actions/views/channel.ts`, `post_list.tsx`) | blocks of posts, time of the last fetch, requests in flight | load a page, receive a pushed post, sync after a reconnect | no gap is hidden, no post dropped, blocks in order | yes, without pending posts, comments and deletions |
| data loaders (`utils/data_loader.ts`, `status_profile_polling.ts`) | identifiers to load, timeout, promises, interval | `queue`, `queueAndWait`, the timeout, an answer, the polls | nothing lost, nobody starves, a promise is kept when its data is there | yes |
| sidebar categories, drafts, preferences (`actions/channel_categories.ts`) | optimistic copies of server state | update, roll back | a failed update leaves what was there | planned |
| job schedulers (`schedulers.go`, `migrations/`) | leadership, next run per type | elect, schedule | one job per run | planned |
| shared channels, remote clusters (`platform/services`) | task queue, cursors, remotes | notify, sync, retry, receive, ping | every post reaches the other server | planned |
| plugin cluster mutex and jobs (`public/pluginapi/cluster`) | a key that expires; rows and goroutines of jobs that run once | lock, refresh, unlock; schedule, poll, run, cancel | one holder; a job runs once, and never after it was canceled | yes, without the recurring job |
| post creation (`post.go`) | cache of pending post ids | create with a pending id | a retry makes no second post | planned |
| upload sessions (`upload.go`) | file and offset | parts, crash, resume | no byte twice | planned |
| busy flag (`busy.go`) | flag and timer | set, clear, expiry | a new period is not cut short | planned |
| store caches (`localcachelayer`) | entries per node | read, invalidate | no stale entry for good | planned last |

Not modelled and not planned: database migrations (scripts run in order by a
library), mail batches and push notifications (their loss is accepted by
design), the REST API and application logic (sequential code over the store) and
the rest of the web client's user interface. `PROJECT.json` lists all of them with reasons.

### How they interact

The handler of a websocket sends messages to the hub's channels (`checkConn`,
`register`) and waits for the answers; the hub owns its index and is the only
goroutine that closes a send queue; each WebConn's `writePump` runs beside it and
shares the queue with it. On a takeover the new WebConn shares queues with an old
one that is out of the index. The client knows of all this only a connection id
and a number. Nodes meet in the database: jobs are claimed by conditional
updates of a table, and what a node reads comes from a replica that may lag. A
configuration change or a shutdown stops the workers through a channel; an
administrator writes to the same rows through the API.

### What is hard

`PROJECT.json` lists the hazards at their lines. The hard ones here are the
steps between two messages to the hub, the arithmetic of a circular buffer,
bytes written to a socket that is already broken, ids changed by one goroutine
and indexed by another, workers acting on a stale status, writes without a
condition next to writes with one, and stops and crashes between the work and
its record.

## 2. The modules

| module | what it is |
|---|---|
| `DeadQueue` | the circular dead queue as operators on a buffer and its pointer |
| `EventStream` | abstract: what the client is promised, without connections or numbers |
| `ReliableWebSocket` | hub, WebConns of one user, handler, client and network; EXTENDS `DeadQueue`, implements `EventStream` |
| `JobServer` | the table, its replica, the workers, the watcher, administrators |
| `PostBlocks` | the reducer of a channel's blocks of posts as operators |
| `ChannelPosts` | requests, websocket, sync and the blocks they change; EXTENDS `PostBlocks` |
| `Mutex` | abstract: what a cluster mutex promises until a lease is not renewed |
| `ClusterMutex` | the expiring key, the loop of `Lock`, the refresh task, `Unlock`; implements `Mutex` |
| `JobOnce` | the jobs that run once, on every node of the cluster; EXTENDS `Mutex` |
| `DataLoader` | the two data loaders and the polls |
| `MCReliableWebSocket`, `MCJobServer`, `MCChannelPosts` | model values and symmetry for TLC |
| `EventStream_proof`, `ReliableWebSocket_proof`, `ReliableStream_proof`, `JobServer_proof`, `ChannelPosts_proof`, `ClusterMutex_proof`, `JobOnce_proof`, `DataLoader_proof` | the theorems |

The `map` of `PROJECT.json` names for each definition the lines it models. An
operator whose comment starts with "Mutant" is not part of any specification: it
is a wrong version of the definition it precedes, kept to show that the property
it is listed with in `PROJECT.json` notices the mistake.

### ReliableWebSocket

An event is the number of its broadcast; number 0 is the hello message. A
message on the wire carries its sequence number and its event, and so does an
entry of the dead queue. A WebConn is a record with a phase: the handler has the
request (`connecting`), has the queues (`accepted`), the hub knows the WebConn
(`registered`), `writePump` is in its loop (`pumping`), `Pump` is about to
unregister (`finished`), the handler has returned (`closed`).

* Each case of the hub's `select` is one action, as the loop makes it. What
  crosses the loop twice is two actions: `CheckConnFound` and `HubRegister`, with
  broadcasts in between.
* `writePump` numbers, records and writes one message per action, because the hub
  and the network run beside it. What it does before its loop is one of three
  actions: nothing to write, resume from the dead queue (a write may fail at each
  message), or message loss, with a new id.
* A write to a broken socket may succeed or fail; bytes already on the wire are
  lost when the client gives its socket up.
* `ClientReceive` is `onmessage`, with the hello's change of id, the reset of the
  expected number and the reconnect on a number out of sequence. The model shows
  that on one server the latter never happens (`ClientInSequence`).
* The client's ping is the guard of `ClientPingTimeout`: the hub drops an answer
  to a WebConn it does not know, so such a client gives up.
* `reused` is the code's `reuseCount # 0`: no hello for a stream taken over.
* The map by connection id is kept as the set of its keys.
* `ServerRestart` keeps the ids of closed WebConns only so that a hello that is
  still on the wire has its id.
* History variables: how many events were broadcast, what the last full fetch
  covered, what was delivered since, and which events were broadcast while a
  takeover held the client's queues outside of the index.

Left out: which connections an event is meant for (`ShouldSendEvent`), messages
that fail to encode, sessions that expire, replies to requests, the
authentication challenge, presence, and the path to the other nodes of a
cluster. `RemoveInactiveConnections` takes any inactive WebConn at any time: the
stale time is abstracted.

### JobServer

One job type; each node has one worker. `Kind` is the worker: `SimpleWorker`,
`BatchMigrationWorker` on `BatchWorker`, or the `IndexerWorker`. A row holds a
status and the number of batches its data records as done. `replica` is the
status column as the replica has it; `Replicate` brings it up to date. A worker's
phase says where `Run` and `DoJob` are; it reads and writes between phases.

* Conditional and unconditional updates are kept apart as in `job_store.go`:
  `UpdateOptimistically` with the statuses it may start from, `UpdateStatus`
  without a condition. `SetJobError`'s two statements are one step.
* A migration's job is created by `SaveOnce`, which counts the active jobs inside
  a serializable transaction, so that both are one step; the check of the migration's
  key happens when a node starts and may be long past, so it is no guard.
* `DoBatch` does the work (`done` records it), `SaveProgress` records it in the
  row: a crash, a stop or a failure may come in between.
* `ReportProgress` and `SetJobSuccess` are the two halves of `setJobSuccess`; the
  first may set an error and go on.
* `CheckStatusChange` and `UpdateJobStatus` are the two halves of the API's
  update, one request at a time and each counted as a fault, so that the bound
  holds them too. Batch jobs cannot be canceled or updated through the API, as
  nobody has the permission for their types (`JobServerAssumption`).

Left out: start and activity times, warnings, metrics, `force`, several workers
of a type on one node, and what a batch does. The claim and the indexer's set-up are
one step when the set-up fails (`SetupError`).

### PostBlocks and ChannelPosts

A post is its place in the order of creation. `PostBlocks` has one operator for each
action of the reducer `postsInChannel` and the two functions that merge blocks. The
sort of JavaScript's arrays is stable: `LargestFirst` puts each element after those that
have a larger key, or the same key and came before. `MergeInTurn` is the loop of
`mergePostBlocks` as a function of the number of blocks that are done.
`ChannelPosts` puts them to work: a request is sent, answered from the server's
posts of that moment and received, in three steps, so that two requests, pushed
posts and a lost websocket overtake each other in every order.

* A time is the number of posts published by then. `syncPostsInChannel` compares
  the last fetch with the last disconnect only, so a mark that is set by
  `Disconnect` on every time that exists stands for the comparison.
* The websocket has the freedom that `EventStream` gives it. `Reconnect` is the client's
  `onopen`, which the browser may call before the handler has taken the stream over. From
  the loss of the socket until the WebConn is registered, a post may enter no queue of the
  client's stream (`Publish`; `skipped` in `EventStream`, finding 1). Then the stream is
  resumed and nobody notices (`Resume`), or a hello with another id says that the dead
  queue, or all of the stream, is lost and the client syncs once more (`Restart`).
* `pending` has the posts that are still to be pushed. `missed` is a history variable with
  those that only a page or a sync can bring: skipped, lost with a stream or pushed before
  the channel was loaded. A sync that makes up for a lost websocket takes out what it is
  due to bring, whether it did or not.
* `OpenFirst`, `OpenDisplayed`, `OpenElsewhere` and `OpenPermalink` are the four
  branches of `postsOnLoad`. Which block is on display depends on what the user
  viewed last and is any of them.
* The answer to `loadUnreads` may be around any post, as the server's time of the
  last view is not modelled.

Left out: pending posts, comments, deletions, the reset of a channel's posts, the
second page of those who start at the newest post, server errors that are
answered as the end of the channel, clocks of client and server that differ, the
limit of 1000 posts of a sync, and a replica that lags.

### Mutex, ClusterMutex and JobOnce

A key in the plugin's key-value store is the mutex. Time passes in ticks: `key` counts
those until the key expires and `due` those until a refresh task's ticker fires. There is
one clock for all nodes. In the code each node gives the database its own time to compare
a key's expiry with: nodes whose clocks differ are left out. A tick may pass when no refresh and no `Unlock` is under way (`OnTime`): a statement of the
store takes less than a tick. Where it does not, or fails, that is a lapse
(`RefreshError`, `LateTick`). `Refresh` and `DeleteKey` do not look at who inserted the
key, as in the code, where the value of every key is the same byte. `Owner` maps this to
the owner of `Mutex`: whoever owns it, `Abandoned` when there is a key that nobody will
delete, or nobody. The first lapse is `Mutex`'s `Break`, after which it promises nothing;
what still holds then is `LapsesBoundOwners`.

`JobOnce` is built on the actions of `Mutex` but `Break`, so it takes the lease as renewed
in time. A row is the number of the schedule that stored it; `runAt` has the times. A JobOnce object has the
phase of its goroutine and its closed `done` channel; when the goroutine has ended the
object is `Unused` again, which is what `join` waits for.

* Only the holder of the mutex writes the row, so `LockAndRun` locks, reads and calls
  the callback in one step; `DeleteRow` and `ClearAndUnlock` come after it, because a
  crash or the lock of `activeJobs` may come between.
* A select whose timer is over when it begins may choose the timer although `done` is
  closed (`late`).
* `Cancel` of a key that is not active holds the read lock of `activeJobs` while it
  waits for the cluster mutex (`ReadLocked`).
* `Poll` and `TrackPolled` are the two halves of `scheduleNewJobsFromDB`.
* `runs` and `canceled` are history.

Left out: the recurring job of `job.go`, which sleeps and locks in a loop of its own;
callbacks that call the scheduler themselves (under the same key they would wait for
the mutex they hold); several keys; several callers on one node; values that do not
decode; and that `KVGet` reads a replica (`plugin_store.go:220`), which may lag behind
what the holder of the mutex wrote, so that a job might be run twice or its new row be
overlooked. The model's reads are of the row as it is.

### DataLoader

Each callback and each call is one action, as JavaScript runs them to their end.
`pendingIdentifiers` is a sequence, because a `Set` iterates in the order of
insertion and prepareBatch relies on it; what the caller's array holds is added in
any order. The promises that wait are the callers in `callbacks`; `asked` and
`received` are history. Nobody waits for the answers of the polls, so
`FetchBatchNow` only takes its batch. Two calls of `queueAndWait` with one
callback each are two callers.

## 3. Properties and runs

| run | module, configuration | checks |
|---|---|---|
| `websocket_handshakes` | 3 WebConns, 2 events, 2 faults, send queue of 1 | `NothingLeftBehind`, `IndexSound`, `ImplementsEventStream` |
| `websocket_liveness` | 2 WebConns, 3 events, 1 fault, queues of 2, with fairness | `TypeOK`, `ClientInSequence`, `ImplementsEventStream`, `EventuallyAccounted` |
| `job_migration` | batch migration, 2 jobs, 2 nodes, 2 batches, 3 faults, with fairness | `TypeOK`, `OneRunner`, `OneActiveJob`, `SuccessMeansDone`, `RecordedIsDone`, `CompleteMeansDone`, `EventuallyFinished` |
| `job_indexing` | indexer with cancellation, 2 jobs, 2 nodes, 2 faults | `RecordedIsDone`, `JobsStayFinished` |
| `job_updates` | simple jobs, every status update, 3 faults | `SuccessMeansDone` |
| `data_loader` | 3 identifiers (one falsy), 2 callers, 2 fetches in flight, batches of 1, with fairness | `TypeOK`, `TimeoutPending`, `NothingLost`, `ResolvedMeansReceived`, `EventuallyResolved`, `EventuallyPolled` |
| `channel_posts` | 3 posts, pages of 1, 2 requests in flight, websocket up to 1 post behind (the theorems cover every lag) | `TypeOK`, `NoSilentGap`, `OrderKept`, `PageOpensNoGap`, `PostsKept` |
| `cluster_mutex` | 4 goroutines, 2 faults, 2 lapses, with fairness | `TypeOK`, `OneOwner`, `LapsesBoundOwners`, `ImplementsMutex`, `EventuallyOwned` |
| `job_once` | 2 nodes, 2 objects, 2 times, 2 calls, 1 fault, with fairness | `TypeOK`, `RunsBounded`, `TrackedJobsRun`, `CanceledNeverRuns`, `RemovedForCause`, `AlwaysUnlocked`, `EventuallyRun` |
| `resumed_without_loss` | violation | `ResumedWithoutLoss` |
| `index_released` | violation | `IndexReleased` |
| `job_cancellation` | violation | `CancellationHolds` |

What they show:

* **The websocket implements the abstract stream** (`ImplementsEventStream`): the
  client gets the events in order, none twice, none left out unless it is told to
  fetch everything. The one exception is explicit in the abstract specification:
  `skipped`, the events broadcast during a takeover (the first finding).
* `NothingLeftBehind` says the same of a quiet stream, where no later number would
  reveal the gap: an event is with the client, on the wire or in the queue.
* `EventuallyAccounted`: after the last fault and the last broadcast the client
  gets there, from every state that a fault left behind.
* **Jobs are run by one node at a time** although every watcher reads a replica
  (`OneRunner`), **a success means that the batches were done** since the last
  reset (`SuccessMeansDone`, also where administrators set statuses by hand and
  several nodes run one job), the key that retires a migration is written only
  after the work (`CompleteMeansDone`), and a job that changes hands resumes
  without a gap (`RecordedIsDone`).
* `EventuallyFinished` excepts orphaned jobs: in progress, held by no worker. The
  code has no recovery for them; a migration's orphan also keeps `SaveOnce` from
  ever creating another.
* **No page hides a gap** (`PageOpensNoGap`) and none drops a post (`PostsKept`),
  whatever the order in which answers are received. What a lost websocket left out,
  or a resumed one skipped, is the client's again once a sync that starts at the last
  fetch is received (`NoSilentGap`); the posts in `missed` are the exceptions that the
  code has. One of them lasts: a post skipped after the client's sync was answered and
  before its WebConn was registered is on neither, and the next push goes on top of the
  gap; only the next loss of the websocket makes a sync start early enough. Blocks are in order except below a post that was pushed after
  newer ones had been fetched (`OrderKept`), which the code does not prevent.
* **No identifier is lost in a data loader** (`NothingLost`) and no wakeup
  (`TimeoutPending`), a promise is kept only when all it was given was answered
  (`ResolvedMeansReceived`), and a stream of later callers starves nobody
  (`EventuallyResolved`). A promise that waits for a falsy identifier is
  excepted: `queue` passes over it and the promise is never resolved.
* **A cluster mutex has one owner as long as refreshes are in time** (`OneOwner`,
  `ImplementsMutex`), although an unlock is a delete without condition. One failed
  refresh is enough to break it: the refresh task ends without telling the holder
  (`mutex.go:147`), the key expires, and another instance locks the mutex. Each refresh
  that fails or is late lets at most one more owner in (`LapsesBoundOwners`), for all the
  unlocks that then delete somebody else's key. What a crash leaves locked is free again in
  the end (`EventuallyOwned`).
* **A job that runs once runs** (`EventuallyRun`), again only after a fault
  (`RunsBounded`), and not at all once `Cancel` has deleted its row, on no node
  (`CanceledNeverRuns`). What is in `activeJobs` has a goroutine that will run
  (`TrackedJobsRun`); an entry without one would keep the node from ever polling the job
  again.
* A row is deleted after the callback, by `Cancel` or after too many failed reads
  (`RemovedForCause`), with one exception that the code has and the property names
  (`Outdated`): a goroutine that still waits for the time of an earlier schedule, which
  ran or was canceled elsewhere, deletes the row of the new one (`job_once.go:142`).
* Whoever locks the mutex of a job unlocks it (`AlwaysUnlocked`), with the exceptions that
  `Stuck` names, each of which the run reaches: `Cancel` waits, with the mutex, for a
  goroutine that waits for this mutex, or for one that `ScheduleOnce` never started because
  the poll had tracked the row before (`job_once.go:78`); and a goroutine waits, with the
  mutex, for `activeJobs`, which `Cancel` of a key holds while it waits for the mutex.

### Bounds

With two slots a dead queue of the code's shape rolls over at the third message,
and with three events a client can ask for a number that was overwritten; a
second WebConn is what a takeover needs and a third lets an abandoned handshake
race another one. Four ids are enough for the ids of three WebConns, of the client
and of the index, and three ids for two WebConns. The send queue overflows at
its bound. Two nodes and two jobs are the smallest instance in which
claims race and a migration is created beside another; two batches make a
handover in the middle. `MaxFaults` bounds crashes, stops, broken sockets, store
errors and status updates together; three of them reach, for instance, a stop, a
claim by another node and its crash. Symmetry is used in runs that check safety
only. Three posts on pages of one give two blocks with a gap between them, a post
that is pushed behind a fetched one, and a sync that starts before, at and after
the gap, one that a resumed stream skips and one that is pushed on top of it; one post
on its way is pushed before or after a page that holds it. Pages of
two with seven posts were simulated besides. One more
identifier than a batch holds is enough for the loader's second timeout. Two
refreshes fit in the life of a key, so that a delete or a refresh of somebody else's key
can come at each point of it; three lapses would need a fifth goroutine. Two calls and two
times let a job be scheduled and canceled, be scheduled on two nodes at once, or be
scheduled again while a goroutine of another node still waits for the time of a schedule
that has run; canceling in between would take a third call. A job is given up after two
failed reads, one fault more than `job_once` has time for, so that this branch of
`ReadError` is not reached. The
websocket runs, `data_loader`, `channel_posts` and `job_once` do not check for deadlock:
when all events are broadcast, everything is loaded or all calls are made, the bounded
system rests.

### Fairness

Weak fairness of the client's reconnect and its callbacks (the browser's event
loop and timer), of each handler and each `writePump` (goroutines that are never
blocked for ever: the hub's loop answers them), of the reaper (a ticker) and of
`Collect` (memory is not a bound in the code, as WebConns are here). Nothing is
assumed of faults or of broadcasts. For jobs: weak fairness of replication, of
starting a worker (nodes come back), of the watcher's poll and of the worker's own
steps; strong fairness of `WorkerStopped`, because Go's `select` chooses at random
between an offered job and the closed stop channel, and would have to choose the
job every time to miss it.

For the cluster mutex: weak fairness of time, of the loop of `Lock`, of the refresh task
and of `Unlock` (timers and goroutines that nothing blocks for ever). Nobody has to
unlock. For the jobs that run once: weak fairness of time, of the expiry
of a lock that nobody holds, of the poll, of each goroutine and of a caller that is in a
call. Nothing is assumed of who locks the mutex next, of calls or of faults.

For the data loader: weak fairness of the timeout, of the interval and of each
answer (timers of the browser fire, requests end in data or in an error).

## 4. Findings

1. `web_conn.go:550` - an event that the hub broadcasts between `CheckConn` and
   `Register` of a takeover enters no queue and gets no number; the stream resumes
   as lossless and neither side notices. The web client's reconnect listener
   fetches channels, threads and the current channel's posts again, which narrows
   the effect but does not cover every event.
2. `web_hub.go:940` - after message loss a WebConn has another id than the one the
   index holds, so `Remove` leaves the old entry in `byConnectionId` for good.
3. `jobs.go:199` - a cancellation that the API confirmed is lost when the worker
   stops before it notices: `SetJobPending` writes without a condition.

Where the code does less than a comment says and a property names the exception, there is
no run of its own: see `OneOwner`, `Outdated` and `Stuck` in section 3, and the condition
on `AdminUpdates` in section 5.

## 5. Proofs

All theorems hold for any number of WebConns, ids, events, jobs, nodes, batches
and faults, and any size of the queues, from the assumptions on constants named
in the modules (`DeadQueueAssumption`, `WebSocketAssumption`,
`JobServerAssumption`, `ChannelPostsAssumption`, `DataLoaderAssumption`,
`MutexAssumption`, `ClusterMutexAssumption`, `JobOnceAssumption`).

* `EventStream_proof`: the abstract stream is well typed, delivers in order, and
  has no gap but the skipped events; whatever implements it has these properties.
* `ReliableWebSocket_proof`: first, that the operators of the circular buffer do what
  their names say. `HoldsUpTo(dq, n)` says that a buffer holds exactly the last numbers
  below `n`; `AddExact` that recording a message keeps this, `HasMsgLossExact`,
  `IsInDeadQueueExact` and `DrainExact` what the three operations return of such
  a buffer. Then `TypeCorrect`, `IndexIsSound` and
  `ClientStaysInSequence` from one inductive invariant, `IInv`. None of the three is
  inductive alone: that the next number is the expected one depends on the dead
  queue being exact for the WebConn's sequence number (`ConnOK`), on ids that were
  just made being nobody else's (`NewIdsOK`), on the index holding at most one
  WebConn per id (`IndexOK`), and on the numbers on the wire following each other
  up to the WebConn's own (`ClientOK`). There is one lemma per action;
  `StepOfOne` and `StepOfMany` carry what a step does not touch.
* `ReliableStream_proof`: `StreamIsReliable`, the refinement of `EventStream`, and
  `NothingIsLeftBehind`. `IInv` speaks of numbers; `StreamOK`, inductive together
  with it, of the events behind the numbers. At most one WebConn of an id, in the
  index or not yet registered, holds the queues of a stream, so that no event gets a
  number twice. In the dead queue, on the wire and in send later numbers have later
  events (`Ordered`), so that a message found by its number is the one that was lost.
  The queues of the client's stream go on from the number where its wire ends, and
  whatever they hold leaves no gap behind what the client has received (`GoesOn`); this
  is asked only while the dead queue still reaches back to that number, because
  otherwise the stream will not be resumed. And whoever has another id than the
  client's sends a hello first (`SocketOK`), so that events of another stream never
  reach the client as its own. Dropping the client's socket is why the gap must be
  stated from the number and not from the socket: what was on the wire is then back
  among what the dead queue holds (`GoesOnDetached`). A broadcast is `Publish`, the
  receipt of an event `Deliver`, that of a hello `Resync`, all else stutters.
* `JobServer_proof`: `TypeCorrect` for every kind and every status update, from
  `TypeInv` (the type and: a worker that holds or was offered a job has one).
  `OneRunnerAtATime` and `FinishedJobsStayFinished` under
  `AdminUpdates \subseteq {"cancel_requested"}`, from `HolderInv`: holders have
  distinct jobs, the row of a job that is being worked on is in progress or to be
  canceled, and the row of a held job is never pending. The last part is why the
  writes without a condition do no harm: only the holder makes them. The condition
  is necessary: `updateJobStatus` checks a change against a row it read earlier and writes
  without a condition (`api4/job.go:370`), so that with "pending" among the updates a
  finished job may become pending again, although the API's documentation excludes it
  without `force`.
  Under the same condition `RecordedMeansDone`,
  `SuccessIsDone` and `MarkedIsDone`, for each kind of worker. They follow from
  `DataInv`, which says of a held job that both the worker's data and the row's
  name batches that were done since the last reset (`HolderData`), of a job nobody
  holds what its row may claim (`RowData`), and of the migration's key that some job
  has done everything and can never be claimed, so never be reset, again
  (`Retired`). A row in progress without a holder may claim batches that a failed
  reset undid: `RowData` leaves it out, and `HolderInv` shows that nobody resumes it.
  `ScheduledOnce` is about migrations: `SingleInv` says that nobody requests the
  cancellation of one and that two active jobs are the same, and every write but
  CreateJobOnce's leaves the set of active jobs as it is or makes it smaller.
* `ChannelPosts_proof`: all five properties of `channel_posts`, for any size of the pages,
  number of requests, posts and lag. First the reducer's functions. A stable sort is a
  bijection between ranks and places (`Places`), which gives `WithNewSorts`, `OrderMerged`
  and `BlocksSorted`: what is sorted has the same elements, largest first. `MergedBlocks`:
  `mergePostBlocks` keeps all posts and makes its blocks by merging pairs that overlap,
  because the blocks come with the newest first (`Reaches`); it is by induction along the
  recursion (`MergingExists`, `IntervalInduction`), for any set of blocks that such merges
  do not leave (`MergeClosed`). Then the invariant. `Sound` says of a block that between
  two of its posts none is missing that was there when the app started, that a recent
  block reaches that time, which is why a push on top of it opens no gap among them, and
  that post 1 ends it. `RequestOK` says that an answer is a span of posts that suits its
  request, and that a sync which has to make up for something starts there. `PublishedKept`
  says that every post since the start is held, missed or still to be pushed, also when a
  stream is resumed without it. `GapsAreKnown` follows at once;
  `FetchesKeepOrder` and `PagesOpenNoGap` repeat the argument of the merge for the blocks in
  order that lack no more posts than before (`OrderedBlocks`), and `NoPostIsDropped` comes
  with each step.
* `ClusterMutex_proof`: `OneOwnerAtATime` and `ImplementsTheMutex`, for any time to live
  and any refresh interval below it. `LeaseInv`, which holds until the first lapse, relates
  the key to the refresh task of whoever holds the mutex: there is a key while somebody
  owns it, and it lives longer than the task's ticker takes. The refinement has one step
  per action; a refresh, a lock that waits and the first half of `Unlock` stutter, and a
  lapse is `Break`. `TypeCorrect` and `LapsesBoundTheOwners` go on after lapses, from
  `SlackInv`: a goroutine gets in only when nothing guards the key (`Guarded`: an unlock is
  under way, or some refresh task is in time, whoever inserted the key), and nothing guards
  it only after a lapse or when an owner has left. There are as many owners as lapses, and
  one more only while the key is guarded.
* `JobOnce_proof`: `TypeCorrect`, `RunsAreBounded`, `TrackedJobsAlwaysRun`,
  `CanceledStaysCanceled` and `RowsRemovedForCause`, for any number of nodes, objects,
  calls, failed reads and faults, and from `Mutex`'s promise that the lease is renewed in
  time. `TypeInv` says besides the types that a job that was given up is stopped and never
  reads again, so that its failures stay counted (`GoroutineOK`), that a node's active
  object is its own and runs (`ActiveOK`), that a caller's object is of its own node or
  has ended (`CallerOK`), and that every schedule has had a call (`CallsSuffice`). The
  others are about the row: a goroutine between its lock and its unlock is the mutex's
  owner (`Excluded`); the row is of the last schedule and of no canceled one (`RowOK`); it
  has run as often as there were faults, but while the goroutine that ran it is about to
  delete it (`RunsOK`), which is why the bound is not inductive alone; and whoever is
  about to delete it still has the reason it found when it locked (`DeletesForCause`).
* `DataLoader_proof`: `TypeCorrect`, `TimeoutPendingHolds`, `NothingLostHolds` and
  `ResolvedMeansReceivedHolds`, for any batch size, callers and number of fetches
  in flight. The strengthening is that what a promise has asked for is either still
  missing or received.

Only model-checked: liveness (`EventuallyAccounted`, `EventuallyFinished`,
`EventuallyResolved`, `EventuallyPolled`, `EventuallyOwned`, `EventuallyRun`,
`AlwaysUnlocked`), which is out of the prover's reach, and `SuccessMeansDone` where
administrators may set any status (`job_updates`): its theorem has the condition on
`AdminUpdates`. All other properties of the passing runs, the two refinements among them,
are proved.

## 6. Plan

In this order:

1. `SharedChannelSync` - task queue, retries and cursors between two servers that
   lose answers, with an abstract specification of what the receiver ends up with.
2. The recurring job of `job.go` beside `JobOnce`, and the lag of the replica in the latter.
3. `WebSocketRequests` and the takeover between two nodes, composed with
   `ReliableWebSocket`.
4. Schedulers and leadership on top of `JobServer`; the migrations worker.
5. Small protocols: pending post ids on the server and in the client's blocks, the busy
   flag, upload sessions, the rollback of optimistic updates.
6. Proofs: the safety of each new module; without `AdminUpdates`' condition, what is left
   of the properties of jobs.
