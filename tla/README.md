# CipherMQ in TLA+

A TLA+ model of the CipherMQ message broker and its clients, checked with TLC on
small instances and proved with TLAPS for all instances where that is possible.
Line numbers refer to files under `src/`; `PROJECT.json` maps every definition
to the lines it models.

## 1. The system

CipherMQ is a broker server, written in Rust on tokio, and its clients.
Senders publish encrypted messages to an exchange, the exchange routes them to
queues by routing key, receivers consume queues and acknowledge messages. The
server never decrypts anything, so message content plays no part below.

| Part | Source | State | Modelled by |
|---|---|---|---|
| Broker core | `server/src/state.rs` | the DashMaps `queues`, `exchanges`, `bindings`, `message_queues`, `message_status`, `consumers` | `Broker`, and `Mailbox` for what it promises |
| Client handler | `server/src/server.rs` | one task per connection: its channel, the command or delivery in progress | `Broker`; `StatusGuard` for the guard it holds across an await; `Sender` for what a read takes for a request |
| Access control | `server/src/acl.rs` | role per certificate name | `Acl` |
| Cleanup tasks | `server/src/state.rs` | their own copies of the maps | `Cleanup` |
| Storage actor | `server/src/storage.rs` | command channel, two update buffers, the tables | `Storage`, and `MetadataStore` for what it promises |
| Accept loop, heartbeats, client count, shutdown | `server/src/main.rs`, `auth.rs`, `connection.rs` | heartbeat map, `connected_clients`, connection counts | `Connections` |
| Rate limiter | `server/src/rate_limiter.rs` | token buckets, connection counts | `RateLimiter`, `Connections` |
| Sender client | `clients/sender_1/src/main.rs` | semaphore, pending map, result channel; key files | `Sender`, `SenderKeys` |
| Receiver client | `clients/receiver_1/src/main.rs` | processed set, channels, write batch, `running` | `Receiver` |

**How the parts interact.** The accept loop spawns one handler per connection.
All handlers share `ServerState`, without a global lock. A publish waits for the
storage actor, then writes queues and tracking maps, then pushes the message into
the unbounded channels of the registered consumers. Each channel is drained by
the handler that owns it, which writes to its client. `register_consumer` spawns
a task that sends what was in the queue already. An ack removes the message from
all maps. Handlers tell the storage actor of deliveries and acks through its
bounded channel; it buffers them and writes them to PostgreSQL in batches. The
sender keeps a window of publishes in flight and matches the server's answers to
them in another task; the receiver hands messages to a writer task and acks to an
ACK task.

**What makes it hard.** A publish, a consume and an ack are sequences of map
accesses that interleave freely; guards of one map are sometimes held while
another is taken, or across an await; the same message is in several queues,
channels and tasks at once but has one status; deliveries fail and are retried;
ids are published again by clients that got no answer; database updates are
buffered and may be lost; bounded channels make tasks wait for each other.
`PROJECT.json` lists these hazards with their lines and the properties about them.

## 2. The modules

### Broker, Mailbox, Cleanup, StatusGuard

`Broker` has one action for each atomic access to a DashMap entry, or for the
block that runs under the guard of one entry. A connection's handler has a
program counter `pc[c]` and the locals of the operation it runs:

| Code | Actions |
|---|---|
| `publish` | `PublishCheck`, `PublishSaveFails` or `PublishRoute`, then per queue `PublishEnqueue` or `PublishPop` and `PublishEvict`, then `PublishTrackQueues`, `PublishTrackStatus`, and per queue `PublishNotify` |
| `register_consumer` and its task | `RegisterConsumer`, `SnapshotQueue`; `SendBacklog`, `DropBacklog` |
| delivery branch of `select!` | `TakeDelivery`, `WriteSucceeds` / `WriteFails` / `FlushFails`, `MarkDelivered`, `MarkDeliveredAgain` |
| `acknowledge` and its reply | `AckCheck`, `AckMark`, `AckScan`, per queue `AckVisit` and `AckClean`, `AckEnd`, `AckDropQueues`, `AckDropStatus`, `AckReply` |
| `declare_queue`, `declare_exchange`, `bind` | `DeclareQueue`, `DeclareExchange`, `BindQueue` |
| end of a connection | `Disconnect`, `Close` |

Guards that the code holds across several accesses are conditions on the program
counters: `Unlocked` (the evicting publish holds its queue), `Unguarded` and
`NotVisited` (the acknowledge holds the entry and the iterator of the queue set).
`Acl` gives the commands their role and resource checks. `Keep` is the effect of
`retain` and `filter`.

`Mailbox` is what the clients may rely on, without queues, maps and channels. It has
the messages that are published, held, being written, offered, received, confirmed,
evicted, acknowledged and removed, and for each connection what is routed to it
(`reach`). A write starts only for a published message, to a connection it is routed
to, and not after the ack unless the id was published again; ACK is answered only for
a message that is held, or was evicted or acknowledged before; a message stops being
held only for an eviction or an ack; an ack counts only for a message that was
offered. `Broker` implements it with `held` as the messages that have a status and are
in a queue, `writing` as what a handler at `write` has in hand, and `reach` computed
from bindings and subscriptions.

`Cleanup` composes the broker with its two background tasks. They get
`state.clone()`; the derived `Clone` copies DashMaps by value, so the tasks have
maps of their own.

`StatusGuard` composes delivering handlers, the threads of the runtime and the
storage channel. The code holds the write guard of a `message_status` shard while it
awaits a slot of that channel. In `Broker` a handler with that guard is at `mark` or
`mark_again`, and marks the message in one step; `StatusGuard` is about the wait.

Abstractions of `Broker`:
- A message is its id, and `Route` fixes where an id is published.
- An absent `message_queues` entry is `{}`: every reader treats them alike.
- "acknowledged" does not remember whether a delivered time was set.
- Bindings are a set; `publish` visits the queues in any order.
- A refused command (duplicate, role, rate limit) changes nothing, so it is a
  stuttering step.
- `publish_batch` is the same sequence of publishes.
- `pop_front` and the push after it show together, because the queue is locked
  in between.
- The statuses a snapshot reads are read in one step.
- DashMap entries in one shard share a lock. The model keeps entries apart, which
  leaves out waiting and adds none.
- The client's side: a connection consumes a queue once, and acks only messages
  that were offered to it.

### Storage and MetadataStore

`Storage` has three sides. Callers (`Call`, `Send`, `Return`) are the tasks of the
broker: a call waits for a slot of the channel, and, if it has a reply, for the
answer. The worker takes a command (`Recv`), reconnects when the pool is closed
(`Reconnect`, `ReconnectFails`), executes it (`SaveMetadata`, `Query`,
`SavePublicKey`, `QueryFails`, `BufferDelivered`, `BufferAcknowledged`) and
flushes a buffer when it holds `BATCH_SIZE` updates or at the tick
(`Tick`, `FlushDelivered`, `FlushAcknowledged` and their failing forms). The
environment closes the pool and crashes the server (`ClosePool`, `Crash`). The worker
has the branch for a closed pool, so the model has it too, although nothing in the
repository closes the pool. After a
crash the tables remain, the channel and the buffers do not, and `Startup` loads
the unacknowledged rows. `Forget` is the broker's dropping of an evicted id, after
which the id can be published again.

`MetadataStore` is what the broker may rely on: two tables; a save that leaves
the times alone; updates that are owed from the moment they are in the channel, that
reach their row with the first time kept, that are replaced only by another
update of the same message, and that are lost only to a fault. `Storage`
implements it under `INSTANCE MetadataStore WITH broken <- ~pool`, with the owed
sets as the union of channel, hand and buffer.

Abstractions: a row is `meta[id]` (the columns a save writes, or `NoMeta`) and two
NULLable times; encrypting a key gives a key or an error (`BadKey`), and so does
decrypting a stored one; the three queries change nothing, so they only answer.

### Connections and RateLimiter

`Connections` follows a connection from `Accept` through `HandshakeFails` or
`Handshake`, `Reject` (a name without a role) or `Enter` (which makes both limit
checks and counts the client), `Command`, the ways out of `handle_client`
(`Disconnect`, `DeliveryFails`), which take the client off the count, and `Close`,
which removes the name from the monitor. `Select`,
`Signal` and `Shutdown` are the main loop, its signal task and the final
decrement. `CollectTimedOut` and `RemoveTimedOut` are the monitor's two phases,
which are separate because the code collects names under an iterator and removes
them afterwards. `connected_clients` is a word of `Width` bits, so its decrements
wrap. Time is a heartbeat that gets stale (`Age`).

`RateLimiter` has the two bucket maps with `Check`, which takes from the global
bucket and then, for a publish, from the publish bucket, and `Tick`. Tokens and
seconds are whole numbers; in the code they are `f64`.

### Sender and SenderKeys

`Sender` is `send_messages_async_pipeline`: the main task (`Acquire`, `Write`,
`Poll`, `Drain`, `Collect`, the retries and `Join`), the ACK reader task
(`ReadLine`, `Deliver`, `ReadTimeout`, `ReadEof`, `ReadError`) and, as the
environment, the server's reads and the loss of the connection. The server takes
whatever one `read` returned for one request (`server.rs:54`); a command on the
wire is two pieces, so a read can end inside a command or hold several.

`SenderKeys` is what happens before: attempts to fetch the receivers' keys, the
files under `keys/`, the fallback to them, and the encryption, which reads the
files again. The files outlive a run, so the model covers several runs, between
which receivers register new keys. The history variable `unwritten` holds the
receivers whose file could not be written.

### Receiver

The connection loop (`LoopAgain`, `Connect`, `ConnectFails`, `Exit`), the handshake
with one step per answer it waits for (`Registered`, `Configured`,
`HandshakeRefused`, `HandshakeFails`) and the message loop (`Top`, `ReadPiece`,
`ReadTimeout`, `ReadEnds`, `SendMsg`, `SendAck`, `Cleanup`, `ShutdownStream`), the
ACK sender (`AckTop`, `AckRecv`, `AckTimeout`, `AckWrite`), the heartbeat task and
the writer (`OpenFile`, `ProcRecv`, `ProcTimeout`, `ProcCheck`), with the shared
`running` flag. Each test of `running` is a step apart from the read or write that
follows it. A line arrives in two pieces, so the 500 ms timeout of a read can expire
inside it. The broker is the lines it pushes, repeated ones included, and the acks
it gets. The history variable `unsaved` holds the messages that a logged file
error has hit.

## 3. What TLC checks

Constants are model values or small numbers, and every bound is a constant.
`MC*` modules give the constants that a configuration cannot express, and the
symmetry sets. Symmetry is used only where no liveness property is checked.

| Run | Instance | Shows |
|---|---|---|
| `shared` | 1 message, 2 receivers of one queue, 2 write attempts, fair | `NoMissedMessage`: nothing falls between a consumer's snapshot and a publisher's notification. `ServedOnly`: a connection is written only what was published to a queue it consumes. `AckedNotRedelivered`: copies still in a channel or a task are not written after the ack. `EventuallyOffered`: a message is offered to every live consumer |
| `evict` | 2 messages, 2 publishers, room for one, fair for what a handler does by itself | `QueueBound` and `UnackedNotLost` under concurrent evictions, acks and deliveries. `MailboxSpec`: `Broker` implements `Mailbox`. `HandlerReturns`: a handler comes back to its loop unless its own client or the storage keeps it waiting, a status guard is held forever, or it is in the circular wait |
| `retry` | one id twice, 2 publishers, 2 queues, failing saves | `UnackedNotLost` and `NoMissedMessage` when an id is published twice at once. `AckRemovesEverywhere`: an ack clears both queues |
| `store_faults` | 1 id, 2 times, 2 callers, one fault of any kind | `OneReplyPerCall`: every waiting caller is owed exactly one reply. `StoreSpec`: `Storage` implements `MetadataStore`. `TimesStick`: a recorded time never changes. `UpdatesHaveRows`: no update misses its row |
| `store_live` | 2 ids, channel of one, all synchronous commands, 2 faults, fair | `CallsReturn`: no caller waits forever; `AckRecorded`: an accepted ack reaches its row when nothing fails |
| `connections` | 5 connections on 2 addresses: two of one name, one unknown, one that fails its handshake; at most 2 per name and 1 per address; a 3-bit counter | `CountExact`: without a failed handshake the counter is the number of served connections, whatever way each of them ends; `LimitsHold`; `GoneIsForgotten`: no order of ends leaves a name in the monitor |
| `rate_limits` | 2 names, both buckets, 3 seconds | `RateBound`: no name gets more through than its burst and the refill of the time passed |
| `sender` | 4 items in batches of 2, window 2, refusals, timeouts, a lost connection, reads of 1 to 3 pieces, fair | `PermitsAccounted`, `InFlightBound`, `ConfirmedIsStored`; `WrittenIsReported`: what is pending at the end, or was not accepted, is reported; `PipelineEnds`: it ends, or is in one of two named waits |
| `sender_keys` | 2 receivers, 3 keys, 3 faults, 2 runs | `UsedKeyWasRegistered`; `UsesFetchedKey`: not the file of an earlier run, unless the write of the file failed |
| `receiver` | 3 messages, one of them bad, 3 pushes, channels of one, all faults, fair | `StoredOnce`; `AckedIsKept`: while the process runs, what the broker has forgotten is in the file or on its way there, file errors aside; `ShutdownEnds`: once `running` is cleared the process ends, or the broker keeps it waiting forever |
| `dead_consumers`, `guard_stuck` | see below | end in a counterexample |

`TypeOK` is checked in one run of each module.

**Why the bounds are enough.** Two of each thing give the interesting cases of the
broker: two publishers in one publish, two consumers of one queue, two queues of
one message, one message more than a queue holds. `MAX_RETRIES` is 3 in the code
and 1 or 2 here: only the exhausted case matters. In the storage actor a channel
of one slot makes callers wait and a batch of two separates the flush by size from
the flush by time; with two faults a failed flush or query is followed by a failed
reconnect. The sender has twice as many items as its window, so the loop has to
wait for permits; the receiver's channels of one slot fill up at the second
message, and its batch of two is flushed both when full and by timeout. A counter
of 3 bits holds 5 connections and still wraps below zero.

**Deadlock.** It is checked except where the system may stop: a broker or a
server whose connections are all closed, a sender or receiver that has exited.

**Fairness.**
- Broker: a handler inside an operation keeps going (weak fairness of `Step`):
  tokio polls every ready task. Between a readable socket and a non-empty channel
  `select!` picks at random, so a channel that is non-empty again and again is
  served (strong fairness of `TakeDelivery`). Spawned tasks run. Clients need not
  send anything: their commands have no fairness. `FairSpec`, used by `shared`, takes
  for granted that clients read what is written to them and that the storage serves
  its channel, neither of which the code enforces. `RunnableSpec`, used by `evict`,
  does not: a handler that waits for its client (`AwaitsClient`) or for the storage
  (`AwaitsStorage`) may wait forever, and `HandlerReturns` names these waits.
- Storage: the worker and the start-up run. `select!` picks a random ready branch,
  so a due tick is not passed over forever (strong fairness of `Tick`), and the
  channel serves waiting senders in order (strong fairness of `Send`). A statement
  returns or fails. Faults have no fairness and are finitely many.
- Sender: both tasks are polled, and the server reads what was sent. It need not
  answer well.
- Receiver: each task is polled. The broker and the user owe nothing: a connection, an
  answer of the handshake, a write and the shutdown of the stream end only when the
  connection is lost.
- StatusGuard: a free thread runs what is ready, and the shard's lock is handed
  over when it is released.

**Where code and documents disagree.** Each configuration here ends in a
counterexample. The first two are runs of `PROJECT.json`; the others are kept as
configurations to run by hand, with the module `MCBroker`, `MCStorage`,
`MCSender`, `MCSenderKeys`, `MCReceiver` or `MCConnections` that their name starts
with. Documents: `docs` is `docs/Project_Architecture.md`.

| Configuration, property | What the repository says | What the code does |
|---|---|---|
| `CleanupDead`, `DeadConsumersRemoved` | docs:66 closed channels are removed | the task sweeps its own copy of the map; likewise for old messages (docs:65, `OldMessagesRemoved` in the same instance) |
| `GuardStuck`, `AccessEnds` | `server.rs:448` "async, non-blocking" | the status guard is held while the storage channel is full; tasks that wait for the shard keep their threads, until neither the worker nor the handler with the guard has one |
| `BrokerLock`, `LockFree` | docs:30 "lock-free concurrent access" | an evicting publish holds `queues[q]` and waits for the queue set (`state.rs:296`); the ack of the evicted message holds the set and waits for `queues[q]` (`state.rs:477`); both wait forever |
| `BrokerTwice`, `OncePerQueue` | `state.rs:303` "Add message EXACTLY ONCE" | two publishes of an id pass the check before either has set the status |
| `BrokerStranded`, `QueuedIsDeliverable` | docs:318 the message "remains queued ... until a future `consume`/`fetch` redelivers it" | an eviction from one queue drops the status, and the message can no longer be delivered from the others |
| `BrokerGivesUp`, `RetriedUntilAck` | `README.md:66` "server retries delivery until receiver acknowledgment" | after three failed flushes the message is marked delivered and not sent again |
| `StorageRestart`, `UnackedComesBack` | `server/src/main.rs:287` "Request resend for unacknowledged messages" | the rows are loaded and logged; no message comes back |
| `StorageReuse`, `UnackedIsLoaded` | docs:274 "Loads unacknowledged message metadata" | an id published again keeps the acknowledged time of its first life and is not among them |
| `SenderBatch`, `NeverStuck` | sender `main.rs:773` "so the sender task does not block" | with a batch more than twice the window the reader waits for room in the result channel and the main task for a permit; after a stopped reader the main task waits for permits nobody returns |
| `SenderFailed`, `FailedIsNotStored` | docs:405 undelivered messages are looked up by the log line "permanently failed" | a message whose ACK came too late is stored and reported as failed |
| `SenderLosses`, `LossesReported` | docs:181 "reporting final throughput and failure counts" | a message whose write fails is taken out of the pending map (sender `main.rs:927`), so it is neither retried nor counted |
| `SenderLines`, `LinesTaken` | docs:97 "reads one command per line" | one read is one request: commands that arrive together are taken as one, a split one as two |
| `KeysSkipped`, `AddressesAll` | `README.md:246` `receiver_client_ids`: "this sender will fetch public keys for and address messages to" | a receiver whose key the server refused is skipped, although its key file is there |
| `ReceiverReconnect`, `Reconnects` | `README.md:343` "automatically reconnects if the connection drops" | the end of `receive_loop` clears `running`, and the process ends |
| `ReceiverDrain`, `AckedIsSaved` | receiver `main.rs:791` "Wait for the processing task to drain and finish" | the writer tests `running` after its flush and ends; what came into its channel meanwhile is lost although it was acknowledged. Likewise the ACK task is stopped with acks in its channel (docs:198 "draining in-flight work before exiting", `AcksDrained` in the same instance) |
| `ReceiverLine`, `LinesProcessed` | docs:186 and 192: the broker streams messages as lines, each is processed | a read timeout inside a line drops the part that had arrived |
| `ConnsRelease`, `ReleasedOnClose` | docs:102 "decremented on disconnect" | `release_connection` has no caller. Likewise the client count is not the "count of currently connected clients" (docs:53, `CountIsServing` in the same instance): a failed handshake decrements it without an increment (`main.rs:333`), and so does the shutdown (`main.rs:352`), and it wraps |
| `ConnsTwin`, `LiveIsTracked` | docs:32 "the server tracks liveness per client" | the first of two connections with one name to close removes the entry of both |
| `ConnsSilent`, `TimedOutIsClosed` | docs:32 "automatically cleans up timed-out connections" | the monitor forgets the name; the connection stays open |
| `ConnsSignal`, `SignalStops` | `server/src/main.rs:308` "Main server loop with shutdown handling" | `notify_waiters` wakes only a loop that is waiting; a signal that comes while the loop handles a connection is lost |

Two more disagreements show inside properties that hold. `AckedIsKept` exempts messages that were acked although their
write failed (receiver `main.rs:676`). `UsesFetchedKey` exempts keys whose file
could not be written, for which an old file is used (sender `main.rs:660`).

## 4. What TLAPS proves

The theorems hold for every number of connections, queues, messages, callers,
retries and faults, from the assumptions on the constants that the component
modules name (`BrokerConstants`, `StorageAssumption`, `NoCommandAssumption`,
`ConnectionsAssumption`, `RateLimiterAssumption`, `SenderAssumption`,
`SenderKeysAssumption`, `ReceiverAssumption`). TLC evaluates these on every run.
Every invariant that a passing run checks is also a theorem.

**Broker** (`BrokerInvariants`, `BrokerProofs`).
- `TypeCorrect` (`BrokerInvariants`): `Spec => [](TypeOK /\ LockInv)`. `LockInv` says
  that an evicting publish is alone on its queue and that the queue is not empty,
  which is what makes `Head` and `Tail` in the eviction meaningful. It is needed
  for `TypeOK`.
- `QueueBoundHolds` (`BrokerInvariants`): `Spec => []QueueBound`. Only a push lengthens
  a queue, it happens below the bound or after a pop, and nobody else touches a
  locked queue.
- `NothingLost` (`BrokerInvariants`): `Spec => []UnackedNotLost`. The property is not
  inductive. It says nothing of a publish that has pushed the message and not yet
  confirmed it, or of an ack that has begun and not yet removed it. `NotLostInv`
  adds both. A publish past its push has placed the message in the queues it has
  visited; one past its tracking steps has left the queue set and the status; and
  only an ack in progress, whose id is in `acked`, takes a message out of a queue.
  Three kinds of steps keep it (`Idles`, `Acknowledges`, `Places`), and every
  action but the last part of `publish` is of one of them.
- `AckedStaysAcked` (`BrokerInvariants`): `Spec => AckedNotRedelivered`. What makes the
  status check of `TakeDelivery` enough is that the status of an acknowledged
  message does not come back. `PublishedOnce` says why: an id that was published
  once has at most one publish in progress (`OnePublish`), nobody else has seen the
  id until that publish sets the status (`Hidden`), and once it is acknowledged
  nothing but `acknowledged` or no status remains (`AckFinal`).
- `AckedIsRemoved` (`BrokerProofs`): `Spec => []AckRemovesEverywhere`. The loop of
  `acknowledge` visits the queues of the queue set, so the message must be in no
  other queue, and `pop_front` takes one queue out of that set, so the message must
  not be in that queue a second time. `RemovalInv` has both. A publish pushes once
  per queue (`Pushed`, `Singly`), from its tracking step on the queue set covers
  every queue that holds the message (`Listed`), an acknowledge has still to visit
  the queues that hold it (`Cleaned`), and nothing is left afterwards (`Swept`).
  That no publish brings the message back is `PublishedOnce`.
- `NoMessageMissed` (`BrokerProofs`): `Spec => []NoMissedMessage`, the race of
  `consume` with `publish`. `DeliveryInv` adds that a queued message can be
  delivered or its publish has still to notify the consumers of that queue
  (`Deliverable`), that a live subscriber is in the consumer list before its
  snapshot (`Joined`), and that the first loop of `publish` visits queues the second
  one will notify (`Targets`). A push that comes before the snapshot is in it; one
  that comes after is announced to a list that has the consumer.
- `ImplementsMailbox` (`BrokerProofs`): `Spec => MailboxSpec`. Every step is one of
  the mailbox or changes nothing its clients see (`Unseen`). The invariants above give
  most of what the mailbox asks: `NotLostInv` that a confirmed message is held and
  that only acknowledged ones are discarded, `PublishedOnce` that no acknowledged one is
  written. That a message is written only to connections that consume it is
  `RouteInv` (`BrokerInvariants`): queues hold messages routed to them, channels and spawned
  tasks those their connection consumes, consumer lists only subscribers, and a
  handler has in hand only queues of its message's route (`InHand`). Bindings and
  subscriptions only grow (`Widens`), so what was routed once stays so.
- `ServedToConsumers` (`BrokerProofs`): `Spec => []ServedOnly`, from the steps of
  `Mailbox` and not from those of `Broker`; the strengthening `WritesOnly` says the same
  of the write in progress.
- `KeepProperties` (`BrokerInvariants`): what `retain` keeps, by induction on the
  length, done as the search for a least counterexample.

**Storage** (`StorageProofs`). The inductive invariant is
`Inv == TypeOK /\ Handed /\ Matched /\ Served /\ Rows`. `Handed` ties the worker's
command to its program counter. `Matched` says that a command with a reply is the
call of the one caller that waits for it, `Served` that no waiting caller has lost
its command; together they give `RepliesMatch` (`OneReplyPerCall`). `Rows` adds to
`UpdatesHaveRows` what makes it last: an update that still waits for a slot, and a
publish about to be confirmed, have their rows (`RowsExist`). `TypeOK` is
`StorageTypes`.
- `ImplementsStore`: `Spec => StoreSpec`. `Simulates` shows that every step of
  `Storage` is a step of `MetadataStore` or a stutter: a `Send` of an update is
  `Promise` and needs `Rows`; putting an update in a buffer is `Supersede`, because
  it may replace an older one of the same message; a flush is one of the `Record`
  actions; a failed flush, a command dropped for a closed pool and a crash are
  `Lose`; everything else stutters.
- `TimesAreKept`: `Spec => TimesStick`, from the same invariant: only flushes write
  times, and only over NULL.

**Connections** (`ConnectionsProofs`).
- `MonitorForgets`: `Spec => []GoneIsForgotten`. The strengthening `Tracked` says
  that every entry of the monitor has a connection that is served or about to
  remove it; `Identified` says that such a connection has a name.
- `LimitsAreKept`: `Spec => []LimitsHold`. `Counted` compares the served connections
  with the limiter's counts, which are never decremented: the served ones are at
  most the counted ones, and those at most the limit.
- `CountIsExact`: `Spec => []CountExact`, for every width of the counter. The
  strengthening is `CountAccounted` (`CountIsAccounted`), which also says what becomes
  of the counter after a failed handshake and in the shutdown: each step moves the balance (served connections, less failed handshakes, less one
  for the shutdown) and the word by the same one, and `%` commutes with that
  (`Wrapping`). `Closed`, that a failed handshake belongs to a closed
  connection, is what lets no connection be counted on both sides.
- `ConnectionTypes`: `Spec => []TypeOK`. It needs `Identified`, because the monitor
  and the limiter are indexed by the name of the connection that enters or leaves.

**RateLimiter** (`RateLimiterProofs`). `RateIsBounded`: `Spec => []RateBound`. The
bound alone is not inductive; the strengthening `BucketsBalanced` adds what the bucket
still holds. `LimiterTypes` is `TypeOK`, which has the bursts as bounds of the tokens.

**Sender** (`SenderProofs`), for any number of items, permits and retries. `TypeOK`
is `PipelineTypes`.
- `ConfirmedItemsStored` and `WrittenItemsReported`: `Spec => []ConfirmedIsStored`
  and `Spec => []WrittenIsReported`. `ItemInv` follows an item through the four
  places it can be in: a confirmation in the replies is of an item the server has
  accepted, one that the ACK reader has passed on is no longer pending (`Flow`), and
  from the retries on a pending item is in hand, queued for a retry or given up
  (`Kept`). That an item the broker never accepted cannot slip through needs that the
  send loop is past the last item before the pipeline goes on (`Place`).
- `PermitsAreAccounted` and `InFlightIsBounded`: `Spec => []PermitsAccounted` and
  `Spec => []InFlightBound`. `PermitInv` needs that each item is on its way at most
  once while the first pass lasts, so that no confirmation gives back a permit
  twice (`Once`), and that failed writes come after the last one that succeeded
  (`Broken`).

**SenderKeys** (`SenderKeysProofs`). `KeysAreRegistered` and `KeysAreFetched`:
`Spec => []UsedKeyWasRegistered` and `Spec => []UsesFetchedKey`. `KeyInv` follows a key
from the server's table to the encryption. What is in the table or in a file its
receiver registered once (`Genuine`); from the first fetch to the encryption a fetched
key is also in the file, or the receiver is in `unwritten` (`Mirrored`); the encryption,
which reads the files, uses the fetched keys (`Followed`).

**Receiver** (`ReceiverProofs`). The way of a message is `Stored`, the file, the batch
and the channel one after the other.
- `NothingStoredTwice`: `Spec => []StoredOnce`. `processed` has everything on that way,
  and a message about to be sent is not on it yet (`Processed`). `receive_loop` starts
  with an empty set, so the argument needs that nothing is stored before it starts and
  that a process does not start it a second time (`Unstarted`).
- `AcknowledgedIsKept`: `Spec => []AckedIsKept`. A message is kept (stored, or hit by a
  logged error) before its id goes to the ACK sender, and while the process runs no step
  takes away from what is kept (`AcksKept`, `StoredGrows`). The send to a writer task that has stopped is the
  case to argue about: it stopped without its file, when no message is saved at all, or
  after `running` was cleared, when the property says nothing more; and it has always
  written its batch before (`Stopped`).
- `ReceiverTypes`: `Spec => []TypeOK`.
- The lemmas say of `Append`, `Tail` and `\o` which elements the result has and when it
  has none twice (`AppendFacts`, `TailFacts`, `ConcatFacts`).

The inductive invariants were checked with TLC before they were proved.

**Only model-checked:** liveness under fairness (`EventuallyOffered`, `HandlerReturns`,
`CallsReturn`, `AckRecorded`, `PipelineEnds`, `ShutdownEnds`), which is out of the
prover's reach. The types also leave one bound to TLC: that the lines pushed to the
receiver stay within `MaxPushes` is a sum over a function, and what a fold computes
cannot be proved here.

## 5. Not modelled

- Metrics (`metrics.rs`), the admin server and the admin client: counters that no
  code reads to decide anything, and reports over them. They change no state of
  another part.
- Configuration (`config.rs` and the clients' own): files parsed into what the
  modules take as constants.
- The TLS protocol, certificates and cryptography: done by libraries. The models
  have their outcomes (a name or a failed handshake, a message that decrypts or
  not, a key that encrypts or not).
- The key and certificate makers: programs that write files and end.
- Code that no caller reaches: the `consume` and fetch helpers of `ServerState`,
  `release_connection`, and the storage commands `UpdateDeliveredTime`,
  `UpdateAcknowledgedTime` and `FlushUpdates`.
- The wording of replies and logs, and the parts of start-up that only log or
  spawn.
- The whole chain in one model. Broker, storage, sender and receiver are composed
  pairwise where they wait for each other (`Cleanup`, `StatusGuard`, the server's
  reads in `Sender`); one model of all of them is beyond TLC.
