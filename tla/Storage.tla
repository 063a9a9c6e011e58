------------------------------ MODULE Storage -------------------------------
(***************************************************************************)
(* The storage actor (server/src/storage.rs): the calls that the handlers  *)
(* make, the bounded command channel, and the worker task that owns the    *)
(* database, buffers the two kinds of time updates and flushes them.       *)
(*                                                                         *)
(* The two tables are modelled column by column: meta[id] stands for the   *)
(* columns a save writes, NoMeta for no row.  They survive a crash of the  *)
(* server; the channel, the buffers and the pending calls do not.          *)
(***************************************************************************)
EXTENDS Naturals, Sequences, FiniteSets

CONSTANTS
  Ids, Metas, Times,     \* messages, what a save writes, times
  Clients, Keys, BadKey, \* receivers, their keys, a key that is not base64
  Callers,               \* tasks of the broker that call the storage
  Ops,                   \* the operations the broker calls in this instance
  Capacity,              \* of the command channel: 1000
  BATCH_SIZE,            \* 50
  Faults,                \* the kinds of failure that happen
  MaxFaults,             \* bound on their number
  NoMeta, NoTime, NoKey, NoCommand

SyncOps == {"save", "unacked", "client", "save_key", "get_key"}
AllOps  == SyncOps \cup {"delivered", "acknowledged"}

ASSUME StorageAssumption ==
  /\ Ops \subseteq AllOps \cup {"evict"}
  /\ "unacked" \in Ops
  /\ Capacity \in Nat \ {0}
  /\ BATCH_SIZE \in Nat \ {0}
  /\ Faults \subseteq {"query", "flush", "pool", "crash"}
  /\ MaxFaults \in Nat
  /\ NoMeta \notin Metas
  /\ NoTime \notin Times
  /\ NoKey \notin Keys
  /\ BadKey \notin Keys

VARIABLES
  meta, delivered_time, acknowledged_time, \* table message_metadata
  keys,                  \* table public_keys
  chan,                  \* the command channel
  work,                  \* the command the worker holds
  wpc,                   \* the worker's program counter
  delivered_updates, acknowledged_updates, \* [Ids -> Times or NoTime]
  pool,                  \* TRUE: the connection pool is open
  cpc,                   \* per caller: "idle", "send", "wait", "return"
  call,                  \* per caller: its command
  answer,                \* per caller: the reply it was given
  known,                 \* keys of message_status: confirmed, not yet acked
  loaded,                \* main has got past load_unacknowledged_metadata
  faults                 \* failures so far

tables  == <<meta, delivered_time, acknowledged_time, keys>>
buffers == <<delivered_updates, acknowledged_updates>>
callers == <<cpc, call, answer>>
vars    == <<tables, chan, work, wpc, buffers, pool, callers, known, loaded,
             faults>>

NoUpdates == [id \in Ids |-> NoTime]

(* The commands of StorageCommand; by stands for the reply channel.        *)
Commands(c) ==
  [op : {"save"}, key : Ids, val : Metas, by : {c}]
  \cup [op : {"delivered", "acknowledged"}, key : Ids, val : Times, by : {c}]
  \cup [op : {"client"}, key : Ids, val : {NoTime}, by : {c}]
  \cup [op : {"unacked"}, key : {NoKey}, val : {NoTime}, by : {c}]
  \cup [op : {"save_key"}, key : Clients, val : Keys \cup {BadKey}, by : {c}]
  \cup [op : {"get_key"}, key : Clients, val : {NoTime}, by : {c}]

ASSUME NoCommandAssumption == \A c \in Callers : NoCommand \notin Commands(c)

Init ==
  /\ meta = [id \in Ids |-> NoMeta]
  /\ delivered_time = NoUpdates
  /\ acknowledged_time = NoUpdates
  /\ keys = [k \in Clients |-> NoKey]
  /\ chan = <<>>
  /\ work = NoCommand
  /\ wpc = "select"
  /\ delivered_updates = NoUpdates
  /\ acknowledged_updates = NoUpdates
  /\ pool = TRUE
  /\ cpc = [c \in Callers |-> "idle"]
  /\ call = [c \in Callers |-> NoCommand]
  /\ answer = [c \in Callers |-> "none"]
  /\ known = {}
  /\ loaded = FALSE
  /\ faults = 0

Fault(kind) ==
  /\ kind \in Faults
  /\ faults < MaxFaults
  /\ faults' = faults + 1

-----------------------------------------------------------------------------
(* The callers.                                                            *)

(* publish saves an id it does not know yet; times are updated for known   *)
(* messages; main loads the unacknowledged rows before it listens.         *)
Allowed(cmd) ==
  CASE cmd.op = "unacked" -> ~ loaded /\ \A c \in Callers : cpc[c] = "idle"
    [] cmd.op = "save" -> loaded /\ cmd.key \notin known
    [] cmd.op \in {"delivered", "acknowledged"} -> loaded /\ cmd.key \in known
    [] OTHER -> loaded

Call(c, cmd) ==
  /\ cpc[c] = "idle"
  /\ cmd.op \in Ops
  /\ Allowed(cmd)
  /\ cpc' = [cpc EXCEPT ![c] = "send"]
  /\ call' = [call EXCEPT ![c] = cmd]
  /\ UNCHANGED <<tables, chan, work, wpc, buffers, pool, answer, known, loaded,
                 faults>>

(* send(..).await on the bounded channel.                                  *)
Send(c) ==
  /\ cpc[c] = "send"
  /\ Len(chan) < Capacity
  /\ chan' = Append(chan, call[c])
  /\ cpc' = [cpc EXCEPT ![c] = IF call[c].op \in SyncOps THEN "wait" ELSE "return"]
  /\ UNCHANGED <<tables, work, wpc, buffers, pool, call, answer, known, loaded,
                 faults>>

(* The call returns: publish goes on to insert the status of a message     *)
(* that was saved, acknowledge to remove it; main listens once it has the  *)
(* unacknowledged rows, and exits (to be started again) if it has not.     *)
Return(c) ==
  /\ cpc[c] = "return"
  /\ known' = CASE call[c].op = "save" /\ answer[c] = "ok" -> known \cup {call[c].key}
                [] call[c].op = "acknowledged" -> known \ {call[c].key}
                [] OTHER -> known
  /\ loaded' = (loaded \/ (call[c].op = "unacked" /\ answer[c] = "ok"))
  /\ cpc' = [cpc EXCEPT ![c] = "idle"]
  /\ call' = [call EXCEPT ![c] = NoCommand]
  /\ answer' = [answer EXCEPT ![c] = "none"]
  /\ UNCHANGED <<tables, chan, work, wpc, buffers, pool, faults>>

-----------------------------------------------------------------------------
(* The worker.                                                             *)

Recv ==
  /\ wpc = "select"
  /\ chan # <<>>
  /\ work' = Head(chan)
  /\ chan' = Tail(chan)
  /\ wpc' = IF pool THEN "execute" ELSE "reconnect"
  /\ UNCHANGED <<tables, buffers, pool, callers, known, loaded, faults>>

(* Mutant: one reply channel for all callers instead of one per call.      *)
Reply_Shared(a) ==
  \E c \in Callers :
    /\ cpc[c] = "wait"
    /\ cpc' = [cpc EXCEPT ![c] = "return"]
    /\ answer' = [answer EXCEPT ![c] = a]
    /\ UNCHANGED call

(* The reply channel of the command in hand gets an answer (or, "error",   *)
(* is dropped, which the caller sees as ChannelReceive).                   *)
Reply(a) ==
  /\ cpc' = [cpc EXCEPT ![work.by] = "return"]
  /\ answer' = [answer EXCEPT ![work.by] = a]
  /\ UNCHANGED call

Done ==
  /\ work' = NoCommand
  /\ wpc' = "select"

Reconnect ==
  /\ wpc = "reconnect"
  /\ pool' = TRUE
  /\ wpc' = "execute"
  /\ UNCHANGED <<tables, chan, work, buffers, callers, known, loaded, faults>>

(* connect_with_retry gives up: continue drops the command.  (The worker   *)
(* has this branch, though nothing in the repository closes the pool.)     *)
ReconnectFails ==
  /\ wpc = "reconnect"
  /\ Fault("pool")
  /\ IF work.op \in SyncOps THEN Reply("error") ELSE UNCHANGED callers
  /\ Done
  /\ UNCHANGED <<tables, chan, buffers, pool, known, loaded>>

Execute(ops) == wpc = "execute" /\ work.op \in ops

(* A statement fails, as every statement does on a closed pool.            *)
StatementFails(kind) == Fault(kind) \/ (~ pool /\ UNCHANGED faults)

SaveMetadata_Overwrite ==
  /\ Execute({"save"})
  /\ pool
  /\ meta' = [meta EXCEPT ![work.key] = work.val]
  /\ delivered_time' = [delivered_time EXCEPT ![work.key] = NoTime]
  /\ acknowledged_time' = [acknowledged_time EXCEPT ![work.key] = NoTime]
  /\ Reply("ok")
  /\ Done
  /\ UNCHANGED <<keys, chan, buffers, pool, known, loaded, faults>>

(* The upsert leaves the two times of an existing row as they are.         *)
SaveMetadata ==
  /\ Execute({"save"})
  /\ pool
  /\ meta' = [meta EXCEPT ![work.key] = work.val]
  /\ Reply("ok")
  /\ Done
  /\ UNCHANGED <<delivered_time, acknowledged_time, keys, chan, buffers, pool,
                 known, loaded, faults>>

(* The three queries that only read: their rows are the answer, but a key  *)
(* that does not decrypt (the AES key of the configuration has changed     *)
(* since it was stored) is an error.                                       *)
Query ==
  /\ Execute({"unacked", "client", "get_key"})
  /\ pool
  /\ \/ Reply("ok")
     \/ work.op = "get_key" /\ keys[work.key] # NoKey /\ Reply("error")
  /\ Done
  /\ UNCHANGED <<tables, chan, buffers, pool, known, loaded, faults>>

SavePublicKey_Undecoded ==
  /\ Execute({"save_key"})
  /\ pool
  /\ Reply("ok")
  /\ keys' = [keys EXCEPT ![work.key] = work.val]
  /\ Done
  /\ UNCHANGED <<meta, delivered_time, acknowledged_time, chan, buffers, pool,
                 known, loaded, faults>>

(* The key is decoded and encrypted before it is stored.                   *)
SavePublicKey ==
  /\ Execute({"save_key"})
  /\ pool
  /\ IF work.val = BadKey
     THEN Reply("error") /\ UNCHANGED keys
     ELSE Reply("ok") /\ keys' = [keys EXCEPT ![work.key] = work.val]
  /\ Done
  /\ UNCHANGED <<meta, delivered_time, acknowledged_time, chan, buffers, pool,
                 known, loaded, faults>>

QueryFails_Swallowed ==
  /\ Execute(SyncOps)
  /\ StatementFails("query")
  /\ Reply("ok")
  /\ Done
  /\ UNCHANGED <<tables, chan, buffers, pool, known, loaded>>

(* The error arm of every query that has a reply.                          *)
QueryFails ==
  /\ Execute(SyncOps)
  /\ StatementFails("query")
  /\ Reply("error")
  /\ Done
  /\ UNCHANGED <<tables, chan, buffers, pool, known, loaded>>

Full(updates) == Cardinality({id \in Ids : updates[id] # NoTime}) >= BATCH_SIZE

(* UpdateDeliveredTimeAsync: a later time replaces a buffered one, and a   *)
(* full buffer is flushed at once.                                         *)
BufferDelivered ==
  /\ Execute({"delivered"})
  /\ delivered_updates' = [delivered_updates EXCEPT ![work.key] = work.val]
  /\ work' = NoCommand
  /\ wpc' = IF Full(delivered_updates') THEN "flush_delivered" ELSE "select"
  /\ UNCHANGED <<tables, chan, acknowledged_updates, pool, callers, known,
                 loaded, faults>>

BufferAcknowledged ==
  /\ Execute({"acknowledged"})
  /\ acknowledged_updates' = [acknowledged_updates EXCEPT ![work.key] = work.val]
  /\ work' = NoCommand
  /\ wpc' = IF Full(acknowledged_updates') THEN "flush_acknowledged" ELSE "select"
  /\ UNCHANGED <<tables, chan, delivered_updates, pool, callers, known, loaded,
                 faults>>

Tick_And ==
  /\ wpc = "select"
  /\ delivered_updates # NoUpdates /\ acknowledged_updates # NoUpdates
  /\ wpc' = "flush_both"
  /\ UNCHANGED <<tables, chan, work, buffers, pool, callers, known, loaded,
                 faults>>

(* The 500 ms interval: both buffers are flushed, one after the other.     *)
Tick ==
  /\ wpc = "select"
  /\ delivered_updates # NoUpdates \/ acknowledged_updates # NoUpdates
  /\ wpc' = "flush_both"
  /\ UNCHANGED <<tables, chan, work, buffers, pool, callers, known, loaded,
                 faults>>

(* UPDATE .. FROM unnest(..) WHERE message_id = mid AND column IS NULL.    *)
Filled(column, updates) ==
  [id \in Ids |-> IF column[id] = NoTime /\ meta[id] # NoMeta
                  THEN updates[id] ELSE column[id]]

FlushDelivered_OtherColumn ==
  /\ wpc \in {"flush_delivered", "flush_both"}
  /\ acknowledged_time' = Filled(acknowledged_time, delivered_updates)
  /\ delivered_updates' = NoUpdates
  /\ wpc' = IF wpc = "flush_both" THEN "flush_acknowledged" ELSE "select"
  /\ UNCHANGED <<meta, delivered_time, keys, chan, work, acknowledged_updates,
                 pool, callers, known, loaded, faults>>

FlushDelivered ==
  /\ wpc \in {"flush_delivered", "flush_both"}
  /\ pool \/ delivered_updates = NoUpdates
  /\ delivered_time' = Filled(delivered_time, delivered_updates)
  /\ delivered_updates' = NoUpdates
  /\ wpc' = IF wpc = "flush_both" THEN "flush_acknowledged" ELSE "select"
  /\ UNCHANGED <<meta, acknowledged_time, keys, chan, work,
                 acknowledged_updates, pool, callers, known, loaded, faults>>

FlushAcknowledged ==
  /\ wpc = "flush_acknowledged"
  /\ pool \/ acknowledged_updates = NoUpdates
  /\ acknowledged_time' = Filled(acknowledged_time, acknowledged_updates)
  /\ acknowledged_updates' = NoUpdates
  /\ wpc' = "select"
  /\ UNCHANGED <<meta, delivered_time, keys, chan, work, delivered_updates,
                 pool, callers, known, loaded, faults>>

(* The error is logged and the buffer is cleared all the same.             *)
FlushDeliveredFails ==
  /\ wpc \in {"flush_delivered", "flush_both"}
  /\ delivered_updates # NoUpdates
  /\ StatementFails("flush")
  /\ delivered_updates' = NoUpdates
  /\ wpc' = IF wpc = "flush_both" THEN "flush_acknowledged" ELSE "select"
  /\ UNCHANGED <<tables, chan, work, acknowledged_updates, pool, callers,
                 known, loaded>>

FlushAcknowledgedFails_Retry ==
  /\ wpc = "flush_acknowledged"
  /\ acknowledged_updates # NoUpdates
  /\ StatementFails("flush")
  /\ UNCHANGED <<tables, chan, work, wpc, buffers, pool, callers, known, loaded>>

FlushAcknowledgedFails ==
  /\ wpc = "flush_acknowledged"
  /\ acknowledged_updates # NoUpdates
  /\ StatementFails("flush")
  /\ acknowledged_updates' = NoUpdates
  /\ wpc' = "select"
  /\ UNCHANGED <<tables, chan, work, delivered_updates, pool, callers, known,
                 loaded>>

(* publish drops the status of the oldest message of a full queue, and     *)
(* keeps none of its own message when no queue is bound.                   *)
Forget(id) ==
  /\ "evict" \in Ops
  /\ id \in known
  /\ known' = known \ {id}
  /\ UNCHANGED <<tables, chan, work, wpc, buffers, pool, callers, loaded,
                 faults>>

-----------------------------------------------------------------------------
(* The environment.                                                        *)

ClosePool ==
  /\ pool
  /\ Fault("pool")
  /\ pool' = FALSE
  /\ UNCHANGED <<tables, chan, work, wpc, buffers, callers, known, loaded>>

(* The server dies and is started again: only the tables are left.         *)
Crash ==
  /\ Fault("crash")
  /\ chan' = <<>>
  /\ Done
  /\ delivered_updates' = NoUpdates
  /\ acknowledged_updates' = NoUpdates
  /\ pool' = TRUE
  /\ cpc' = [c \in Callers |-> "idle"]
  /\ call' = [c \in Callers |-> NoCommand]
  /\ answer' = [c \in Callers |-> "none"]
  /\ known' = {}
  /\ loaded' = FALSE
  /\ UNCHANGED tables

(* main's own call, before the server listens.                             *)
Startup(c) == \E cmd \in Commands(c) : cmd.op = "unacked" /\ Call(c, cmd)

Worker ==
  \/ Recv \/ Reconnect \/ ReconnectFails
  \/ SaveMetadata \/ Query \/ SavePublicKey \/ QueryFails
  \/ BufferDelivered \/ BufferAcknowledged \/ Tick
  \/ FlushDelivered \/ FlushDeliveredFails
  \/ FlushAcknowledged \/ FlushAcknowledgedFails

Next ==
  \/ \E c \in Callers : (\E cmd \in Commands(c) : Call(c, cmd)) \/ Send(c) \/ Return(c)
  \/ \E id \in Ids : Forget(id)
  \/ Worker
  \/ ClosePool
  \/ Crash

Spec == Init /\ [][Next]_vars

(* The runtime polls the worker and the callers.  select! takes a random   *)
(* ready branch, so a due tick is not passed over for ever, and the        *)
(* channel hands out its slots in the order of the waiting senders.        *)
FairSpec ==
  /\ Spec
  /\ WF_vars(Worker)
  /\ WF_vars(\E c \in Callers : Startup(c))
  /\ SF_vars(Tick)
  /\ \A c \in Callers : SF_vars(Send(c)) /\ WF_vars(Return(c))

-----------------------------------------------------------------------------
(* Properties.                                                             *)

Updates(op) == {cmd \in {chan[i] : i \in DOMAIN chan} \cup {work} :
                  cmd # NoCommand /\ cmd.op = op}

Pairs(cmds, updates) ==
  {<<cmd.key, cmd.val>> : cmd \in cmds}
  \cup {<<id, updates[id]>> : id \in {i \in Ids : updates[i] # NoTime}}

(* Updates on their way to a column: in the channel, the worker's hand or  *)
(* the buffer.                                                             *)
Pending(op, updates) == Pairs(Updates(op), updates)

owed_delivered    == Pending("delivered", delivered_updates)
owed_acknowledged == Pending("acknowledged", acknowledged_updates)

Command == UNION {Commands(c) : c \in Callers}

TypeOK ==
  /\ meta \in [Ids -> Metas \cup {NoMeta}]
  /\ delivered_time \in [Ids -> Times \cup {NoTime}]
  /\ acknowledged_time \in [Ids -> Times \cup {NoTime}]
  /\ keys \in [Clients -> Keys \cup {NoKey}]
  /\ chan \in Seq(Command)
  /\ work \in Command \cup {NoCommand}
  /\ wpc \in {"select", "reconnect", "execute", "flush_delivered", "flush_both",
             "flush_acknowledged"}
  /\ delivered_updates \in [Ids -> Times \cup {NoTime}]
  /\ acknowledged_updates \in [Ids -> Times \cup {NoTime}]
  /\ pool \in BOOLEAN
  /\ cpc \in [Callers -> {"idle", "send", "wait", "return"}]
  /\ call \in [Callers -> Command \cup {NoCommand}]
  /\ answer \in [Callers -> {"none", "ok", "error"}]
  /\ known \subseteq Ids
  /\ loaded \in BOOLEAN
  /\ faults \in Nat

(* One worker, one command at a time: a reply can only go to a caller that *)
(* waits for it, every waiting caller has exactly one command in the       *)
(* channel or in the worker's hand, and the channel keeps its capacity.    *)
OneReplyPerCall ==
  /\ Len(chan) <= Capacity
  /\ \A c \in Callers :
       LET mine == {i \in DOMAIN chan : chan[i].by = c /\ chan[i].op \in SyncOps}
           held == work # NoCommand /\ work.by = c /\ work.op \in SyncOps
       IN  IF cpc[c] = "wait"
           THEN IF held THEN mine = {} ELSE \E i \in mine : mine = {i}
           ELSE mine = {} /\ ~ held

(* A message the broker works with has its row: publish confirms only what *)
(* save_metadata stored, so no update of a time is discarded because its   *)
(* row is not there, whatever queries failed before.                       *)
UpdatesHaveRows ==
  /\ \A id \in known : meta[id] # NoMeta
  /\ \A u \in owed_delivered \cup owed_acknowledged : meta[u[1]] # NoMeta

(* A time that is recorded never changes: not by a second publish of the   *)
(* id, a second delivery, a late update, a failure or a restart.           *)
TimesStick ==
  [][\A id \in Ids :
       /\ meta[id] # NoMeta => meta'[id] # NoMeta
       /\ delivered_time[id] # NoTime => delivered_time'[id] = delivered_time[id]
       /\ acknowledged_time[id] # NoTime
            => acknowledged_time'[id] = acknowledged_time[id]]_vars

(* The actor implements the store without channel, buffers and worker:     *)
(* updates are applied only after they were accepted, to an existing row,  *)
(* first come first kept, and an accepted update disappears only by being  *)
(* recorded, replaced by another of the same message, or lost to a fault.  *)
Store == INSTANCE MetadataStore WITH broken <- ~ pool

StoreSpec == Store!Spec

(* An acknowledgement the storage has accepted ends up in the database,    *)
(* however busy the channel is, unless a statement or the process fails.   *)
AckRecorded ==
  \A id \in Ids : (\E u \in owed_acknowledged : u[1] = id)
                    ~> (acknowledged_time[id] # NoTime \/ faults > 0)

(* Every call of the storage returns: a caller never waits for ever for a  *)
(* slot of the channel or for a reply, whatever statements fail.           *)
CallsReturn ==
  \A c \in Callers : cpc[c] \in {"send", "wait"} ~> cpc[c] = "idle"

-----------------------------------------------------------------------------
(* What the repository says and the code does not do.                      *)

(* "Request resend for unacknowledged messages": a message whose row has   *)
(* no acknowledged time comes back to the broker.                          *)
UnackedComesBack ==
  \A id \in Ids :
    (meta[id] # NoMeta /\ acknowledged_time[id] = NoTime /\ id \notin known)
      ~> (id \in known \/ acknowledged_time[id] # NoTime)

(* "Loads unacknowledged message metadata": a confirmed message no ack is  *)
(* on its way for is among the rows that are loaded after a restart.       *)
UnackedIsLoaded ==
  \A id \in known :
    \/ acknowledged_time[id] = NoTime
    \/ \E c \in Callers : call[c] # NoCommand /\ call[c].op = "acknowledged"
                             /\ call[c].key = id
=============================================================================
