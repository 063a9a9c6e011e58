------------------------------- MODULE Broker -------------------------------
(***************************************************************************)
(* The in-memory broker of CipherMQ: ServerState (server/src/state.rs) and *)
(* the tasks that work on it, the per-connection handlers of               *)
(* handle_client (server/src/server.rs) and the tasks spawned by           *)
(* register_consumer.                                                      *)
(*                                                                         *)
(* ServerState has no global lock.  It is a set of DashMaps, every access  *)
(* to an entry is atomic, and a publish or an acknowledge is a sequence of *)
(* such accesses between which every other task may run.  One action below *)
(* is one such access, or a block executed under the guard of one entry.   *)
(*                                                                         *)
(* The background tasks cleanup_dead_consumers and cleanup_old_messages    *)
(* run on a clone of the state and touch none of these maps: see Cleanup.  *)
(***************************************************************************)
EXTENDS Integers, Sequences, Functions, Acl

CONSTANTS
  Msgs,            \* message ids
  Queues,          \* queue names
  Exchanges, Keys, \* exchange names, routing keys
  Conns,           \* connections; each is used once
  NoMsg, NoQueue,  \* no message, no queue in hand
  Role,            \* [Conns -> Roles], by AclManager::resolve_role
  Owned,           \* [Conns -> SUBSET Queues]: queues named after the client
  Route,           \* [Msgs -> Exchanges \X Keys]: where a client publishes an id
  max_queue_size,  \* performance.max_queue_size of config.toml
  MAX_RETRIES,     \* delivery attempts per message, 3 in the code
  MaxAttempts      \* bound: publishes of one id that pass the duplicate check

ASSUME BrokerConstants ==
  /\ NoMsg \notin Msgs
  /\ NoQueue \notin Queues
  /\ Role \in [Conns -> Roles]
  /\ Owned \in [Conns -> SUBSET Queues]
  /\ Route \in [Msgs -> Exchanges \X Keys]
  /\ max_queue_size \in Nat
  /\ MAX_RETRIES \in Nat \ {0}
  /\ MaxAttempts \in Nat

VARIABLES
  \* ServerState
  declared,        \* the keys of queues
  exchanges,       \* the keys of exchanges
  bindings,        \* exchange -> set of <<queue, routing key>>
  queues,          \* queue -> sequence of message ids
  message_queues,  \* id -> set of queues; an absent entry acts like {}
  message_status,  \* id -> Absent, "sent", "delivered" or "acknowledged"
  consumers,       \* queue -> connections whose sender half is registered
  \* channels and spawned tasks
  chan,            \* connection -> content of its unbounded channel
  backlog,         \* connection, queue -> what register_consumer's task has left
  \* local state of the handler of each connection
  pc,              \* where the handler is
  cur,             \* the message id it works on
  target,          \* target_queues of a publish
  todo,            \* queues the current loop has still to visit
  at,              \* the queue it has in hand
  tries,           \* retry_count of a delivery
  \* history, read by no guard but the bounds
  attempts,        \* id -> publishes that passed the duplicate check
  confirmed,       \* ids whose publish returned Ok (answered with ACK)
  evicted,         \* ids removed because a queue was full
  acked,           \* ids whose ack was accepted
  removed,         \* ids whose ack has been carried out
  subscribed,      \* connection -> queues it sent consume for
  offered,         \* connection -> ids whose delivery ended, written or given up
  received         \* connection -> ids written and flushed to the client

topology == <<declared, exchanges, bindings>>
locals   == <<pc, cur, target, todo, at, tries>>
history  == <<attempts, confirmed, evicted, acked, removed, subscribed,
              offered, received>>
vars     == <<topology, queues, message_queues, message_status, consumers,
              chan, backlog, locals, history>>

Absent == "absent"
Status == {Absent, "sent", "delivered", "acknowledged"}

PublishPcs == {"save", "enqueue", "evict", "track_queues", "track_status",
               "notify"}
DeliverPcs == {"write", "mark", "mark_again"}
AckPcs     == {"ack_mark", "ack_scan", "ack_iter", "ack_clean",
               "ack_drop_queues", "ack_drop_status", "ack_reply"}
Pcs        == {"select", "snapshot", "closed"} \cup PublishPcs \cup DeliverPcs
                \cup AckPcs

(* retain and iter().filter() of a VecDeque: the elements of s that are in *)
(* T, in their order.  A recursive function over the prefixes of s, which  *)
(* the proof system can unfold as it cannot SelectSeq.                     *)
Keep(s, T) ==
  LET kept[i \in 0 .. Len(s)] ==
        IF i = 0 THEN <<>>
        ELSE IF s[i] \in T THEN Append(kept[i - 1], s[i]) ELSE kept[i - 1]
  IN  kept[Len(s)]

(* Mutants of can_deliver: only what was never delivered; all with status. *)
can_deliver_NotYetDelivered(m) == message_status[m] = "sent"
can_deliver_AnyStatus(m)       == message_status[m] # Absent

(* MessageStatus::can_deliver, and false when the entry is gone            *)
can_deliver(m) == message_status[m] \in {"sent", "delivered"}

(* The sender half of a connection's channel: closed with its receiver.    *)
is_closed(c) == pc[c] = "closed"

Init ==
  /\ declared = {}
  /\ exchanges = {}
  /\ bindings = [x \in Exchanges |-> {}]
  /\ queues = [q \in Queues |-> <<>>]
  /\ message_queues = [m \in Msgs |-> {}]
  /\ message_status = [m \in Msgs |-> Absent]
  /\ consumers = [q \in Queues |-> {}]
  /\ chan = [c \in Conns |-> <<>>]
  /\ backlog = [c \in Conns |-> [q \in Queues |-> <<>>]]
  /\ pc = [c \in Conns |-> "select"]
  /\ cur = [c \in Conns |-> NoMsg]
  /\ target = [c \in Conns |-> {}]
  /\ todo = [c \in Conns |-> {}]
  /\ at = [c \in Conns |-> NoQueue]
  /\ tries = [c \in Conns |-> 0]
  /\ attempts = [m \in Msgs |-> 0]
  /\ confirmed = {}
  /\ evicted = {}
  /\ acked = {}
  /\ removed = {}
  /\ subscribed = [c \in Conns |-> {}]
  /\ offered = [c \in Conns |-> {}]
  /\ received = [c \in Conns |-> {}]

-----------------------------------------------------------------------------
(* Moves of a handler.                                                     *)

Goto(c, next) == pc' = [pc EXCEPT ![c] = next]

(* The handler drops its locals and continues at `next'.                   *)
Leave(c, next) ==
  /\ Goto(c, next)
  /\ cur' = [cur EXCEPT ![c] = NoMsg]
  /\ target' = [target EXCEPT ![c] = {}]
  /\ todo' = [todo EXCEPT ![c] = {}]
  /\ at' = [at EXCEPT ![c] = NoQueue]
  /\ tries' = [tries EXCEPT ![c] = 0]

(* Back to the select! loop of handle_client.                              *)
Return(c) == Leave(c, "select") /\ UNCHANGED chan

(* handle_client returns: the channel's receiver and its content go.  The  *)
(* sender halves stay in consumers.                                        *)
Close(c) == Leave(c, "closed") /\ chan' = [chan EXCEPT ![c] = <<>>]

(* Mutant of Unguarded: acknowledge keeps its own guard until its remove.  *)
Unguarded_KeptTooLong(m) ==
  \A c \in Conns :
    ~ (pc[c] \in {"ack_iter", "ack_clean", "ack_drop_queues"} /\ cur[c] = m)

(* Guards held across steps.  While publish evicts from q it holds the     *)
(* write guard of queues[q]; while acknowledge walks the queue set of m it *)
(* holds a read guard of message_queues[m] and, at queue q, one of the     *)
(* set's entry q.  Entries that share a shard of a map share a lock: the   *)
(* model keeps them apart, which leaves out waiting, never adds any.       *)
Unlocked(q)      == \A c \in Conns : ~ (pc[c] = "evict" /\ at[c] = q)
Unguarded(m)     == \A c \in Conns :
                      ~ (pc[c] \in {"ack_iter", "ack_clean"} /\ cur[c] = m)
NotVisited(m, q) == \A c \in Conns :
                      ~ (pc[c] = "ack_clean" /\ cur[c] = m /\ at[c] = q)

-----------------------------------------------------------------------------
(* declare_queue, declare_exchange, bind.                                  *)

DeclareQueue(c, q) ==
  /\ pc[c] = "select"
  /\ check_command(Role[c], "declare_queue")
  /\ check_resource(Role[c], q \in Owned[c])
  /\ Unlocked(q)
  /\ declared' = declared \cup {q}
  /\ UNCHANGED <<exchanges, bindings, queues, message_queues, message_status,
                 consumers, chan, backlog, locals, history>>

DeclareExchange(c, x) ==
  /\ pc[c] = "select"
  /\ check_command(Role[c], "declare_exchange")
  /\ exchanges' = exchanges \cup {x}
  /\ UNCHANGED <<declared, bindings, queues, message_queues, message_status,
                 consumers, chan, backlog, locals, history>>

(* A binding with an unknown queue or exchange is only logged.             *)
BindQueue(c, q, x, k) ==
  /\ pc[c] = "select"
  /\ check_command(Role[c], "bind")
  /\ check_resource(Role[c], q \in Owned[c])
  /\ Unlocked(q)
  /\ q \in declared
  /\ x \in exchanges
  /\ bindings' = [bindings EXCEPT ![x] = @ \cup {<<q, k>>}]
  /\ UNCHANGED <<declared, exchanges, queues, message_queues, message_status,
                 consumers, chan, backlog, locals, history>>

-----------------------------------------------------------------------------
(* publish: check, save, enqueue per queue, track, notify per queue.       *)
(* publish_batch runs the same sequence once per message.                  *)

(* The queues bound to the exchange of m with its routing key.  The code   *)
(* visits them in binding order, the model in any order.                   *)
target_queues(m) ==
  {b[1] : b \in {bd \in bindings[Route[m][1]] : bd[2] = Route[m][2]}}

(* The duplicate check.  An id that has a status is refused with an error  *)
(* and nothing changes.  An accepted one waits for storage.save_metadata.  *)
PublishCheck(c, m) ==
  /\ pc[c] = "select"
  /\ check_command(Role[c], "publish")
  /\ message_status[m] = Absent
  /\ attempts[m] < MaxAttempts
  /\ attempts' = [attempts EXCEPT ![m] = @ + 1]
  /\ Goto(c, "save")
  /\ cur' = [cur EXCEPT ![c] = m]
  /\ UNCHANGED <<topology, queues, message_queues, message_status, consumers,
                 chan, backlog, target, todo, at, tries, confirmed, evicted, acked,
                 removed, subscribed, offered, received>>

(* Mutant: a failed save also "rolls back" the status of the id.           *)
PublishSaveFails_RollsBack(c) ==
  /\ pc[c] = "save"
  /\ Return(c)
  /\ message_status' = [message_status EXCEPT ![cur[c]] = Absent]
  /\ UNCHANGED <<topology, queues, message_queues, consumers, backlog, history>>

(* save_metadata returns an error: the publish ends with an error.         *)
PublishSaveFails(c) ==
  /\ pc[c] = "save"
  /\ Return(c)
  /\ UNCHANGED <<topology, queues, message_queues, message_status, consumers,
                 backlog, history>>

(* The row is saved.  Without a bound queue the publish ends with an error.*)
PublishRoute(c) ==
  /\ pc[c] = "save"
  /\ LET t == target_queues(cur[c]) IN
       \/ /\ t = {}
          /\ Return(c)
       \/ /\ t # {}
          /\ Goto(c, "enqueue")
          /\ target' = [target EXCEPT ![c] = t]
          /\ todo' = [todo EXCEPT ![c] = t]
          /\ UNCHANGED <<cur, at, tries, chan>>
  /\ UNCHANGED <<topology, queues, message_queues, message_status, consumers,
                 backlog, history>>

(* cur[c] is pushed on q, and the first loop goes on without q.            *)
PushBack(c, q, content) ==
  /\ queues' = [queues EXCEPT ![q] = Append(content, cur[c])]
  /\ todo' = [todo EXCEPT ![c] = @ \ {q}]
  /\ at' = [at EXCEPT ![c] = NoQueue]
  /\ Goto(c, IF todo[c] = {q} THEN "track_queues" ELSE "enqueue")

(* Mutant: off by one in the size check.                                   *)
PublishEnqueue_OffByOne(c, q) ==
  /\ pc[c] = "enqueue"
  /\ q \in todo[c]
  /\ Unlocked(q)
  /\ Len(queues[q]) <= max_queue_size
  /\ PushBack(c, q, queues[q])
  /\ UNCHANGED <<topology, message_queues, message_status, consumers, chan,
                 backlog, cur, target, tries, history>>

(* One queue of the first loop, under the guard of its entry.  (A bound    *)
(* queue is always declared, so get_mut finds it.)                         *)
PublishEnqueue(c, q) ==
  /\ pc[c] = "enqueue"
  /\ q \in todo[c]
  /\ Unlocked(q)
  /\ Len(queues[q]) < max_queue_size \/ queues[q] = <<>>
  /\ PushBack(c, q, queues[q])
  /\ UNCHANGED <<topology, message_queues, message_status, consumers, chan,
                 backlog, cur, target, tries, history>>

(* The same when the queue is full: pop_front under the guard of the queue,*)
PublishPop(c, q) ==
  /\ pc[c] = "enqueue"
  /\ q \in todo[c]
  /\ Unlocked(q)
  /\ Len(queues[q]) >= max_queue_size
  /\ queues[q] # <<>>
  /\ at' = [at EXCEPT ![c] = q]
  /\ Goto(c, "evict")
  /\ UNCHANGED <<topology, queues, message_queues, message_status, consumers,
                 chan, backlog, cur, target, todo, tries, history>>

(* then, still under it, this queue leaves the queue set of the oldest     *)
(* message, whose status is dropped, and the new message is pushed.        *)
PublishEvict(c) ==
  /\ pc[c] = "evict"
  /\ LET q == at[c]  old == Head(queues[q]) IN
       /\ NotVisited(old, q)
       /\ message_queues' = [message_queues EXCEPT ![old] = @ \ {q}]
       /\ message_status' = [message_status EXCEPT ![old] = Absent]
       /\ evicted' = evicted \cup {old}
       /\ PushBack(c, q, Tail(queues[q]))
  /\ UNCHANGED <<topology, consumers, chan, backlog, cur, target, tries,
                 attempts, confirmed, acked, removed, subscribed, offered,
                 received>>

(* message_queues.insert(message_id, queue_set)                            *)
PublishTrackQueues(c) ==
  /\ pc[c] = "track_queues"
  /\ Unguarded(cur[c])
  /\ message_queues' = [message_queues EXCEPT ![cur[c]] = target[c]]
  /\ Goto(c, "track_status")
  /\ UNCHANGED <<topology, queues, message_status, consumers, chan, backlog,
                 cur, target, todo, at, tries, history>>

(* message_status.insert(message_id, MessageStatus::sent(..))              *)
PublishTrackStatus(c) ==
  /\ pc[c] = "track_status"
  /\ message_status' = [message_status EXCEPT ![cur[c]] = "sent"]
  /\ Goto(c, "notify")
  /\ todo' = [todo EXCEPT ![c] = target[c]]
  /\ UNCHANGED <<topology, queues, message_queues, consumers, chan, backlog,
                 cur, target, at, tries, history>>

(* Mutant: only the consumers of the first queue are notified.             *)
PublishNotify_FirstQueueOnly(c, q) ==
  /\ pc[c] = "notify"
  /\ q \in todo[c]
  /\ chan' = [r \in Conns |-> IF r \in consumers[q] /\ ~ is_closed(r)
                              THEN Append(chan[r], cur[c]) ELSE chan[r]]
  /\ confirmed' = confirmed \cup {cur[c]}
  /\ Leave(c, "select")
  /\ UNCHANGED <<topology, queues, message_queues, message_status, consumers,
                 backlog, attempts, evicted, acked, removed, subscribed,
                 offered, received>>

(* Mutant: every open connection is notified, not the consumers of q only. *)
PublishNotify_Broadcast(c, q) ==
  /\ pc[c] = "notify"
  /\ q \in todo[c]
  /\ chan' = [r \in Conns |-> IF is_closed(r) THEN chan[r] ELSE Append(chan[r], cur[c])]
  /\ confirmed' = confirmed \cup {cur[c]}
  /\ Leave(c, "select")
  /\ UNCHANGED <<topology, queues, message_queues, message_status, consumers,
                 backlog, attempts, evicted, acked, removed, subscribed,
                 offered, received>>

(* One queue of the second loop, under the guard of its consumer list:     *)
(* closed senders are dropped, every other gets the message.  After the    *)
(* last queue publish returns Ok and the client is sent ACK.               *)
PublishNotify(c, q) ==
  /\ pc[c] = "notify"
  /\ q \in todo[c]
  /\ LET live == {r \in consumers[q] : ~ is_closed(r)} IN
       /\ consumers' = [consumers EXCEPT ![q] = live]
       /\ chan' = [r \in Conns |-> IF r \in live THEN Append(chan[r], cur[c])
                                                ELSE chan[r]]
  /\ \/ /\ todo[c] # {q}
        /\ todo' = [todo EXCEPT ![c] = @ \ {q}]
        /\ UNCHANGED <<pc, cur, target, at, tries, confirmed>>
     \/ /\ todo[c] = {q}
        /\ confirmed' = confirmed \cup {cur[c]}
        /\ Leave(c, "select")
  /\ UNCHANGED <<topology, queues, message_queues, message_status, backlog,
                 attempts, evicted, acked, removed, subscribed, offered,
                 received>>

-----------------------------------------------------------------------------
(* consume: register_consumer and the task it spawns.                      *)

(* The queue is declared and the sender half joins its consumer list.      *)
(* Clients send consume once per queue and connection.                     *)
RegisterConsumer(c, q) ==
  /\ pc[c] = "select"
  /\ check_command(Role[c], "consume")
  /\ q \notin subscribed[c]
  /\ Unlocked(q)
  /\ declared' = declared \cup {q}
  /\ consumers' = [consumers EXCEPT ![q] = @ \cup {c}]
  /\ subscribed' = [subscribed EXCEPT ![c] = @ \cup {q}]
  /\ Goto(c, "snapshot")
  /\ at' = [at EXCEPT ![c] = q]
  /\ UNCHANGED <<exchanges, bindings, queues, message_queues, message_status,
                 chan, backlog, cur, target, todo, tries, attempts, confirmed,
                 evicted, acked, removed, offered, received>>

(* Mutant: consume registers and leaves the queued messages where they are.*)
SnapshotQueue_Skipped(c) ==
  /\ pc[c] = "snapshot"
  /\ Return(c)
  /\ UNCHANGED <<topology, queues, message_queues, message_status, consumers,
                 backlog, history>>

(* The deliverable messages of the queue are cloned for the spawned task.  *)
(* (The code reads their statuses one by one; the queue cannot change      *)
(* meanwhile, so for each single message this is the same.)                *)
SnapshotQueue(c) ==
  /\ pc[c] = "snapshot"
  /\ Unlocked(at[c])
  /\ backlog' = [backlog EXCEPT ![c][at[c]] =
                   Keep(queues[at[c]], {m \in Msgs : can_deliver(m)})]
  /\ Return(c)
  /\ UNCHANGED <<topology, queues, message_queues, message_status, consumers,
                 history>>

(* The spawned task sends its next message.                                *)
SendBacklog(c, q) ==
  /\ backlog[c][q] # <<>>
  /\ ~ is_closed(c)
  /\ chan' = [chan EXCEPT ![c] = Append(@, Head(backlog[c][q]))]
  /\ backlog' = [backlog EXCEPT ![c][q] = Tail(@)]
  /\ UNCHANGED <<topology, queues, message_queues, message_status, consumers,
                 locals, history>>

(* Its send fails on a closed channel and the task ends.                   *)
DropBacklog(c, q) ==
  /\ backlog[c][q] # <<>>
  /\ is_closed(c)
  /\ backlog' = [backlog EXCEPT ![c][q] = <<>>]
  /\ UNCHANGED <<topology, queues, message_queues, message_status, consumers,
                 chan, locals, history>>

-----------------------------------------------------------------------------
(* The delivery branch of handle_client.                                   *)

(* rx.recv(): a message without status or already acknowledged is skipped. *)
TakeDelivery(c) ==
  /\ pc[c] = "select"
  /\ chan[c] # <<>>
  /\ chan' = [chan EXCEPT ![c] = Tail(@)]
  /\ LET m == Head(chan[c]) IN
       \/ /\ ~ can_deliver(m)
          /\ UNCHANGED <<pc, cur>>
       \/ /\ can_deliver(m)
          /\ Goto(c, "write")
          /\ cur' = [cur EXCEPT ![c] = m]
  /\ UNCHANGED <<topology, queues, message_queues, message_status, consumers,
                 backlog, target, todo, at, tries, history>>

(* write_all and flush succeed.                                            *)
WriteSucceeds(c) ==
  /\ pc[c] = "write"
  /\ Goto(c, "mark")
  /\ offered' = [offered EXCEPT ![c] = @ \cup {cur[c]}]
  /\ received' = [received EXCEPT ![c] = @ \cup {cur[c]}]
  /\ UNCHANGED <<topology, queues, message_queues, message_status, consumers,
                 chan, backlog, cur, target, todo, at, tries, attempts, confirmed,
                 evicted, acked, removed, subscribed>>

(* Mutant: one retry too many.                                             *)
WriteFails_OffByOne(c) ==
  /\ pc[c] = "write"
  /\ \/ /\ tries[c] < MAX_RETRIES
        /\ tries' = [tries EXCEPT ![c] = @ + 1]
        /\ UNCHANGED <<pc, cur, target, todo, at, chan>>
     \/ /\ tries[c] >= MAX_RETRIES
        /\ Close(c)
  /\ UNCHANGED <<topology, queues, message_queues, message_status, consumers,
                 backlog, history>>

(* write_all fails: retried, and after MAX_RETRIES the handler returns.    *)
WriteFails(c) ==
  /\ pc[c] = "write"
  /\ \/ /\ tries[c] + 1 < MAX_RETRIES
        /\ tries' = [tries EXCEPT ![c] = @ + 1]
        /\ UNCHANGED <<pc, cur, target, todo, at, chan>>
     \/ /\ tries[c] + 1 >= MAX_RETRIES
        /\ Close(c)
  /\ UNCHANGED <<topology, queues, message_queues, message_status, consumers,
                 backlog, history>>

(* write_all succeeds and flush fails: retried too, but after MAX_RETRIES  *)
(* the loop merely ends and the message is marked delivered below.         *)
FlushFails(c) ==
  /\ pc[c] = "write"
  /\ \/ /\ tries[c] + 1 < MAX_RETRIES
        /\ tries' = [tries EXCEPT ![c] = @ + 1]
        /\ UNCHANGED <<pc, offered>>
     \/ /\ tries[c] + 1 >= MAX_RETRIES
        /\ Goto(c, "mark_again")
        /\ offered' = [offered EXCEPT ![c] = @ \cup {cur[c]}]
        /\ UNCHANGED tries
  /\ UNCHANGED <<topology, queues, message_queues, message_status, consumers,
                 chan, backlog, cur, target, todo, at, attempts, confirmed,
                 evicted, acked, removed, subscribed, received>>

(* MessageStatus::delivered, unless the time is set or the entry is gone.  *)
SetDelivered(m) ==
  message_status' = [message_status EXCEPT ![m] =
                       IF @ = "sent" THEN "delivered" ELSE @]

(* The update inside the retry loop, after a successful flush.  The code   *)
(* keeps the guard of the status entry while it awaits a slot of the       *)
(* storage channel; here the wait is the stay at "mark", and the other     *)
(* handlers do not notice the guard.  What it can do to them is StatusGuard*)
(* and HandlerReturns claims nothing while it is held.                     *)
MarkDelivered(c) ==
  /\ pc[c] = "mark"
  /\ SetDelivered(cur[c])
  /\ Goto(c, "mark_again")
  /\ UNCHANGED <<topology, queues, message_queues, consumers, chan, backlog,
                 cur, target, todo, at, tries, history>>

(* The same update again after the loop.                                   *)
MarkDeliveredAgain(c) ==
  /\ pc[c] = "mark_again"
  /\ SetDelivered(cur[c])
  /\ Return(c)
  /\ UNCHANGED <<topology, queues, message_queues, consumers, backlog, history>>

-----------------------------------------------------------------------------
(* ack: acknowledge and the reply.                                         *)

(* Clients acknowledge what was sent to them.  An id without status is     *)
(* ignored, but the client is answered all the same.                       *)
AckCheck(c, m) ==
  /\ pc[c] = "select"
  /\ check_command(Role[c], "ack")
  /\ m \in offered[c]
  /\ Goto(c, IF message_status[m] = Absent THEN "ack_reply" ELSE "ack_mark")
  /\ cur' = [cur EXCEPT ![c] = m]
  /\ UNCHANGED <<topology, queues, message_queues, message_status, consumers,
                 chan, backlog, target, todo, at, tries, history>>

(* MessageStatus::acknowledged, then the await of the storage channel.     *)
AckMark(c) ==
  /\ pc[c] = "ack_mark"
  /\ message_status' = [message_status EXCEPT ![cur[c]] =
                          IF @ = Absent THEN Absent ELSE "acknowledged"]
  /\ acked' = acked \cup {cur[c]}
  /\ Goto(c, "ack_scan")
  /\ UNCHANGED <<topology, queues, message_queues, consumers, chan, backlog,
                 cur, target, todo, at, tries, attempts, confirmed, evicted,
                 removed, subscribed, offered, received>>

(* message_queues.get(message_id): the guard is held through the loop.     *)
AckScan(c) ==
  /\ pc[c] = "ack_scan"
  /\ todo' = [todo EXCEPT ![c] = message_queues[cur[c]]]
  /\ Goto(c, "ack_iter")
  /\ UNCHANGED <<topology, queues, message_queues, message_status, consumers,
                 chan, backlog, cur, target, at, tries, history>>

(* The iterator moves to a queue that is still in the set.                 *)
AckVisit(c, q) ==
  /\ pc[c] = "ack_iter"
  /\ q \in todo[c] \cap message_queues[cur[c]]
  /\ todo' = [todo EXCEPT ![c] = @ \ {q}]
  /\ at' = [at EXCEPT ![c] = q]
  /\ Goto(c, "ack_clean")
  /\ UNCHANGED <<topology, queues, message_queues, message_status, consumers,
                 chan, backlog, cur, target, tries, history>>

(* Mutants: the loop stops after one queue; the predicate is inverted.     *)
AckClean_FirstQueueOnly(c) ==
  /\ pc[c] = "ack_clean"
  /\ Unlocked(at[c])
  /\ queues' = [queues EXCEPT ![at[c]] = Keep(@, Msgs \ {cur[c]})]
  /\ at' = [at EXCEPT ![c] = NoQueue]
  /\ Goto(c, "ack_drop_queues")
  /\ UNCHANGED <<topology, message_queues, message_status, consumers, chan,
                 backlog, cur, target, todo, tries, history>>

AckClean_Inverted(c) ==
  /\ pc[c] = "ack_clean"
  /\ Unlocked(at[c])
  /\ queues' = [queues EXCEPT ![at[c]] = Keep(@, {cur[c]})]
  /\ at' = [at EXCEPT ![c] = NoQueue]
  /\ Goto(c, "ack_iter")
  /\ UNCHANGED <<topology, message_queues, message_status, consumers, chan,
                 backlog, cur, target, todo, tries, history>>

(* queue.retain(|(id, _)| id != message_id)                                *)
AckClean(c) ==
  /\ pc[c] = "ack_clean"
  /\ Unlocked(at[c])
  /\ queues' = [queues EXCEPT ![at[c]] = Keep(@, Msgs \ {cur[c]})]
  /\ at' = [at EXCEPT ![c] = NoQueue]
  /\ Goto(c, "ack_iter")
  /\ UNCHANGED <<topology, message_queues, message_status, consumers, chan,
                 backlog, cur, target, todo, tries, history>>

(* The loop ends and its guard is dropped.                                 *)
AckEnd(c) ==
  /\ pc[c] = "ack_iter"
  /\ todo[c] \cap message_queues[cur[c]] = {}
  /\ todo' = [todo EXCEPT ![c] = {}]
  /\ Goto(c, "ack_drop_queues")
  /\ UNCHANGED <<topology, queues, message_queues, message_status, consumers,
                 chan, backlog, cur, target, at, tries, history>>

(* message_queues.remove(message_id)                                       *)
AckDropQueues(c) ==
  /\ pc[c] = "ack_drop_queues"
  /\ Unguarded(cur[c])
  /\ message_queues' = [message_queues EXCEPT ![cur[c]] = {}]
  /\ Goto(c, "ack_drop_status")
  /\ UNCHANGED <<topology, queues, message_status, consumers, chan, backlog,
                 cur, target, todo, at, tries, history>>

(* message_status.remove(message_id)                                       *)
AckDropStatus(c) ==
  /\ pc[c] = "ack_drop_status"
  /\ message_status' = [message_status EXCEPT ![cur[c]] = Absent]
  /\ removed' = removed \cup {cur[c]}
  /\ Goto(c, "ack_reply")
  /\ UNCHANGED <<topology, queues, message_queues, consumers, chan, backlog,
                 cur, target, todo, at, tries, attempts, confirmed, evicted, acked,
                 subscribed, offered, received>>

(* "ACK confirmed": a failing write or flush ends the handler.             *)
AckReply(c) ==
  /\ pc[c] = "ack_reply"
  /\ Return(c) \/ Close(c)
  /\ UNCHANGED <<topology, queues, message_queues, message_status, consumers,
                 backlog, history>>

(* The client closes the connection, or reading from it fails.             *)
Disconnect(c) ==
  /\ pc[c] = "select"
  /\ Close(c)
  /\ UNCHANGED <<topology, queues, message_queues, message_status, consumers,
                 backlog, history>>

-----------------------------------------------------------------------------

(* What a client can make its idle handler do.                             *)
Command(c) ==
  \/ \E q \in Queues : DeclareQueue(c, q)
  \/ \E x \in Exchanges : DeclareExchange(c, x)
  \/ \E q \in Queues, x \in Exchanges, k \in Keys : BindQueue(c, q, x, k)
  \/ \E m \in Msgs : PublishCheck(c, m)
  \/ \E q \in Queues : RegisterConsumer(c, q)
  \/ \E m \in Msgs : AckCheck(c, m)
  \/ Disconnect(c)

(* What a busy handler does on its own.                                    *)
Step(c) ==
  \/ PublishSaveFails(c)
  \/ PublishRoute(c)
  \/ \E q \in Queues : PublishEnqueue(c, q)
  \/ \E q \in Queues : PublishPop(c, q)
  \/ PublishEvict(c)
  \/ PublishTrackQueues(c)
  \/ PublishTrackStatus(c)
  \/ \E q \in Queues : PublishNotify(c, q)
  \/ SnapshotQueue(c)
  \/ WriteSucceeds(c)
  \/ WriteFails(c)
  \/ FlushFails(c)
  \/ MarkDelivered(c)
  \/ MarkDeliveredAgain(c)
  \/ AckMark(c)
  \/ AckScan(c)
  \/ \E q \in Queues : AckVisit(c, q)
  \/ AckClean(c)
  \/ AckEnd(c)
  \/ AckDropQueues(c)
  \/ AckDropStatus(c)
  \/ AckReply(c)

(* The tasks spawned by register_consumer.                                 *)
Spawned(c) == \E q \in Queues : SendBacklog(c, q) \/ DropBacklog(c, q)

Next == \E c \in Conns : Command(c) \/ Step(c) \/ TakeDelivery(c) \/ Spawned(c)

Spec == Init /\ [][Next]_vars

(* The runtime keeps polling every task that can run.  Between a readable  *)
(* socket and a non-empty channel select! chooses at random, so a channel  *)
(* that is non-empty again and again is served: strong fairness.           *)
Fairness ==
  /\ \A c \in Conns : WF_vars(Step(c))
  /\ \A c \in Conns : SF_vars(TakeDelivery(c))
  /\ \A c \in Conns, q \in Queues : WF_vars(SendBacklog(c, q))

FairSpec == Spec /\ Fairness

(* FairSpec takes for granted that a client reads what is written to it,   *)
(* write_all having no timeout, and that the storage worker serves its     *)
(* channel.  These are the places where a handler waits for either; the    *)
(* reply to a publish is written in the step that notifies its last queue. *)
AwaitsClient(c) ==
  \/ pc[c] \in {"write", "ack_reply"}
  \/ pc[c] = "notify" /\ \E q \in Queues : todo[c] = {q}
AwaitsStorage(c) == pc[c] \in {"save", "ack_scan", "mark", "mark_again"}
HoldsStatus(c) == pc[c] \in {"mark", "mark_again"}

(* Without them only the steps a handler takes for itself are fair.        *)
RunnableSpec ==
  /\ Spec
  /\ \A c \in Conns :
       WF_vars(Step(c) /\ ~ AwaitsClient(c) /\ ~ AwaitsStorage(c))

-----------------------------------------------------------------------------
(* Properties.                                                             *)

(* The maps, channels and handler locals keep their types; in particular a *)
(* delivery never runs past MAX_RETRIES, and a handler inside publish, ack *)
(* or a delivery has a message, and one that holds a queue has a queue.    *)
TypeOK ==
  /\ declared \subseteq Queues
  /\ exchanges \subseteq Exchanges
  /\ bindings \in [Exchanges -> SUBSET (Queues \X Keys)]
  /\ queues \in [Queues -> Seq(Msgs)]
  /\ message_queues \in [Msgs -> SUBSET Queues]
  /\ message_status \in [Msgs -> Status]
  /\ consumers \in [Queues -> SUBSET Conns]
  /\ chan \in [Conns -> Seq(Msgs)]
  /\ backlog \in [Conns -> [Queues -> Seq(Msgs)]]
  /\ pc \in [Conns -> Pcs]
  /\ cur \in [Conns -> Msgs \cup {NoMsg}]
  /\ \A c \in Conns :
       pc[c] \in PublishPcs \cup DeliverPcs \cup AckPcs => cur[c] \in Msgs
  /\ target \in [Conns -> SUBSET Queues]
  /\ todo \in [Conns -> SUBSET Queues]
  /\ at \in [Conns -> Queues \cup {NoQueue}]
  /\ \A c \in Conns :
       pc[c] \in {"snapshot", "evict", "ack_clean"} => at[c] \in Queues
  /\ tries \in [Conns -> 0 .. MAX_RETRIES - 1]
  /\ attempts \in [Msgs -> Nat]
  /\ confirmed \subseteq Msgs
  /\ evicted \subseteq Msgs
  /\ acked \subseteq Msgs
  /\ removed \subseteq Msgs
  /\ subscribed \in [Conns -> SUBSET Queues]
  /\ offered \in [Conns -> SUBSET Msgs]
  /\ received \in [Conns -> SUBSET Msgs]

(* publish keeps every queue within max_queue_size by dropping the oldest  *)
(* message first.  At max_queue_size = 0 a queue still holds one message,  *)
(* because the drop comes before the push.                                 *)
QueueBound ==
  \A q \in Queues :
    Len(queues[q]) <= IF max_queue_size = 0 THEN 1 ELSE max_queue_size

(* A message whose publisher got ACK stays in every queue it was routed    *)
(* to, with its status and its queue set, until it is acknowledged or      *)
(* evicted: no interleaving of publishes, acks and deliveries loses it.    *)
UnackedNotLost ==
  \A m \in confirmed \ (evicted \cup acked) :
    /\ message_status[m] # Absent
    /\ message_queues[m] # {}
    /\ \A q \in message_queues[m] : m \in Range(queues[q])

(* A publish of m that has still to notify the consumers of q.             *)
PublishPending(m, q) ==
  \E p \in Conns : /\ cur[p] = m
                   /\ \/ /\ pc[p] \in PublishPcs \ {"save", "notify"}
                         /\ q \in target[p]
                      \/ pc[p] = "notify" /\ q \in todo[p]

(* What the server has done, or is going to do, to get m to consumer c.    *)
OnItsWay(m, c, q) ==
  \/ m \in offered[c]
  \/ m \in Range(chan[c])
  \/ m \in Range(backlog[c][q])
  \/ pc[c] = "write" /\ cur[c] = m

(* register_consumer joins the consumer list before it reads the queue,    *)
(* publish fills the queue and the status before it reads the list: so no  *)
(* message in a queue escapes both the snapshot and the notification.      *)
NoMissedMessage ==
  \A c \in Conns : \A q \in subscribed[c] : \A m \in Range(queues[q]) :
    \/ is_closed(c)
    \/ pc[c] = "snapshot" /\ at[c] = q
    \/ m \in evicted \cup acked
    \/ PublishPending(m, q)
    \/ OnItsWay(m, c, q)

(* A message published once and acknowledged is gone from every map, from  *)
(* all the queues it was routed to, whatever else ran meanwhile.           *)
AckRemovesEverywhere ==
  \A m \in removed :
    attempts[m] = 1 =>
      /\ message_status[m] = Absent
      /\ message_queues[m] = {}
      /\ \A q \in Queues : m \notin Range(queues[q])

(* Copies of a message that wait in a channel or a spawned task when it is *)
(* acknowledged are never written to a client, unless its id is published  *)
(* again.                                                                  *)
AckedNotRedelivered ==
  [][\A c \in Conns : pc[c] = "select" /\ pc'[c] = "write" =>
       cur'[c] \notin acked \/ attempts[cur'[c]] > 1]_vars

(* What the clients see of all this, as the variables of Mailbox: the      *)
(* messages routed to a connection, those in a queue with a status, and    *)
(* the one that is being written.                                          *)
reach   == [c \in Conns |-> {m \in Msgs : target_queues(m) \cap subscribed[c] # {}}]
held    == {m \in Msgs : /\ message_status[m] # Absent
                         /\ \E q \in Queues : m \in Range(queues[q])}
writing == [c \in Conns |-> IF pc[c] = "write" THEN cur[c] ELSE NoMsg]

Box == INSTANCE Mailbox

(* The broker, with its maps, channels and tasks, implements Mailbox: only *)
(* published messages are written, and only to connections that consume    *)
(* them; a message leaves the broker only for an ack or an eviction; ACK   *)
(* is answered only for a message the broker holds, or held.               *)
MailboxSpec == Box!Spec

(* What follows for the clients: whatever the delivery branch writes to a  *)
(* connection was published, and to a queue that connection consumes; what *)
(* it received was offered to it; what is acknowledged was offered to      *)
(* somebody; and only what is acknowledged is removed.                     *)
ServedOnly ==
  /\ \A c \in Conns : received[c] \subseteq offered[c]
  /\ \A c \in Conns : \A m \in offered[c] : m \in reach[c] /\ attempts[m] > 0
  /\ \A m \in acked : \E c \in Conns : m \in offered[c]
  /\ removed \subseteq acked

(* An evicting publish waits for the queue set an acknowledge is walking,  *)
(* and that acknowledge waits for the queue the publish has locked.        *)
CircularWait ==
  \E p, a \in Conns :
    /\ pc[p] = "evict"
    /\ pc[a] = "ack_clean"
    /\ at[a] = at[p]
    /\ cur[a] = Head(queues[at[p]])

(* Handlers that wait for each other: one comes back to its select! loop,  *)
(* or ends, unless its own client or the storage keeps it waiting for      *)
(* ever, some handler keeps the guard of a status entry for ever, or an    *)
(* acknowledge and an evicting publish are in the circular wait above.     *)
HandlerReturns ==
  \A c \in Conns :
    \/ []<>(pc[c] \in {"select", "closed"})
    \/ <>[]AwaitsClient(c)
    \/ <>[]AwaitsStorage(c)
    \/ <>[](\E d \in Conns : HoldsStatus(d))
    \/ <>CircularWait

(* A queued message gets to every live consumer of the queue: its delivery *)
(* is carried out, unless the message or the connection goes first, or the *)
(* handlers are stuck in the circular wait.                                *)
EventuallyOffered ==
  \A c \in Conns, q \in Queues, m \in Msgs :
    (q \in subscribed[c] /\ m \in Range(queues[q]) /\ m \in confirmed)
      ~> (m \in offered[c] \cup evicted \cup acked \/ is_closed(c) \/ CircularWait)

-----------------------------------------------------------------------------
(* What the repository says and the code does not do.                      *)

(* "lock-free concurrent access across client-handling tasks": no handler  *)
(* waits for another that waits for it.  publish takes a queue and then    *)
(* the queue set of the evicted message, acknowledge the other way round.  *)
LockFree == ~ CircularWait

(* "Add message EXACTLY ONCE" (publish): no queue holds an id twice.  The  *)
(* duplicate check and the insert into message_status are separated by the *)
(* wait for the database, so two publishes of an id can both pass.         *)
OncePerQueue == \A q \in Queues : IsInjective(queues[q])

(* "the unacknowledged message remains queued on the broker ... until a    *)
(* future consume redelivers it": when nothing is in progress, a confirmed *)
(* and unacknowledged message that is in a queue is one that consume would *)
(* deliver.  An eviction from one queue drops the status the other queues  *)
(* of the message need.                                                    *)
QueuedIsDeliverable ==
  (\A c \in Conns : pc[c] \in {"select", "closed"}) =>
    \A q \in Queues : \A m \in Range(queues[q]) :
      m \in confirmed \ acked => can_deliver(m)

(* "server retries delivery until receiver acknowledgment": a confirmed    *)
(* message is written to the live consumers of its queue sooner or later.  *)
(* After MAX_RETRIES failed flushes it is not sent again.                  *)
RetriedUntilAck ==
  \A c \in Conns, q \in Queues, m \in Msgs :
    (q \in subscribed[c] /\ m \in Range(queues[q]) /\ m \in confirmed)
      ~> (m \in received[c] \cup evicted \cup acked \/ is_closed(c))
=============================================================================
