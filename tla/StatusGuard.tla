---------------------------- MODULE StatusGuard -----------------------------
(***************************************************************************)
(* Delivering handlers, the runtime's threads and the storage channel.     *)
(* After a delivery handle_client (server/src/server.rs) takes a write     *)
(* guard on a shard of message_status and keeps it while it awaits a place *)
(* in the storage channel.  A handler that finds the shard taken waits     *)
(* inside DashMap, so it keeps its thread of the runtime; the worker that  *)
(* empties the channel needs a thread too.                                 *)
(***************************************************************************)
EXTENDS Naturals, FiniteSets

CONSTANTS
  Handlers,      \* connections with a message of this shard to deliver
  Others,        \* connections with some other access to the shard
  Threads,       \* worker threads of the runtime
  Capacity       \* of the storage channel (1000)

VARIABLES
  pc,            \* "idle", "blocked" on the shard, "suspended" in send, "done"
  chan           \* commands in the storage channel

vars == <<pc, chan>>

Tasks == Handlers \cup Others

Init == pc = [h \in Tasks |-> "idle"] /\ chan = 0

(* Tasks that keep a thread without running.                               *)
Busy == {h \in Tasks : pc[h] = "blocked"}

ThreadFree == Cardinality(Busy) < Threads

ShardFree == \A h \in Tasks : pc[h] # "suspended"

(* With the guard: a first delivery marks the status and sends the update, *)
(* which suspends the task when the channel is full; the guard goes with   *)
(* the end of the block.                                                   *)
WithGuard(h) ==
  IF h \in Others
  THEN pc' = [pc EXCEPT ![h] = "done"] /\ UNCHANGED chan
  ELSE IF chan < Capacity
       THEN pc' = [pc EXCEPT ![h] = "done"] /\ chan' = chan + 1
       ELSE pc' = [pc EXCEPT ![h] = "suspended"] /\ UNCHANGED chan

(* message_status.get_mut, or any other access to the shard.               *)
Access(h) ==
  /\ pc[h] = "idle"
  /\ ThreadFree
  /\ IF ShardFree THEN WithGuard(h)
     ELSE pc' = [pc EXCEPT ![h] = "blocked"] /\ UNCHANGED chan

Unblock(h) ==
  /\ pc[h] = "blocked"
  /\ ShardFree
  /\ WithGuard(h)

Resume(h) ==
  /\ pc[h] = "suspended"
  /\ chan < Capacity
  /\ ThreadFree
  /\ pc' = [pc EXCEPT ![h] = "done"]
  /\ chan' = chan + 1

(* Commands of other tasks; a sender already waiting has the next place.   *)
OtherCommand ==
  /\ chan < Capacity
  /\ ShardFree
  /\ ThreadFree
  /\ chan' = chan + 1
  /\ UNCHANGED pc

(* The storage worker takes a command.                                     *)
WorkerRecv ==
  /\ chan > 0
  /\ ThreadFree
  /\ chan' = chan - 1
  /\ UNCHANGED pc

Next ==
  \/ \E h \in Tasks : Access(h) \/ Unblock(h) \/ Resume(h)
  \/ OtherCommand \/ WorkerRecv

Spec == Init /\ [][Next]_vars

(* A free thread runs what is ready, and the shard's lock is handed over.  *)
FairSpec ==
  /\ Spec
  /\ WF_vars(WorkerRecv)
  /\ \A h \in Tasks : WF_vars(Unblock(h)) /\ WF_vars(Resume(h))

(* A handler that waits for the shard or for the channel goes on some day. *)
(* "update message delivery status (async, non-blocking)".                 *)
AccessEnds ==
  \A h \in Tasks : pc[h] \in {"blocked", "suspended"} ~> pc[h] = "done"
=============================================================================
