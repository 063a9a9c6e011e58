------------------------------ MODULE Cleanup -------------------------------
(***************************************************************************)
(* The broker together with its two background tasks, cleanup_dead_        *)
(* consumers and cleanup_old_messages (server/src/state.rs).               *)
(*                                                                         *)
(* ServerState::new hands each task state.clone().  ServerState derives    *)
(* Clone and holds its DashMaps by value, and cloning a DashMap copies its *)
(* entries, so the tasks work on private maps that were copied while the   *)
(* maps were empty.  Every variable whose name starts with clone_ is such  *)
(* a private map: a function whose domain is the set of its keys.          *)
(***************************************************************************)
EXTENDS Broker

VARIABLES
  clone_consumers,       \* of the dead-consumer task
  empty_queues, dead_pc, \* its local list; "sleep" or "remove"
  clone_queues, clone_message_queues, clone_status, \* of the old-message task
  expired, old_pc,       \* expired_messages; "sleep" or "remove"
  aged                   \* ids delivered more than max_age ago

deadVars == <<clone_consumers, empty_queues, dead_pc>>
oldVars  == <<clone_queues, clone_message_queues, clone_status, expired, old_pc>>
allVars  == <<vars, deadVars, oldVars, aged>>

NoEntries == [k \in {} |-> {}]

(* ServerState::new clones the maps before the server listens.             *)
CleanupInit ==
  /\ Init
  /\ clone_consumers = NoEntries
  /\ empty_queues = {}
  /\ dead_pc = "sleep"
  /\ clone_queues = NoEntries
  /\ clone_message_queues = NoEntries
  /\ clone_status = NoEntries
  /\ expired = {}
  /\ old_pc = "sleep"
  /\ aged = {}

(* Time passes: max_age (3000 s) has gone by since m was delivered.        *)
Age(m) ==
  /\ message_status[m] = "delivered"
  /\ aged' = aged \cup {m}
  /\ UNCHANGED <<vars, deadVars, oldVars>>

(* One pass of cleanup_dead_consumers over its map: closed senders go,     *)
(* queues left without a sender are noted.                                 *)
SweepDeadConsumers ==
  /\ dead_pc = "sleep"
  /\ clone_consumers' = [q \in DOMAIN clone_consumers |->
                          {c \in clone_consumers[q] : ~ is_closed(c)}]
  /\ empty_queues' = {q \in DOMAIN clone_consumers : clone_consumers'[q] = {}}
  /\ dead_pc' = "remove"
  /\ UNCHANGED <<vars, oldVars, aged>>

(* The noted queues are removed after the iteration.                       *)
RemoveEmptyQueues ==
  /\ dead_pc = "remove"
  /\ clone_consumers' =
       Restrict(clone_consumers, DOMAIN clone_consumers \ empty_queues)
  /\ empty_queues' = {}
  /\ dead_pc' = "sleep"
  /\ UNCHANGED <<vars, oldVars, aged>>

(* cleanup_old_messages collects delivered, unacknowledged, old messages.  *)
CollectExpired ==
  /\ old_pc = "sleep"
  /\ expired' = {m \in DOMAIN clone_status :
                   clone_status[m] = "delivered" /\ m \in aged}
  /\ old_pc' = "remove"
  /\ UNCHANGED <<vars, deadVars, aged, clone_queues, clone_message_queues,
                 clone_status>>

(* It takes them out of their queues and drops their entries.              *)
RemoveExpired ==
  /\ old_pc = "remove"
  /\ clone_queues' = [q \in DOMAIN clone_queues |->
       Keep(clone_queues[q], Msgs \ {m \in expired \cap DOMAIN clone_message_queues :
                                       q \in clone_message_queues[m]})]
  /\ clone_message_queues' =
       Restrict(clone_message_queues, DOMAIN clone_message_queues \ expired)
  /\ clone_status' = Restrict(clone_status, DOMAIN clone_status \ expired)
  /\ expired' = {}
  /\ old_pc' = "sleep"
  /\ UNCHANGED <<vars, deadVars, aged>>

CleanupNext ==
  \/ Next /\ UNCHANGED <<deadVars, oldVars, aged>>
  \/ \E m \in Msgs : Age(m)
  \/ SweepDeadConsumers
  \/ RemoveEmptyQueues
  \/ CollectExpired
  \/ RemoveExpired

(* Both tasks loop forever; the broker is as fair as in Broker.            *)
CleanupSpec ==
  /\ CleanupInit
  /\ [][CleanupNext]_allVars
  /\ WF_allVars(SweepDeadConsumers)
  /\ WF_allVars(RemoveEmptyQueues)
  /\ WF_allVars(CollectExpired)
  /\ WF_allVars(RemoveExpired)
  /\ Fairness

-----------------------------------------------------------------------------
(* What the repository says and the code does not do.                      *)

(* "removes closed mpsc::UnboundedSender channels from the consumer map":  *)
(* the sender of a closed connection does not stay in consumers for good.  *)
DeadConsumersRemoved ==
  \A c \in Conns, q \in Queues :
    (c \in consumers[q] /\ is_closed(c)) ~> c \notin consumers[q]

(* "removes messages from queues and status that were delivered more than  *)
(* 3000 seconds ago and never acknowledged".                               *)
OldMessagesRemoved ==
  \A m \in Msgs :
    (m \in aged /\ message_status[m] = "delivered")
      ~> (message_status[m] # "delivered")
=============================================================================
