------------------------------ MODULE Mailbox -------------------------------
(***************************************************************************)
(* What the broker promises to its clients (server/src/state.rs and        *)
(* server.rs), without its queues, maps, channels and handlers: messages   *)
(* that are published, held, written to connections they are routed to,    *)
(* and given up only for an ack or an eviction.  Broker is shown to        *)
(* implement this specification.                                           *)
(***************************************************************************)
EXTENDS Naturals

CONSTANTS Msgs, Conns, NoMsg

VARIABLES
  attempts,    \* [Msgs -> Nat]: publishes of an id that were not refused
  reach,       \* [Conns -> SUBSET Msgs]: what is routed to a queue it consumes
  held,        \* messages the broker has in a queue, with a status
  writing,     \* [Conns -> Msgs or NoMsg]: being written to the client
  offered,     \* [Conns -> SUBSET Msgs]: writes that ended, done or given up
  received,    \* [Conns -> SUBSET Msgs]: writes that were done
  confirmed,   \* messages whose publisher was answered ACK
  evicted,     \* messages dropped from a full queue
  acked,       \* messages acknowledged
  removed      \* messages whose acknowledgement is carried out

outcomes == <<confirmed, evicted, acked, removed>>
writes   == <<writing, offered, received>>
vars     == <<attempts, reach, held, writes, outcomes>>

published == {m \in Msgs : attempts[m] > 0}

Init ==
  /\ attempts = [m \in Msgs |-> 0]
  /\ reach = [c \in Conns |-> {}]
  /\ held = {}
  /\ writing = [c \in Conns |-> NoMsg]
  /\ offered = [c \in Conns |-> {}]
  /\ received = [c \in Conns |-> {}]
  /\ confirmed = {} /\ evicted = {} /\ acked = {} /\ removed = {}

(* Nothing but S may leave the broker, nothing unpublished may enter.      *)
HoldsBut(S) == held \ S \subseteq held' /\ held' \subseteq published

Publish(m) ==
  /\ attempts' = [attempts EXCEPT ![m] = @ + 1]
  /\ UNCHANGED <<reach, held, writes, outcomes>>

(* A queue is consumed or bound: no connection loses what it is sent.      *)
Widen ==
  /\ \A c \in Conns : reach[c] \subseteq reach'[c]
  /\ UNCHANGED <<attempts, held, writes, outcomes>>

Hold ==
  /\ HoldsBut({})
  /\ UNCHANGED <<attempts, reach, writes, outcomes>>

(* The publisher hears ACK of a message that is held, or was.              *)
Confirm(m) ==
  /\ m \in published
  /\ m \in held \cup evicted \cup acked
  /\ confirmed' = confirmed \cup {m}
  /\ UNCHANGED <<attempts, reach, held, writes, evicted, acked, removed>>

Evict(m) ==
  /\ m \in published
  /\ evicted' = evicted \cup {m}
  /\ HoldsBut({m})
  /\ UNCHANGED <<attempts, reach, writes, confirmed, acked, removed>>

(* A write starts: of a published message, to a connection that consumes   *)
(* it, and not after the ack unless the id was published again.            *)
Write(c, m) ==
  /\ m \in reach[c] \cap published
  /\ m \in acked => attempts[m] > 1
  /\ writing[c] = NoMsg
  /\ writing' = [writing EXCEPT ![c] = m]
  /\ UNCHANGED <<attempts, reach, held, offered, received, outcomes>>

Stop(c) ==
  /\ writing[c] \in Msgs
  /\ writing' = [writing EXCEPT ![c] = NoMsg]
  /\ UNCHANGED <<attempts, reach, held, outcomes>>

Deliver(c) ==
  /\ Stop(c)
  /\ offered' = [offered EXCEPT ![c] = @ \cup {writing[c]}]
  /\ received' = [received EXCEPT ![c] = @ \cup {writing[c]}]

GiveUp(c) ==
  /\ Stop(c)
  /\ offered' = [offered EXCEPT ![c] = @ \cup {writing[c]}]
  /\ UNCHANGED received

Abandon(c) == Stop(c) /\ UNCHANGED <<offered, received>>

(* Somebody the message was offered to acknowledges it.                    *)
Ack(m) ==
  /\ \E c \in Conns : m \in offered[c]
  /\ acked' = acked \cup {m}
  /\ UNCHANGED <<attempts, reach, held, writes, confirmed, evicted, removed>>

(* An acknowledged message leaves its queues, then the maps.               *)
Discard ==
  /\ HoldsBut(acked)
  /\ UNCHANGED <<attempts, reach, writes, outcomes>>

Remove(m) ==
  /\ m \in acked
  /\ removed' = removed \cup {m}
  /\ HoldsBut({m})
  /\ UNCHANGED <<attempts, reach, writes, confirmed, evicted, acked>>

Next ==
  \/ Widen \/ Hold \/ Discard
  \/ \E m \in Msgs : Publish(m) \/ Confirm(m) \/ Evict(m) \/ Ack(m) \/ Remove(m)
  \/ \E c \in Conns : Deliver(c) \/ GiveUp(c) \/ Abandon(c) \/ \E m \in Msgs : Write(c, m)

Spec == Init /\ [][Next]_vars
=============================================================================
