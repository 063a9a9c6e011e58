---------------------------- MODULE MetadataStore ---------------------------
(***************************************************************************)
(* What the storage actor promises to the broker (server/src/storage.rs),  *)
(* without its channel, its buffers and its worker: two tables, and the    *)
(* updates of two NULLable columns that were accepted and are still owed.  *)
(* Storage is shown to implement this specification.                       *)
(***************************************************************************)
EXTENDS Naturals

CONSTANTS Ids, Metas, Times, Clients, Keys, NoMeta, NoTime, NoKey

VARIABLES
  meta,               \* [Ids -> Metas or NoMeta]: the row, NoMeta: no row
  delivered_time,     \* [Ids -> Times or NoTime]: NoTime is NULL
  acknowledged_time,  \* [Ids -> Times or NoTime]
  keys,               \* [Clients -> Keys or NoKey]
  owed_delivered,     \* accepted updates <<id, time>> not yet recorded
  owed_acknowledged,
  broken,             \* the connection to the database is closed
  faults              \* failures of the database, crashes of the server

columns == <<delivered_time, acknowledged_time>>
owed    == <<owed_delivered, owed_acknowledged>>
health  == <<broken, faults>>
vars    == <<meta, columns, keys, owed, health>>

Init ==
  /\ meta = [id \in Ids |-> NoMeta]
  /\ delivered_time = [id \in Ids |-> NoTime]
  /\ acknowledged_time = [id \in Ids |-> NoTime]
  /\ keys = [k \in Clients |-> NoKey]
  /\ owed_delivered = {}
  /\ owed_acknowledged = {}
  /\ broken = FALSE
  /\ faults = 0

(* A save writes the row's own columns and leaves the two times alone.     *)
Save(id, m) ==
  /\ meta' = [meta EXCEPT ![id] = m]
  /\ UNCHANGED <<columns, keys, owed, health>>

SaveKey(k, key) ==
  /\ keys' = [keys EXCEPT ![k] = key]
  /\ UNCHANGED <<meta, columns, owed, health>>

(* An accepted update is owed from then on, for a row that exists.         *)
Promise(id, t) ==
  /\ meta[id] # NoMeta
  /\ \/ /\ owed_delivered' = owed_delivered \cup {<<id, t>>}
        /\ UNCHANGED owed_acknowledged
     \/ /\ owed_acknowledged' = owed_acknowledged \cup {<<id, t>>}
        /\ UNCHANGED owed_delivered
  /\ UNCHANGED <<meta, columns, keys, health>>

(* An update may be dropped for another one of the same message.           *)
Superseded(old, new) ==
  /\ new \subseteq old
  /\ \A u \in old \ new : \E v \in new : v[1] = u[1]

Supersede ==
  /\ Superseded(owed_delivered, owed_delivered')
  /\ Superseded(owed_acknowledged, owed_acknowledged')
  /\ UNCHANGED <<meta, columns, keys, health>>

(* The first time stays: only NULL is overwritten.                         *)
Recorded(column, batch) ==
  [id \in Ids |-> IF column[id] = NoTime /\ meta[id] # NoMeta
                  THEN batch[id] ELSE column[id]]

(* A batch of owed updates is recorded, and only they stop being owed.     *)
Settled(old, new, batch) ==
  /\ new \subseteq old
  /\ \A id \in Ids : batch[id] # NoTime => <<id, batch[id]>> \in old
  /\ \A u \in old \ new : batch[u[1]] = u[2]

Batches == [Ids -> Times \cup {NoTime}]

RecordDelivered ==
  /\ \E batch \in Batches :
       /\ Settled(owed_delivered, owed_delivered', batch)
       /\ delivered_time' = Recorded(delivered_time, batch)
  /\ UNCHANGED <<meta, acknowledged_time, keys, owed_acknowledged, health>>

RecordAcknowledged ==
  /\ \E batch \in Batches :
       /\ Settled(owed_acknowledged, owed_acknowledged', batch)
       /\ acknowledged_time' = Recorded(acknowledged_time, batch)
  /\ UNCHANGED <<meta, delivered_time, keys, owed_delivered, health>>

(* Owed updates are lost only to a fault, or while the connection is       *)
(* closed, which takes a fault; what is recorded survives.                 *)
Lose ==
  /\ \/ faults' = faults + 1
     \/ broken /\ faults' = faults
  /\ broken' \in BOOLEAN
  /\ owed_delivered' \subseteq owed_delivered
  /\ owed_acknowledged' \subseteq owed_acknowledged
  /\ UNCHANGED <<meta, columns, keys>>

Next ==
  \/ \E id \in Ids, m \in Metas : Save(id, m)
  \/ \E k \in Clients, key \in Keys : SaveKey(k, key)
  \/ \E id \in Ids, t \in Times : Promise(id, t)
  \/ Supersede
  \/ RecordDelivered
  \/ RecordAcknowledged
  \/ Lose

Spec == Init /\ [][Next]_vars
=============================================================================
