---------------------------- MODULE BrokerProofs -----------------------------
(***************************************************************************)
(* What the broker does for its clients, for every value of the constants. *)
(* A message that was published once and acknowledged is gone from every   *)
(* map and every queue (AckRemovesEverywhere).  No message in a queue      *)
(* escapes a consumer of that queue (NoMissedMessage).  Each has its       *)
(* inductive invariant, the kinds of steps that keep it, and the theorem.  *)
(* With the invariants of BrokerInvariants these give the refinement of    *)
(* Mailbox, and what follows from it.                                      *)
(***************************************************************************)
EXTENDS BrokerInvariants

(* Zenon proves what follows, unless a leaf asks for another prover.       *)
USE ZenonT(30)

-----------------------------------------------------------------------------
(* An acknowledged message is gone from everywhere.                        *)

Queued(m, q) == m \in Range(queues[q])

(* A publish that has not yet recorded the queue set of its message.       *)
PushPcs == {"save", "enqueue", "evict", "track_queues"}

(* An id that was never published is nowhere.                              *)
NotYet ==
  \A m \in Msgs : attempts[m] = 0 => m \notin removed /\ \A q \in Queues : ~ Queued(m, q)

(* One published once is at most once in a queue,                          *)
Singly ==
  \A m \in Msgs : attempts[m] = 1 => \A q \in Queues : Single(queues[q], m)

(* while its publish fills the queues only in those it is done with,       *)
PushedBy(m, c) ==
  \A q \in Queues : Queued(m, q) =>
    /\ pc[c] # "save"
    /\ pc[c] \in {"enqueue", "evict"} => q \in target[c] \ todo[c]
    /\ pc[c] = "track_queues" => q \in target[c]

Pushed == \A m \in Msgs, c \in Conns : attempts[m] = 1 /\ cur[c] = m => PushedBy(m, c)

Looping ==
  \A c \in Conns : /\ pc[c] \in {"enqueue", "evict"} => todo[c] \subseteq target[c]
                   /\ pc[c] = "evict" => at[c] \in todo[c]

(* and from then on only in those of its queue set.                        *)
Listed ==
  \A m \in Msgs :
    attempts[m] = 1 /\ (\A c \in Conns : cur[c] = m => pc[c] \notin PushPcs) =>
      \A q \in Queues : Queued(m, q) => q \in message_queues[m]

(* What an acknowledge has still to visit.                                 *)
CleanedBy(m, c) ==
  /\ pc[c] = "ack_drop_status" => message_queues[m] = {}
  /\ \A q \in Queues : Queued(m, q) =>
       /\ pc[c] = "ack_iter" => q \in todo[c]
       /\ pc[c] = "ack_clean" => q \in todo[c] \cup {at[c]}
       /\ pc[c] \notin {"ack_drop_queues", "ack_drop_status"}

Cleaned == \A m \in Msgs, c \in Conns : attempts[m] = 1 /\ cur[c] = m => CleanedBy(m, c)

(* After it the message is nowhere.                                        *)
Swept ==
  \A m \in removed :
    /\ m \in acked /\ m \in Msgs
    /\ attempts[m] = 1 => /\ message_status[m] = Absent /\ message_queues[m] = {}
                          /\ \A q \in Queues : ~ Queued(m, q)

RemovalInv == NotYet /\ Singly /\ Pushed /\ Looping /\ Listed /\ Cleaned /\ Swept

(* A step that leaves the queues and the queue sets alone, of a handler    *)
(* that neither fills queues nor cleans them.                              *)
Unmoved(c) ==
  /\ UNCHANGED <<queues, message_queues, attempts, removed>>
  /\ acked \subseteq acked'
  /\ OthersKeep(c) /\ \A d \in Conns \ {c} : at'[d] = at[d]
  /\ pc[c] \notin {"enqueue", "evict", "track_queues"}
  /\ pc'[c] \notin PushPcs \cup {"ack_iter", "ack_clean", "ack_drop_queues", "ack_drop_status"}
  /\ \A m \in removed : attempts[m] = 1 /\ message_status[m] = Absent => message_status'[m] = Absent

(* Such a step keeps the invariant.                                        *)
LEMMA UnmovedStep ==
  ASSUME RemovalInv, NEW c \in Conns, Unmoved(c)
  PROVE  RemovalInv'
<1> USE DEF RemovalInv
<1>1. /\ \A m, q : Queued(m, q)' <=> Queued(m, q)
      /\ UNCHANGED <<message_queues, attempts, removed>>
      /\ \A d \in Conns : d # c => /\ pc'[d] = pc[d] /\ cur'[d] = cur[d] /\ at'[d] = at[d]
                                   /\ target'[d] = target[d] /\ todo'[d] = todo[d]
  BY DEF Unmoved, OthersKeep, Queued
<1>2. /\ pc[c] \notin {"enqueue", "evict", "track_queues"}
      /\ pc'[c] \notin PushPcs
      /\ pc'[c] \notin {"ack_iter", "ack_clean", "ack_drop_queues", "ack_drop_status"}
  BY DEF Unmoved
<1>3. NotYet'
  BY <1>1 DEF NotYet
<1>4. Singly'
  BY DEF Singly, Unmoved
<1>5. Pushed'
  BY <1>1, <1>2 DEF Pushed, PushedBy, PushPcs
<1>6. Looping'
  BY <1>1, <1>2 DEF Looping, PushPcs
<1>7. Listed'
  <2> SUFFICES ASSUME NEW m \in Msgs, attempts[m] = 1,
                      \A d \in Conns : cur'[d] = m => pc'[d] \notin PushPcs,
                      NEW q \in Queues, Queued(m, q)
               PROVE  q \in message_queues[m]
    BY <1>1 DEF Listed
  <2>1. cur[c] = m => pc[c] \notin PushPcs
    BY <1>2 DEF Pushed, PushedBy, PushPcs
  <2>2. \A d \in Conns : cur[d] = m => pc[d] \notin PushPcs
    BY <1>1, <2>1
  <2> QED BY <2>2 DEF Listed
<1>8. Cleaned'
  BY <1>1, <1>2 DEF Cleaned, CleanedBy
<1>9. Swept'
  BY <1>1 DEF Swept, Unmoved
<1> QED BY <1>3, <1>4, <1>5, <1>6, <1>7, <1>8, <1>9

(* While a publish has the only attempt at an id in hand, nobody has       *)
(* acknowledged it, and no other handler publishes it.                     *)
LEMMA SoleAttempt ==
  ASSUME PublishedOnce, NEW c \in Conns, pc[c] \in PrePcs, cur[c] \in Msgs
  PROVE  /\ attempts[cur[c]] # 0
         /\ attempts[cur[c]] = 1 =>
              /\ cur[c] \notin acked
              /\ \A d \in Conns : d # c /\ cur[d] = cur[c] => pc[d] \notin PrePcs
BY DEF PublishedOnce, Unpublished, OnePublish, Hidden, Fresh

(* A step of c within acknowledge, which holds an accepted ack of cur.     *)
Cleans(c) ==
  /\ OthersKeep(c) /\ \A d \in Conns \ {c} : at'[d] = at[d]
  /\ cur'[c] = cur[c] /\ cur[c] \in Msgs /\ cur[c] \in acked
  /\ UNCHANGED <<attempts, acked>>
  /\ pc[c] \in AckPcs /\ pc'[c] \in AckPcs
  /\ \A q \in Queues, m \in Msgs : Queued(m, q)' => Queued(m, q)
  /\ \A q \in Queues, m \in Msgs : Single(queues[q], m) => Single(queues'[q], m)
  /\ \A m \in Msgs : \/ message_queues'[m] = message_queues[m]
                     \/ m = cur[c] /\ pc[c] = "ack_drop_queues" /\ message_queues'[m] = {}
  /\ \A m \in Msgs : message_status'[m] \in {message_status[m], Absent}
  /\ \A m \in removed' : \/ m \in removed
                         \/ m = cur[c] /\ pc[c] = "ack_drop_status" /\ message_status'[m] = Absent
  /\ attempts[cur[c]] = 1 => CleanedBy(cur[c], c)'

(* Such a step keeps the invariant, too.                                   *)
LEMMA CleanStep ==
  ASSUME PublishedOnce, RemovalInv, NEW c \in Conns, Cleans(c)
  PROVE  RemovalInv'
<1> USE DEF RemovalInv
<1>1. /\ \A q \in Queues, m \in Msgs : Queued(m, q)' => Queued(m, q)
      /\ UNCHANGED <<attempts, acked>>
      /\ \A d \in Conns : d # c => /\ pc'[d] = pc[d] /\ cur'[d] = cur[d] /\ at'[d] = at[d]
                                   /\ target'[d] = target[d] /\ todo'[d] = todo[d]
      /\ cur'[c] = cur[c] /\ cur[c] \in Msgs /\ cur[c] \in acked
  BY DEF Cleans, OthersKeep
<1>2. /\ pc[c] \notin PushPcs /\ pc'[c] \notin PushPcs
  BY DEF Cleans, AckPcs, PushPcs
<1>3. NotYet'
  <2>1. attempts[cur[c]] # 0
    BY <1>1 DEF PublishedOnce, Unpublished
  <2> QED BY <1>1, <2>1 DEF NotYet, Cleans
<1>4. Singly'
  BY <1>1 DEF Singly, Cleans
<1>5. Pushed'
  BY <1>1, <1>2 DEF Pushed, PushedBy, PushPcs
<1>6. Looping'
  BY <1>1, <1>2 DEF Looping, PushPcs
<1>7. Listed'
  <2> SUFFICES ASSUME NEW m \in Msgs, attempts[m] = 1,
                      \A d \in Conns : cur'[d] = m => pc'[d] \notin PushPcs,
                      NEW q \in Queues, Queued(m, q)'
               PROVE  q \in message_queues'[m]
    BY <1>1 DEF Listed
  <2>1. \A d \in Conns : cur[d] = m => pc[d] \notin PushPcs
    BY <1>1, <1>2
  <2>2. q \in message_queues[m] /\ Queued(m, q)
    BY <1>1, <2>1 DEF Listed
  <2>3. ~ (m = cur[c] /\ pc[c] = "ack_drop_queues")
    BY <2>2 DEF Cleaned, CleanedBy
  <2> QED BY <2>2, <2>3 DEF Cleans
<1>8. Cleaned'
  <2> SUFFICES ASSUME NEW m \in Msgs, NEW d \in Conns, attempts[m] = 1, cur'[d] = m
               PROVE  CleanedBy(m, d)'
    BY <1>1 DEF Cleaned
  <2>1. CASE d = c
    BY <1>1, <2>1 DEF Cleans
  <2>2. CASE d # c
    <3>1. CleanedBy(m, d)
      BY <1>1, <2>2 DEF Cleaned
    <3>2. message_queues[m] = {} => message_queues'[m] = {}
      BY DEF Cleans
    <3> QED BY <1>1, <2>2, <3>1, <3>2 DEF CleanedBy
  <2> QED BY <2>1, <2>2
<1>9. Swept'
  <2> SUFFICES ASSUME NEW m \in removed'
               PROVE  /\ m \in acked /\ m \in Msgs
                      /\ attempts[m] = 1 =>
                           /\ message_status'[m] = Absent /\ message_queues'[m] = {}
                           /\ \A q \in Queues : ~ Queued(m, q)'
    BY <1>1 DEF Swept
  <2>1. CASE m \in removed
    BY <1>1, <2>1 DEF Swept, Cleans, Absent
  <2>2. CASE m = cur[c] /\ pc[c] = "ack_drop_status" /\ message_status'[m] = Absent
    <3>1. attempts[m] = 1 => CleanedBy(m, c)
      BY <1>1, <2>2 DEF Cleaned
    <3>2. message_queues[m] = {} => message_queues'[m] = {}
      BY <1>1, <2>2 DEF Cleans
    <3> QED BY <1>1, <2>2, <3>1, <3>2 DEF CleanedBy
  <2> QED BY <2>1, <2>2 DEF Cleans
<1> QED BY <1>3, <1>4, <1>5, <1>6, <1>7, <1>8, <1>9

(* A step of c in the first loop of publish: cur[c] is pushed on q, and    *)
(* some other message may be evicted from it.                              *)
Pushes(c, q) ==
  /\ OthersKeep(c) /\ \A d \in Conns \ {c} : at'[d] = at[d]
  /\ pc[c] \in {"enqueue", "evict"} /\ pc'[c] \in {"enqueue", "track_queues"}
  /\ cur'[c] = cur[c] /\ cur[c] \in Msgs
  /\ target'[c] = target[c] /\ todo'[c] = todo[c] \ {q} /\ q \in todo[c]
  /\ UNCHANGED <<attempts, acked, removed>>
  /\ \A r \in Queues, m \in Msgs : Queued(m, r)' => Queued(m, r) \/ (m = cur[c] /\ r = q)
  /\ \A r \in Queues, m \in Msgs :
       attempts[m] = 1 /\ Single(queues[r], m) => Single(queues'[r], m)
  /\ \A m \in Msgs : /\ message_queues'[m] \subseteq message_queues[m]
                      /\ message_status'[m] \in {message_status[m], Absent}
  /\ \A m \in Msgs, r \in Queues :
       attempts[m] = 1 /\ Queued(m, r)' /\ m # cur[c] /\ r \in message_queues[m] =>
         r \in message_queues'[m]

(* Such a step keeps the invariant.                                        *)
LEMMA PushStep ==
  ASSUME PublishedOnce, NotLostInv, RemovalInv,
         NEW c \in Conns, NEW q \in Queues, Pushes(c, q)
  PROVE  RemovalInv'
<1> USE DEF RemovalInv
<1>1. /\ \A d \in Conns : d # c => /\ pc'[d] = pc[d] /\ cur'[d] = cur[d] /\ at'[d] = at[d]
                                   /\ target'[d] = target[d] /\ todo'[d] = todo[d]
      /\ UNCHANGED <<attempts, acked, removed>>
      /\ cur'[c] = cur[c] /\ cur[c] \in Msgs
      /\ pc[c] \in PushPcs /\ pc'[c] \in PushPcs /\ pc[c] \in PrePcs
  BY DEF Pushes, OthersKeep, PushPcs, PrePcs
<1>2. \A r \in Queues, m \in Msgs : m # cur[c] /\ Queued(m, r)' => Queued(m, r)
  BY DEF Pushes
<1>3. /\ attempts[cur[c]] # 0
      /\ attempts[cur[c]] = 1 =>
           /\ cur[c] \notin acked
           /\ \A d \in Conns : d # c /\ cur[d] = cur[c] => pc[d] \notin PrePcs
  BY <1>1, SoleAttempt
<1>4. NotYet'
  BY <1>1, <1>2, <1>3 DEF NotYet
<1>5. Singly'
  BY <1>1 DEF Singly, Pushes
<1>6. Pushed'
  <2> SUFFICES ASSUME NEW m \in Msgs, NEW d \in Conns, attempts[m] = 1, cur'[d] = m
               PROVE  PushedBy(m, d)'
    BY <1>1 DEF Pushed
  <2>1. cur[d] = m /\ PushedBy(m, d)
    BY <1>1 DEF Pushed
  <2>2. CASE d = c
    BY <2>1, <2>2 DEF PushedBy, Pushes, Looping
  <2>3. CASE d # c /\ m = cur[c]
    <3>1. pc'[d] \notin PrePcs
      BY <1>1, <1>3, <2>1, <2>3
    <3> QED BY <3>1 DEF PushedBy, PrePcs
  <2>4. CASE d # c /\ m # cur[c]
    BY <1>1, <1>2, <2>1, <2>4 DEF PushedBy
  <2> QED BY <2>2, <2>3, <2>4
<1>7. Looping'
  BY <1>1 DEF Looping, Pushes
<1>8. Listed'
  <2> SUFFICES ASSUME NEW m \in Msgs, attempts[m] = 1,
                      \A d \in Conns : cur'[d] = m => pc'[d] \notin PushPcs,
                      NEW r \in Queues, Queued(m, r)'
               PROVE  r \in message_queues'[m]
    BY <1>1 DEF Listed
  <2>1. m # cur[c] /\ \A d \in Conns : cur[d] = m => pc[d] \notin PushPcs
    BY <1>1
  <2>2. r \in message_queues[m]
    BY <1>2, <2>1 DEF Listed
  <2> QED BY <2>1, <2>2 DEF Pushes
<1>9. Cleaned'
  <2> SUFFICES ASSUME NEW m \in Msgs, NEW d \in Conns, attempts[m] = 1, cur'[d] = m
               PROVE  CleanedBy(m, d)'
    BY <1>1 DEF Cleaned
  <2>1. cur[d] = m /\ CleanedBy(m, d)
    BY <1>1 DEF Cleaned
  <2>2. CASE d = c
    BY <2>2 DEF CleanedBy, Pushes
  <2>3. CASE d # c /\ m = cur[c]
    <3>1. pc'[d] \notin {"ack_scan", "ack_iter", "ack_clean", "ack_drop_queues",
                         "ack_drop_status"}
      BY <1>1, <1>3, <2>1, <2>3 DEF NotLostInv, Acking
    <3> QED BY <3>1 DEF CleanedBy
  <2>4. CASE d # c /\ m # cur[c]
    <3>1. message_queues[m] = {} => message_queues'[m] = {}
      BY DEF Pushes
    <3> QED BY <1>1, <1>2, <2>1, <2>4, <3>1 DEF CleanedBy
  <2> QED BY <2>2, <2>3, <2>4
<1>10. Swept'
  <2> SUFFICES ASSUME NEW m \in removed, attempts[m] = 1
               PROVE  /\ message_status'[m] = Absent /\ message_queues'[m] = {}
                      /\ \A r \in Queues : ~ Queued(m, r)'
    BY <1>1 DEF Swept
  <2>1. /\ m \in Msgs /\ m # cur[c] /\ message_status[m] = Absent /\ message_queues[m] = {}
        /\ \A r \in Queues : ~ Queued(m, r)
    BY <1>3 DEF Swept
  <2>2. message_status'[m] \in {message_status[m], Absent} /\ message_queues'[m] = {}
    BY <2>1 DEF Pushes
  <2> QED BY <1>2, <2>1, <2>2
<1> QED BY <1>4, <1>5, <1>6, <1>7, <1>8, <1>9, <1>10

(* The two ways to push are such steps.                                    *)
LEMMA PublishPushes ==
  ASSUME TypeOK, LockInv, RemovalInv, NEW c \in Conns,
         (\E q \in Queues : PublishEnqueue(c, q)) \/ PublishEvict(c)
  PROVE  \E q \in Queues : Pushes(c, q)
<1> USE DEF Goto, history, OthersKeep
<1>1. ASSUME NEW q \in Queues, PublishEnqueue(c, q) PROVE Pushes(c, q)
  <2>1. /\ cur[c] \in Msgs /\ queues \in [Queues -> Seq(Msgs)] /\ queues[q] \in Seq(Msgs)
        /\ at \in [Conns -> Queues \cup {NoQueue}]
    BY <1>1 DEF PublishEnqueue, TypeOK, PublishPcs
  <2>2. queues' = [queues EXCEPT ![q] = Append(queues[q], cur[c])]
    BY <1>1 DEF PublishEnqueue, PushBack
  <2>3. Range(Append(queues[q], cur[c])) = Range(queues[q]) \cup {cur[c]}
    BY <2>1, AppendRange, SMTT(30)
  <2>4. /\ OthersKeep(c) /\ \A d \in Conns \ {c} : at'[d] = at[d]
        /\ pc[c] = "enqueue" /\ pc'[c] \in {"enqueue", "track_queues"}
        /\ cur'[c] = cur[c] /\ target'[c] = target[c] /\ todo'[c] = todo[c] \ {q}
        /\ q \in todo[c]
        /\ UNCHANGED <<attempts, acked, removed, message_queues, message_status>>
    BY LocalTypes, <1>1, <2>1 DEF PublishEnqueue, PushBack
  <2>5. \A r \in Queues, m \in Msgs :
          Queued(m, r)' => Queued(m, r) \/ (m = cur[c] /\ r = q)
    BY <2>1, <2>2, <2>3 DEF Queued
  <2>6. ASSUME NEW r \in Queues, NEW m \in Msgs, attempts[m] = 1, Single(queues[r], m)
        PROVE  Single(queues'[r], m)
    <3>1. CASE r # q
      BY <2>1, <2>2, <2>6, <3>1
    <3>2. CASE r = q
      <4>1. cur[c] # m \/ m \notin Range(queues[q])
        BY <2>4, <2>6 DEF RemovalInv, Pushed, PushedBy, Queued
      <4>2. Single(Append(queues[q], cur[c]), m)
        BY <2>1, <2>6, <3>2, <4>1, SingleAppend
      <4> QED BY <2>1, <2>2, <3>2, <4>2
    <3> QED BY <3>1, <3>2
  <2> QED BY <2>1, <2>4, <2>5, <2>6 DEF Pushes
<1>2. ASSUME PublishEvict(c) PROVE \E q \in Queues : Pushes(c, q)
  <2> DEFINE q == at[c]
             old == Head(queues[q])
             rest == Tail(queues[q])
  <2>1. /\ pc[c] = "evict" /\ cur[c] \in Msgs /\ q \in Queues
        /\ queues \in [Queues -> Seq(Msgs)] /\ queues[q] # <<>> /\ queues[q] \in Seq(Msgs)
        /\ at \in [Conns -> Queues \cup {NoQueue}]
    BY <1>2 DEF PublishEvict, LockInv, TypeOK, PublishPcs
  <2>2. old \in Msgs /\ rest \in Seq(Msgs) /\ Range(queues[q]) = Range(rest) \cup {old}
    BY <2>1, TailRange
  <2>3. /\ queues' = [queues EXCEPT ![q] = Append(rest, cur[c])]
        /\ message_queues' = [message_queues EXCEPT ![old] = @ \ {q}]
        /\ message_status' = [message_status EXCEPT ![old] = Absent]
        /\ UNCHANGED <<attempts, acked, removed>>
    BY <1>2 DEF PublishEvict, PushBack
  <2>4. /\ OthersKeep(c) /\ \A d \in Conns \ {c} : at'[d] = at[d]
        /\ cur'[c] = cur[c] /\ target'[c] = target[c] /\ todo'[c] = todo[c] \ {q}
        /\ pc'[c] \in {"enqueue", "track_queues"}
    BY LocalTypes, <1>2, <2>1 DEF PublishEvict, PushBack
  <2>5. q \in todo[c]
    BY <2>1 DEF RemovalInv, Looping
  <2>6. \A m \in Msgs : Single(queues[q], m) =>
          Single(rest, m) /\ (old = m => m \notin Range(rest))
    BY <2>1, SingleTail
  <2>7. attempts[cur[c]] = 1 => cur[c] \notin Range(queues[q])
    BY <2>1, <2>5 DEF RemovalInv, Pushed, PushedBy, Queued
  <2> HIDE DEF q, old, rest
  <2>8. Range(Append(rest, cur[c])) = Range(rest) \cup {cur[c]}
    BY <2>1, <2>2, AppendRange, SMTT(30)
  <2>9. \A r \in Queues, m \in Msgs :
          Queued(m, r)' => Queued(m, r) \/ (m = cur[c] /\ r = q)
    BY <2>1, <2>2, <2>3, <2>8 DEF Queued
  <2>10. ASSUME NEW r \in Queues, NEW m \in Msgs, attempts[m] = 1, Single(queues[r], m)
         PROVE  Single(queues'[r], m)
    <3>1. CASE r # q
      BY <2>1, <2>3, <2>10, <3>1
    <3>2. CASE r = q
      <4>1. Single(rest, m) /\ (cur[c] # m \/ m \notin Range(rest))
        BY <2>2, <2>6, <2>7, <2>10, <3>2
      <4>2. Single(Append(rest, cur[c]), m)
        BY <2>1, <2>2, <4>1, SingleAppend
      <4> QED BY <2>1, <2>3, <3>2, <4>2
    <3> QED BY <3>1, <3>2
  <2>11. \A m \in Msgs : /\ message_queues'[m] \subseteq message_queues[m]
                         /\ message_status'[m] \in {message_status[m], Absent}
    BY LocalTypes, <2>3
  <2>12. ASSUME NEW m \in Msgs, NEW r \in Queues, attempts[m] = 1, Queued(m, r)',
                m # cur[c], r \in message_queues[m]
         PROVE  r \in message_queues'[m]
    <3>1. CASE r = q /\ m = old
      <4>1. m \notin Range(rest)
        BY <2>1, <2>6, <2>12, <3>1 DEF RemovalInv, Singly
      <4>2. Range(queues'[q]) = Range(rest) \cup {cur[c]}
        BY <2>1, <2>3, <2>8
      <4> QED BY <2>12, <3>1, <4>1, <4>2 DEF Queued
    <3>2. CASE r # q \/ m # old
      BY LocalTypes, <2>3, <2>12, <3>2
    <3> QED BY <3>1, <3>2
  <2>13. Pushes(c, q)
    BY <2>1, <2>3, <2>4, <2>5, <2>9, <2>10, <2>11, <2>12 DEF Pushes
  <2> QED BY <2>1, <2>13
<1> QED BY <1>1, <1>2

(* The other steps of publish up to the queue set.                         *)
LEMMA PublishRemoval ==
  ASSUME TypeOK, PublishedOnce, NotLostInv, RemovalInv, NEW c \in Conns,
         \/ \E m \in Msgs : PublishCheck(c, m)
         \/ PublishRoute(c) /\ pc'[c] = "enqueue"
         \/ \E q \in Queues : PublishPop(c, q)
         \/ PublishTrackQueues(c)
  PROVE  RemovalInv'
<1> USE DEF RemovalInv
<1>1. ASSUME NEW m \in Msgs, PublishCheck(c, m) PROVE RemovalInv'
  <2>1. /\ UNCHANGED <<queues, message_queues, message_status, target, todo, at, acked, removed>>
        /\ pc[c] = "select" /\ pc'[c] = "save" /\ cur'[c] = m
        /\ \A d \in Conns : d # c => pc'[d] = pc[d] /\ cur'[d] = cur[d]
        /\ \A n \in Msgs : n # m => attempts'[n] = attempts[n]
    BY LocalTypes, <1>1 DEF PublishCheck, Goto, TypeOK
  <2>2. attempts'[m] = attempts[m] + 1 /\ attempts[m] \in Nat
    BY <1>1 DEF PublishCheck, TypeOK
  <2>3. attempts'[m] # 0 /\ (attempts'[m] = 1 => attempts[m] = 0)
    BY <2>2, SMTT(30)
  <2>4. attempts'[m] = 1 =>
          /\ m \notin removed /\ \A q \in Queues : ~ Queued(m, q)
          /\ \A d \in Conns : cur[d] # m
    BY <2>3 DEF NotYet, PublishedOnce, Unpublished
  <2>5. \A n, q : Queued(n, q)' <=> Queued(n, q)
    BY <2>1 DEF Queued
  <2>6. NotYet'
    BY <2>1, <2>3, <2>5 DEF NotYet
  <2>7. Singly'
    <3>1. \A q \in Queues : attempts'[m] = 1 => Single(queues[q], m)
      <4>1. \A q \in Queues : queues[q] \in Seq(Msgs)
        BY DEF TypeOK
      <4>2. \A q \in Queues : Range(queues[q]) = {queues[q][i] : i \in 1 .. Len(queues[q])}
        BY <4>1, SeqRange
      <4> QED BY <2>4, <4>2 DEF Queued, Single
    <3> QED BY <2>1, <3>1 DEF Singly
  <2>8. Pushed'
    BY <2>1, <2>4, <2>5 DEF Pushed, PushedBy
  <2>9. Looping'
    BY <2>1 DEF Looping
  <2>10. Listed'
    BY <2>1, <2>4, <2>5 DEF Listed, PushPcs
  <2>11. Cleaned'
    <3> SUFFICES ASSUME NEW n \in Msgs, NEW d \in Conns, attempts'[n] = 1, cur'[d] = n
                 PROVE  CleanedBy(n, d)'
      BY DEF Cleaned
    <3>1. CASE d = c
      BY <2>1, <3>1 DEF CleanedBy
    <3>2. CASE d # c
      <4>1. n # m /\ attempts[n] = 1 /\ cur[d] = n
        BY <2>1, <2>4, <3>2
      <4>2. CleanedBy(n, d)
        BY <4>1 DEF Cleaned
      <4> QED BY <2>1, <2>5, <3>2, <4>2 DEF CleanedBy
    <3> QED BY <3>1, <3>2
  <2>12. Swept'
    BY <2>1, <2>4, <2>5 DEF Swept
  <2> QED BY <2>6, <2>7, <2>8, <2>9, <2>10, <2>11, <2>12
<1>2. ASSUME \/ PublishRoute(c) /\ pc'[c] = "enqueue"
             \/ \E q \in Queues : PublishPop(c, q)
      PROVE  RemovalInv'
  <2>1. /\ UNCHANGED <<queues, message_queues, message_status, cur, attempts, acked, removed>>
        /\ \A d \in Conns : d # c => /\ pc'[d] = pc[d] /\ at'[d] = at[d]
                                     /\ target'[d] = target[d] /\ todo'[d] = todo[d]
        /\ \/ pc[c] = "save" /\ pc'[c] = "enqueue" /\ todo'[c] = target'[c]
           \/ /\ pc[c] = "enqueue" /\ pc'[c] = "evict" /\ at'[c] \in todo[c]
              /\ target'[c] = target[c] /\ todo'[c] = todo[c]
    <3>1. CASE PublishRoute(c) /\ pc'[c] = "enqueue"
      BY LocalTypes, <3>1 DEF PublishRoute, Goto, Return, Leave, history
    <3>2. ASSUME NEW q \in Queues, PublishPop(c, q)
          PROVE  /\ UNCHANGED <<queues, message_queues, message_status, cur, attempts, acked,
                                removed, target, todo>>
                 /\ \A d \in Conns : d # c => pc'[d] = pc[d] /\ at'[d] = at[d]
                 /\ pc[c] = "enqueue" /\ pc'[c] = "evict" /\ at'[c] \in todo[c]
      <4>1. at \in [Conns -> Queues \cup {NoQueue}]
        BY DEF TypeOK
      <4> QED BY LocalTypes, <3>2, <4>1 DEF PublishPop, Goto, history
    <3> QED BY <1>2, <3>1, <3>2
  <2>2. \A n, q : Queued(n, q)' <=> Queued(n, q)
    BY <2>1 DEF Queued
  <2>3. NotYet' /\ Singly' /\ Swept'
    BY <2>1, <2>2 DEF NotYet, Singly, Swept
  <2>4. Pushed'
    <3> SUFFICES ASSUME NEW m \in Msgs, NEW d \in Conns, attempts[m] = 1, cur[d] = m
                 PROVE  PushedBy(m, d)'
      BY <2>1 DEF Pushed
    <3>1. PushedBy(m, d)
      BY DEF Pushed
    <3>2. CASE d = c
      BY <2>1, <2>2, <3>1, <3>2 DEF PushedBy
    <3>3. CASE d # c
      BY <2>1, <2>2, <3>1, <3>3 DEF PushedBy
    <3> QED BY <3>2, <3>3
  <2>5. Looping'
    BY <2>1 DEF Looping
  <2>6. Listed'
    BY <2>1, <2>2 DEF Listed, PushPcs
  <2>7. Cleaned'
    BY <2>1, <2>2 DEF Cleaned, CleanedBy
  <2> QED BY <2>3, <2>4, <2>5, <2>6, <2>7
<1>3. ASSUME PublishTrackQueues(c) PROVE RemovalInv'
  <2>1. /\ UNCHANGED <<queues, message_status, cur, target, todo, at, attempts, acked, removed>>
        /\ pc[c] = "track_queues" /\ pc'[c] = "track_status" /\ cur[c] \in Msgs
        /\ \A d \in Conns : d # c => pc'[d] = pc[d]
        /\ message_queues'[cur[c]] = target[c]
        /\ \A m \in Msgs : m # cur[c] => message_queues'[m] = message_queues[m]
    BY LocalTypes, <1>3 DEF PublishTrackQueues, Goto, history, TypeOK, PublishPcs
  <2>2. attempts[cur[c]] = 1 => cur[c] \notin acked
    BY <2>1, SoleAttempt DEF PrePcs
  <2>3. \A n, q : Queued(n, q)' <=> Queued(n, q)
    BY <2>1 DEF Queued
  <2>4. NotYet' /\ Singly'
    BY <2>1, <2>3 DEF NotYet, Singly
  <2>5. Pushed'
    BY <2>1, <2>3 DEF Pushed, PushedBy
  <2>6. Looping'
    BY <2>1 DEF Looping
  <2>7. Listed'
    <3> SUFFICES ASSUME NEW m \in Msgs, attempts[m] = 1,
                        \A d \in Conns : cur[d] = m => pc'[d] \notin PushPcs,
                        NEW q \in Queues, Queued(m, q)
                 PROVE  q \in message_queues'[m]
      BY <2>1, <2>3 DEF Listed
    <3>1. CASE m = cur[c]
      BY <2>1, <3>1 DEF Pushed, PushedBy
    <3>2. CASE m # cur[c]
      BY <2>1, <3>2 DEF Listed
    <3> QED BY <3>1, <3>2
  <2>8. Cleaned'
    <3> SUFFICES ASSUME NEW m \in Msgs, NEW d \in Conns, attempts[m] = 1, cur[d] = m
                 PROVE  CleanedBy(m, d)'
      BY <2>1 DEF Cleaned
    <3>1. CleanedBy(m, d)
      BY DEF Cleaned
    <3>2. pc'[d] = "ack_drop_status" => m # cur[c] /\ d # c
      BY <2>1, <2>2 DEF NotLostInv, Acking
    <3> QED BY <2>1, <2>3, <3>1, <3>2 DEF CleanedBy
  <2>9. Swept'
    BY <2>1, <2>2, <2>3 DEF Swept
  <2> QED BY <2>4, <2>5, <2>6, <2>7, <2>8, <2>9
<1> QED BY <1>1, <1>2, <1>3

(* The removing steps of acknowledge.                                      *)
LEMMA AckCleans ==
  ASSUME TypeOK, PublishedOnce, NotLostInv, RemovalInv, NEW c \in Conns,
         \/ AckScan(c)
         \/ \E q \in Queues : AckVisit(c, q)
         \/ AckClean(c)
         \/ AckEnd(c)
         \/ AckDropQueues(c)
         \/ AckDropStatus(c)
  PROVE  Cleans(c)
<1> USE DEF OthersKeep, Goto, history
<1>1. /\ pc[c] \in {"ack_scan", "ack_iter", "ack_clean", "ack_drop_queues", "ack_drop_status"}
      /\ pc'[c] \in AckPcs
      /\ UNCHANGED <<cur, target, attempts, acked>>
      /\ OthersKeep(c) /\ \A d \in Conns \ {c} : at'[d] = at[d]
  <2>1. at \in [Conns -> Queues \cup {NoQueue}]
    BY DEF TypeOK
  <2>2. CASE AckScan(c)
    BY LocalTypes, <2>1, <2>2 DEF AckScan, AckPcs
  <2>3. ASSUME NEW q \in Queues, AckVisit(c, q) 
        PROVE  /\ pc[c] = "ack_iter" /\ pc'[c] \in AckPcs
               /\ UNCHANGED <<cur, target, attempts, acked>>
               /\ OthersKeep(c) /\ \A d \in Conns \ {c} : at'[d] = at[d]
    BY LocalTypes, <2>1, <2>3 DEF AckVisit, AckPcs
  <2>4. CASE AckClean(c)
    BY LocalTypes, <2>1, <2>4 DEF AckClean, AckPcs
  <2>5. CASE AckEnd(c)
    BY LocalTypes, <2>1, <2>5 DEF AckEnd, AckPcs
  <2>6. CASE AckDropQueues(c)
    BY LocalTypes, <2>1, <2>6 DEF AckDropQueues, AckPcs
  <2>7. CASE AckDropStatus(c)
    BY LocalTypes, <2>1, <2>7 DEF AckDropStatus, AckPcs
  <2> QED BY <2>2, <2>3, <2>4, <2>5, <2>6, <2>7
<1>2. /\ cur[c] \in Msgs /\ cur[c] \in acked /\ cur'[c] = cur[c] /\ pc[c] \in AckPcs
      /\ attempts[cur[c]] = 1 => \A d \in Conns : cur[d] = cur[c] => pc[d] \notin PushPcs
  <2>1. cur[c] \in acked /\ pc[c] \in AckPcs /\ cur'[c] = cur[c]
    BY <1>1 DEF NotLostInv, Acking, AckPcs
  <2>2. cur[c] \in Msgs
    BY <2>1 DEF TypeOK
  <2>3. attempts[cur[c]] = 1 => \A d \in Conns : cur[d] = cur[c] => pc[d] \notin PrePcs
    BY <2>1, <2>2 DEF PublishedOnce, Hidden, Fresh
  <2> QED BY <2>1, <2>2, <2>3 DEF PrePcs, PushPcs
<1> DEFINE m == cur[c]
<1>3. attempts[m] = 1 => /\ CleanedBy(m, c)
                         /\ \A q \in Queues : Queued(m, q) => q \in message_queues[m]
  BY <1>2 DEF RemovalInv, Cleaned, Listed
<1>4. ASSUME UNCHANGED queues
      PROVE  /\ \A q \in Queues, n \in Msgs : Queued(n, q)' => Queued(n, q)
             /\ \A q \in Queues, n \in Msgs : Single(queues[q], n) => Single(queues'[q], n)
  BY <1>4 DEF Queued
<1>5. CASE AckScan(c)
  <2>1. /\ UNCHANGED <<queues, message_queues, message_status, removed>>
        /\ pc'[c] = "ack_iter" /\ todo'[c] = message_queues[m]
    BY LocalTypes, <1>5 DEF AckScan
  <2>2. attempts[m] = 1 => CleanedBy(m, c)'
    BY <1>2, <1>3, <1>4, <2>1 DEF CleanedBy
  <2> QED BY <1>1, <1>2, <1>4, <2>1, <2>2 DEF Cleans
<1>6. ASSUME NEW r \in Queues, AckVisit(c, r) PROVE Cleans(c)
  <2>1. /\ UNCHANGED <<queues, message_queues, message_status, removed>>
        /\ pc[c] = "ack_iter" /\ pc'[c] = "ack_clean"
        /\ todo'[c] = todo[c] \ {r} /\ at'[c] = r
    <3>1. at \in [Conns -> Queues \cup {NoQueue}]
      BY DEF TypeOK
    <3> QED BY LocalTypes, <1>6, <3>1 DEF AckVisit
  <2>2. attempts[m] = 1 => CleanedBy(m, c)'
    BY <1>2, <1>3, <1>4, <2>1 DEF CleanedBy
  <2> QED BY <1>1, <1>2, <1>4, <2>1, <2>2 DEF Cleans
<1>7. CASE AckClean(c)
  <2> DEFINE r == at[c]
             kept == Keep(queues[r], Msgs \ {m})
  <2>1. /\ pc[c] = "ack_clean" /\ pc'[c] = "ack_iter" /\ r \in Queues
        /\ queues \in [Queues -> Seq(Msgs)] /\ queues[r] \in Seq(Msgs)
        /\ UNCHANGED <<message_queues, message_status, removed, todo>>
        /\ queues' = [queues EXCEPT ![r] = kept]
    BY LocalTypes, <1>7 DEF AckClean, TypeOK
  <2>2. Range(kept) = Range(queues[r]) \cap (Msgs \ {m})
    BY <2>1, KeepProperties
  <2>3. \A n \in Msgs : Single(queues[r], n) => Single(kept, n)
    BY <2>1, KeepSingle
  <2> HIDE DEF r, kept
  <2>4. /\ \A q \in Queues : q # r => queues'[q] = queues[q]
        /\ queues'[r] = kept
    BY <2>1
  <2>5. /\ \A q \in Queues, n \in Msgs : Queued(n, q)' => Queued(n, q)
        /\ \A q \in Queues : m \in Range(queues'[q]) => q # r /\ Queued(m, q)
    BY <1>2, <2>2, <2>4 DEF Queued
  <2>6. \A q \in Queues, n \in Msgs : Single(queues[q], n) => Single(queues'[q], n)
    BY <2>3, <2>4
  <2>7. attempts[m] = 1 => CleanedBy(m, c)'
    <3>1. \A q \in Queues : attempts[m] = 1 /\ m \in Range(queues'[q]) => q \in todo[c]
      BY <1>3, <2>1, <2>5 DEF CleanedBy, r
    <3> QED BY <1>2, <2>1, <3>1 DEF CleanedBy, Queued
  <2> QED BY <1>1, <1>2, <2>1, <2>5, <2>6, <2>7 DEF Cleans
<1>8. CASE AckEnd(c)
  <2>1. /\ UNCHANGED <<queues, message_queues, message_status, removed>>
        /\ pc[c] = "ack_iter" /\ pc'[c] = "ack_drop_queues"
        /\ todo[c] \cap message_queues[m] = {}
    BY LocalTypes, <1>8 DEF AckEnd
  <2>2. attempts[m] = 1 => \A q \in Queues : ~ Queued(m, q)
    BY <1>3, <2>1 DEF CleanedBy
  <2>3. attempts[m] = 1 => CleanedBy(m, c)'
    BY <1>2, <1>4, <2>1, <2>2 DEF CleanedBy
  <2> QED BY <1>1, <1>2, <1>4, <2>1, <2>3 DEF Cleans
<1>9. CASE AckDropQueues(c)
  <2>1. /\ UNCHANGED <<queues, message_status, removed>>
        /\ pc[c] = "ack_drop_queues" /\ pc'[c] = "ack_drop_status"
        /\ message_queues'[m] = {}
        /\ \A n \in Msgs : n # m => message_queues'[n] = message_queues[n]
    BY LocalTypes, <1>2, <1>9 DEF AckDropQueues
  <2>2. attempts[m] = 1 => CleanedBy(m, c)'
    BY <1>2, <1>3, <1>4, <2>1 DEF CleanedBy
  <2> QED BY <1>1, <1>2, <1>4, <2>1, <2>2 DEF Cleans
<1>10. CASE AckDropStatus(c)
  <2>1. /\ UNCHANGED <<queues, message_queues>>
        /\ pc[c] = "ack_drop_status" /\ pc'[c] = "ack_reply"
        /\ removed' = removed \cup {m}
        /\ message_status'[m] = Absent
        /\ \A n \in Msgs : n # m => message_status'[n] = message_status[n]
    BY LocalTypes, <1>2, <1>10 DEF AckDropStatus
  <2>2. CleanedBy(m, c)'
    BY <1>2, <2>1 DEF CleanedBy
  <2> QED BY <1>1, <1>2, <1>4, <2>1, <2>2 DEF Cleans
<1> QED BY <1>5, <1>6, <1>7, <1>8, <1>9, <1>10

(* All the other steps leave the queues and the queue sets alone.          *)
LEMMA OtherwiseUnmoved ==
  ASSUME TypeOK, PublishedOnce, RemovalInv, NEW c \in Conns,
         \/ \E q \in Queues : DeclareQueue(c, q)
         \/ \E x \in Exchanges : DeclareExchange(c, x)
         \/ \E q \in Queues, x \in Exchanges, k \in Keys : BindQueue(c, q, x, k)
         \/ \E q \in Queues : RegisterConsumer(c, q)
         \/ \E m \in Msgs : AckCheck(c, m)
         \/ Disconnect(c)
         \/ PublishSaveFails(c)
         \/ PublishRoute(c) /\ pc'[c] # "enqueue"
         \/ \E q \in Queues : PublishNotify(c, q)
         \/ SnapshotQueue(c) \/ TakeDelivery(c)
         \/ WriteSucceeds(c) \/ WriteFails(c) \/ FlushFails(c)
         \/ MarkDelivered(c) \/ MarkDeliveredAgain(c)
         \/ AckMark(c) \/ AckReply(c)
  PROVE  Unmoved(c)
<1>1. Moves(c)
  BY PublishMoves, DeliverMoves, AckMoves
<1>2. \A m \in removed : message_status[m] = Absent => message_status'[m] = Absent
  BY <1>1 DEF Moves, Absent, RemovalInv, Swept
<1>3. at \in [Conns -> Queues \cup {NoQueue}]
  BY DEF TypeOK
<1> USE LocalTypes, <1>2, <1>3 DEF Unmoved, OthersKeep, PushPcs, Goto, Leave, Return, Close,
      history, locals
<1>4. CASE \E q \in Queues : DeclareQueue(c, q)
  BY <1>4 DEF DeclareQueue
<1>5. CASE \E x \in Exchanges : DeclareExchange(c, x)
  BY <1>5 DEF DeclareExchange
<1>6. CASE \E q \in Queues, x \in Exchanges, k \in Keys : BindQueue(c, q, x, k)
  BY <1>6 DEF BindQueue
<1>7. ASSUME NEW q \in Queues, RegisterConsumer(c, q) PROVE Unmoved(c)
  BY <1>7 DEF RegisterConsumer
<1>8. ASSUME NEW m \in Msgs, AckCheck(c, m) PROVE Unmoved(c)
  BY <1>8 DEF AckCheck
<1>9. CASE Disconnect(c)
  BY <1>9 DEF Disconnect
<1>10. CASE PublishSaveFails(c)
  BY <1>10 DEF PublishSaveFails
<1>11. CASE PublishRoute(c) /\ pc'[c] # "enqueue"
  BY <1>11 DEF PublishRoute
<1>12. ASSUME NEW q \in Queues, PublishNotify(c, q) PROVE Unmoved(c)
  <2>1. /\ UNCHANGED <<queues, message_queues, message_status, attempts, removed, acked>>
        /\ pc[c] = "notify"
    BY <1>12 DEF PublishNotify
  <2>2. CASE todo' = [todo EXCEPT ![c] = @ \ {q}] /\ UNCHANGED <<pc, cur, target, at>>
    BY <2>1, <2>2
  <2>3. CASE Leave(c, "select")
    BY <2>1, <2>3
  <2> QED BY <1>12, <2>2, <2>3 DEF PublishNotify
<1>13. CASE SnapshotQueue(c)
  BY <1>13 DEF SnapshotQueue
<1>14. CASE TakeDelivery(c)
  <2>1. /\ UNCHANGED <<queues, message_queues, message_status, attempts, removed, acked,
                       target, todo, at>>
        /\ pc[c] = "select"
    BY <1>14 DEF TakeDelivery
  <2>2. CASE UNCHANGED <<pc, cur>>
    BY <2>1, <2>2
  <2>3. CASE Goto(c, "write") /\ cur' = [cur EXCEPT ![c] = Head(chan[c])]
    BY <2>1, <2>3
  <2> QED BY <1>14, <2>2, <2>3 DEF TakeDelivery
<1>15. CASE WriteSucceeds(c)
  BY <1>15 DEF WriteSucceeds
<1>16. CASE WriteFails(c)
  BY <1>16 DEF WriteFails
<1>17. CASE FlushFails(c)
  BY <1>17 DEF FlushFails
<1>18. CASE MarkDelivered(c)
  BY <1>18 DEF MarkDelivered
<1>19. CASE MarkDeliveredAgain(c)
  BY <1>19 DEF MarkDeliveredAgain
<1>20. CASE AckMark(c)
  BY <1>20 DEF AckMark
<1>21. CASE AckReply(c)
  BY <1>21 DEF AckReply
<1> QED BY <1>4, <1>5, <1>6, <1>7, <1>8, <1>9, <1>10, <1>11, <1>12, <1>13, <1>14, <1>15,
      <1>16, <1>17, <1>18, <1>19, <1>20, <1>21

(* And so does the step that makes the message known: it is not removed,   *)
(* for nobody has acknowledged it.                                         *)
LEMMA KnownUnmoved ==
  ASSUME TypeOK, PublishedOnce, RemovalInv, NEW c \in Conns, PublishTrackStatus(c)
  PROVE  Unmoved(c)
<1>1. /\ pc[c] = "track_status" /\ pc'[c] = "notify" /\ cur[c] \in Msgs
      /\ UNCHANGED <<queues, message_queues, attempts, removed, acked>>
      /\ OthersKeep(c) /\ UNCHANGED at
      /\ \A m \in Msgs : m # cur[c] => message_status'[m] = message_status[m]
  BY LocalTypes DEF PublishTrackStatus, Goto, history, OthersKeep, TypeOK, PublishPcs
<1>2. attempts[cur[c]] = 1 => cur[c] \notin removed
  BY <1>1, SoleAttempt DEF PrePcs, RemovalInv, Swept
<1>3. \A m \in removed : attempts[m] = 1 => message_status'[m] = message_status[m]
  BY <1>1, <1>2 DEF RemovalInv, Swept
<1> QED BY <1>1, <1>3 DEF Unmoved, PushPcs

(* Every step keeps the invariant.                                         *)
LEMMA RemovalStep ==
  ASSUME TypeOK, LockInv, PublishedOnce, NotLostInv, RemovalInv, [Next]_vars
  PROVE  RemovalInv'
<1>1. ASSUME UNCHANGED <<queues, message_queues, message_status, locals, attempts, acked,
                         removed>>
      PROVE  RemovalInv'
  BY <1>1 DEF locals, RemovalInv, NotYet, Singly, Pushed, PushedBy, Looping, Listed, Cleaned,
    CleanedBy, Swept, Queued
<1>2. ASSUME NEW c \in Conns, Command(c) PROVE RemovalInv'
  BY <1>2, PublishRemoval, OtherwiseUnmoved, UnmovedStep DEF Command
<1>3. ASSUME NEW c \in Conns, Step(c) PROVE RemovalInv'
  <2>1. CASE \/ (\E q \in Queues : PublishEnqueue(c, q)) \/ PublishEvict(c)
    BY <2>1, PublishPushes, PushStep
  <2>2. CASE \/ PublishRoute(c) /\ pc'[c] = "enqueue"
             \/ \E q \in Queues : PublishPop(c, q)
             \/ PublishTrackQueues(c)
    BY <2>2, PublishRemoval
  <2>3. CASE \/ AckScan(c)
             \/ \E q \in Queues : AckVisit(c, q)
             \/ AckClean(c)
             \/ AckEnd(c)
             \/ AckDropQueues(c)
             \/ AckDropStatus(c)
    BY <2>3, AckCleans, CleanStep
  <2>4. CASE PublishTrackStatus(c)
    BY <2>4, KnownUnmoved, UnmovedStep
  <2> QED BY <1>3, <2>1, <2>2, <2>3, <2>4, OtherwiseUnmoved, UnmovedStep DEF Step
<1>4. ASSUME NEW c \in Conns, TakeDelivery(c) PROVE RemovalInv'
  BY <1>4, OtherwiseUnmoved, UnmovedStep
<1>5. ASSUME NEW c \in Conns, Spawned(c) PROVE RemovalInv'
  BY <1>1, <1>5 DEF Spawned, SendBacklog, DropBacklog, history
<1>6. CASE UNCHANGED vars
  BY <1>1, <1>6 DEF vars, history
<1> QED BY <1>2, <1>3, <1>4, <1>5, <1>6 DEF Next

(* A message published once and acknowledged is gone from every map and    *)
(* every queue, for any number of connections, queues and messages.        *)
THEOREM AckedIsRemoved == Spec => []AckRemovesEverywhere
<1>1. TypeOK /\ Init => RemovalInv
  <2> SUFFICES ASSUME TypeOK, Init PROVE RemovalInv
    OBVIOUS
  <2>1. /\ \A m \in Msgs : attempts[m] = 0
        /\ removed = {}
        /\ \A q \in Queues : queues[q] = <<>>
        /\ \A c \in Conns : pc[c] = "select"
    BY DEF Init
  <2>2. \A m \in Msgs : attempts[m] # 1
    BY <2>1, SMTT(30)
  <2>3. NotYet
    <3>1. Range(<<>>) = {}
      BY SMTT(30) DEF Range
    <3> QED BY <2>1, <3>1 DEF NotYet, Queued
  <2>4. Looping
    BY <2>1 DEF Looping
  <2> QED BY <2>1, <2>2, <2>3, <2>4 DEF RemovalInv, Singly, Pushed, Listed, Cleaned, Swept
<1>2. RemovalInv => AckRemovesEverywhere
  BY DEF RemovalInv, Swept, Queued, AckRemovesEverywhere
<1> QED BY <1>1, <1>2, RemovalStep, NothingLostAlways, PublishedOnceAlways, TypeCorrect, PTL
      DEF Spec

-----------------------------------------------------------------------------
(* No message in a queue escapes its consumers.                            *)

(* A publish that has chosen its queues and has not yet set the status.    *)
Announces(p) == pc[p] \in PrePcs \ {"save"}

Announcing(m, q) == \E p \in Conns : cur[p] = m /\ Announces(p) /\ q \in target[p]

(* A queued message can be delivered, or its publish has still to come to  *)
(* the status and the notification.                                        *)
Deliverable ==
  \A q \in Queues : \A m \in Range(queues[q]) :
    m \in Gone \/ can_deliver(m) \/ Announcing(m, q)

(* A live subscriber is in the consumer list.                              *)
Joined ==
  \A c \in Conns : \A q \in subscribed[c] : is_closed(c) \/ c \in consumers[q]

(* The first loop of publish visits its targets.                           *)
Targets ==
  \A c \in Conns :
    /\ pc[c] \in {"enqueue", "evict"} => todo[c] \subseteq target[c]
    /\ pc[c] = "evict" => at[c] \in target[c]

(* What a step may do to the queues and to what can be delivered: a        *)
(* message comes into a queue while its publish announces it, and can be   *)
(* delivered until it is gone.                                             *)
QueuesPass ==
  /\ \A q \in Queues : \A m \in Range(queues'[q]) :
       m \in Range(queues[q]) \/ Announcing(m, q)'
  /\ Gone \subseteq Gone'
  /\ \A m \in Msgs : can_deliver(m) => can_deliver(m)' \/ m \in Gone'
  /\ \A q \in Queues, m \in Msgs :
       Announcing(m, q) => Announcing(m, q)' \/ can_deliver(m)'

(* To the consumers: one subscribes and takes a snapshot, and leaves the   *)
(* list when it is closed.                                                 *)
ConsumersPass ==
  /\ \A c \in Conns : is_closed(c) => is_closed(c)'
  /\ \A c \in Conns : \A q \in subscribed'[c] :
       \/ q \in subscribed[c]
       \/ pc'[c] = "snapshot" /\ at'[c] = q /\ c \in consumers'[q]
  /\ \A q \in Queues : \A c \in consumers[q] : is_closed(c) \/ c \in consumers'[q]

(* To a message on its way from a publish or from a snapshot to a consumer:*)
(* it goes on, unless it can no longer be delivered.  (A snapshot replaces *)
(* what the task of an earlier one had to send.)                           *)
NotifiesPass ==
  \A q \in Queues, m \in Msgs : PublishPending(m, q) =>
    \/ PublishPending(m, q)'
    \/ \A c \in consumers[q] : is_closed(c) \/ m \in Range(chan'[c])

SnapshotsPass ==
  \A c \in Conns, q \in Queues : pc[c] = "snapshot" /\ at[c] = q =>
    \/ pc'[c] = "snapshot" /\ at'[c] = q
    \/ \A m \in Range(queues[q]) : can_deliver(m) => OnItsWay(m, c, q)'

DeliveriesPass ==
  \A c \in Conns, q \in Queues, m \in Msgs :
    OnItsWay(m, c, q) /\ ~ (pc[c] = "snapshot" /\ at[c] = q) =>
      OnItsWay(m, c, q)' \/ is_closed(c)' \/ ~ can_deliver(m)

Passes == QueuesPass /\ ConsumersPass /\ NotifiesPass /\ SnapshotsPass /\ DeliveriesPass

(* A step that does no more keeps every message within reach.              *)
LEMMA PassStep ==
  ASSUME TypeOK, TypeOK', Deliverable, Joined, NoMissedMessage, Passes
  PROVE  Deliverable' /\ Joined' /\ NoMissedMessage'
<1> USE DEF Passes
<1>1. /\ \A q \in Queues : Range(queues[q]) \subseteq Msgs /\ Range(queues'[q]) \subseteq Msgs
      /\ \A c \in Conns : subscribed[c] \subseteq Queues /\ subscribed'[c] \subseteq Queues
  BY QueueFacts DEF TypeOK
<1>2. Joined'
  BY <1>1 DEF Joined, ConsumersPass, is_closed
<1>3. Deliverable'
  BY <1>1 DEF Deliverable, QueuesPass
<1>4. \A m, q : Announcing(m, q) => PublishPending(m, q)
  BY DEF Announcing, Announces, PublishPending, PrePcs, PublishPcs
<1>5. \A m, q : Announcing(m, q)' => PublishPending(m, q)'
  BY DEF Announcing, Announces, PublishPending, PrePcs, PublishPcs
<1>6. ASSUME NEW c \in Conns, NEW q \in subscribed'[c], NEW m \in Range(queues'[q])
      PROVE  \/ is_closed(c)'
             \/ pc'[c] = "snapshot" /\ at'[c] = q
             \/ m \in Gone'
             \/ PublishPending(m, q)'
             \/ OnItsWay(m, c, q)'
  <2>1. q \in Queues /\ m \in Msgs
    BY <1>1
  <2>2. CASE m \notin Range(queues[q])
    BY <1>5, <2>1, <2>2 DEF QueuesPass
  <2>3. CASE q \notin subscribed[c]
    BY <2>3 DEF ConsumersPass
  <2>4. CASE m \in Range(queues[q]) /\ q \in subscribed[c]
    <3>1. PublishPending(m, q) =>
            PublishPending(m, q)' \/ OnItsWay(m, c, q)' \/ is_closed(c)'
      <4>1. is_closed(c) \/ c \in consumers[q]
        BY <2>4 DEF Joined
      <4> QED BY <2>1, <4>1 DEF NotifiesPass, ConsumersPass, OnItsWay
    <3>2. is_closed(c) => is_closed(c)'
      BY DEF ConsumersPass
    <3>3. m \in Gone => m \in Gone'
      BY DEF QueuesPass
    <3>4. m \in Gone \/ can_deliver(m) \/ PublishPending(m, q)
      BY <1>4, <2>1, <2>4 DEF Deliverable
    <3>5. pc[c] = "snapshot" /\ at[c] = q =>
            \/ pc'[c] = "snapshot" /\ at'[c] = q
            \/ can_deliver(m) => OnItsWay(m, c, q)'
      BY <2>1, <2>4 DEF SnapshotsPass
    <3>6. OnItsWay(m, c, q) /\ ~ (pc[c] = "snapshot" /\ at[c] = q) =>
            OnItsWay(m, c, q)' \/ is_closed(c)' \/ ~ can_deliver(m)
      BY <2>1 DEF DeliveriesPass
    <3>7. \/ is_closed(c)
          \/ pc[c] = "snapshot" /\ at[c] = q
          \/ m \in Gone
          \/ PublishPending(m, q)
          \/ OnItsWay(m, c, q)
      BY <2>4 DEF NoMissedMessage, Gone
    <3> QED BY <3>1, <3>2, <3>3, <3>4, <3>5, <3>6, <3>7
  <2> QED BY <2>2, <2>3, <2>4
<1>7. NoMissedMessage'
  BY <1>6 DEF NoMissedMessage, Gone
<1> QED BY <1>2, <1>3, <1>7

(* A step of c outside of the loops of publish and of the snapshot: what   *)
(* the other handlers see, and the delivery in hand.                       *)
Aside(c) ==
  /\ OthersKeep(c)
  /\ \A d \in Conns \ {c} : at'[d] = at[d] /\ chan'[d] = chan[d]
  /\ pc[c] \notin {"enqueue", "evict", "track_queues", "track_status", "notify",
                   "snapshot", "closed"}
  /\ UNCHANGED backlog
  /\ \A d \in Conns : offered[d] \subseteq offered'[d]
  /\ pc'[c] = "closed" \/ chan'[c] = chan[c]
  /\ pc[c] = "write" => \/ pc'[c] = "closed"
                        \/ pc'[c] = "write" /\ cur'[c] = cur[c]
                        \/ cur[c] \in offered'[c]

(* Such a step delays nothing that is on its way.                          *)
LEMMA AsidePasses ==
  ASSUME NEW c \in Conns, Aside(c)
  PROVE  /\ \A m, q : Announcing(m, q) => Announcing(m, q)'
         /\ \A d \in Conns : is_closed(d) => is_closed(d)'
         /\ NotifiesPass /\ SnapshotsPass /\ DeliveriesPass
<1>1. \A d \in Conns : d # c => /\ pc'[d] = pc[d] /\ cur'[d] = cur[d] /\ at'[d] = at[d]
                               /\ target'[d] = target[d] /\ todo'[d] = todo[d]
                               /\ chan'[d] = chan[d]
  BY DEF Aside, OthersKeep
<1>2. \A m, q : Announcing(m, q) => Announcing(m, q)'
  BY <1>1 DEF Aside, Announcing, Announces, PrePcs
<1>3. \A d \in Conns : is_closed(d) => is_closed(d)'
  BY <1>1 DEF Aside, is_closed
<1>4. NotifiesPass
  BY <1>1 DEF Aside, NotifiesPass, PublishPending, PublishPcs
<1>5. SnapshotsPass
  BY <1>1 DEF Aside, SnapshotsPass
<1>6. DeliveriesPass
  <2> SUFFICES ASSUME NEW d \in Conns, NEW q \in Queues, NEW m \in Msgs, OnItsWay(m, d, q)
               PROVE  OnItsWay(m, d, q)' \/ is_closed(d)'
    BY DEF DeliveriesPass
  <2>1. backlog' = backlog /\ offered[d] \subseteq offered'[d]
    BY DEF Aside
  <2>2. CASE d # c
    BY <1>1, <2>1, <2>2 DEF OnItsWay
  <2>3. CASE d = c
    BY <2>1, <2>3 DEF Aside, OnItsWay, is_closed
  <2> QED BY <2>2, <2>3
<1> QED BY <1>2, <1>3, <1>4, <1>5, <1>6

(* The same, and the queues only shrink.                                   *)
Settles(c) ==
  /\ Aside(c)
  /\ pc'[c] \notin {"enqueue", "evict"}
  /\ \A q \in Queues : Range(queues'[q]) \subseteq Range(queues[q])
  /\ Gone \subseteq Gone'
  /\ \A m \in Msgs : can_deliver(m) => can_deliver(m)' \/ m \in Gone'
  /\ UNCHANGED <<subscribed, consumers>>

(* Such a step passes.                                                     *)
LEMMA SettleStep ==
  ASSUME NEW c \in Conns, Targets, Settles(c)
  PROVE  Passes /\ Targets'
<1> USE DEF Settles
<1>1. QueuesPass
  BY AsidePasses DEF QueuesPass
<1>2. ConsumersPass
  BY AsidePasses DEF ConsumersPass
<1>3. Targets'
  BY DEF Targets, Aside, OthersKeep
<1> QED BY AsidePasses, <1>1, <1>2, <1>3 DEF Passes

(* A step of c within the first loop of publish, up to the queue set.      *)
Within(c) ==
  /\ OthersKeep(c)
  /\ \A d \in Conns \ {c} : at'[d] = at[d]
  /\ Announces(c) /\ Announces(c)'
  /\ cur'[c] = cur[c] /\ target'[c] = target[c]
  /\ UNCHANGED <<chan, backlog, offered, subscribed, consumers>>
  /\ \A q \in Queues : \A m \in Range(queues'[q]) :
       m \in Range(queues[q]) \/ (m = cur[c] /\ q \in target[c])
  /\ Gone \subseteq Gone'
  /\ \A m \in Msgs : can_deliver(m) => can_deliver(m)' \/ m \in Gone'

(* So does such a step: what it pushes is what its publish announces.      *)
LEMMA WithinPasses ==
  ASSUME NEW c \in Conns, Within(c)
  PROVE  Passes
<1>1. \A d \in Conns : d # c => /\ pc'[d] = pc[d] /\ cur'[d] = cur[d] /\ at'[d] = at[d]
                               /\ target'[d] = target[d] /\ todo'[d] = todo[d]
  BY DEF Within, OthersKeep
<1>2. /\ pc[c] \in PrePcs \ {"save"} /\ pc'[c] \in PrePcs \ {"save"}
      /\ cur'[c] = cur[c] /\ target'[c] = target[c]
  BY DEF Within, Announces
<1>3. \A m, q : Announcing(m, q) => Announcing(m, q)'
  BY <1>1, <1>2 DEF Announcing, Announces
<1>4. \A q \in target[c] : Announcing(cur[c], q)'
  BY <1>2 DEF Announcing, Announces
<1>5. QueuesPass
  BY <1>3, <1>4 DEF Within, QueuesPass
<1>6. \A d \in Conns : is_closed(d) => is_closed(d)'
  BY <1>1, <1>2 DEF is_closed, PrePcs
<1>7. ConsumersPass
  BY <1>6 DEF Within, ConsumersPass
<1>8. NotifiesPass
  BY <1>1, <1>2 DEF NotifiesPass, PublishPending, PublishPcs, PrePcs
<1>9. SnapshotsPass
  BY <1>1, <1>2 DEF SnapshotsPass, PrePcs
<1>10. DeliveriesPass
  BY <1>1, <1>2 DEF Within, DeliveriesPass, OnItsWay, PrePcs
<1> QED BY <1>5, <1>7, <1>8, <1>9, <1>10 DEF Passes

(* The types these steps rely on.                                          *)
LEMMA DeliveryTypes ==
  ASSUME TypeOK
  PROVE  /\ pc \in [Conns -> Pcs]
         /\ cur \in [Conns -> Msgs \cup {NoMsg}]
         /\ target \in [Conns -> SUBSET Queues]
         /\ todo \in [Conns -> SUBSET Queues]
         /\ at \in [Conns -> Queues \cup {NoQueue}]
         /\ chan \in [Conns -> Seq(Msgs)]
         /\ offered \in [Conns -> SUBSET Msgs]
BY DEF TypeOK

(* What commands do, apart from consume.                                   *)
LEMMA CommandSettles ==
  ASSUME TypeOK, NEW c \in Conns,
         \/ \E q \in Queues : DeclareQueue(c, q)
         \/ \E x \in Exchanges : DeclareExchange(c, x)
         \/ \E q \in Queues, x \in Exchanges, k \in Keys : BindQueue(c, q, x, k)
         \/ \E m \in Msgs : PublishCheck(c, m)
         \/ \E m \in Msgs : AckCheck(c, m)
         \/ Disconnect(c)
  PROVE  Settles(c)
<1> USE DeliveryTypes DEF Settles, Aside, OthersKeep, Gone, can_deliver, Goto, Leave,
      Return, Close, history, locals
<1>1. CASE \E q \in Queues : DeclareQueue(c, q)
  BY <1>1 DEF DeclareQueue
<1>2. CASE \E x \in Exchanges : DeclareExchange(c, x)
  BY <1>2 DEF DeclareExchange
<1>3. CASE \E q \in Queues, x \in Exchanges, k \in Keys : BindQueue(c, q, x, k)
  BY <1>3 DEF BindQueue
<1>4. ASSUME NEW m \in Msgs, PublishCheck(c, m) PROVE Settles(c)
  BY <1>4 DEF PublishCheck
<1>5. ASSUME NEW m \in Msgs, AckCheck(c, m) PROVE Settles(c)
  BY <1>5 DEF AckCheck
<1>6. CASE Disconnect(c)
  BY <1>6 DEF Disconnect
<1> QED BY <1>1, <1>2, <1>3, <1>4, <1>5, <1>6

(* What a delivery does once it has a message, and a publish that ends     *)
(* before its loops.                                                       *)
LEMMA WriteSettles ==
  ASSUME TypeOK, NEW c \in Conns,
         \/ PublishSaveFails(c)
         \/ PublishRoute(c) /\ Return(c)
         \/ WriteSucceeds(c)
         \/ WriteFails(c)
         \/ FlushFails(c)
         \/ MarkDelivered(c)
         \/ MarkDeliveredAgain(c)
  PROVE  Settles(c)
<1> USE DeliveryTypes DEF Settles, Aside, OthersKeep, Gone, can_deliver, Goto, Leave,
      Return, Close, history, locals
<1>1. CASE PublishSaveFails(c)
  BY <1>1 DEF PublishSaveFails
<1>2. CASE PublishRoute(c) /\ Return(c)
  BY <1>2 DEF PublishRoute
<1>3. CASE WriteSucceeds(c)
  BY <1>3 DEF WriteSucceeds
<1>4. CASE WriteFails(c)
  BY <1>4 DEF WriteFails
<1>5. CASE FlushFails(c)
  BY <1>5 DEF FlushFails
<1>6. CASE MarkDelivered(c)
  BY LocalTypes, <1>6 DEF MarkDelivered, SetDelivered
<1>7. CASE MarkDeliveredAgain(c)
  BY LocalTypes, <1>7 DEF MarkDeliveredAgain, SetDelivered
<1> QED BY <1>1, <1>2, <1>3, <1>4, <1>5, <1>6, <1>7

(* What acknowledge does: it takes away only what is acknowledged.         *)
LEMMA AckSettles ==
  ASSUME TypeOK, Acking, NEW c \in Conns,
         \/ AckMark(c)
         \/ AckScan(c)
         \/ \E q \in Queues : AckVisit(c, q)
         \/ AckClean(c)
         \/ AckEnd(c)
         \/ AckDropQueues(c)
         \/ AckDropStatus(c)
         \/ AckReply(c)
  PROVE  Settles(c)
<1> USE DeliveryTypes DEF Settles, Aside, OthersKeep, Gone, can_deliver, Goto, Leave,
      Return, Close, history, locals
<1>1. CASE AckMark(c)
  BY LocalTypes, <1>1 DEF AckMark
<1>2. CASE AckScan(c)
  BY <1>2 DEF AckScan
<1>3. CASE \E q \in Queues : AckVisit(c, q)
  BY <1>3 DEF AckVisit
<1>4. CASE AckClean(c)
  <2>1. at[c] \in Queues /\ queues \in [Queues -> Seq(Msgs)]
    BY <1>4 DEF AckClean, TypeOK
  <2>2. Range(Keep(queues[at[c]], Msgs \ {cur[c]})) =
          Range(queues[at[c]]) \cap (Msgs \ {cur[c]})
    BY <2>1, KeepProperties
  <2>3. \A q \in Queues : Range(queues'[q]) \subseteq Range(queues[q])
    BY <1>4, <2>1, <2>2 DEF AckClean
  <2> QED BY <1>4, <2>3 DEF AckClean
<1>5. CASE AckEnd(c)
  BY <1>5 DEF AckEnd
<1>6. CASE AckDropQueues(c)
  BY <1>6 DEF AckDropQueues
<1>7. CASE AckDropStatus(c)
  <2>1. cur[c] \in acked
    BY <1>7 DEF AckDropStatus, Acking
  <2>2. \A m \in Msgs : m = cur[c] \/ message_status'[m] = message_status[m]
    BY LocalTypes, <1>7 DEF AckDropStatus
  <2> QED BY <1>7, <2>1, <2>2 DEF AckDropStatus
<1>8. CASE AckReply(c)
  BY <1>8 DEF AckReply
<1> QED BY <1>1, <1>2, <1>3, <1>4, <1>5, <1>6, <1>7, <1>8

(* The first loop of publish.                                              *)
LEMMA PlacePasses ==
  ASSUME TypeOK, LockInv, Targets, NEW c \in Conns,
         \/ \E q \in Queues : PublishEnqueue(c, q)
         \/ \E q \in Queues : PublishPop(c, q)
         \/ PublishEvict(c)
         \/ PublishTrackQueues(c)
  PROVE  Passes /\ Targets'
<1> USE DEF Announces, PrePcs, OthersKeep, Goto, history
<1>1. ASSUME NEW q \in Queues, PublishEnqueue(c, q) PROVE Within(c) /\ Targets'
  <2>1. cur[c] \in Msgs /\ queues \in [Queues -> Seq(Msgs)]
    BY <1>1 DEF PublishEnqueue, TypeOK, PublishPcs
  <2>2. queues' = [queues EXCEPT ![q] = Append(queues[q], cur[c])]
    BY <1>1 DEF PublishEnqueue, PushBack
  <2>3. Range(Append(queues[q], cur[c])) = Range(queues[q]) \cup {cur[c]}
    BY <2>1, AppendRange, SMTT(30)
  <2>4. /\ OthersKeep(c) /\ \A d \in Conns \ {c} : at'[d] = at[d]
        /\ pc[c] = "enqueue" /\ pc'[c] \in {"enqueue", "track_queues"}
        /\ cur'[c] = cur[c] /\ target'[c] = target[c] /\ todo'[c] = todo[c] \ {q}
        /\ UNCHANGED <<chan, backlog, offered, subscribed, consumers, message_status,
                       evicted, acked>>
    BY DeliveryTypes, <1>1 DEF PublishEnqueue, PushBack
  <2>5. q \in target[c]
    BY <1>1 DEF PublishEnqueue, Targets
  <2>6. Targets'
    BY <2>4 DEF Targets
  <2>7. \A r \in Queues : \A m \in Range(queues'[r]) :
          m \in Range(queues[r]) \/ (m = cur[c] /\ r \in target[c])
    BY <2>1, <2>2, <2>3, <2>5
  <2> QED BY <2>4, <2>6, <2>7 DEF Within, Gone, can_deliver
<1>2. ASSUME NEW q \in Queues, PublishPop(c, q) PROVE Within(c) /\ Targets'
  <2>1. /\ OthersKeep(c) /\ \A d \in Conns \ {c} : at'[d] = at[d]
        /\ pc[c] = "enqueue" /\ pc'[c] = "evict" /\ at'[c] = q /\ q \in todo[c]
        /\ UNCHANGED <<cur, target, todo, queues, chan, backlog, offered, subscribed,
                       consumers, message_status, evicted, acked>>
    BY DeliveryTypes, <1>2 DEF PublishPop
  <2>2. Targets'
    BY <2>1 DEF Targets
  <2> QED BY <2>1, <2>2 DEF Within, Gone, can_deliver
<1>3. CASE PublishEvict(c)
  <2> DEFINE q == at[c]
             old == Head(queues[q])
             rest == Tail(queues[q])
  <2>1. /\ pc[c] = "evict" /\ cur[c] \in Msgs /\ q \in Queues
        /\ queues \in [Queues -> Seq(Msgs)] /\ queues[q] # <<>>
    BY <1>3 DEF PublishEvict, LockInv, TypeOK, PublishPcs
  <2>2. old \in Msgs /\ rest \in Seq(Msgs) /\ Range(queues[q]) = Range(rest) \cup {old}
    BY <2>1, TailRange
  <2>3. /\ queues' = [queues EXCEPT ![q] = Append(rest, cur[c])]
        /\ message_status' = [message_status EXCEPT ![old] = Absent]
        /\ evicted' = evicted \cup {old}
        /\ UNCHANGED <<acked, chan, backlog, offered, subscribed, consumers>>
    BY <1>3 DEF PublishEvict, PushBack
  <2>4. /\ OthersKeep(c) /\ \A d \in Conns \ {c} : at'[d] = at[d]
        /\ cur'[c] = cur[c] /\ target'[c] = target[c] /\ todo'[c] = todo[c] \ {q}
        /\ pc'[c] \in {"enqueue", "track_queues"}
    BY DeliveryTypes, <1>3 DEF PublishEvict, PushBack
  <2>5. q \in target[c]
    BY <2>1 DEF Targets
  <2> HIDE DEF q, old, rest
  <2>6. Range(Append(rest, cur[c])) = Range(rest) \cup {cur[c]}
    BY <2>1, <2>2, AppendRange, SMTT(30)
  <2>7. \A r \in Queues : \A m \in Range(queues'[r]) :
          m \in Range(queues[r]) \/ (m = cur[c] /\ r \in target[c])
    BY <2>1, <2>2, <2>3, <2>5, <2>6
  <2>8. \A m \in Msgs : m = old \/ message_status'[m] = message_status[m]
    BY LocalTypes, <2>3
  <2>9. /\ Gone \subseteq Gone'
        /\ \A m \in Msgs : can_deliver(m) => can_deliver(m)' \/ m \in Gone'
    BY <2>3, <2>8 DEF Gone, can_deliver
  <2>10. Targets'
    BY <2>1, <2>4 DEF Targets
  <2>11. Within(c)
    BY <2>1, <2>3, <2>4, <2>7, <2>9 DEF Within
  <2> QED BY <2>10, <2>11, WithinPasses
<1>4. CASE PublishTrackQueues(c)
  <2>1. /\ OthersKeep(c) /\ pc[c] = "track_queues" /\ pc'[c] = "track_status"
        /\ UNCHANGED <<cur, target, todo, at, queues, chan, backlog, offered, subscribed,
                       consumers, message_status, evicted, acked>>
    BY DeliveryTypes, <1>4 DEF PublishTrackQueues
  <2>2. Within(c)
    BY <2>1 DEF Within, Gone, can_deliver
  <2>3. Targets'
    BY <2>1 DEF Targets
  <2> QED BY <2>2, <2>3, WithinPasses
<1> QED BY <1>1, <1>2, <1>3, <1>4, WithinPasses

(* Into the loop, the status, and the second loop.                         *)
LEMMA AnnouncePasses ==
  ASSUME TypeOK, Targets, NEW c \in Conns,
         \/ PublishRoute(c)
         \/ PublishTrackStatus(c)
         \/ \E q \in Queues : PublishNotify(c, q)
  PROVE  Passes /\ Targets'
<1>1. ASSUME PublishRoute(c), ~ Return(c) PROVE Passes /\ Targets'
  <2>1. /\ OthersKeep(c) /\ pc[c] = "save" /\ pc'[c] = "enqueue" /\ todo'[c] = target'[c]
        /\ UNCHANGED <<cur, at, queues, chan, backlog, offered, subscribed, consumers,
                       message_status, evicted, acked>>
    BY DeliveryTypes, <1>1 DEF PublishRoute, OthersKeep, Goto, history
  <2>2. Aside(c)
    BY <2>1 DEF Aside
  <2>3. QueuesPass
    BY <2>1, <2>2, AsidePasses DEF QueuesPass, Gone, can_deliver
  <2>4. ConsumersPass
    BY <2>1, <2>2, AsidePasses DEF ConsumersPass
  <2>5. Targets'
    BY <2>1 DEF Targets, OthersKeep
  <2> QED BY <2>2, <2>3, <2>4, <2>5, AsidePasses DEF Passes
<1>2. CASE PublishTrackStatus(c)
  <2>1. /\ pc[c] = "track_status" /\ pc'[c] = "notify" /\ todo'[c] = target[c]
        /\ \A d \in Conns : d # c => pc'[d] = pc[d] /\ todo'[d] = todo[d]
        /\ UNCHANGED <<cur, target, at, queues, chan, backlog, offered, subscribed,
                       consumers, evicted, acked>>
    BY DeliveryTypes, <1>2 DEF PublishTrackStatus, Goto, history
  <2>2. \A m \in Msgs : \/ message_status'[m] = message_status[m]
                        \/ message_status'[m] = "sent"
    BY LocalTypes, <1>2 DEF PublishTrackStatus
  <2>3. cur[c] \in Msgs => message_status'[cur[c]] = "sent"
    BY LocalTypes, <1>2 DEF PublishTrackStatus
  <2>4. \A m \in Msgs, q \in Queues : Announcing(m, q) => Announcing(m, q)' \/ can_deliver(m)'
    BY <2>1, <2>3 DEF Announcing, Announces, can_deliver
  <2>5. QueuesPass
    BY <2>1, <2>2, <2>4 DEF QueuesPass, Gone, can_deliver
  <2>6. ConsumersPass
    BY <2>1 DEF ConsumersPass, is_closed
  <2>7. NotifiesPass
    BY <2>1 DEF NotifiesPass, PublishPending, PublishPcs
  <2>8. SnapshotsPass /\ DeliveriesPass
    BY <2>1 DEF SnapshotsPass, DeliveriesPass, OnItsWay
  <2>9. Targets'
    BY <2>1 DEF Targets
  <2> QED BY <2>5, <2>6, <2>7, <2>8, <2>9 DEF Passes
<1>3. ASSUME NEW q \in Queues, PublishNotify(c, q) PROVE Passes /\ Targets'
  <2>1. /\ pc[c] = "notify" /\ q \in todo[c] /\ cur[c] \in Msgs
        /\ \A d \in Conns : d # c => /\ pc'[d] = pc[d] /\ cur'[d] = cur[d] /\ at'[d] = at[d]
                                     /\ target'[d] = target[d] /\ todo'[d] = todo[d]
        /\ UNCHANGED <<queues, message_status, backlog, offered, subscribed, evicted, acked>>
    <3>1. /\ pc[c] = "notify" /\ q \in todo[c]
          /\ UNCHANGED <<queues, message_status, backlog, offered, subscribed, evicted, acked>>
      BY <1>3 DEF PublishNotify
    <3>2. cur[c] \in Msgs
      BY <3>1 DEF TypeOK, PublishPcs
    <3>3. CASE UNCHANGED <<pc, cur, target, at>> /\ todo' = [todo EXCEPT ![c] = @ \ {q}]
      BY DeliveryTypes, <3>1, <3>2, <3>3
    <3>4. CASE Leave(c, "select")
      BY DeliveryTypes, <3>1, <3>2, <3>4 DEF Leave, Goto
    <3> QED BY <1>3, <3>3, <3>4 DEF PublishNotify
  <2>2. \/ pc'[c] = "notify" /\ cur'[c] = cur[c] /\ todo'[c] = todo[c] \ {q}
        \/ pc'[c] = "select" /\ todo[c] = {q}
    <3>1. CASE UNCHANGED <<pc, cur>> /\ todo' = [todo EXCEPT ![c] = @ \ {q}]
      BY DeliveryTypes, <2>1, <3>1
    <3>2. CASE Leave(c, "select") /\ todo[c] = {q}
      BY DeliveryTypes, <3>2 DEF Leave, Goto
    <3> QED BY <1>3, <3>1, <3>2 DEF PublishNotify
  <2>3. \A r \in Queues : \A d \in consumers[r] : is_closed(d) \/ d \in consumers'[r]
    <3>1. consumers \in [Queues -> SUBSET Conns]
      BY DEF TypeOK
    <3>2. consumers' = [consumers EXCEPT ![q] = {r \in consumers[q] : ~ is_closed(r)}]
      BY <1>3 DEF PublishNotify
    <3> QED BY <3>1, <3>2
  <2>4. \A d \in Conns : /\ Range(chan[d]) \subseteq Range(chan'[d])
                         /\ d \in consumers[q] => is_closed(d) \/ cur[c] \in Range(chan'[d])
    <3> SUFFICES ASSUME NEW d \in Conns
                 PROVE  /\ Range(chan[d]) \subseteq Range(chan'[d])
                        /\ d \in consumers[q] => is_closed(d) \/ cur[c] \in Range(chan'[d])
      OBVIOUS
    <3>1. chan'[d] = IF d \in {r \in consumers[q] : ~ is_closed(r)}
                     THEN Append(chan[d], cur[c]) ELSE chan[d]
      BY <1>3 DEF PublishNotify
    <3>2. chan[d] \in Seq(Msgs)
      BY DeliveryTypes
    <3>3. Range(Append(chan[d], cur[c])) = Range(chan[d]) \cup {cur[c]}
      BY <2>1, <3>2, AppendRange, SMTT(30)
    <3> QED BY <3>1, <3>3
  <2>5. \A r : consumers[r] \subseteq Conns \/ r \notin Queues
    BY DEF TypeOK
  <2>6. QueuesPass
    BY <2>1 DEF QueuesPass, Gone, can_deliver, Announcing, Announces, PrePcs
  <2>7. ConsumersPass
    BY <2>1, <2>3 DEF ConsumersPass, is_closed
  <2>8. NotifiesPass
    <3> SUFFICES ASSUME NEW r \in Queues, NEW m \in Msgs, PublishPending(m, r)
                 PROVE  \/ PublishPending(m, r)'
                        \/ \A d \in consumers[r] : is_closed(d) \/ m \in Range(chan'[d])
      BY DEF NotifiesPass
    <3>1. CASE cur[c] = m /\ r = q
      BY <2>4, <2>5, <3>1
    <3>2. CASE ~ (cur[c] = m /\ r = q)
      BY <2>1, <2>2, <3>2 DEF PublishPending
    <3> QED BY <3>1, <3>2
  <2>9. SnapshotsPass
    BY <2>1 DEF SnapshotsPass
  <2>10. DeliveriesPass
    BY <2>1, <2>4 DEF DeliveriesPass, OnItsWay
  <2>11. Targets'
    BY <2>1, <2>2 DEF Targets
  <2> QED BY <2>6, <2>7, <2>8, <2>9, <2>10, <2>11 DEF Passes
<1>4. ASSUME PublishRoute(c), Return(c) PROVE Passes /\ Targets'
  BY <1>4, WriteSettles, SettleStep
<1> QED BY <1>1, <1>2, <1>3, <1>4

(* consume: the consumer joins the list, then takes its snapshot.          *)
LEMMA ConsumePasses ==
  ASSUME TypeOK, Targets, NEW c \in Conns,
         (\E q \in Queues : RegisterConsumer(c, q)) \/ SnapshotQueue(c)
  PROVE  Passes /\ Targets'
<1>1. ASSUME NEW q \in Queues, RegisterConsumer(c, q) PROVE Passes /\ Targets'
  <2>1. /\ OthersKeep(c) /\ \A d \in Conns \ {c} : at'[d] = at[d]
        /\ pc[c] = "select" /\ pc'[c] = "snapshot" /\ at'[c] = q
        /\ UNCHANGED <<cur, queues, chan, backlog, offered, message_status, evicted, acked>>
    BY DeliveryTypes, <1>1 DEF RegisterConsumer, OthersKeep, Goto
  <2>2. Aside(c)
    BY <2>1 DEF Aside
  <2>3. QueuesPass
    BY <2>1, <2>2, AsidePasses DEF QueuesPass, Gone, can_deliver
  <2>4. /\ consumers \in [Queues -> SUBSET Conns]
        /\ subscribed \in [Conns -> SUBSET Queues]
    BY DEF TypeOK
  <2>5. /\ c \in consumers'[q]
        /\ \A r \in Queues : consumers[r] \subseteq consumers'[r]
        /\ \A d \in Conns : \A r \in subscribed'[d] : r \in subscribed[d] \/ (d = c /\ r = q)
    BY <1>1, <2>4 DEF RegisterConsumer
  <2>6. ConsumersPass
    BY <2>1, <2>2, <2>5, AsidePasses DEF ConsumersPass
  <2>7. Targets'
    BY <2>1 DEF Targets, OthersKeep
  <2> QED BY <2>2, <2>3, <2>6, <2>7, AsidePasses DEF Passes
<1>2. CASE SnapshotQueue(c)
  <2>1. /\ pc[c] = "snapshot" /\ pc'[c] = "select" /\ at[c] \in Queues
        /\ \A d \in Conns : d # c => /\ pc'[d] = pc[d] /\ cur'[d] = cur[d] /\ at'[d] = at[d]
                                     /\ target'[d] = target[d] /\ todo'[d] = todo[d]
        /\ UNCHANGED <<queues, chan, offered, subscribed, consumers, message_status,
                       evicted, acked>>
    BY DeliveryTypes, <1>2 DEF SnapshotQueue, Return, Leave, Goto, history, TypeOK
  <2>2. /\ backlog \in [Conns -> [Queues -> Seq(Msgs)]]
        /\ queues \in [Queues -> Seq(Msgs)]
    BY DEF TypeOK
  <2> DEFINE able == {m \in Msgs : can_deliver(m)}
  <2>3. PICK q \in Queues : q = at[c]
    BY <2>1
  <2>4. /\ Range(Keep(queues[q], able)) = Range(queues[q]) \cap able
        /\ Range(queues[q]) \subseteq Msgs
    <3>1. queues[q] \in Seq(Msgs)
      BY <2>2
    <3> HIDE DEF able
    <3> QED BY <3>1, KeepProperties, QueueFacts
  <2>5. /\ backlog'[c][q] = Keep(queues[q], able)
        /\ \A d \in Conns, r \in Queues : d # c \/ r # q => backlog'[d][r] = backlog[d][r]
    <3>1. backlog' = [backlog EXCEPT ![c][q] = Keep(queues[q], able)]
      BY <1>2, <2>3 DEF SnapshotQueue
    <3> HIDE DEF able
    <3> QED BY <2>2, <3>1
  <2>6. QueuesPass
    BY <2>1 DEF QueuesPass, Gone, can_deliver, Announcing, Announces, PrePcs
  <2>7. ConsumersPass
    BY <2>1 DEF ConsumersPass, is_closed
  <2>8. NotifiesPass
    BY <2>1 DEF NotifiesPass, PublishPending, PublishPcs
  <2>9. SnapshotsPass
    <3>1. \A m \in Range(queues[q]) : can_deliver(m) => OnItsWay(m, c, q)'
      BY <2>4, <2>5 DEF OnItsWay
    <3> QED BY <2>1, <2>3, <3>1 DEF SnapshotsPass
  <2>10. DeliveriesPass
    <3> SUFFICES ASSUME NEW d \in Conns, NEW r \in Queues, d # c \/ r # q,
                        NEW m \in Msgs, OnItsWay(m, d, r)
                 PROVE  OnItsWay(m, d, r)'
      BY <2>1, <2>3 DEF DeliveriesPass
    <3>1. backlog'[d][r] = backlog[d][r]
      BY <2>5
    <3> QED BY <2>1, <3>1 DEF OnItsWay
  <2>11. Targets'
    BY <2>1 DEF Targets
  <2> QED BY <2>6, <2>7, <2>8, <2>9, <2>10, <2>11 DEF Passes
<1> QED BY <1>1, <1>2

(* A message moves from the spawned task to the channel, and from there    *)
(* into the hands of the handler.                                          *)
LEMMA ForwardPasses ==
  ASSUME TypeOK, Targets, NEW c \in Conns, Spawned(c) \/ TakeDelivery(c)
  PROVE  Passes /\ Targets'
<1>1. ASSUME UNCHANGED <<queues, message_status, consumers, evicted, acked, subscribed,
                         offered, target, todo, at>>,
             \A d \in Conns : \/ pc'[d] = pc[d] /\ cur'[d] = cur[d]
                              \/ pc[d] = "select" /\ pc'[d] = "write",
             DeliveriesPass
      PROVE  Passes /\ Targets'
  <2>1. QueuesPass
    BY <1>1 DEF QueuesPass, Gone, can_deliver, Announcing, Announces, PrePcs
  <2>2. ConsumersPass
    BY <1>1 DEF ConsumersPass, is_closed
  <2>3. NotifiesPass
    BY <1>1 DEF NotifiesPass, PublishPending, PublishPcs
  <2>4. SnapshotsPass
    BY <1>1 DEF SnapshotsPass
  <2>5. Targets'
    BY <1>1 DEF Targets
  <2> QED BY <1>1, <2>1, <2>2, <2>3, <2>4, <2>5 DEF Passes
<1>2. /\ chan \in [Conns -> Seq(Msgs)]
      /\ backlog \in [Conns -> [Queues -> Seq(Msgs)]]
  BY DEF TypeOK
<1>3. ASSUME NEW q \in Queues, SendBacklog(c, q) PROVE Passes /\ Targets'
  <2> DEFINE m == Head(backlog[c][q])
  <2>1. backlog[c][q] \in Seq(Msgs) /\ backlog[c][q] # <<>> /\ chan[c] \in Seq(Msgs)
    BY <1>2, <1>3 DEF SendBacklog
  <2>2. m \in Msgs /\ Range(backlog[c][q]) = Range(Tail(backlog[c][q])) \cup {m}
    BY <2>1, TailRange
  <2>3. Range(Append(chan[c], m)) = Range(chan[c]) \cup {m}
    BY <2>1, <2>2, AppendRange, SMTT(30)
  <2>4. /\ chan' = [chan EXCEPT ![c] = Append(@, m)]
        /\ backlog' = [backlog EXCEPT ![c][q] = Tail(@)]
        /\ UNCHANGED <<queues, message_status, consumers, evicted, acked, subscribed,
                       offered, locals>>
    BY <1>3 DEF SendBacklog, history
  <2> HIDE DEF m
  <2>5. \A d \in Conns : Range(chan[d]) \subseteq Range(chan'[d])
    BY <1>2, <2>3, <2>4
  <2>6. \A d \in Conns, r \in Queues : \A n \in Range(backlog[d][r]) :
          n \in Range(backlog'[d][r]) \/ n \in Range(chan'[d])
    <3>1. m \in Range(chan'[c])
      BY <1>2, <2>3, <2>4
    <3>2. /\ backlog'[c][q] = Tail(backlog[c][q])
          /\ \A d \in Conns, r \in Queues :
               d # c \/ r # q => backlog'[d][r] = backlog[d][r]
      BY <1>2, <2>4
    <3> QED BY <2>2, <3>1, <3>2
  <2>7. DeliveriesPass
    BY <2>4, <2>5, <2>6 DEF DeliveriesPass, OnItsWay, locals
  <2> QED BY <1>1, <2>4, <2>7 DEF locals
<1>4. ASSUME NEW q \in Queues, DropBacklog(c, q) PROVE Passes /\ Targets'
  <2>1. /\ is_closed(c)
        /\ UNCHANGED <<queues, message_status, consumers, evicted, acked, subscribed,
                       offered, chan, locals>>
    BY <1>4 DEF DropBacklog, history
  <2>2. \A d \in Conns : d # c => backlog'[d] = backlog[d]
    BY <1>2, <1>4 DEF DropBacklog
  <2>3. DeliveriesPass
    BY <2>1, <2>2 DEF DeliveriesPass, OnItsWay, locals, is_closed
  <2> QED BY <1>1, <2>1, <2>3 DEF locals
<1>5. CASE TakeDelivery(c)
  <2> DEFINE m == Head(chan[c])
  <2>1. chan[c] \in Seq(Msgs) /\ chan[c] # <<>> /\ pc[c] = "select"
    BY <1>2, <1>5 DEF TakeDelivery
  <2>2. Range(chan[c]) = Range(Tail(chan[c])) \cup {m}
    BY <2>1, TailRange
  <2>3. /\ chan' = [chan EXCEPT ![c] = Tail(@)]
        /\ UNCHANGED <<queues, message_status, consumers, evicted, acked, subscribed,
                       offered, target, todo, at, backlog>>
        /\ \/ ~ can_deliver(m) /\ UNCHANGED <<pc, cur>>
           \/ Goto(c, "write") /\ cur' = [cur EXCEPT ![c] = m]
    BY <1>5 DEF TakeDelivery, history
  <2> HIDE DEF m
  <2>4. /\ \A d \in Conns : d # c => pc'[d] = pc[d] /\ cur'[d] = cur[d] /\ chan'[d] = chan[d]
        /\ \/ ~ can_deliver(m) /\ pc'[c] = pc[c] /\ cur'[c] = cur[c]
           \/ pc'[c] = "write" /\ cur'[c] = m
        /\ chan'[c] = Tail(chan[c])
    BY DeliveryTypes, <2>3 DEF Goto
  <2>5. DeliveriesPass
    BY <2>1, <2>2, <2>3, <2>4 DEF DeliveriesPass, OnItsWay
  <2> QED BY <1>1, <2>1, <2>3, <2>4, <2>5
<1> QED BY <1>3, <1>4, <1>5 DEF Spawned

(* The inductive invariant of the deliveries.                              *)
DeliveryInv == Deliverable /\ Joined /\ Targets /\ NoMissedMessage

(* Every step passes, and so keeps it.                                     *)
LEMMA DeliveryStep ==
  TypeOK /\ TypeOK' /\ LockInv /\ NotLostInv /\ DeliveryInv /\ [Next]_vars => DeliveryInv'
<1> SUFFICES ASSUME TypeOK, TypeOK', LockInv, NotLostInv, DeliveryInv, [Next]_vars
             PROVE  DeliveryInv'
  OBVIOUS
<1>1. CASE UNCHANGED vars
  <2>1. UNCHANGED <<queues, message_status, consumers, chan, backlog, pc, cur, target, todo,
                    at, evicted, acked, subscribed, offered>>
    BY <1>1 DEF vars, locals, history
  <2>2. Deliverable'
    BY <2>1 DEF DeliveryInv, Deliverable, Announcing, Announces, Gone, can_deliver
  <2>3. Joined' /\ Targets'
    BY <2>1 DEF DeliveryInv, Joined, Targets, is_closed
  <2>4. NoMissedMessage'
    <3>1. \A m, q : PublishPending(m, q) => PublishPending(m, q)'
      BY <2>1 DEF PublishPending
    <3>2. \A m, c, q : OnItsWay(m, c, q) => OnItsWay(m, c, q)'
      BY <2>1 DEF OnItsWay
    <3> QED BY <2>1, <3>1, <3>2 DEF DeliveryInv, NoMissedMessage, is_closed
  <2> QED BY <2>2, <2>3, <2>4 DEF DeliveryInv
<1>2. ASSUME NEW c \in Conns, Command(c) \/ Step(c) \/ TakeDelivery(c) \/ Spawned(c)
      PROVE  Passes /\ Targets'
  <2>1. Targets /\ Acking
    BY DEF DeliveryInv, NotLostInv
  <2>2. CASE Command(c)
    BY <2>1, <2>2, CommandSettles, SettleStep, ConsumePasses DEF Command
  <2>3. CASE Step(c)
    BY <2>1, <2>3, WriteSettles, AckSettles, SettleStep, PlacePasses, AnnouncePasses,
       ConsumePasses DEF Step
  <2>4. CASE TakeDelivery(c) \/ Spawned(c)
    BY <2>1, <2>4, ForwardPasses
  <2> QED BY <1>2, <2>2, <2>3, <2>4
<1>3. CASE Next
  BY <1>2, <1>3, PassStep DEF Next, DeliveryInv
<1> QED BY <1>1, <1>3

(* No message in a queue escapes both the snapshot of register_consumer    *)
(* and the notification of publish, for any number of connections, queues  *)
(* and messages.                                                           *)
THEOREM NoMessageMissed == Spec => []NoMissedMessage
<1>1. Init => NotLostInv /\ DeliveryInv
  <2>1. Init => NotLostInv
    BY DEF Init, NotLostInv, Placing, Tracked, Acking, QueueSets, Confirmed
  <2>2. ASSUME Init PROVE \A q \in Queues : \A m : m \notin Range(queues[q])
    BY <2>2, SMTT(30) DEF Init, Range
  <2>3. ASSUME Init PROVE DeliveryInv
    BY <2>2, <2>3 DEF Init, DeliveryInv, Deliverable, Joined, Targets, NoMissedMessage
  <2> QED BY <2>1, <2>3
<1>2. TypeOK /\ LockInv /\ NotLostInv /\ [Next]_vars => NotLostInv'
  BY NotLostStep
<1>3. TypeOK /\ TypeOK' /\ LockInv /\ NotLostInv /\ DeliveryInv /\ [Next]_vars => DeliveryInv'
  BY DeliveryStep
<1>4. DeliveryInv => NoMissedMessage
  BY DEF DeliveryInv
<1> QED BY <1>1, <1>2, <1>3, <1>4, TypeCorrect, PTL DEF Spec

-----------------------------------------------------------------------------
(* The broker implements Mailbox.  Each step leaves what the clients see   *)
(* as it is (Unseen), or is one step of the mailbox.                       *)

(* What the clients see of the histories.                                  *)
Records == <<attempts, offered, received, confirmed, evicted, acked, removed>>

(* Nothing is routed anew.                                                 *)
LEMMA ReachKept ==
  ASSUME UNCHANGED <<bindings, subscribed>>
  PROVE  reach' = reach
BY DEF reach, target_queues

(* No write starts or ends.                                                *)
LEMMA WritingKept ==
  ASSUME NEW c \in Conns, Alone(c),
         (pc[c] # "write" /\ pc'[c] # "write") \/ (pc'[c] = pc[c] /\ cur'[c] = cur[c])
  PROVE  writing' = writing
<1>1. \A d \in Conns : (IF pc'[d] = "write" THEN cur'[d] ELSE NoMsg)
                         = (IF pc[d] = "write" THEN cur[d] ELSE NoMsg)
  BY DEF Alone
<1> QED BY <1>1 DEF writing

(* The write of c ends.                                                    *)
LEMMA WritingEnds ==
  ASSUME NEW c \in Conns, Alone(c), pc'[c] # "write"
  PROVE  writing' = [writing EXCEPT ![c] = NoMsg]
<1>1. \A d \in Conns : (IF pc'[d] = "write" THEN cur'[d] ELSE NoMsg)
                         = IF d = c THEN NoMsg ELSE IF pc[d] = "write" THEN cur[d] ELSE NoMsg
  BY DEF Alone
<1> QED BY <1>1 DEF writing

(* No message comes or goes.                                               *)
LEMMA HeldKept ==
  ASSUME queues' = queues,
         \A m \in Msgs : message_status'[m] = Absent <=> message_status[m] = Absent
  PROVE  held' = held
BY DEF held

(* What is held was published.                                             *)
LEMMA HeldPublished ==
  ASSUME RouteInv
  PROVE  held \subseteq {m \in Msgs : attempts[m] > 0}
BY DEF held, RouteInv, OnRoute

(* A step of c that no client sees.                                        *)
Unseen(c) ==
  /\ UNCHANGED <<bindings, subscribed, queues>> /\ UNCHANGED Records
  /\ \A m \in Msgs : message_status'[m] = Absent <=> message_status[m] = Absent
  /\ Alone(c)
  /\ (pc[c] # "write" /\ pc'[c] # "write") \/ (pc'[c] = pc[c] /\ cur'[c] = cur[c])

(* It is no step of the mailbox.                                           *)
LEMMA UnseenStutters ==
  ASSUME NEW c \in Conns, Unseen(c)
  PROVE  UNCHANGED Box!vars
BY ReachKept, WritingKept, HeldKept DEF Unseen, Records, Box!vars, Box!writes, Box!outcomes

(* What Unseen asks of a step whose handler returns or ends.               *)
LEMMA ReturnUnseen ==
  ASSUME TypeOK, NEW c \in Conns, Return(c) \/ Close(c), pc[c] # "write",
         UNCHANGED <<topology, queues, history>>,
         \A m \in Msgs : message_status'[m] = Absent <=> message_status[m] = Absent
  PROVE  Unseen(c)
<1>1. Alone(c) /\ pc'[c] # "write"
  BY HandTypes DEF Return, Close, Leave, Goto, Alone
<1> QED BY <1>1 DEF Unseen, Records, topology, history

(* Commands: routing widens, a publish is counted.                         *)
LEMMA BoxCommand ==
  ASSUME TypeOK, NEW c \in Conns, Command(c)
  PROVE  Box!Next \/ UNCHANGED Box!vars
<1> USE DEF Goto, Alone
<1>1. ASSUME NEW q \in Queues, DeclareQueue(c, q) PROVE Unseen(c)
  BY <1>1 DEF DeclareQueue, Unseen, Records, locals, history
<1>2. ASSUME NEW x \in Exchanges, DeclareExchange(c, x) PROVE Unseen(c)
  BY <1>2 DEF DeclareExchange, Unseen, Records, locals, history
<1>3. ASSUME Widens, UNCHANGED <<queues, message_status>>, UNCHANGED Records, writing' = writing
      PROVE  Box!Widen
  <2>1. \A d \in Conns : reach[d] \subseteq reach'[d]
    BY <1>3 DEF Widens, reach
  <2>2. held' = held
    BY <1>3, HeldKept
  <2> QED BY <1>3, <2>1, <2>2 DEF Box!Widen, Records, Box!writes, Box!outcomes
<1>4. ASSUME NEW q \in Queues, NEW x \in Exchanges, NEW k \in Keys, BindQueue(c, q, x, k)
      PROVE  Box!Widen
  <2>1. Widens
    BY <1>4, WidenStep DEF Next, Command
  <2>2. writing' = writing
    BY <1>4, WritingKept DEF BindQueue, locals
  <2> QED BY <1>3, <1>4, <2>1, <2>2 DEF BindQueue, Records, history
<1>5. ASSUME NEW q \in Queues, RegisterConsumer(c, q) PROVE Box!Widen
  <2>1. Widens
    BY <1>5, WidenStep DEF Next, Command
  <2>2. writing' = writing
    BY <1>5, WritingKept, HandTypes DEF RegisterConsumer
  <2> QED BY <1>3, <1>5, <2>1, <2>2 DEF RegisterConsumer, Records
<1>6. ASSUME NEW m \in Msgs, PublishCheck(c, m) PROVE Box!Publish(m)
  <2>1. writing' = writing
    BY <1>6, WritingKept, HandTypes DEF PublishCheck
  <2>2. held' = held /\ reach' = reach
    BY <1>6, HeldKept, ReachKept DEF PublishCheck, topology
  <2> QED BY <1>6, <2>1, <2>2 DEF PublishCheck, Box!Publish, Box!writes, Box!outcomes
<1>7. ASSUME NEW m \in Msgs, AckCheck(c, m) PROVE Unseen(c)
  BY <1>7, HandTypes DEF AckCheck, Unseen, Records, topology, history
<1>8. ASSUME Disconnect(c) PROVE Unseen(c)
  BY <1>8, ReturnUnseen DEF Disconnect
<1> HIDE DEF Goto, Alone
<1> QED BY <1>1, <1>2, <1>4, <1>5, <1>6, <1>7, <1>8, UnseenStutters DEF Command, Box!Next

(* Nothing but S leaves a queue.                                           *)
QueuesBut(S) ==
  \A m \in Msgs \ S : \A q \in Queues : m \in Range(queues[q]) => m \in Range(queues'[q])

(* A step that changes no more than what is held: the shape of Hold, Evict,*)
(* Discard and Remove.                                                     *)
LEMMA HoldStep ==
  ASSUME TypeOK, NEW c \in Conns, RouteInv', UNCHANGED <<bindings, subscribed, attempts>>,
         Alone(c), pc[c] # "write", pc'[c] # "write", NEW S,
         QueuesBut(S),
         \A m \in Msgs \ S : message_status[m] # Absent => message_status'[m] # Absent
  PROVE  Box!HoldsBut(S) /\ reach' = reach /\ writing' = writing
<1>1. reach' = reach /\ writing' = writing
  BY ReachKept, WritingKept
<1>2. held \ S \subseteq held'
  BY DEF held, QueuesBut
<1>3. held' \subseteq Box!published
  BY HeldPublished DEF Box!published, held, RouteInv, OnRoute
<1> QED BY <1>1, <1>2, <1>3 DEF Box!HoldsBut

(* The push of publish, after an eviction or not.                          *)
LEMMA BoxPlace ==
  ASSUME TypeOK, LockInv, RouteInv, RouteInv', NEW c \in Conns,
         (\E q \in Queues : PublishEnqueue(c, q)) \/ PublishEvict(c)
  PROVE  Box!Next
<1>0. /\ queues \in [Queues -> Seq(Msgs)]
      /\ pc[c] \in {"enqueue", "evict"} => cur[c] \in Msgs
  BY DEF TypeOK, PublishPcs
<1> DEFINE Spares(q, s, S) == s \in Seq(Msgs) /\ Range(queues[q]) \ S \subseteq Range(s)
<1>1. ASSUME pc[c] \in {"enqueue", "evict"}, UNCHANGED <<cur, target>>,
             NEW q \in Queues, NEW s, PushBack(c, q, s), NEW S, Spares(q, s, S)
      PROVE  Alone(c) /\ pc'[c] # "write" /\ QueuesBut(S)
  <2>0. cur[c] \in Msgs /\ s \in Seq(Msgs)
    BY <1>0, <1>1
  <2>1. Range(Append(s, cur[c])) = Range(s) \cup {cur[c]}
    BY <2>0, AppendRange, SMTT(30)
  <2>2. queues' = [queues EXCEPT ![q] = Append(s, cur[c])]
    BY <1>1 DEF PushBack
  <2>3. Alone(c) /\ pc'[c] # "write"
    BY <1>1, HandTypes DEF PushBack, Goto, Alone
  <2> QED BY <1>0, <1>1, <2>1, <2>2, <2>3 DEF QueuesBut
<1> HIDE DEF Spares
<1>2. ASSUME NEW q \in Queues, PublishEnqueue(c, q) PROVE Box!Hold
  <2>1. /\ pc[c] = "enqueue" /\ PushBack(c, q, queues[q])
        /\ UNCHANGED <<message_status, cur, target, bindings, subscribed>> /\ UNCHANGED Records
    BY <1>2 DEF PublishEnqueue, topology, history, Records
  <2>2. Spares(q, queues[q], {})
    BY <1>0 DEF Spares
  <2>3. Alone(c) /\ pc'[c] # "write" /\ QueuesBut({})
    BY <1>1, <2>1, <2>2
  <2>4. Box!HoldsBut({}) /\ reach' = reach /\ writing' = writing
    BY <2>1, <2>3, HoldStep DEF Records
  <2> QED BY <2>1, <2>4 DEF Records, Box!Hold, Box!writes, Box!outcomes
<1>3. ASSUME PublishEvict(c) PROVE \E m \in Msgs : Box!Evict(m)
  <2> DEFINE q == at[c]
             old == Head(queues[q])
  <2>1. q \in Queues /\ queues[q] # <<>> /\ pc[c] = "evict"
    BY <1>3 DEF PublishEvict, LockInv, TypeOK
  <2>2. /\ old \in Msgs /\ Tail(queues[q]) \in Seq(Msgs)
        /\ Range(queues[q]) = Range(Tail(queues[q])) \cup {old}
    BY <1>0, <2>1, TailRange
  <2>3. /\ PushBack(c, q, Tail(queues[q])) /\ evicted' = evicted \cup {old}
        /\ message_status' = [message_status EXCEPT ![old] = Absent]
        /\ UNCHANGED <<cur, target, bindings, subscribed, attempts, offered, received,
                       confirmed, acked, removed>>
    BY <1>3 DEF PublishEvict, topology
  <2>4. attempts[old] > 0
    BY <2>1, <2>2 DEF RouteInv, OnRoute
  <2> HIDE DEF q, old
  <2>5. \A m \in Msgs \ {old} : message_status'[m] = message_status[m]
    BY <2>2, <2>3 DEF TypeOK
  <2>6. Spares(q, Tail(queues[q]), {old})
    BY <2>2 DEF Spares
  <2>7. Alone(c) /\ pc'[c] # "write" /\ QueuesBut({old})
    BY <1>1, <2>1, <2>3, <2>6
  <2>8. Box!HoldsBut({old}) /\ reach' = reach /\ writing' = writing
    BY <2>1, <2>3, <2>5, <2>7, HoldStep
  <2>9. Box!Evict(old)
    BY <2>2, <2>3, <2>4, <2>8 DEF Box!Evict, Box!published, Box!writes
  <2> QED BY <2>2, <2>9
<1> QED BY <1>2, <1>3 DEF Box!Next

(* The rest of publish: the status makes the message held, and the last    *)
(* notification confirms it.                                               *)
LEMMA BoxPublish ==
  ASSUME TypeOK, RouteInv, RouteInv', NotLostInv, NEW c \in Conns,
         \/ PublishSaveFails(c) \/ PublishRoute(c) \/ PublishTrackQueues(c)
         \/ PublishTrackStatus(c) \/ \E q \in Queues : PublishPop(c, q) \/ PublishNotify(c, q)
  PROVE  Box!Next \/ UNCHANGED Box!vars
<1> USE DEF Goto, Alone
<1>1. ASSUME PublishSaveFails(c) PROVE Unseen(c)
  BY <1>1, ReturnUnseen DEF PublishSaveFails
<1>2. ASSUME PublishRoute(c) PROVE Unseen(c)
  <2>1. CASE Return(c)
    BY <1>2, <2>1, ReturnUnseen DEF PublishRoute
  <2>2. CASE ~ Return(c)
    BY <1>2, <2>2, HandTypes DEF PublishRoute, Unseen, Records, topology, history
  <2> QED BY <2>1, <2>2
<1>3. ASSUME PublishTrackQueues(c) PROVE Unseen(c)
  BY <1>3, HandTypes DEF PublishTrackQueues, Unseen, Records, topology, history
<1>4. ASSUME NEW q \in Queues, PublishPop(c, q) PROVE Unseen(c)
  BY <1>4, HandTypes DEF PublishPop, Unseen, Records, topology, history
<1>5. ASSUME PublishTrackStatus(c) PROVE Box!Hold
  <2>1. /\ Alone(c) /\ pc[c] # "write" /\ pc'[c] # "write" /\ cur[c] \in Msgs
        /\ UNCHANGED <<bindings, subscribed, queues>> /\ UNCHANGED Records
        /\ message_status' = [message_status EXCEPT ![cur[c]] = "sent"]
    BY <1>5, HandTypes DEF PublishTrackStatus, topology, history, Records, TypeOK, PublishPcs
  <2>2. /\ \A m \in Msgs : message_status[m] # Absent => message_status'[m] # Absent
        /\ QueuesBut({})
    BY <2>1 DEF TypeOK, Absent, QueuesBut
  <2> HIDE DEF Alone
  <2>3. Box!HoldsBut({}) /\ reach' = reach /\ writing' = writing
    BY <2>1, <2>2, HoldStep DEF Records
  <2> QED BY <2>1, <2>3 DEF Records, Box!Hold, Box!writes, Box!outcomes
<1>6. ASSUME NEW q \in Queues, PublishNotify(c, q), todo[c] # {q} PROVE Unseen(c)
  BY <1>6, HandTypes DEF PublishNotify, Unseen, Records, topology
<1>7. ASSUME NEW q \in Queues, PublishNotify(c, q), todo[c] = {q}
      PROVE  \E m \in Msgs : Box!Confirm(m)
  <2>1. cur[c] \in Msgs /\ pc[c] = "notify"
    BY <1>7 DEF PublishNotify, TypeOK, PublishPcs
  <2>2. /\ Alone(c) /\ pc'[c] # "write" /\ confirmed' = confirmed \cup {cur[c]}
        /\ UNCHANGED <<bindings, subscribed, queues, message_status, attempts, offered,
                       received, evicted, acked, removed>>
    BY <1>7, HandTypes DEF PublishNotify, Leave, topology
  <2>3. attempts[cur[c]] > 0
    BY <2>1 DEF RouteInv, InHand, PublishPcs
  <2>4. cur[c] \in held \cup evicted \cup acked
    <3> SUFFICES ASSUME cur[c] \notin Gone PROVE cur[c] \in held
      BY DEF Gone
    <3>1. message_queues[cur[c]] # {} /\ message_status[cur[c]] # Absent
      BY <2>1 DEF NotLostInv, Tracked
    <3>2. \A r \in message_queues[cur[c]] : cur[c] \in Range(queues[r])
      BY <2>1 DEF NotLostInv, QueueSets
    <3>3. message_queues[cur[c]] \subseteq Queues
      BY <2>1 DEF TypeOK
    <3> QED BY <2>1, <3>1, <3>2, <3>3 DEF held
  <2> HIDE DEF Alone
  <2>5. reach' = reach /\ writing' = writing /\ held' = held
    BY <2>1, <2>2, ReachKept, WritingKept, HeldKept
  <2>6. Box!Confirm(cur[c])
    BY <2>1, <2>2, <2>3, <2>4, <2>5 DEF Box!Confirm, Box!published, Box!writes
  <2> QED BY <2>1, <2>6
<1> HIDE DEF Goto, Alone
<1> QED BY <1>1, <1>2, <1>3, <1>4, <1>5, <1>6, <1>7, UnseenStutters DEF Box!Next

(* Consuming moves copies about, unseen, until a write starts: of a        *)
(* published message, to a consumer, and not of an acknowledged one.       *)
LEMMA BoxConsume ==
  ASSUME TypeOK, RouteInv, PublishedOnce, NEW c \in Conns,
         SnapshotQueue(c) \/ Spawned(c) \/ TakeDelivery(c)
  PROVE  Box!Next \/ UNCHANGED Box!vars
<1> USE DEF Goto, Alone
<1>1. ASSUME SnapshotQueue(c) PROVE Unseen(c)
  BY <1>1, ReturnUnseen DEF SnapshotQueue
<1>2. ASSUME NEW q \in Queues, SendBacklog(c, q) \/ DropBacklog(c, q) PROVE Unseen(c)
  BY <1>2 DEF SendBacklog, DropBacklog, Unseen, Records, topology, locals, history
<1>3. ASSUME TakeDelivery(c), ~ can_deliver(Head(chan[c])) PROVE Unseen(c)
  BY <1>3 DEF TakeDelivery, Unseen, Records, topology, history
<1>4. ASSUME TakeDelivery(c), can_deliver(Head(chan[c]))
      PROVE  \E m \in Msgs : Box!Write(c, m)
  <2> DEFINE m == Head(chan[c])
  <2>1. pc[c] = "select" /\ chan[c] # <<>> /\ chan[c] \in Seq(Msgs)
    BY <1>4 DEF TakeDelivery, TypeOK
  <2>2. m \in Msgs /\ m \in Range(chan[c])
    <3>1. Head(chan[c]) \in Msgs /\ Range(chan[c]) = Range(Tail(chan[c])) \cup {Head(chan[c])}
      BY <2>1, TailRange
    <3> QED BY <3>1
  <2>3. Intended(m, c)
    BY <2>2 DEF RouteInv
  <2>4. /\ UNCHANGED <<bindings, subscribed, queues, message_status>> /\ UNCHANGED Records
        /\ pc' = [pc EXCEPT ![c] = "write"] /\ cur' = [cur EXCEPT ![c] = m]
    BY <1>4 DEF TakeDelivery, Records, topology, history
  <2> HIDE DEF m
  <2>5. m \in reach[c] \cap Box!published
    BY <2>2, <2>3 DEF Intended, reach, Box!published
  <2>6. m \in acked => attempts[m] > 1
    <3>1. attempts[m] \in {0, 1} => m \notin acked
      BY <1>4, <2>2 DEF m, PublishedOnce, Unpublished, AckFinal, Fresh, can_deliver, Absent
    <3>2. attempts[m] \in Nat
      BY <2>2 DEF TypeOK
    <3>3. attempts[m] \in {0, 1} \/ attempts[m] > 1
      BY <3>2, SMTT(30)
    <3> QED BY <3>1, <3>3
  <2>7. writing[c] = NoMsg /\ writing' = [writing EXCEPT ![c] = m]
    <3>1. writing[c] = NoMsg
      BY <2>1 DEF writing
    <3>2. \A d \in Conns : (IF pc'[d] = "write" THEN cur'[d] ELSE NoMsg)
                             = IF d = c THEN m ELSE IF pc[d] = "write" THEN cur[d] ELSE NoMsg
      BY <2>4, HandTypes
    <3> QED BY <3>1, <3>2 DEF writing
  <2>8. reach' = reach /\ held' = held
    BY <2>4, ReachKept, HeldKept
  <2>9. Box!Write(c, m)
    BY <2>4, <2>5, <2>6, <2>7, <2>8 DEF Box!Write, Records, Box!outcomes
  <2> QED BY <2>2, <2>9
<1> HIDE DEF Goto, Alone
<1> QED BY <1>1, <1>2, <1>3, <1>4, UnseenStutters DEF Spawned, Box!Next

(* A write ends in one of three ways, and marking it is unseen.            *)
LEMMA BoxDeliver ==
  ASSUME TypeOK, NEW c \in Conns,
         \/ WriteSucceeds(c) \/ WriteFails(c) \/ FlushFails(c)
         \/ MarkDelivered(c) \/ MarkDeliveredAgain(c)
  PROVE  Box!Next \/ UNCHANGED Box!vars
<1> USE DEF Goto, Alone
<1>1. ASSUME pc[c] = "write", pc'[c] # "write", Alone(c),
             UNCHANGED <<bindings, subscribed, queues, message_status, attempts, confirmed,
                         evicted, acked, removed>>
      PROVE  Box!Stop(c) /\ writing[c] = cur[c]
  <2>1. cur[c] \in Msgs
    BY <1>1 DEF TypeOK, DeliverPcs
  <2>2. writing[c] = cur[c]
    BY <1>1 DEF writing
  <2> HIDE DEF Alone
  <2>3. writing' = [writing EXCEPT ![c] = NoMsg] /\ reach' = reach /\ held' = held
    BY <1>1, WritingEnds, ReachKept, HeldKept
  <2> QED BY <1>1, <2>1, <2>2, <2>3 DEF Box!Stop, Box!outcomes
<1>2. ASSUME WriteSucceeds(c) PROVE Box!Deliver(c)
  <2>1. Box!Stop(c) /\ writing[c] = cur[c]
    BY <1>1, <1>2, HandTypes DEF WriteSucceeds, topology
  <2> QED BY <1>2, <2>1 DEF WriteSucceeds, Box!Deliver
<1>3. ASSUME WriteFails(c), Close(c) PROVE Box!Abandon(c)
  <2>1. Box!Stop(c)
    BY <1>1, <1>3, HandTypes DEF WriteFails, Close, Leave, topology, history
  <2> QED BY <1>3, <2>1 DEF WriteFails, Box!Abandon, history
<1>4. ASSUME WriteFails(c), ~ Close(c) PROVE Unseen(c)
  BY <1>4 DEF WriteFails, Unseen, Records, topology, history
<1>5. ASSUME FlushFails(c), tries[c] + 1 >= MAX_RETRIES, ~ (tries[c] + 1 < MAX_RETRIES)
      PROVE  Box!GiveUp(c)
  <2>1. Box!Stop(c) /\ writing[c] = cur[c]
    BY <1>1, <1>5, HandTypes DEF FlushFails, topology
  <2> QED BY <1>5, <2>1 DEF FlushFails, Box!GiveUp
<1>6. ASSUME FlushFails(c), tries[c] + 1 < MAX_RETRIES, ~ (tries[c] + 1 >= MAX_RETRIES)
      PROVE  Unseen(c)
  BY <1>6 DEF FlushFails, Unseen, Records, topology
<1>7. \/ tries[c] + 1 >= MAX_RETRIES /\ ~ (tries[c] + 1 < MAX_RETRIES)
      \/ tries[c] + 1 < MAX_RETRIES /\ ~ (tries[c] + 1 >= MAX_RETRIES)
  <2>1. tries[c] \in 0 .. MAX_RETRIES - 1 /\ MAX_RETRIES \in Nat
    BY BrokerConstants DEF TypeOK
  <2> QED BY <2>1, SMTT(30)
<1>8. ASSUME SetDelivered(cur[c])
      PROVE  \A m \in Msgs : message_status'[m] = Absent <=> message_status[m] = Absent
  BY <1>8 DEF SetDelivered, TypeOK, Absent
<1>9. ASSUME MarkDelivered(c) PROVE Unseen(c)
  BY <1>8, <1>9, HandTypes DEF MarkDelivered, Unseen, Records, topology, history
<1>10. ASSUME MarkDeliveredAgain(c) PROVE Unseen(c)
  BY <1>8, <1>10, ReturnUnseen DEF MarkDeliveredAgain
<1> HIDE DEF Goto, Alone
<1> QED BY <1>2, <1>3, <1>4, <1>5, <1>6, <1>7, <1>9, <1>10, UnseenStutters DEF Box!Next

(* An ack is taken from a client the message was offered to; only then     *)
(* does the message leave its queues and the maps.                         *)
LEMMA BoxAck ==
  ASSUME TypeOK, RouteInv, RouteInv', NotLostInv, NEW c \in Conns,
         \/ AckMark(c) \/ AckScan(c) \/ AckClean(c) \/ AckEnd(c) \/ AckDropQueues(c)
         \/ AckDropStatus(c) \/ AckReply(c) \/ \E q \in Queues : AckVisit(c, q)
  PROVE  Box!Next \/ UNCHANGED Box!vars
<1> USE DEF Goto, Alone
<1>1. ASSUME AckMark(c) PROVE \E m \in Msgs : Box!Ack(m)
  <2>1. /\ pc[c] # "write" /\ pc'[c] # "write" /\ Alone(c) /\ cur[c] \in Msgs
        /\ UNCHANGED <<bindings, subscribed, queues, attempts, offered, received, confirmed,
                       evicted, removed>>
        /\ acked' = acked \cup {cur[c]}
    BY <1>1, HandTypes DEF AckMark, topology, TypeOK, AckPcs
  <2>2. cur[c] \in offered[c]
    BY <1>1 DEF AckMark, RouteInv, InHand, AckPcs
  <2>3. \A m \in Msgs : message_status'[m] = Absent <=> message_status[m] = Absent
    BY <1>1, <2>1 DEF AckMark, TypeOK, Absent
  <2> HIDE DEF Alone
  <2>4. reach' = reach /\ writing' = writing /\ held' = held
    BY <2>1, <2>3, ReachKept, WritingKept, HeldKept
  <2>5. Box!Ack(cur[c])
    BY <2>1, <2>2, <2>4 DEF Box!Ack, Box!writes
  <2> QED BY <2>1, <2>5
<1>2. ASSUME AckScan(c) PROVE Unseen(c)
  BY <1>2, HandTypes DEF AckScan, Unseen, Records, topology, history
<1>3. ASSUME NEW q \in Queues, AckVisit(c, q) PROVE Unseen(c)
  BY <1>3, HandTypes DEF AckVisit, Unseen, Records, topology, history
<1>4. ASSUME AckEnd(c) PROVE Unseen(c)
  BY <1>4, HandTypes DEF AckEnd, Unseen, Records, topology, history
<1>5. ASSUME AckDropQueues(c) PROVE Unseen(c)
  BY <1>5, HandTypes DEF AckDropQueues, Unseen, Records, topology, history
<1>6. ASSUME AckReply(c) PROVE Unseen(c)
  BY <1>6, ReturnUnseen DEF AckReply
<1>7. ASSUME AckClean(c) PROVE Box!Discard
  <2>1. /\ pc[c] # "write" /\ pc'[c] # "write" /\ Alone(c) /\ cur[c] \in Msgs
        /\ UNCHANGED <<bindings, subscribed, message_status>> /\ UNCHANGED Records
    BY <1>7, HandTypes DEF AckClean, Records, topology, history, TypeOK, AckPcs
  <2>2. cur[c] \in acked
    BY <1>7 DEF AckClean, NotLostInv, Acking
  <2> HIDE DEF Alone
  <2>3. \A r \in Queues : Range(queues[r]) \ {cur[c]} \subseteq Range(queues'[r])
    BY <1>7, <2>1, <2>2, CleanAcknowledges DEF Acknowledges
  <2>4. QueuesBut(acked)
    BY <2>2, <2>3 DEF QueuesBut
  <2>5. Box!HoldsBut(acked) /\ reach' = reach /\ writing' = writing
    BY <2>1, <2>4, HoldStep DEF Records
  <2> QED BY <2>1, <2>5 DEF Box!Discard, Records, Box!writes, Box!outcomes
<1>8. ASSUME AckDropStatus(c) PROVE \E m \in Msgs : Box!Remove(m)
  <2>1. /\ pc[c] # "write" /\ pc'[c] # "write" /\ Alone(c) /\ cur[c] \in Msgs
        /\ UNCHANGED <<bindings, subscribed, queues, attempts, offered, received, confirmed,
                       evicted, acked>>
        /\ removed' = removed \cup {cur[c]}
    BY <1>8, HandTypes DEF AckDropStatus, topology, TypeOK, AckPcs
  <2>2. cur[c] \in acked
    BY <1>8 DEF AckDropStatus, NotLostInv, Acking
  <2>3. /\ QueuesBut({cur[c]})
        /\ \A m \in Msgs \ {cur[c]} : message_status'[m] = message_status[m]
    BY <1>8, <2>1 DEF AckDropStatus, TypeOK, QueuesBut
  <2> HIDE DEF Alone
  <2>4. Box!HoldsBut({cur[c]}) /\ reach' = reach /\ writing' = writing
    BY <2>1, <2>3, HoldStep
  <2>5. Box!Remove(cur[c])
    BY <2>1, <2>2, <2>4 DEF Box!Remove, Box!writes
  <2> QED BY <2>1, <2>5
<1> HIDE DEF Goto, Alone
<1> QED BY <1>1, <1>2, <1>3, <1>4, <1>5, <1>6, <1>7, <1>8, UnseenStutters DEF Box!Next

(* Every step of the broker is a step of the mailbox, or none.             *)
LEMMA BoxStep ==
  TypeOK /\ LockInv /\ RouteInv /\ RouteInv' /\ NotLostInv /\ PublishedOnce /\ [Next]_vars
    => [Box!Next]_(Box!vars)
<1> SUFFICES ASSUME TypeOK, LockInv, RouteInv, RouteInv', NotLostInv, PublishedOnce, [Next]_vars
             PROVE  Box!Next \/ UNCHANGED Box!vars
  OBVIOUS
<1>1. CASE UNCHANGED vars
  <2>1. /\ UNCHANGED <<bindings, subscribed, queues, message_status, pc, cur>>
        /\ UNCHANGED Records
    BY <1>1 DEF vars, topology, locals, history, Records
  <2>2. reach' = reach /\ held' = held /\ writing' = writing
    BY <2>1 DEF reach, target_queues, held, writing
  <2> QED BY <2>1, <2>2 DEF Records, Box!vars, Box!writes, Box!outcomes
<1>2. ASSUME NEW c \in Conns, Step(c) PROVE Box!Next \/ UNCHANGED Box!vars
  BY <1>2, BoxPlace, BoxPublish, BoxConsume, BoxDeliver, BoxAck DEF Step
<1> QED BY <1>1, <1>2, BoxCommand, BoxConsume DEF Next

(* MailboxSpec: with all its maps, channels and interleaved tasks, for any *)
(* number of connections, queues and messages, the broker does to its      *)
(* clients what the mailbox may do, and nothing else.                      *)
THEOREM ImplementsMailbox == Spec => MailboxSpec
<1>1. Init => Box!Init
  <2> SUFFICES ASSUME Init PROVE Box!Init
    OBVIOUS
  <2>1. held = {}
    BY DEF Init, held
  <2>2. reach = [c \in Conns |-> {}]
    <3>1. \A c \in Conns : {m \in Msgs : target_queues(m) \cap subscribed[c] # {}} = {}
      BY DEF Init
    <3> QED BY <3>1 DEF reach
  <2>3. writing = [c \in Conns |-> NoMsg]
    BY DEF Init, writing
  <2> QED BY <2>1, <2>2, <2>3 DEF Init, Box!Init
<1>2. TypeOK /\ LockInv /\ RouteInv /\ RouteInv' /\ NotLostInv /\ PublishedOnce /\ [Next]_vars
        => [Box!Next]_(Box!vars)
  BY BoxStep
<1> QED BY <1>1, <1>2, TypeCorrect, RoutesKept, NothingLostAlways, PublishedOnceAlways, PTL
        DEF Spec, MailboxSpec, Box!Spec

(* The same of the write in progress, which makes ServedOnly inductive.    *)
WritesOnly ==
  \A c \in Conns : writing[c] \in Msgs => writing[c] \in reach[c] /\ attempts[writing[c]] > 0

(* The steps of the mailbox keep both.                                     *)
LEMMA ServedStep ==
  ASSUME TypeOK, ServedOnly, WritesOnly, [Box!Next]_(Box!vars)
  PROVE  ServedOnly' /\ WritesOnly'
<1>0. /\ attempts \in [Msgs -> Nat] /\ offered \in [Conns -> SUBSET Msgs]
      /\ received \in [Conns -> SUBSET Msgs]
      /\ writing = [c \in Conns |-> writing[c]]
      /\ NoMsg \notin Msgs
  BY BrokerConstants DEF TypeOK, writing
<1> USE DEF Box!writes, Box!outcomes
<1>1. ASSUME UNCHANGED <<attempts, writing, offered, received>>,
             \A c \in Conns : reach[c] \subseteq reach'[c],
             removed' \subseteq acked', acked \subseteq acked',
             \A m \in acked' : m \in acked \/ \E c \in Conns : m \in offered[c]
      PROVE  ServedOnly' /\ WritesOnly'
  BY <1>1 DEF ServedOnly, WritesOnly
<1>2. CASE UNCHANGED Box!vars
  BY <1>1, <1>2 DEF Box!vars, ServedOnly
<1>3. CASE Box!Widen \/ Box!Hold \/ Box!Discard
  BY <1>1, <1>3 DEF Box!Widen, Box!Hold, Box!Discard, ServedOnly
<1>4. ASSUME NEW m \in Msgs, Box!Confirm(m) \/ Box!Evict(m) \/ Box!Ack(m) \/ Box!Remove(m)
      PROVE  ServedOnly' /\ WritesOnly'
  BY <1>1, <1>4 DEF Box!Confirm, Box!Evict, Box!Ack, Box!Remove, ServedOnly
<1>5. ASSUME NEW m \in Msgs, Box!Publish(m) PROVE ServedOnly' /\ WritesOnly'
  <2>1. \A n \in Msgs : attempts[n] > 0 => attempts'[n] > 0
    <3>1. attempts' = [attempts EXCEPT ![m] = @ + 1]
      BY <1>5 DEF Box!Publish
    <3> QED BY <1>0, <3>1, SMTT(30)
  <2>2. UNCHANGED <<reach, writing, offered, received, acked, removed>>
    BY <1>5 DEF Box!Publish
  <2> QED BY <1>0, <2>1, <2>2 DEF ServedOnly, WritesOnly
<1>6. ASSUME NEW c \in Conns, NEW m \in Msgs, Box!Write(c, m) PROVE ServedOnly' /\ WritesOnly'
  <2>1. /\ writing' = [writing EXCEPT ![c] = m] /\ m \in reach[c] /\ attempts[m] > 0
        /\ UNCHANGED <<attempts, reach, offered, received, acked, removed>>
    BY <1>6 DEF Box!Write, Box!published
  <2>2. WritesOnly'
    BY <1>0, <2>1 DEF WritesOnly
  <2> QED BY <2>1, <2>2 DEF ServedOnly
<1>7. ASSUME NEW c \in Conns, Box!Deliver(c) \/ Box!GiveUp(c) \/ Box!Abandon(c)
      PROVE  ServedOnly' /\ WritesOnly'
  <2> DEFINE m == writing[c]
  <2>1. /\ m \in Msgs /\ writing' = [writing EXCEPT ![c] = NoMsg]
        /\ UNCHANGED <<attempts, reach, acked, removed>>
        /\ offered' = [offered EXCEPT ![c] = @ \cup {m}] \/ offered' = offered
        /\ \/ received' = received
           \/ /\ received' = [received EXCEPT ![c] = @ \cup {m}]
              /\ offered' = [offered EXCEPT ![c] = @ \cup {m}]
    BY <1>7 DEF Box!Deliver, Box!GiveUp, Box!Abandon, Box!Stop
  <2>2. m \in reach[c] /\ attempts[m] > 0
    BY <2>1 DEF WritesOnly
  <2> HIDE DEF m
  <2>3. WritesOnly'
    BY <1>0, <2>1 DEF WritesOnly
  <2>4. /\ \A d \in Conns : offered[d] \subseteq offered'[d]
        /\ \A d \in Conns : \A n \in offered'[d] : n \in offered[d] \/ (d = c /\ n = m)
        /\ \A d \in Conns : received'[d] \subseteq offered'[d]
    <3>1. ASSUME offered' = [offered EXCEPT ![c] = @ \cup {m}]
          PROVE  /\ \A d \in Conns : offered[d] \subseteq offered'[d]
                 /\ \A d \in Conns : \A n \in offered'[d] : n \in offered[d] \/ (d = c /\ n = m)
                 /\ m \in offered'[c]
      BY <1>0, <3>1
    <3>2. ASSUME received' = [received EXCEPT ![c] = @ \cup {m}]
          PROVE  \A d \in Conns : \A n \in received'[d] : n \in received[d] \/ (d = c /\ n = m)
      BY <1>0, <3>2
    <3>3. \A d \in Conns : received[d] \subseteq offered[d]
      BY DEF ServedOnly
    <3>4. CASE offered' = offered
      BY <2>1, <3>1, <3>2, <3>3, <3>4
    <3>5. CASE offered' = [offered EXCEPT ![c] = @ \cup {m}]
      <4>1. \A d \in Conns : \A n \in received'[d] : n \in received[d] \/ (d = c /\ n = m)
        BY <2>1, <3>2
      <4> QED BY <3>1, <3>3, <3>5, <4>1
    <3> QED BY <2>1, <3>4, <3>5
  <2> QED BY <2>1, <2>2, <2>3, <2>4 DEF ServedOnly
<1> QED BY <1>2, <1>3, <1>4, <1>5, <1>6, <1>7 DEF Box!Next

(* ServedOnly: the broker serves its clients so, in every behaviour.       *)
THEOREM ServedToConsumers == Spec => []ServedOnly
<1>1. Init => ServedOnly /\ WritesOnly
  BY BrokerConstants DEF Init, ServedOnly, WritesOnly, writing
<1>2. TypeOK /\ ServedOnly /\ WritesOnly /\ [Box!Next]_(Box!vars) => (ServedOnly /\ WritesOnly)'
  BY ServedStep
<1> QED BY <1>1, <1>2, TypeCorrect, ImplementsMailbox, PTL DEF MailboxSpec, Box!Spec, Spec
=============================================================================
