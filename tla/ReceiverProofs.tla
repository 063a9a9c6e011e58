--------------------------- MODULE ReceiverProofs ----------------------------
(***************************************************************************)
(* The receiver stores no message twice and, as long as it runs,           *)
(* acknowledges none that it does not keep, for any number of messages,    *)
(* pushes and faults, any capacity of the channels and any size of a batch.*)
(***************************************************************************)
EXTENDS Receiver, TLAPS

(* What is in the file or on its way there.                                *)
Stored == file \o batch \o msgs

(* What the receiver may acknowledge: stored, or hit by a logged error.    *)
Kept == Range(Stored) \cup unsaved

(* A task that is about to pass on a message has one.                      *)
InHand ==
  /\ pc \in {"store", "ack"} => id \in Msgs
  /\ apc = "write" => aid \in Msgs

(* Nothing is stored before the message loop, which clears processed when  *)
(* it starts and running when it ends.                                     *)
Unstarted ==
  /\ pc \in {"connect"} \cup Handshaking \/ (pc = "loop" /\ running) =>
       file = <<>> /\ batch = <<>> /\ msgs = <<>>
  /\ pc = "shutdown" => ~ running

(* So processed has all that is stored, but the message about to be.       *)
Processed ==
  /\ Range(Stored) \subseteq processed
  /\ pc = "store" => id \notin Range(Stored) /\ id \in processed

(* The writer task stops without its file or after running is cleared, and *)
(* has written its batch before.                                           *)
Stopped ==
  /\ ppc \in {"open", "check", "stopped"} => batch = <<>>
  /\ ppc = "stopped" => unsaved = Msgs \/ ~ running

(* While the process runs, a message is kept before it goes to the ACK     *)
(* sender.                                                                 *)
AcksKept ==
  running =>
    /\ pc = "ack" => id \in Kept
    /\ Range(acks) \subseteq Kept
    /\ apc = "write" => aid \in Kept
    /\ acked \subseteq Kept

RecvInv ==
  /\ TypeOK /\ InHand /\ Unstarted /\ Processed /\ Stopped /\ AcksKept
  /\ StoredOnce

-----------------------------------------------------------------------------
(* Sequences: their elements, and that none occurs twice.                  *)

(* The elements of w are those of h and t, and it has none of them twice   *)
(* if neither has and they have none in common.                            *)
Parts(w, h, t) ==
  /\ Range(w) = Range(h) \cup Range(t)
  /\ IsInjective(w) <=> IsInjective(h) /\ IsInjective(t) /\ Range(h) \cap Range(t) = {}

(* The same for the file, the batch and the channel.                       *)
Parts3(w, f, b, m) ==
  /\ Range(w) = Range(f) \cup Range(b) \cup Range(m)
  /\ IsInjective(w) <=>
       /\ IsInjective(f) /\ IsInjective(b) /\ IsInjective(m)
       /\ Range(f) \cap Range(b) = {}
       /\ (Range(f) \cup Range(b)) \cap Range(m) = {}

(* The elements of a sequence as the provers see them.                     *)
LEMMA RangeOf ==
  ASSUME NEW A, NEW s \in Seq(A)
  PROVE  /\ Range(s) = {s[i] : i \in 1 .. Len(s)} /\ Range(s) \subseteq A
         /\ Len(s) \in Nat
         /\ IsInjective(s) <=> \A i, j \in 1 .. Len(s) : s[i] = s[j] => i = j
BY DEF Range, IsInjective

(* push_back, send on a channel.                                           *)
LEMMA AppendFacts ==
  ASSUME NEW A, NEW s \in Seq(A), NEW e \in A
  PROVE  /\ Append(s, e) \in Seq(A) /\ Len(Append(s, e)) = Len(s) + 1
         /\ Range(Append(s, e)) = Range(s) \cup {e}
         /\ IsInjective(Append(s, e)) <=> IsInjective(s) /\ e \notin Range(s)
<1> DEFINE t == Append(s, e)
<1>1. /\ t \in Seq(A) /\ Len(t) = Len(s) + 1 /\ Len(s) \in Nat
      /\ \A i \in 1 .. Len(s) : t[i] = s[i]
      /\ t[Len(s) + 1] = e
  OBVIOUS
<1>2. /\ \A i \in 1 .. Len(t) : i \in 1 .. Len(s) \/ i = Len(s) + 1
      /\ \A i \in 1 .. Len(s) : i \in 1 .. Len(t) /\ i # Len(s) + 1
      /\ Len(s) + 1 \in 1 .. Len(t)
  BY <1>1
<1>3. /\ Range(s) = {s[i] : i \in 1 .. Len(s)}
      /\ IsInjective(s) <=> \A i, j \in 1 .. Len(s) : s[i] = s[j] => i = j
  BY RangeOf, Zenon
<1> HIDE DEF t
<1>4. /\ Range(t) = {t[i] : i \in 1 .. Len(t)}
      /\ IsInjective(t) <=> \A i, j \in 1 .. Len(t) : t[i] = t[j] => i = j
  BY <1>1, RangeOf, Zenon
<1>5. Range(t) = Range(s) \cup {e}
  BY <1>1, <1>2, <1>3, <1>4
<1>6. IsInjective(t) => IsInjective(s) /\ e \notin Range(s)
  BY <1>1, <1>2, <1>3, <1>4, Zenon
<1>7. IsInjective(s) /\ e \notin Range(s) => IsInjective(t)
  BY <1>1, <1>2, <1>3, <1>4
<1> QED BY <1>1, <1>5, <1>6, <1>7, Zenon DEF t

(* Writing a batch after what is in the file.                              *)
LEMMA ConcatFacts ==
  ASSUME NEW A, NEW s \in Seq(A), NEW u \in Seq(A)
  PROVE  s \o u \in Seq(A) /\ Parts(s \o u, s, u)
<1> DEFINE t == s \o u
<1> DEFINE I == 1 .. Len(s)
<1> DEFINE J == 1 .. Len(u)
<1> DEFINE K == 1 .. Len(t)
<1> DEFINE at(j) == Len(s) + j
<1>1. t \in Seq(A)
  OBVIOUS
<1>2. /\ \A i \in I : i \in K /\ t[i] = s[i]
      /\ \A j \in J : at(j) \in K /\ t[at(j)] = u[j]
  OBVIOUS
<1>3. \A k \in K : k \in I \/ \E j \in J : k = at(j)
  <2>1. \A k \in K : k \in I \/ (k - Len(s) \in J /\ k = at(k - Len(s)))
    OBVIOUS
  <2> HIDE DEF I, J, K, at
  <2> QED BY <2>1
<1>4. /\ \A i \in I, j \in J : i # at(j)
      /\ \A i, j \in J : at(i) = at(j) => i = j
  OBVIOUS
<1>5. /\ Range(s) = {s[i] : i \in I}
      /\ IsInjective(s) <=> \A i, j \in I : s[i] = s[j] => i = j
  BY RangeOf, Zenon
<1>6. /\ Range(u) = {u[i] : i \in J}
      /\ IsInjective(u) <=> \A i, j \in J : u[i] = u[j] => i = j
  BY RangeOf, Zenon
<1> HIDE DEF t
<1>7. /\ Range(t) = {t[i] : i \in K}
      /\ IsInjective(t) <=> \A i, j \in K : t[i] = t[j] => i = j
  BY <1>1, RangeOf, Zenon
<1> HIDE DEF I, J, K, at
<1>8. Range(t) = Range(s) \cup Range(u)
  <2>1. ASSUME NEW x \in Range(t) PROVE x \in Range(s) \cup Range(u)
    <3>1. PICK k \in K : x = t[k]
      BY <1>7, <2>1
    <3>2. CASE k \in I
      BY <1>2, <1>5, <3>1, <3>2
    <3>3. ASSUME NEW j \in J, k = at(j) PROVE x \in Range(u)
      BY <1>2, <1>6, <3>1, <3>3
    <3> QED BY <1>3, <3>2, <3>3
  <2>2. ASSUME NEW i \in I PROVE s[i] \in Range(t)
    BY <1>2, <1>7, <2>2
  <2>3. ASSUME NEW j \in J PROVE u[j] \in Range(t)
    BY <1>2, <1>7, <2>3
  <2> QED BY <1>5, <1>6, <2>1, <2>2, <2>3
<1>9. IsInjective(t) =>
        IsInjective(s) /\ IsInjective(u) /\ Range(s) \cap Range(u) = {}
  <2> SUFFICES ASSUME \A i, j \in K : t[i] = t[j] => i = j
               PROVE  IsInjective(s) /\ IsInjective(u) /\ Range(s) \cap Range(u) = {}
    BY <1>7
  <2>1. IsInjective(s)
    BY <1>2, <1>5
  <2>2. IsInjective(u)
    BY <1>2, <1>4, <1>6
  <2>3. ASSUME NEW i \in I, NEW j \in J PROVE s[i] # u[j]
    BY <1>2, <1>4
  <2> QED BY <1>5, <1>6, <2>1, <2>2, <2>3
<1>10. ASSUME IsInjective(s), IsInjective(u), Range(s) \cap Range(u) = {}
       PROVE  IsInjective(t)
  <2> SUFFICES ASSUME NEW k \in K, NEW l \in K, t[k] = t[l]
               PROVE  k = l
    BY <1>7
  <2>1. ASSUME NEW i \in I, NEW j \in J PROVE t[i] # t[at(j)]
    BY <1>2, <1>5, <1>6, <1>10
  <2>2. CASE k \in I /\ l \in I
    BY <1>2, <1>5, <1>10, <2>2
  <2>3. CASE k \notin I /\ l \notin I
    <3>1. PICK i \in J : k = at(i)
      BY <1>3, <2>3
    <3>2. PICK j \in J : l = at(j)
      BY <1>3, <2>3
    <3>3. u[i] = u[j]
      BY <1>2, <3>1, <3>2
    <3> QED BY <1>6, <1>10, <3>1, <3>2, <3>3
  <2> QED BY <1>3, <2>1, <2>2, <2>3
<1> QED BY <1>1, <1>8, <1>9, <1>10, Zenon DEF t, Parts

(* recv on a channel.                                                      *)
LEMMA TailFacts ==
  ASSUME NEW A, NEW s \in Seq(A), s # <<>>
  PROVE  /\ Head(s) \in A /\ Tail(s) \in Seq(A) /\ Len(Tail(s)) = Len(s) - 1
         /\ Range(s) = Range(Tail(s)) \cup {Head(s)}
         /\ IsInjective(s) <=> IsInjective(Tail(s)) /\ Head(s) \notin Range(Tail(s))
<1>1. Head(s) \in A /\ Len(Tail(s)) = Len(s) - 1
  OBVIOUS
<1>2. Tail(s) \in Seq(A)
  OBVIOUS
<1>3. <<Head(s)>> \in Seq(A) /\ s = <<Head(s)>> \o Tail(s)
  OBVIOUS
<1>4. Range(<<Head(s)>>) = {Head(s)} /\ IsInjective(<<Head(s)>>)
  BY DEF Range, IsInjective
<1>5. Parts(<<Head(s)>> \o Tail(s), <<Head(s)>>, Tail(s))
  BY <1>2, <1>3, ConcatFacts, Zenon
<1>6. Parts(s, <<Head(s)>>, Tail(s))
  BY <1>3, <1>5, Zenon
<1>7. {Head(s)} \cap Range(Tail(s)) = {} <=> Head(s) \notin Range(Tail(s))
  OBVIOUS
<1> QED BY <1>1, <1>2, <1>4, <1>6, <1>7, Zenon DEF Parts

(* A batch after it is cleared.                                            *)
LEMMA EmptyFacts ==
  ASSUME NEW A
  PROVE  /\ <<>> \in Seq(A) /\ Len(<<>>) = 0 /\ Range(<<>>) = {}
         /\ IsInjective(<<>>)
BY DEF Range, IsInjective

(* The file, the batch and the channel, one after the other.               *)
LEMMA StoredFacts ==
  ASSUME NEW A, NEW f \in Seq(A), NEW b \in Seq(A), NEW m \in Seq(A)
  PROVE  Parts3(f \o b \o m, f, b, m)
<1>1. f \o b \in Seq(A) /\ Parts(f \o b, f, b)
  BY ConcatFacts
<1>2. Parts(f \o b \o m, f \o b, m)
  BY <1>1, ConcatFacts, Zenon
<1> QED BY <1>1, <1>2 DEF Parts, Parts3

-----------------------------------------------------------------------------
(* The writer task.                                                        *)

(* flush_batch drops nothing but what its logged error hits, and writes    *)
(* nothing twice.                                                          *)
LEMMA FlushKeeps ==
  ASSUME file \in Seq(Msgs), unsaved \subseteq Msgs, NEW b \in Seq(Msgs), Flush(b),
         msgs' \in Seq(Msgs), IsInjective(file \o b \o msgs')
  PROVE  /\ file' \in Seq(Msgs) /\ batch' = <<>> /\ unsaved' \subseteq Msgs
         /\ StoredOnce'
         /\ Range(Stored') \subseteq Range(file \o b \o msgs')
         /\ Range(file \o b \o msgs') \cup unsaved \subseteq Kept'
         /\ Range(file) \subseteq Range(file')
<1>1. <<>> \in Seq(Msgs) /\ Range(<<>>) = {} /\ IsInjective(<<>>)
  BY EmptyFacts, Zenon
<1>2. file \o b \in Seq(Msgs) /\ Parts(file \o b, file, b)
  BY ConcatFacts
<1>3. Range(b) \subseteq Msgs
  BY RangeOf, Zenon
<1>4. file' \in Seq(Msgs) /\ batch' = <<>> /\ unsaved' \subseteq Msgs
  BY <1>2, <1>3, Zenon DEF Flush
<1>5. Parts3(file \o b \o msgs', file, b, msgs')
  BY StoredFacts
<1>6. Parts3(Stored', file', <<>>, msgs') /\ (StoredOnce' <=> IsInjective(Stored'))
  <2>1. Parts3(file' \o <<>> \o msgs', file', <<>>, msgs')
    BY <1>1, <1>4, StoredFacts, Zenon
  <2> QED BY <1>4, <2>1 DEF Stored, StoredOnce
<1>7. CASE file' = file \o b /\ unsaved' = unsaved
  BY <1>1, <1>2, <1>4, <1>5, <1>6, <1>7 DEF Kept, Parts, Parts3
<1>8. CASE file' = file /\ unsaved' = unsaved \cup Range(b)
  BY <1>1, <1>4, <1>5, <1>6, <1>8 DEF Kept, Parts3
<1> QED BY <1>7, <1>8 DEF Flush

(* The types of the channel, the batch and the file.                       *)
StoreTypes ==
  /\ msgs \in Seq(Msgs) /\ Len(msgs) <= Capacity
  /\ batch \in Seq(Msgs) /\ Len(batch) < BATCH
  /\ file \in Seq(Msgs) /\ unsaved \subseteq Msgs

(* A step on the way of no message to the file.                            *)
Quiet ==
  /\ UNCHANGED <<msgs, batch, file, unsaved>>
  /\ ~ (pc = "store" /\ pc' = "ack")

(* All steps but five are quiet.                                           *)
LEMMA QuietSteps ==
  ASSUME [Next]_vars
  PROVE  Quiet \/ SendMsg \/ OpenFile \/ ProcRecv \/ ProcTimeout \/ ProcCheck
<1> USE DEF Quiet, loopVars, ackVars, procVars, netVars
<1>1. CASE Answered
  BY <1>1 DEF Answered, Connect, ConnectFails, Registered, Configured, Configuring,
     HandshakeRefused, ShutdownStream
<1>2. CASE LoopAgain \/ HandshakeFails \/ Top \/ ReadTimeout \/ ReadEnds
  BY <1>2, Zenon DEF LoopAgain, HandshakeFails, Top, ReadTimeout, ReadEnds
<1>3. CASE ReadPiece \/ SendAck \/ Cleanup \/ Exit
  BY <1>3 DEF ReadPiece, SendAck, Cleanup, Exit
<1>4. CASE AckSender \/ AckWrite \/ HeartbeatEnds
  BY <1>4, Zenon DEF AckSender, AckTop, AckRecv, AckTimeout, AckWrite, HeartbeatEnds
<1>5. CASE (\E m \in Msgs : Push(m)) \/ ConnectionLost \/ Sigint
  BY <1>5, Zenon DEF Push, ConnectionLost, Sigint
<1>6. CASE UNCHANGED vars
  BY <1>6 DEF vars
<1> QED BY <1>1, <1>2, <1>3, <1>4, <1>5, <1>6, Zenon DEF Next, Loop, Writer

(* The channel goes with the task that read it.                            *)
LEMMA ChannelDropped ==
  ASSUME StoreTypes, StoredOnce, msgs' = <<>>, UNCHANGED <<file, batch>>,
         unsaved' \subseteq Msgs
  PROVE  StoreTypes' /\ StoredOnce' /\ Range(Stored') \subseteq Range(Stored)
<1>1. <<>> \in Seq(Msgs) /\ Len(<<>>) = 0 /\ Range(<<>>) = {} /\ IsInjective(<<>>)
  BY EmptyFacts, Zenon
<1>2. Parts3(Stored, file, batch, msgs) /\ IsInjective(Stored)
  BY StoredFacts, Zenon DEF StoreTypes, Stored, StoredOnce
<1>3. Parts3(file \o batch \o <<>>, file, batch, <<>>)
  BY <1>1, StoredFacts, Zenon DEF StoreTypes
<1>4. Stored' = file \o batch \o <<>> /\ (StoredOnce' <=> IsInjective(Stored'))
  BY Zenon DEF Stored, StoredOnce
<1>5. StoreTypes'
  BY <1>1, ReceiverAssumption DEF StoreTypes
<1> QED BY <1>1, <1>2, <1>3, <1>4, <1>5 DEF Parts3

(* No step stores a message twice, only msg_tx.send stores a new one, and  *)
(* none drops a message that may be acknowledged while the process runs.   *)
LEMMA StoredGrows ==
  ASSUME RecvInv, [Next]_vars
  PROVE  /\ StoreTypes' /\ StoredOnce' /\ (running => Kept \subseteq Kept')
         /\ Range(Stored') \subseteq Range(Stored) \/ SendMsg
         /\ pc = "store" /\ pc' = "ack" =>
              /\ Range(Stored') \subseteq Range(Stored) \cup {id}
              /\ running => id \in Kept'
<1>1. StoreTypes /\ StoredOnce
  BY Zenon DEF RecvInv, TypeOK, StoreTypes
<1>2. Parts3(Stored, file, batch, msgs) /\ (StoredOnce <=> IsInjective(Stored))
  BY <1>1, StoredFacts, Zenon DEF StoreTypes, Stored, StoredOnce
<1>3. CASE Quiet
  <2>1. StoreTypes' /\ StoredOnce' /\ Stored' = Stored /\ Kept' = Kept
    BY <1>1, <1>3 DEF StoreTypes, StoredOnce, Stored, Kept, Quiet
  <2> QED BY <1>3, <2>1 DEF Quiet
<1>4. CASE SendMsg
  <2>1. /\ pc = "store" /\ id \in Msgs /\ id \notin Range(Stored)
        /\ UNCHANGED <<file, batch, unsaved>>
    BY <1>4, Zenon DEF SendMsg, RecvInv, InHand, Processed, procVars
  <2>2. CASE ppc = "stopped"
    <3>1. running => unsaved = Msgs
      BY <2>2, Zenon DEF RecvInv, Stopped
    <3>2. /\ StoreTypes' /\ StoredOnce' /\ Stored' = Stored /\ Kept' = Kept
          /\ running => id \in Kept'
      BY <1>1, <1>4, <2>1, <2>2, <3>1 DEF SendMsg, StoreTypes, StoredOnce, Stored, Kept
    <3> QED BY <1>4, <3>2, Zenon
  <2>3. CASE ppc # "stopped"
    <3>1. msgs' = Append(msgs, id) /\ Len(msgs) < Capacity
      BY <1>4, <2>3, Zenon DEF SendMsg
    <3>2. /\ msgs' \in Seq(Msgs) /\ Len(msgs') = Len(msgs) + 1
          /\ Range(msgs') = Range(msgs) \cup {id}
          /\ IsInjective(msgs') <=> IsInjective(msgs) /\ id \notin Range(msgs)
      BY <1>1, <2>1, <3>1, AppendFacts, Zenon DEF StoreTypes
    <3>3. StoreTypes'
      BY <1>1, <2>1, <3>1, <3>2, ReceiverAssumption DEF StoreTypes
    <3>4. Parts3(Stored', file, batch, msgs') /\ (StoredOnce' <=> IsInjective(Stored'))
      <4>1. Parts3(file \o batch \o msgs', file, batch, msgs')
        BY <1>1, <3>2, StoredFacts, Zenon DEF StoreTypes
      <4> QED BY <2>1, <4>1, Zenon DEF Stored, StoredOnce
    <3>5. /\ StoredOnce' /\ Range(Stored') = Range(Stored) \cup {id}
      BY <1>1, <1>2, <2>1, <3>2, <3>4 DEF Parts3
    <3> QED BY <1>4, <2>1, <3>3, <3>5 DEF Kept
  <2> QED BY <2>2, <2>3, Zenon
<1>5. CASE OpenFile
  <2>1. pc' = pc /\ UNCHANGED <<file, batch>>
    BY <1>5, Zenon DEF OpenFile, loopVars
  <2>2. CASE UNCHANGED <<msgs, unsaved>>
    <3>1. StoreTypes' /\ StoredOnce' /\ Stored' = Stored /\ Kept' = Kept
      BY <1>1, <2>1, <2>2 DEF StoreTypes, StoredOnce, Stored, Kept
    <3> QED BY <2>1, <3>1
  <2>3. CASE msgs' = <<>> /\ unsaved' = Msgs
    <3>1. StoreTypes' /\ StoredOnce' /\ Range(Stored') \subseteq Range(Stored)
      BY <1>1, <2>1, <2>3, ChannelDropped
    <3>2. Kept \subseteq Msgs
      <4>1. Range(file) \subseteq Msgs /\ Range(batch) \subseteq Msgs /\ Range(msgs) \subseteq Msgs
        BY <1>1, RangeOf, Zenon DEF StoreTypes
      <4> QED BY <1>1, <1>2, <4>1 DEF Kept, Parts3, StoreTypes
    <3> QED BY <2>1, <2>3, <3>1, <3>2 DEF Kept
  <2> QED BY <1>5, <2>2, <2>3, Zenon DEF OpenFile
<1>6. CASE ProcRecv
  <2> DEFINE b == Append(batch, Head(msgs))
  <2>1. pc' = pc /\ msgs' = Tail(msgs) /\ msgs # <<>>
    BY <1>6 DEF ProcRecv, loopVars
  <2>2. /\ Head(msgs) \in Msgs /\ msgs' \in Seq(Msgs) /\ Len(msgs') = Len(msgs) - 1
        /\ Range(msgs) = Range(msgs') \cup {Head(msgs)}
        /\ IsInjective(msgs) <=> IsInjective(msgs') /\ Head(msgs) \notin Range(msgs')
    BY <1>1, <2>1, TailFacts, Zenon DEF StoreTypes
  <2>3. /\ b \in Seq(Msgs) /\ Len(b) = Len(batch) + 1
        /\ Range(b) = Range(batch) \cup {Head(msgs)}
        /\ IsInjective(b) <=> IsInjective(batch) /\ Head(msgs) \notin Range(batch)
    BY <1>1, <2>2, AppendFacts, Zenon DEF StoreTypes
  <2>4. Len(msgs') <= Capacity
    BY <1>1, <2>2, ReceiverAssumption DEF StoreTypes
  <2>5. \/ Len(b) >= BATCH /\ Flush(b)
        \/ ~ (Len(b) >= BATCH) /\ batch' = b /\ UNCHANGED <<file, unsaved>>
    BY <1>6, Zenon DEF ProcRecv
  <2> HIDE DEF b
  <2>6. Parts3(file \o b \o msgs', file, b, msgs')
    BY <1>1, <2>2, <2>3, StoredFacts, Zenon DEF StoreTypes
  <2>7. /\ IsInjective(file \o b \o msgs')
        /\ Range(file \o b \o msgs') = Range(Stored)
    BY <1>1, <1>2, <2>2, <2>3, <2>6 DEF Parts3
  <2>8. CASE Flush(b)
    <3>1. /\ file' \in Seq(Msgs) /\ batch' = <<>> /\ unsaved' \subseteq Msgs
          /\ StoredOnce'
          /\ Range(Stored') \subseteq Range(Stored)
          /\ Range(Stored) \cup unsaved \subseteq Kept'
      BY <1>1, <2>2, <2>3, <2>7, <2>8, FlushKeeps DEF StoreTypes
    <3>2. StoreTypes'
      BY <2>2, <2>4, <3>1, EmptyFacts, ReceiverAssumption DEF StoreTypes
    <3> QED BY <2>1, <3>1, <3>2 DEF Kept
  <2>9. CASE ~ (Len(b) >= BATCH) /\ batch' = b /\ UNCHANGED <<file, unsaved>>
    <3>1. StoreTypes'
      BY <1>1, <2>2, <2>3, <2>4, <2>9, ReceiverAssumption DEF StoreTypes
    <3>2. Stored' = file \o b \o msgs' /\ (StoredOnce' <=> IsInjective(Stored'))
      BY <2>9 DEF Stored, StoredOnce
    <3> QED BY <2>1, <2>7, <2>9, <3>1, <3>2 DEF Kept
  <2> QED BY <2>5, <2>8, <2>9, Zenon
<1>7. CASE ProcTimeout
  <2>1. pc' = pc /\ msgs' = msgs /\ Flush(batch)
    BY <1>7 DEF ProcTimeout, loopVars
  <2>2. IsInjective(file \o batch \o msgs') /\ Range(file \o batch \o msgs') = Range(Stored)
    BY <1>1, <2>1 DEF Stored, StoredOnce
  <2>3. /\ file' \in Seq(Msgs) /\ batch' = <<>> /\ unsaved' \subseteq Msgs
        /\ StoredOnce'
        /\ Range(Stored') \subseteq Range(Stored)
        /\ Range(Stored) \cup unsaved \subseteq Kept'
    BY <1>1, <2>1, <2>2, FlushKeeps DEF StoreTypes
  <2>4. StoreTypes'
    BY <1>1, <2>1, <2>3, EmptyFacts, ReceiverAssumption DEF StoreTypes
  <2> QED BY <2>1, <2>3, <2>4 DEF Kept
<1>8. CASE ProcCheck
  <2>1. pc' = pc /\ UNCHANGED <<file, batch, unsaved>>
    BY <1>8, Zenon DEF ProcCheck, loopVars
  <2>2. CASE running
    <3>1. StoreTypes' /\ StoredOnce' /\ Stored' = Stored /\ Kept' = Kept
      BY <1>1, <1>8, <2>1, <2>2 DEF ProcCheck, StoreTypes, StoredOnce, Stored, Kept
    <3> QED BY <2>1, <3>1
  <2>3. CASE ~ running
    <3>1. msgs' = <<>> /\ unsaved' \subseteq Msgs
      BY <1>1, <1>8, <2>1, <2>3 DEF ProcCheck, StoreTypes
    <3>2. StoreTypes' /\ StoredOnce' /\ Range(Stored') \subseteq Range(Stored)
      BY <1>1, <2>1, <3>1, ChannelDropped
    <3> QED BY <2>1, <2>3, <3>2
  <2> QED BY <2>2, <2>3, Zenon
<1> QED BY <1>3, <1>4, <1>5, <1>6, <1>7, <1>8, QuietSteps, Zenon

-----------------------------------------------------------------------------
(* The types of the other variables.                                       *)

Flags == running \in BOOLEAN /\ sigint \in BOOLEAN /\ hb \in BOOLEAN

LoopTypes ==
  /\ pc \in {"loop", "connect", "top", "read", "store", "ack", "cleanup", "shutdown",
             "wait", "exit"} \cup Handshaking
  /\ line \in Seq(Msgs \X {1})
  /\ id \in Msgs \cup {NoMsg}
  /\ processed \subseteq Msgs \ Bad
  /\ pc \in {"store", "ack"} => id \in Msgs

AckTypes ==
  /\ acks \in Seq(Msgs) /\ Len(acks) <= Capacity
  /\ apc \in {"top", "recv", "write", "stopped"}
  /\ aid \in Msgs \cup {NoMsg}
  /\ acked \subseteq Msgs
  /\ apc = "write" => aid \in Msgs

WireTypes ==
  /\ conn \in {"up", "down"}
  /\ wire \in Seq(Msgs \X {1, 2})
  /\ ppc \in {"open", "recv", "check", "stopped"}
  /\ pushes \in [Msgs -> Nat]

(* TypeOK and InHand, in the parts the steps change.                       *)
LEMMA TypeParts ==
  TypeOK /\ InHand <=> Flags /\ LoopTypes /\ AckTypes /\ WireTypes /\ StoreTypes
BY Zenon DEF TypeOK, InHand, Flags, LoopTypes, AckTypes, WireTypes, StoreTypes

(* running, sigint and hb.                                                 *)
LEMMA FlagsStep ==
  ASSUME Flags, [Next]_vars
  PROVE  Flags'
<1> USE ZenonT(30) DEF Flags, loopVars, ackVars, procVars, netVars
<1>1. CASE Loop
  BY <1>1 DEF Loop, LoopAgain, HandshakeFails, Top, ReadPiece, ReadTimeout, ReadEnds,
     SendMsg, SendAck, Cleanup, Exit
<1>2. CASE Answered
  BY <1>2 DEF Answered, Connect, ConnectFails, Registered, Configured, HandshakeRefused,
     ShutdownStream
<1>3. CASE AckSender \/ AckWrite \/ HeartbeatEnds \/ Writer
  BY <1>3 DEF AckSender, AckTop, AckRecv, AckTimeout, AckWrite, HeartbeatEnds, Writer,
     OpenFile, ProcRecv, ProcTimeout, ProcCheck
<1>4. CASE (\E m \in Msgs : Push(m)) \/ ConnectionLost \/ Sigint \/ UNCHANGED vars
  BY <1>4 DEF Push, ConnectionLost, Sigint, vars
<1> QED BY <1>1, <1>2, <1>3, <1>4 DEF Next

(* running is never set again.                                             *)
LEMMA RunningFalls ==
  ASSUME [Next]_vars
  PROVE  running' => running
<1> USE ZenonT(30) DEF loopVars, ackVars, procVars, netVars
<1>1. CASE Loop
  BY <1>1 DEF Loop, LoopAgain, HandshakeFails, Top, ReadPiece, ReadTimeout, ReadEnds,
     SendMsg, SendAck, Cleanup, Exit
<1>2. CASE Answered
  BY <1>2 DEF Answered, Connect, ConnectFails, Registered, Configured, HandshakeRefused,
     ShutdownStream
<1>3. CASE AckSender \/ AckWrite \/ HeartbeatEnds \/ Writer
  BY <1>3 DEF AckSender, AckTop, AckRecv, AckTimeout, AckWrite, HeartbeatEnds, Writer,
     OpenFile, ProcRecv, ProcTimeout, ProcCheck
<1>4. CASE (\E m \in Msgs : Push(m)) \/ ConnectionLost \/ Sigint \/ UNCHANGED vars
  BY <1>4 DEF Push, ConnectionLost, Sigint, vars
<1> QED BY <1>1, <1>2, <1>3, <1>4 DEF Next

(* main and receive_loop.                                                  *)
LEMMA LoopTypesStep ==
  ASSUME LoopTypes, AckTypes, WireTypes, [Next]_vars
  PROVE  LoopTypes'
<1> USE DEF loopVars, ackVars, procVars, netVars
<1>1. CASE UNCHANGED loopVars
  BY <1>1, Zenon DEF LoopTypes
<1>2. CASE Connect
  <2>1. line' \in Seq(Msgs \X {1})
    BY <1>2, EmptyFacts DEF Connect
  <2> QED BY <1>2, <2>1 DEF LoopTypes, Connect, Handshaking
<1>3. CASE Registered \/ Configured
  BY <1>3 DEF LoopTypes, Registered, Configured, Handshaking, Configuring
<1>4. CASE HandshakeRefused \/ HandshakeFails \/ ConnectFails \/ ShutdownStream
  BY <1>4 DEF LoopTypes, HandshakeRefused, HandshakeFails, ConnectFails, ShutdownStream
<1>5. CASE LoopAgain \/ Top \/ ReadEnds \/ Cleanup \/ Exit
  BY <1>5 DEF LoopTypes, LoopAgain, Top, ReadEnds, Cleanup, Exit
<1>6. CASE ReadPiece
  <2>1. wire \in Seq(Msgs \X {1, 2}) /\ wire # <<>>
    BY <1>6 DEF WireTypes, ReadPiece
  <2>2. Head(wire) \in Msgs \X {1, 2}
    BY <2>1
  <2>3. /\ Head(wire)[1] \in Msgs
        /\ Head(wire)[2] # 2 => Head(wire) \in Msgs \X {1}
    BY <2>2
  <2>4. line' \in Seq(Msgs \X {1})
    <3>1. Head(wire)[2] # 2 => Append(line, Head(wire)) \in Seq(Msgs \X {1})
      BY <2>3, AppendFacts, Zenon DEF LoopTypes
    <3> QED BY <1>6, <3>1, EmptyFacts, Zenon DEF ReadPiece
  <2>5. \/ UNCHANGED <<pc, id, processed>>
        \/ pc' = "top" /\ UNCHANGED <<id, processed>>
        \/ TakeLine(Head(wire)[1])
    BY <1>6, Zenon DEF ReadPiece
  <2> QED BY <1>6, <2>3, <2>4, <2>5 DEF LoopTypes, ReadPiece, TakeLine, decrypt_message
<1>7. CASE ReadTimeout
  <2>1. line' \in Seq(Msgs \X {1})
    BY <1>7, EmptyFacts DEF ReadTimeout
  <2> QED BY <1>7, <2>1 DEF LoopTypes, ReadTimeout
<1>8. CASE SendMsg \/ SendAck
  BY <1>8 DEF LoopTypes, SendMsg, SendAck
<1>9. CASE ~ Loop /\ ~ Answered
  <2>1. UNCHANGED loopVars
    BY <1>9, Zenon DEF Next, AckSender, AckTop, AckRecv, AckTimeout, AckWrite,
       HeartbeatEnds, Writer, OpenFile, ProcRecv, ProcTimeout, ProcCheck, Push,
       ConnectionLost, Sigint, vars
  <2> QED BY <1>1, <2>1
<1> QED BY <1>2, <1>3, <1>4, <1>5, <1>6, <1>7, <1>8, <1>9, Zenon DEF Loop, Answered

(* The ACK sender.                                                         *)
LEMMA AckTypesStep ==
  ASSUME LoopTypes, AckTypes, [Next]_vars
  PROVE  AckTypes'
<1> USE DEF loopVars, ackVars, procVars, netVars
<1>1. CASE UNCHANGED <<ackVars, acked>>
  BY <1>1, Zenon DEF AckTypes
<1>2. CASE Connect
  <2>1. acks' \in Seq(Msgs) /\ Len(acks') = 0
    BY <1>2, EmptyFacts DEF Connect
  <2> QED BY <1>2, <2>1, ReceiverAssumption DEF AckTypes, Connect
<1>3. CASE HandshakeRefused \/ HandshakeFails \/ Cleanup \/ AckTop \/ AckTimeout
  BY <1>3 DEF AckTypes, HandshakeRefused, HandshakeFails, Cleanup, AckTop, AckTimeout
<1>4. CASE SendAck
  <2>1. CASE apc = "stopped"
    BY <1>4, <2>1 DEF AckTypes, SendAck
  <2>2. CASE apc # "stopped"
    <3>1. Append(acks, id) \in Seq(Msgs) /\ Len(Append(acks, id)) = Len(acks) + 1
      BY <1>4, AppendFacts, Zenon DEF LoopTypes, AckTypes, SendAck
    <3> QED BY <1>4, <2>2, <3>1, ReceiverAssumption DEF AckTypes, SendAck
  <2> QED BY <2>1, <2>2
<1>5. CASE AckRecv
  <2>1. /\ Head(acks) \in Msgs /\ Tail(acks) \in Seq(Msgs)
        /\ Len(Tail(acks)) = Len(acks) - 1
    BY <1>5, TailFacts, Zenon DEF AckTypes, AckRecv
  <2> QED BY <1>5, <2>1, ReceiverAssumption DEF AckTypes, AckRecv
<1>6. CASE AckWrite
  BY <1>6 DEF AckTypes, AckWrite
<1>7. CASE \/ ConnectFails \/ Registered \/ Configured \/ ShutdownStream \/ LoopAgain
           \/ Top \/ ReadPiece \/ ReadTimeout \/ ReadEnds \/ SendMsg \/ Exit
  <2>1. UNCHANGED <<ackVars, acked>>
    BY <1>7, Zenon DEF ConnectFails, Registered, Configured, ShutdownStream, LoopAgain,
       Top, ReadPiece, ReadTimeout, ReadEnds, SendMsg, Exit
  <2> QED BY <1>1, <2>1, Zenon
<1>8. CASE ~ Loop /\ ~ Answered /\ ~ AckSender /\ ~ AckWrite
  <2>1. UNCHANGED <<ackVars, acked>>
    BY <1>8, Zenon DEF Next, HeartbeatEnds, Writer, OpenFile, ProcRecv, ProcTimeout,
       ProcCheck, Push, ConnectionLost, Sigint, vars
  <2> QED BY <1>1, <2>1, Zenon
<1> QED BY <1>2, <1>3, <1>4, <1>5, <1>6, <1>7, <1>8, Zenon
     DEF Loop, Answered, AckSender

(* The connection, the writer's control point and the broker's pushes.     *)
LEMMA WireTypesStep ==
  ASSUME WireTypes, [Next]_vars
  PROVE  WireTypes'
<1> USE DEF loopVars, ackVars, procVars, netVars
<1>1. CASE UNCHANGED <<conn, wire, ppc, pushes>>
  BY <1>1, Zenon DEF WireTypes
<1>2. CASE Connect \/ ShutdownStream
  <2>1. wire' \in Seq(Msgs \X {1, 2})
    BY <1>2, EmptyFacts, Zenon DEF Connect, ShutdownStream
  <2> QED BY <1>2, <2>1 DEF WireTypes, Connect, ShutdownStream
<1>3. CASE HandshakeRefused
  BY <1>3 DEF WireTypes, HandshakeRefused
<1>4. CASE ReadPiece
  <2>1. wire' \in Seq(Msgs \X {1, 2})
    BY <1>4, TailFacts, Zenon DEF WireTypes, ReadPiece
  <2> QED BY <1>4, <2>1, Zenon DEF WireTypes, ReadPiece
<1>5. CASE OpenFile \/ ProcRecv \/ ProcTimeout \/ ProcCheck
  BY <1>5 DEF WireTypes, OpenFile, ProcRecv, ProcTimeout, ProcCheck
<1>6. ASSUME NEW m \in Msgs, Push(m) PROVE WireTypes'
  <2>1. <<<<m, 1>>, <<m, 2>>>> \in Seq(Msgs \X {1, 2})
    OBVIOUS
  <2>2. wire' \in Seq(Msgs \X {1, 2})
    BY <1>6, <2>1, ConcatFacts, Zenon DEF WireTypes, Push
  <2>3. pushes' \in [Msgs -> Nat]
    BY <1>6 DEF WireTypes, Push
  <2> QED BY <1>6, <2>2, <2>3 DEF WireTypes, Push
<1>7. CASE ConnectionLost
  <2>1. ASSUME NEW n \in 0 .. Len(wire) PROVE SubSeq(wire, 1, n) \in Seq(Msgs \X {1, 2})
    BY <2>1 DEF WireTypes
  <2>2. wire' \in Seq(Msgs \X {1, 2})
    BY <1>7, <2>1, Zenon DEF ConnectionLost
  <2> QED BY <1>7, <2>2 DEF WireTypes, ConnectionLost
<1>8. CASE \/ LoopAgain \/ ConnectFails \/ Registered \/ Configured \/ HandshakeFails \/ Top
           \/ ReadTimeout \/ ReadEnds \/ SendMsg \/ SendAck \/ Cleanup \/ Exit
  <2>1. UNCHANGED <<conn, wire, ppc, pushes>>
    BY <1>8, Zenon DEF LoopAgain, ConnectFails, Registered, Configured, HandshakeFails,
       Top, ReadTimeout, ReadEnds, SendMsg, SendAck, Cleanup, Exit
  <2> QED BY <1>1, <2>1, Zenon
<1>9. CASE AckSender \/ AckWrite \/ HeartbeatEnds \/ Sigint \/ UNCHANGED vars
  <2>1. UNCHANGED <<conn, wire, ppc, pushes>>
    BY <1>9, Zenon DEF AckSender, AckTop, AckRecv, AckTimeout, AckWrite, HeartbeatEnds,
       Sigint, vars
  <2> QED BY <1>1, <2>1, Zenon
<1> QED BY <1>2, <1>3, <1>4, <1>5, <1>6, <1>7, <1>8, <1>9, Zenon
     DEF Next, Loop, Answered, Writer

-----------------------------------------------------------------------------
(* The order in which the tasks stop and messages are acknowledged.        *)

(* A step of the ACK sender, the heartbeat, the network or the user does   *)
(* not touch the loop or the writer task, and at most clears running.      *)
Aside ==
  /\ UNCHANGED <<pc, id, processed, msgs, batch, file, unsaved, ppc>>
  /\ running' => running

(* The other steps are aside.                                              *)
LEMMA AsideSteps ==
  ASSUME [Next]_vars
  PROVE  Aside \/ Loop \/ Answered \/ Writer
<1> USE DEF Aside, loopVars, ackVars, procVars, netVars
<1>1. CASE AckSender \/ AckWrite \/ HeartbeatEnds
  BY <1>1, Zenon DEF AckSender, AckTop, AckRecv, AckTimeout, AckWrite, HeartbeatEnds
<1>2. CASE (\E m \in Msgs : Push(m)) \/ ConnectionLost \/ Sigint
  BY <1>2, Zenon DEF Push, ConnectionLost, Sigint
<1>3. CASE UNCHANGED vars
  BY <1>3, Zenon DEF vars
<1> QED BY <1>1, <1>2, <1>3, Zenon DEF Next

(* The message loop runs once, and the writer task is idle before it.      *)
LEMMA UnstartedStep ==
  ASSUME RecvInv, [Next]_vars
  PROVE  Unstarted'
<1> USE DEF loopVars, ackVars, procVars, netVars
<1>1. Unstarted /\ LoopTypes /\ StoreTypes
  BY TypeParts, Zenon DEF RecvInv
<1>2. CASE Aside
  BY <1>1, <1>2, Zenon DEF Aside, Unstarted
<1>3. CASE LoopAgain \/ Connect \/ ConnectFails
  BY <1>1, <1>3 DEF LoopAgain, Connect, ConnectFails, Unstarted, Handshaking, Configuring
<1>4. CASE Registered \/ Configured \/ HandshakeFails \/ HandshakeRefused
  BY <1>1, <1>4 DEF Registered, Configured, HandshakeFails, HandshakeRefused, Unstarted,
     Handshaking, Configuring
<1>5. CASE Top \/ ReadPiece \/ ReadTimeout \/ ReadEnds
  BY <1>1, <1>5 DEF Top, ReadPiece, TakeLine, ReadTimeout, ReadEnds, Unstarted,
     Handshaking, Configuring
<1>6. CASE SendMsg \/ SendAck
  BY <1>1, <1>6 DEF SendMsg, SendAck, Unstarted, Handshaking, Configuring
<1>7. CASE Cleanup \/ ShutdownStream \/ Exit
  BY <1>1, <1>7 DEF Cleanup, ShutdownStream, Exit, Unstarted, Handshaking, Configuring
<1>8. CASE OpenFile
  BY <1>1, <1>8 DEF OpenFile, Unstarted
<1>9. CASE ProcRecv
  BY <1>1, <1>9 DEF ProcRecv, Unstarted
<1>10. CASE ProcTimeout
  <2>1. file = <<>> /\ batch = <<>> => file' = <<>> /\ batch' = <<>>
    BY <1>10 DEF ProcTimeout, Flush
  <2> QED BY <1>1, <1>10, <2>1 DEF ProcTimeout, Unstarted
<1>11. CASE ProcCheck
  BY <1>1, <1>11 DEF ProcCheck, Unstarted
<1> QED BY <1>2, <1>3, <1>4, <1>5, <1>6, <1>7, <1>8, <1>9, <1>10, <1>11, AsideSteps, Zenon
     DEF Loop, Answered, Writer

(* processed is cleared only while nothing is stored.                      *)
LEMMA ProcessedStep ==
  ASSUME RecvInv, [Next]_vars
  PROVE  Processed'
<1> USE DEF loopVars, ackVars, procVars, netVars
<1>1. Processed /\ Unstarted /\ LoopTypes
  BY TypeParts, Zenon DEF RecvInv
<1>2. /\ Range(Stored') \subseteq Range(Stored) \/ SendMsg
      /\ pc = "store" /\ pc' = "ack" => Range(Stored') \subseteq Range(Stored) \cup {id}
  BY StoredGrows, Zenon
<1>3. CASE Configured
  <2>1. Stored = <<>> /\ Stored' = <<>>
    BY <1>1, <1>3 DEF Unstarted, Configured, Handshaking, Stored
  <2>2. Range(Stored') = {}
    BY <2>1, EmptyFacts, Zenon
  <2> QED BY <1>3, <2>2 DEF Processed, Configured, Configuring
<1>4. CASE ReadPiece
  <2>1. Stored' = Stored
    BY <1>4 DEF ReadPiece, Stored
  <2>2. \/ UNCHANGED <<pc, id, processed>>
        \/ pc' = "top" /\ UNCHANGED <<id, processed>>
        \/ id' \notin processed /\ processed' = processed \cup {id'}
    BY <1>4, Zenon DEF ReadPiece, TakeLine
  <2> QED BY <1>1, <2>1, <2>2 DEF Processed
<1>5. CASE SendMsg
  BY <1>1, <1>2, <1>5 DEF Processed, SendMsg
<1>6. CASE ~ Configured /\ ~ ReadPiece /\ ~ SendMsg
  <2>1. processed' = processed /\ (pc' = "store" => pc = "store" /\ id' = id)
    <3>1. CASE Aside \/ Writer
      BY <3>1, Zenon DEF Aside, Writer, OpenFile, ProcRecv, ProcTimeout, ProcCheck
    <3>2. CASE Loop
      BY <1>6, <3>2 DEF Loop, LoopAgain, HandshakeFails, Top, ReadTimeout, ReadEnds,
         SendAck, Cleanup, Exit
    <3>3. CASE Answered
      BY <1>6, <3>3 DEF Answered, Connect, ConnectFails, Registered, HandshakeRefused,
         ShutdownStream
    <3> QED BY <3>1, <3>2, <3>3, AsideSteps, Zenon
  <2> QED BY <1>1, <1>2, <1>6, <2>1 DEF Processed
<1> QED BY <1>3, <1>4, <1>5, <1>6, Zenon

(* The writer task writes its batch before it looks at running.            *)
LEMMA StoppedStep ==
  ASSUME RecvInv, [Next]_vars
  PROVE  Stopped'
<1> USE DEF loopVars, ackVars, procVars, netVars
<1>1. Stopped /\ WireTypes /\ (running' => running)
  BY TypeParts, RunningFalls, Zenon DEF RecvInv
<1>2. CASE UNCHANGED <<ppc, batch, unsaved>>
  BY <1>1, <1>2, Zenon DEF Stopped
<1>3. CASE Aside \/ Loop \/ Answered
  <2>1. UNCHANGED <<ppc, batch, unsaved>>
    <3>1. CASE Aside
      BY <3>1, Zenon DEF Aside
    <3>2. CASE Loop
      BY <3>2, Zenon DEF Loop, LoopAgain, HandshakeFails, Top, ReadPiece, ReadTimeout,
         ReadEnds, SendMsg, SendAck, Cleanup, Exit
    <3>3. CASE Answered
      BY <3>3, Zenon DEF Answered, Connect, ConnectFails, Registered, Configured,
         HandshakeRefused, ShutdownStream
    <3> QED BY <1>3, <3>1, <3>2, <3>3, Zenon
  <2> QED BY <1>2, <2>1, Zenon
<1>4. CASE OpenFile
  BY <1>1, <1>4 DEF OpenFile, Stopped
<1>5. CASE ProcRecv
  BY <1>1, <1>5 DEF ProcRecv, Stopped
<1>6. CASE ProcTimeout
  BY <1>1, <1>6 DEF ProcTimeout, Flush, Stopped
<1>7. CASE ProcCheck
  BY <1>1, <1>7 DEF ProcCheck, Stopped
<1> QED BY <1>3, <1>4, <1>5, <1>6, <1>7, AsideSteps, Zenon DEF Writer

(* A message goes from the writer's channel to the ACK sender and then to  *)
(* the broker, and stays kept on the way.                                  *)
LEMMA AcksKeptStep ==
  ASSUME RecvInv, [Next]_vars
  PROVE  AcksKept'
<1> USE DEF loopVars, ackVars, procVars, netVars
<1> SUFFICES ASSUME running' PROVE AcksKept'
  BY Zenon DEF AcksKept
<1>1. AcksKept /\ LoopTypes /\ AckTypes /\ running
  BY TypeParts, RunningFalls, Zenon DEF RecvInv
<1>2. Kept \subseteq Kept' /\ (pc = "store" /\ pc' = "ack" => id \in Kept')
  BY <1>1, StoredGrows, Zenon
<1>3. pc' = "ack" => id' = id /\ pc \in {"store", "ack"}
  <2>1. CASE Aside \/ Writer
    BY <2>1, Zenon DEF Aside, Writer, OpenFile, ProcRecv, ProcTimeout, ProcCheck
  <2>2. CASE Loop
    BY <2>2, Zenon DEF Loop, LoopAgain, HandshakeFails, Top, ReadPiece, TakeLine, ReadTimeout,
       ReadEnds, SendMsg, SendAck, Cleanup, Exit
  <2>3. CASE Answered
    BY <2>3 DEF Answered, Connect, ConnectFails, Registered, Configured, Configuring,
       HandshakeRefused, ShutdownStream
  <2> QED BY <2>1, <2>2, <2>3, AsideSteps, Zenon
<1>4. pc' = "ack" => id' \in Kept'
  BY <1>1, <1>2, <1>3 DEF AcksKept
<1>5. CASE UNCHANGED <<acks, aid, acked>> /\ (apc' = "write" => apc = "write")
  BY <1>1, <1>2, <1>4, <1>5 DEF AcksKept
<1>6. CASE Connect
  <2>1. Range(acks') = {}
    BY <1>6, EmptyFacts, Zenon DEF Connect
  <2> QED BY <1>1, <1>2, <1>4, <1>6, <2>1 DEF AcksKept, Connect
<1>7. CASE SendAck
  <2>1. CASE apc = "stopped"
    <3>1. UNCHANGED <<acks, aid, acked, apc>>
      BY <1>7, <2>1, Zenon DEF SendAck
    <3> QED BY <1>5, <3>1, Zenon
  <2>2. CASE apc # "stopped"
    <3>1. acks \in Seq(Msgs) /\ id \in Msgs /\ id \in Kept
      BY <1>1, <1>7 DEF LoopTypes, AckTypes, AcksKept, SendAck
    <3>2. Range(Append(acks, id)) = Range(acks) \cup {id}
      BY <3>1, AppendFacts, SMTT(30)
    <3>3. acks' = Append(acks, id) /\ UNCHANGED <<apc, aid, acked>>
      BY <1>7, <2>2, Zenon DEF SendAck
    <3> QED BY <1>1, <1>2, <1>4, <3>1, <3>2, <3>3, Zenon DEF AcksKept
  <2> QED BY <2>1, <2>2, Zenon
<1>8. CASE AckRecv
  <2>1. Range(acks) = Range(Tail(acks)) \cup {Head(acks)}
    BY <1>1, <1>8, TailFacts, Zenon DEF AckTypes, AckRecv
  <2>2. aid' = Head(acks) /\ acks' = Tail(acks) /\ acked' = acked
    BY <1>8, Zenon DEF AckRecv
  <2> QED BY <1>1, <1>2, <1>4, <2>1, <2>2, Zenon DEF AcksKept
<1>9. CASE AckWrite
  BY <1>1, <1>2, <1>4, <1>9 DEF AcksKept, AckWrite
<1>10. CASE AckTop \/ AckTimeout
  <2>1. UNCHANGED <<acks, aid, acked>> /\ apc' # "write"
    BY <1>10, Zenon DEF AckTop, AckTimeout
  <2> QED BY <1>5, <2>1, Zenon
<1>11. CASE (Loop \/ Answered) /\ ~ Connect /\ ~ SendAck
  <2>1. UNCHANGED <<acks, aid, acked>> /\ (apc' = "write" => apc = "write")
    <3>1. CASE Loop
      BY <1>11, <3>1, Zenon DEF Loop, LoopAgain, HandshakeFails, Top, ReadPiece, ReadTimeout,
         ReadEnds, SendMsg, Cleanup, Exit
    <3>2. CASE Answered
      BY <1>11, <3>2, Zenon DEF Answered, ConnectFails, Registered, Configured,
         HandshakeRefused, ShutdownStream
    <3> QED BY <1>11, <3>1, <3>2, Zenon
  <2> QED BY <1>5, <2>1, Zenon
<1>12. CASE ~ Loop /\ ~ Answered /\ ~ AckSender /\ ~ AckWrite
  <2>1. UNCHANGED <<acks, aid, acked, apc>>
    BY <1>12, Zenon DEF Next, HeartbeatEnds, Writer, OpenFile, ProcRecv, ProcTimeout,
       ProcCheck, Push, ConnectionLost, Sigint, vars
  <2> QED BY <1>5, <2>1, Zenon
<1> QED BY <1>6, <1>7, <1>8, <1>9, <1>10, <1>11, <1>12, Zenon DEF AckSender

-----------------------------------------------------------------------------
(* RecvInv is an invariant of the receiver.                                *)
LEMMA RecvInvAlways == Spec => []RecvInv
<1>1. Init => RecvInv
  <2> SUFFICES ASSUME Init PROVE RecvInv
    OBVIOUS
  <2>1. Stored = <<>> /\ Range(Stored) = {} /\ IsInjective(Stored) /\ Range(acks) = {}
    <3>1. Stored = <<>> /\ acks = <<>>
      BY DEF Init, Stored
    <3> QED BY <3>1, EmptyFacts, Zenon
  <2>2. Flags
    BY Zenon DEF Init, Flags
  <2>3. LoopTypes /\ AckTypes /\ WireTypes /\ StoreTypes
    <3>1. /\ <<>> \in Seq(Msgs \X {1}) /\ <<>> \in Seq(Msgs \X {1, 2})
          /\ <<>> \in Seq(Msgs) /\ Len(<<>>) = 0
      BY EmptyFacts, Zenon
    <3>2. pushes \in [Msgs -> Nat]
      BY DEF Init
    <3> QED BY <3>1, <3>2, ReceiverAssumption
         DEF Init, LoopTypes, AckTypes, WireTypes, StoreTypes
  <2>4. Unstarted /\ Stopped
    BY DEF Init, Unstarted, Stopped
  <2>5. Processed /\ AcksKept
    BY <2>1 DEF Init, Processed, AcksKept
  <2>6. StoredOnce
    BY <2>1, Zenon DEF Stored, StoredOnce
  <2> QED BY <2>2, <2>3, <2>4, <2>5, <2>6, TypeParts, Zenon DEF RecvInv
<1>2. RecvInv /\ [Next]_vars => RecvInv'
  <2> SUFFICES ASSUME RecvInv, [Next]_vars PROVE RecvInv'
    OBVIOUS
  <2>1. Flags /\ LoopTypes /\ AckTypes /\ WireTypes
    BY TypeParts, Zenon DEF RecvInv
  <2>2. Flags' /\ LoopTypes' /\ AckTypes' /\ WireTypes'
    BY <2>1, FlagsStep, LoopTypesStep, AckTypesStep, WireTypesStep, Zenon
  <2>3. StoreTypes' /\ StoredOnce'
    BY StoredGrows, Zenon
  <2>4. (TypeOK /\ InHand)'
    BY <2>2, <2>3, TypeParts, PTL
  <2> QED BY <2>3, <2>4, UnstartedStep, ProcessedStep, StoppedStep, AcksKeptStep, Zenon
       DEF RecvInv
<1> QED BY <1>1, <1>2, PTL DEF Spec

(* The receiver's state has its types: no channel is sent more than it     *)
(* holds and the batch never reaches BATCH records between two steps,      *)
(* whatever the connection, the file and the user do.                      *)
THEOREM ReceiverTypes == Spec => []TypeOK
<1>1. RecvInv => TypeOK
  BY Zenon DEF RecvInv
<1> QED BY <1>1, RecvInvAlways, PTL

(* process_messages_task writes no message twice, however often the broker *)
(* pushes it: receive_loop forgets what it has processed only before the   *)
(* first message.                                                          *)
THEOREM NothingStoredTwice == Spec => []StoredOnce
<1>1. RecvInv => StoredOnce
  BY Zenon DEF RecvInv
<1> QED BY <1>1, RecvInvAlways, PTL

(* While the process runs, what the broker has got an ack for is in the    *)
(* file or on its way to it, but for what a logged error of the file hits: *)
(* the ack is sent after msg_tx.send, which waits for room, and no task    *)
(* drops the channel.  And the writer task ends only with its batch        *)
(* written: it tests running after flush_batch.                            *)
THEOREM AcknowledgedIsKept == Spec => []AckedIsKept
<1>1. RecvInv => AckedIsKept
  <2> SUFFICES ASSUME RecvInv PROVE AckedIsKept
    OBVIOUS
  <2>1. ASSUME running PROVE acked \ unsaved \subseteq Range(file \o batch \o msgs)
    <3>1. acked \subseteq Range(Stored) \cup unsaved
      BY <2>1, Zenon DEF RecvInv, AcksKept, Kept
    <3> QED BY <3>1, Zenon DEF Stored
  <2>2. ppc = "stopped" => batch = <<>>
    BY Zenon DEF RecvInv, Stopped
  <2> QED BY <2>1, <2>2, Zenon DEF AckedIsKept
<1> QED BY <1>1, RecvInvAlways, PTL
=============================================================================
