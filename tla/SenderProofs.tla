---------------------------- MODULE SenderProofs -----------------------------
(***************************************************************************)
(* What the sender's pipeline takes for confirmed is stored, and what it   *)
(* leaves unconfirmed is reported: for any number of items, batch size,    *)
(* retries, answers and reads of the server, and with any of the faults.   *)
(* Until the retries every permit of the semaphore is accounted for, and   *)
(* the items in flight stay within max_inflight.                           *)
(***************************************************************************)
EXTENDS Sender, FiniteSetTheorems, TLAPS

(* Zenon proves what follows, unless a leaf asks for another prover.       *)
USE ZenonT(30)

-----------------------------------------------------------------------------
(* The inductive invariant.                                                *)

(* A result of the ACK reader, confirming nothing outside of S.            *)
Lines(S) == {Ok(id) : id \in S} \cup {Other, IoError}

(* What the program counter says of the main task's other locals.          *)
Place ==
  /\ pc \in {"acquire", "write"} => i <= N
  /\ pc \in {"retry", "wait"} => em \in Sent
  /\ pc = "wait" => attempt < max_retries
  /\ pc \in {"join", "done"} => unacked = {}
  /\ pc \notin {"acquire", "write", "poll"} => i = N + 1

(* A command is of a sent item, a confirmation in the server's replies is  *)
(* of a stored one, one that the reader has passed on is not pending.      *)
Flow ==
  /\ pending \subseteq Sent
  /\ unacked \subseteq Sent
  /\ wire \in Seq(Sent \X {1, 2})
  /\ accepted \subseteq Sent
  /\ replies \in Seq(Lines(accepted))
  /\ result \in Lines(Sent \ pending)
  /\ ack_chan \in Seq(Lines(Sent \ pending))

(* The item the main task is retrying.                                     *)
Retried == IF pc \in {"retry", "wait"} THEN {em} ELSE {}

(* From the retries on, a pending item is retried, about to be, or given up.*)
Kept == Sending \/ pending \subseteq unacked \cup final_failed \cup Retried

(* The fields that Flow does not speak of have their types.                *)
Locals ==
  /\ pc \in {"acquire", "write", "poll", "drain", "collect", "next", "retry",
             "wait", "join", "done"}
  /\ i \in 1 .. N + 1
  /\ permits \in Nat
  /\ failed_ids \subseteq Items
  /\ em \in Items \cup {NoItem}
  /\ attempt \in 0 .. max_retries
  /\ final_failed \subseteq Items
  /\ Len(ack_chan) <= 2 * max_inflight
  /\ rpc \in {"read", "deliver", "last", "stopped"}
  /\ conn \in {"up", "lost", "broken"}
  /\ taken \subseteq Items

ItemInv == Locals /\ Place /\ Flow /\ Kept /\ ConfirmedIsStored

-----------------------------------------------------------------------------
(* The sequences the channels and the connection are made of.              *)

(* A sequence over a set is one over a larger set.                         *)
LEMMA SeqWiden ==
  ASSUME NEW A, NEW B, A \subseteq B, NEW s \in Seq(A)
  PROVE  s \in Seq(B)
BY SMTT(30)

(* Receiving from a channel.                                               *)
LEMMA SeqTail ==
  ASSUME NEW A, NEW s \in Seq(A), s # <<>>
  PROVE  Head(s) \in A /\ Tail(s) \in Seq(A) /\ Len(Tail(s)) = Len(s) - 1
BY SMTT(30)

(* Sending a result into a channel, or a line to the client.               *)
LEMMA SeqAppend ==
  ASSUME NEW A, NEW s \in Seq(A), NEW x \in A
  PROVE  Append(s, x) \in Seq(A) /\ Len(Append(s, x)) = Len(s) + 1
BY SMTT(30)

(* What a read leaves on the wire, and what a lost connection has passed.  *)
LEMMA SeqCut ==
  ASSUME NEW A, NEW s \in Seq(A)
  PROVE  /\ \A n \in 0 .. Len(s) : SubSeq(s, 1, n) \in Seq(A)
         /\ \A n \in 0 .. Len(s) : SubSeq(s, n + 1, Len(s)) \in Seq(A)
BY SMTT(30)

(* A command is two pieces more.                                           *)
LEMMA SeqPut ==
  ASSUME NEW A, NEW s \in Seq(A), NEW x \in A, NEW y \in A
  PROVE  s \o <<x, y>> \in Seq(A)
<1>1. <<x, y>> \in Seq(A)
  BY SMTT(30)
<1> QED BY <1>1, SMTT(30)

-----------------------------------------------------------------------------
(* The items.                                                              *)

(* The next item is not yet sent; after its turn it is.                    *)
LEMMA SentFacts ==
  ASSUME Locals
  PROVE  /\ Sent \subseteq Items
         /\ i \notin Sent
         /\ i' = i => Sent' = Sent
         /\ i' = i + 1 => Sent' = Sent \cup {i}
BY SenderAssumption, SMTT(30) DEF Locals, Sent, Items

(* More items confirm more lines, all of them results.                     *)
LEMMA LinesWiden ==
  /\ \A S, T : S \subseteq T => Lines(S) \subseteq Lines(T)
  /\ \A S : S \subseteq Items => Lines(S) \subseteq Replies
BY DEF Lines, Replies

(* The invariant has what TypeOK says of the sequences.                    *)
LEMMA ItemInvTypes ==
  ASSUME ItemInv
  PROVE  TypeOK
<1>1. Sent \subseteq Items /\ Locals /\ Flow
  BY SentFacts DEF ItemInv
<1>2. accepted \subseteq Items /\ Sent \ pending \subseteq Items
  BY <1>1 DEF Flow
<1>3. replies \in Seq(Replies)
  BY <1>1, <1>2, LinesWiden, SeqWiden DEF Flow
<1>4. ack_chan \in Seq(Replies) /\ result \in Replies
  BY <1>1, <1>2, LinesWiden, SeqWiden DEF Flow
<1>5. Sent \X {1, 2} \subseteq Items \X {1, 2}
  BY <1>1
<1>6. wire \in Seq(Items \X {1, 2})
  BY <1>1, <1>5, SeqWiden DEF Flow
<1> QED BY <1>1, <1>2, <1>3, <1>4, <1>6 DEF TypeOK, Flow, Locals

(* A step of the main task that may receive a result and writes nothing.   *)
Receives ==
  /\ UNCHANGED <<i, pending, wire, accepted, replies, result>>
  /\ \/ UNCHANGED ack_chan
     \/ ack_chan # <<>> /\ ack_chan' = Tail(ack_chan)

(* The main task receives from a bounded channel.                          *)
LEMMA ReceiveStep ==
  ASSUME Locals, Flow, Receives, unacked' \subseteq Sent
  PROVE  /\ Flow'
         /\ Len(ack_chan') <= 2 * max_inflight
         /\ Sent' = Sent
<1>1. Sent' = Sent
  BY SentFacts DEF Receives
<1>2. ack_chan' \in Seq(Lines(Sent \ pending))
  <2>1. ack_chan \in Seq(Lines(Sent \ pending))
    BY DEF Flow
  <2>2. ack_chan # <<>> => Tail(ack_chan) \in Seq(Lines(Sent \ pending))
    BY <2>1, SeqTail
  <2> QED BY <2>1, <2>2 DEF Receives
<1>3. Len(ack_chan') <= 2 * max_inflight
  <2>1. CASE UNCHANGED ack_chan
    BY <2>1 DEF Locals
  <2>2. CASE ack_chan # <<>> /\ ack_chan' = Tail(ack_chan)
    <3>1. Len(ack_chan') = Len(ack_chan) - 1 /\ Len(ack_chan) \in Nat
      BY <2>2, SeqTail, SMTT(30) DEF Flow
    <3> QED BY <3>1, SenderAssumption, SMTT(30) DEF Locals
  <2> QED BY <2>1, <2>2 DEF Receives
<1>4. Flow'
  <2>1. UNCHANGED <<pending, wire, accepted, replies, result>>
    BY DEF Receives
  <2> QED BY <1>1, <1>2, <2>1 DEF Flow
<1> QED BY <1>1, <1>3, <1>4

(* Sending, up to the retries: no item changes hands.                      *)
LEMMA ItemsSending ==
  ASSUME ItemInv, Acquire \/ Poll \/ Drain \/ DrainEnds
  PROVE  ItemInv'
<1> USE DEF ItemInv
<1>1. Receives /\ UNCHANGED unacked
  BY DEF Acquire, Poll, Drain, DrainEnds, Receives, readerVars, serverVars
<1>2. Flow' /\ Len(ack_chan') <= 2 * max_inflight /\ Sent' = Sent
  BY <1>1, ReceiveStep DEF Flow
<1>3. /\ pc \in {"acquire", "poll", "drain"}
      /\ pc' \in {"acquire", "write", "poll", "drain", "collect"}
      /\ UNCHANGED <<failed_ids, em, attempt, final_failed, rpc, conn, taken>>
  BY DEF Acquire, Poll, Drain, DrainEnds, readerVars, serverVars
<1>4. permits' \in Nat
  BY SMTT(30) DEF Acquire, Poll, Drain, DrainEnds, Locals
<1>5. Locals'
  BY <1>1, <1>2, <1>3, <1>4 DEF Receives, Locals
<1>6. /\ pc' \in {"acquire", "write"} => i <= N
      /\ pc' \in {"drain", "collect"} => i = N + 1
  BY SenderAssumption, SMTT(30) DEF Acquire, Poll, Drain, DrainEnds, Place, Locals
<1>7. Place'
  BY <1>1, <1>3, <1>6 DEF Place, Receives
<1>8. Kept' /\ ConfirmedIsStored'
  BY <1>1, <1>2, <1>3 DEF Kept, Sending, ConfirmedIsStored, Receives
<1> QED BY <1>2, <1>5, <1>7, <1>8

(* Collecting and retrying: a pending item stays in one of three places.   *)
LEMMA ItemsRetrying ==
  ASSUME ItemInv,
         Collect \/ NextRetry \/ RetryAnswer \/ RetryTimeout
           \/ RetriesExhausted \/ RetryWriteFails \/ Join
  PROVE  ItemInv'
<1> USE DEF ItemInv
<1>1. Receives /\ UNCHANGED <<permits, rpc, taken>>
  BY DEF Collect, NextRetry, RetryAnswer, RetryTimeout, RetriesExhausted,
    RetryWriteFails, Join, Receives, readerVars, serverVars
<1>2. unacked' \subseteq Sent
  BY DEF Collect, NextRetry, RetryAnswer, RetryTimeout, RetriesExhausted,
    RetryWriteFails, Join, Flow
<1>3. Flow' /\ Len(ack_chan') <= 2 * max_inflight /\ Sent' = Sent
  BY <1>1, <1>2, ReceiveStep
<1>4. /\ pc' \in {"next", "retry", "join", "done"}
      /\ failed_ids \subseteq failed_ids' /\ failed_ids' \subseteq failed_ids \cup pending
      /\ conn' \in {conn, "broken"}
      /\ final_failed' \in {final_failed, final_failed \cup {em}}
      /\ pc' \in {"retry", "wait"} => em' \in Sent
      /\ em' \in Sent \cup {em}
  BY DEF Collect, NextRetry, RetryAnswer, RetryTimeout, RetriesExhausted,
    RetryWriteFails, Join, Flow, Place
<1>5. attempt' \in 0 .. max_retries
  BY SenderAssumption, SMTT(30) DEF Collect, NextRetry, RetryAnswer, RetryTimeout,
    RetriesExhausted, RetryWriteFails, Join, Locals, Place
<1>6. final_failed' \subseteq Items
  BY <1>1, SentFacts DEF Collect, NextRetry, RetryAnswer, RetryTimeout,
    RetriesExhausted, RetryWriteFails, Join, Locals, Place
<1>7. Locals'
  BY <1>1, <1>3, <1>4, <1>5, <1>6, SentFacts DEF Receives, Locals, Flow
<1>8. pc' \in {"join", "done"} => unacked' = {}
  BY DEF Collect, NextRetry, RetryAnswer, RetryTimeout, RetriesExhausted,
    RetryWriteFails, Join, Place
<1>9. Place'
  <2>1. pc \notin {"acquire", "write", "poll"} /\ i' = i
    BY DEF Collect, NextRetry, RetryAnswer, RetryTimeout, RetriesExhausted,
      RetryWriteFails, Join
  <2>2. pc' = "wait" => attempt' < max_retries
    BY <1>4
  <2> QED BY <1>3, <1>4, <1>8, <2>1, <2>2 DEF Place
<1>10. Kept'
  <2>1. CASE Collect
    BY <2>1 DEF Collect, Kept
  <2>2. CASE NextRetry
    BY <2>2 DEF NextRetry, Kept, Sending, Retried
  <2>3. CASE RetryAnswer
    <3>1. Head(ack_chan) \in Lines(Sent \ pending)
      BY <2>3, SeqTail DEF RetryAnswer, Flow
    <3>2. Head(ack_chan) = Ok(em) => em \notin pending
      BY <3>1, SMTT(30) DEF Lines, Ok, Other, IoError
    <3> QED BY <2>3, <3>2 DEF RetryAnswer, Kept, Sending, Retried
  <2>4. CASE RetryTimeout \/ RetriesExhausted \/ RetryWriteFails \/ Join
    BY <2>4 DEF RetryTimeout, RetriesExhausted, RetryWriteFails, Join, Kept,
      Sending, Retried
  <2> QED BY <2>1, <2>2, <2>3, <2>4
<1>11. ConfirmedIsStored'
  BY <1>1, <1>3, <1>4 DEF ConfirmedIsStored, Receives
<1> QED BY <1>3, <1>7, <1>9, <1>10, <1>11

(* A command is written for a sent item.                                   *)
LEMMA PutFlow ==
  ASSUME NEW S, wire \in Seq(S \X {1, 2}), NEW id \in S, Put(id)
  PROVE  wire' \in Seq(S \X {1, 2})
<1>1. <<id, 1>> \in S \X {1, 2} /\ <<id, 2>> \in S \X {1, 2}
  OBVIOUS
<1>2. wire \o <<<<id, 1>>, <<id, 2>>>> \in Seq(S \X {1, 2})
  BY <1>1, SeqPut
<1> QED BY <1>2 DEF Put

(* The item of a write is sent from then on: pending, or failed.           *)
LEMMA ItemsWrite ==
  ASSUME ItemInv, Write \/ WriteFails
  PROVE  ItemInv'
<1> USE DEF ItemInv
<1>1. /\ pc = "write" /\ NextItem /\ i <= N
      /\ UNCHANGED <<unacked, em, attempt, final_failed, ack_chan, rpc, result,
                     replies, accepted, taken>>
  BY DEF Write, WriteFails, Place, readerVars, serverVars
<1>2. /\ Sent' = Sent \cup {i} /\ i \notin Sent /\ i \in Items
      /\ i' \in 1 .. N + 1
      /\ pc' \in {"acquire", "poll"}
      /\ pc' = "acquire" => i' <= N
  BY <1>1, SentFacts, SenderAssumption, SMTT(30) DEF NextItem, Locals, Items
<1>3. /\ pending \subseteq pending' /\ pending' \subseteq pending \cup {i}
      /\ failed_ids \subseteq failed_ids' /\ failed_ids' \subseteq failed_ids \cup {i}
      /\ i \in pending' \cup failed_ids'
      /\ i \in pending' \/ UNCHANGED pending
      /\ conn' \in {conn, "broken"}
  BY DEF Write, WriteFails
<1>4. permits' \in Nat
  BY SMTT(30) DEF Write, WriteFails, Locals
<1>5. Locals'
  BY <1>1, <1>2, <1>3, <1>4 DEF Locals
<1>6. Place' /\ Kept'
  BY <1>2 DEF Place, Kept, Sending
<1>7. wire' \in Seq(Sent' \X {1, 2})
  <2>1. Sent \X {1, 2} \subseteq Sent' \X {1, 2}
    BY <1>2
  <2>2. wire \in Seq(Sent' \X {1, 2})
    BY <2>1, SeqWiden DEF Flow
  <2> QED BY <1>2, <2>2, PutFlow DEF Write, WriteFails, serverVars
<1>8. Lines(Sent \ pending) \subseteq Lines(Sent' \ pending')
  BY <1>2, <1>3, LinesWiden
<1>9. ack_chan' \in Seq(Lines(Sent' \ pending')) /\ result' \in Lines(Sent' \ pending')
  BY <1>1, <1>8, SeqWiden DEF Flow
<1>10. Flow'
  BY <1>1, <1>2, <1>3, <1>7, <1>9 DEF Flow
<1>11. ConfirmedIsStored'
  BY <1>1, <1>2, <1>3 DEF ConfirmedIsStored
<1> QED BY <1>5, <1>6, <1>10, <1>11

(* A retry writes the command of an item sent before.                      *)
LEMMA ItemsRetryWrite ==
  ASSUME ItemInv, RetryWrite
  PROVE  ItemInv'
<1> USE DEF ItemInv
<1>1. /\ pc = "retry" /\ pc' = "wait" /\ Put(em)
      /\ attempt < max_retries
      /\ UNCHANGED <<i, unacked, em, attempt, final_failed, failed_ids, permits,
                     pending, ack_chan, rpc, result, conn, replies, accepted, taken>>
  BY DEF RetryWrite, readerVars
<1>2. Sent' = Sent /\ em \in Sent
  BY <1>1, SentFacts DEF Place
<1>3. wire' \in Seq(Sent \X {1, 2})
  BY <1>1, <1>2, PutFlow DEF Flow
<1>4. Flow'
  BY <1>1, <1>2, <1>3 DEF Flow
<1>5. Locals'
  BY <1>1 DEF Locals
<1>6. Place' /\ Kept' /\ ConfirmedIsStored'
  BY <1>1, <1>2 DEF Place, Kept, Sending, Retried, ConfirmedIsStored
<1> QED BY <1>4, <1>5, <1>6

(* A line is an ACK of one of the items, or confirms nothing.              *)
LEMMA LineIsAck ==
  ASSUME NEW S, NEW line \in Lines(S)
  PROVE  IF line[1] = "ok" THEN line[2] \in S /\ line = Ok(line[2])
                           ELSE \A T : line \in Lines(T)
BY SMTT(30) DEF Lines, Ok, Other, IoError

(* The ACK reader takes a confirmed item off the pending map before it     *)
(* passes the ACK on.                                                      *)
LEMMA ItemsReader ==
  ASSUME ItemInv, Reader
  PROVE  ItemInv'
<1> USE DEF ItemInv
<1>1. /\ UNCHANGED <<pc, i, unacked, em, attempt, final_failed, failed_ids, conn,
                     wire, accepted, taken>>
      /\ pending' \subseteq pending
      /\ rpc' \in {"read", "deliver", "last", "stopped"}
  BY DEF Reader, ReadLine, Deliver, ReadTimeout, ReadEof, ReadError, mainVars,
    serverVars
<1>2. permits' \in Nat
  BY SMTT(30) DEF Reader, ReadLine, Deliver, ReadTimeout, ReadEof, ReadError, Locals
<1>3. Sent' = Sent
  BY <1>1, SentFacts
<1>4. Lines(Sent \ pending) \subseteq Lines(Sent \ pending')
  BY <1>1, LinesWiden
<1>5. Place' /\ Kept'
  BY <1>1, <1>3 DEF Place, Kept, Sending, Retried
<1>6. ASSUME ReadLine PROVE ItemInv'
  <2> DEFINE head == Head(replies)
  <2>1. head \in Lines(accepted) /\ replies' \in Seq(Lines(accepted))
    BY <1>6, SeqTail DEF ReadLine, Flow
  <2>2. pending' = IF head[1] = "ok" THEN pending \ {head[2]} ELSE pending
    BY <1>6 DEF ReadLine
  <2>3. UNCHANGED ack_chan /\ result' = head
    BY <1>6 DEF ReadLine
  <2> HIDE DEF head
  <2>4. head[1] = "ok" => head[2] \in accepted /\ head = Ok(head[2])
    BY <2>1, LineIsAck
  <2>5. head \in Lines(Sent \ pending')
    <3>1. CASE head[1] = "ok"
      <4>1. head[2] \in Sent \ pending'
        BY <3>1, <2>2, <2>4 DEF Flow
      <4> QED BY <3>1, <4>1, <2>4 DEF Lines
    <3>2. CASE head[1] # "ok"
      BY <3>2, <2>1, LineIsAck
    <3> QED BY <3>1, <3>2
  <2>6. ack_chan \in Seq(Lines(Sent \ pending'))
    BY <1>4, SeqWiden DEF Flow
  <2>7. Flow'
    BY <1>1, <1>3, <2>1, <2>3, <2>5, <2>6 DEF Flow
  <2>8. Locals'
    BY <1>1, <1>2, <2>3 DEF Locals
  <2>9. ConfirmedIsStored'
    BY <1>1, <1>3, <2>2, <2>4 DEF ConfirmedIsStored
  <2> QED BY <1>5, <2>7, <2>8, <2>9
<1>7. ASSUME Reader, ~ ReadLine PROVE ItemInv'
  <2>1. UNCHANGED <<pending, replies>> /\ result' \in {result, IoError}
    BY <1>7 DEF Reader, Deliver, ReadTimeout, ReadEof, ReadError, serverVars
  <2>2. /\ ack_chan' \in Seq(Lines(Sent \ pending))
        /\ Len(ack_chan') <= 2 * max_inflight
    <3>1. CASE Deliver
      <4>1. /\ ack_chan \in Seq(Lines(Sent \ pending))
            /\ result \in Lines(Sent \ pending)
        BY DEF Flow
      <4>2. ack_chan' = Append(ack_chan, result) /\ Len(ack_chan) < 2 * max_inflight
        BY <3>1 DEF Deliver
      <4>3. /\ ack_chan' \in Seq(Lines(Sent \ pending))
            /\ Len(ack_chan') = Len(ack_chan) + 1
        BY <4>1, <4>2, SeqAppend
      <4>4. Len(ack_chan) \in Nat
        BY <4>1, SMTT(30)
      <4> QED BY <4>2, <4>3, <4>4, SenderAssumption, SMTT(30)
    <3>2. CASE UNCHANGED ack_chan
      BY <3>2 DEF Flow, Locals
    <3> QED BY <1>7, <3>1, <3>2 DEF Reader, ReadTimeout, ReadEof, ReadError
  <2>3. result' \in Lines(Sent \ pending)
    BY <2>1 DEF Flow, Lines
  <2>4. Flow'
    BY <1>1, <1>3, <2>1, <2>2, <2>3 DEF Flow
  <2>5. Locals'
    BY <1>1, <1>2, <2>2 DEF Locals
  <2>6. ConfirmedIsStored'
    BY <1>1, <1>3, <2>1 DEF ConfirmedIsStored
  <2> QED BY <1>5, <2>4, <2>5, <2>6
<1> QED BY <1>6, <1>7

(* The server stores a sent item before it confirms it.                    *)
LEMMA ItemsServer ==
  ASSUME ItemInv, ServerReads
  PROVE  ItemInv'
<1> USE DEF ItemInv
<1>1. UNCHANGED <<pc, i, unacked, em, attempt, final_failed, failed_ids, permits,
                 pending, ack_chan, rpc, result, conn>>
  BY DEF ServerReads, mainVars, readerVars
<1>2. Sent' = Sent
  BY <1>1, SentFacts
<1>3. wire' \in Seq(Sent \X {1, 2})
  <2>1. PICK n \in Reads : n <= Len(wire) /\ wire' = SubSeq(wire, n + 1, Len(wire))
    BY DEF ServerReads
  <2>2. wire \in Seq(Sent \X {1, 2})
    BY DEF Flow
  <2>3. n \in 0 .. Len(wire)
    BY <2>1, <2>2, SenderAssumption, SMTT(30)
  <2> QED BY <2>1, <2>2, <2>3, SeqCut
<1>4. /\ accepted \subseteq accepted' /\ accepted' \subseteq Sent
      /\ replies' \in Seq(Lines(accepted'))
      /\ taken' \subseteq Items
  <2>1. CASE \E n \in Reads, id \in Items :
               /\ n <= Len(wire)
               /\ SubSeq(wire, 1, n) = <<<<id, 1>>, <<id, 2>>>>
               /\ Publish(id)
               /\ taken' = taken \cup {id}
    <3>1. PICK n \in Reads, id \in Items :
               /\ n <= Len(wire)
               /\ SubSeq(wire, 1, n) = <<<<id, 1>>, <<id, 2>>>>
               /\ Publish(id)
               /\ taken' = taken \cup {id}
      BY <2>1
    <3>2. n \in 0 .. Len(wire) /\ wire \in Seq(Sent \X {1, 2})
      BY <3>1, SenderAssumption, SMTT(30) DEF Flow
    <3>3. <<<<id, 1>>, <<id, 2>>>> \in Seq(Sent \X {1, 2})
      BY <3>1, <3>2, SeqCut
    <3>4. id \in Sent
      BY <3>3, SMTT(30)
    <3>5. accepted \subseteq accepted' /\ accepted' \subseteq accepted \cup {id}
      BY <3>1 DEF Publish
    <3>6. replies \in Seq(Lines(accepted'))
      BY <3>5, LinesWiden, SeqWiden DEF Flow
    <3>7. replies' \in Seq(Lines(accepted'))
      <4>1. Other \in Lines(accepted')
        BY DEF Lines
      <4>2. id \in accepted' => Ok(id) \in Lines(accepted')
        BY DEF Lines
      <4> QED BY <3>1, <3>6, <4>1, <4>2, SeqAppend DEF Publish
    <3> QED BY <3>1, <3>4, <3>5, <3>7 DEF Flow, Locals
  <2>2. CASE replies' = Append(replies, Other) /\ UNCHANGED <<accepted, taken>>
    <3>1. Other \in Lines(accepted)
      BY DEF Lines
    <3> QED BY <2>2, <3>1, SeqAppend DEF Flow, Locals
  <2> QED BY <2>1, <2>2 DEF ServerReads
<1>5. Flow'
  BY <1>1, <1>2, <1>3, <1>4 DEF Flow
<1>6. Locals'
  BY <1>1, <1>4 DEF Locals
<1>7. Place' /\ Kept' /\ ConfirmedIsStored'
  BY <1>1, <1>2, <1>4 DEF Place, Kept, Sending, Retried, ConfirmedIsStored
<1> QED BY <1>5, <1>6, <1>7

(* A lost connection takes commands and replies with it, and nothing else. *)
LEMMA ItemsLost ==
  ASSUME ItemInv, ConnectionLost
  PROVE  ItemInv'
<1> USE DEF ItemInv
<1>1. /\ UNCHANGED <<pc, i, unacked, em, attempt, final_failed, failed_ids,
                     permits, pending, ack_chan, rpc, result, accepted, taken>>
      /\ conn' = "lost" /\ wire' = <<>>
  BY DEF ConnectionLost, mainVars, readerVars
<1>2. Sent' = Sent
  BY <1>1, SentFacts
<1>3. <<>> \in Seq(Sent \X {1, 2})
  BY SMTT(30)
<1>4. replies' \in Seq(Lines(accepted))
  BY SeqCut DEF ConnectionLost, Flow
<1>5. Flow'
  BY <1>1, <1>2, <1>3, <1>4 DEF Flow
<1>6. Locals'
  BY <1>1 DEF Locals
<1>7. Place' /\ Kept' /\ ConfirmedIsStored'
  BY <1>1, <1>2 DEF Place, Kept, Sending, Retried, ConfirmedIsStored
<1> QED BY <1>5, <1>6, <1>7

(* Every step keeps the invariant of the items.                            *)
LEMMA ItemStep ==
  ItemInv /\ [Next]_vars => ItemInv'
<1> SUFFICES ASSUME ItemInv, [Next]_vars PROVE ItemInv'
  OBVIOUS
<1>1. CASE Main
  BY <1>1, ItemsSending, ItemsWrite, ItemsRetrying, ItemsRetryWrite DEF Main
<1>2. CASE UNCHANGED vars
  <2>1. /\ UNCHANGED <<pc, i, unacked, em, attempt, final_failed, failed_ids>>
        /\ UNCHANGED <<permits, pending, ack_chan, rpc, result, conn>>
        /\ UNCHANGED <<wire, replies, accepted, taken>>
    BY <1>2 DEF vars, mainVars, readerVars, serverVars
  <2>2. Sent' = Sent
    BY <2>1 DEF Sent
  <2>3. Locals'
    BY <2>1 DEF ItemInv, Locals
  <2>4. Flow'
    BY <2>1, <2>2 DEF ItemInv, Flow
  <2>5. Place' /\ Kept' /\ ConfirmedIsStored'
    BY <2>1, <2>2 DEF ItemInv, Place, Kept, Sending, Retried, ConfirmedIsStored
  <2> QED BY <2>3, <2>4, <2>5 DEF ItemInv
<1> QED BY <1>1, <1>2, ItemsReader, ItemsServer, ItemsLost DEF Next

(* At the start nothing is sent.                                           *)
LEMMA ItemInit ==
  Init => ItemInv
<1> SUFFICES ASSUME Init PROVE ItemInv
  OBVIOUS
<1> USE SenderAssumption DEF Init
<1>1. Sent = {}
  BY SMTT(30) DEF Sent
<1>2. Locals
  BY SMTT(30) DEF Locals
<1>3. Place
  BY SMTT(30) DEF Place
<1>4. Flow
  BY <1>1, SMTT(30) DEF Flow, Lines
<1>5. Kept /\ ConfirmedIsStored
  BY <1>1 DEF Kept, Sending, ConfirmedIsStored
<1> QED BY <1>2, <1>3, <1>4, <1>5 DEF ItemInv

(* Spec => []TypeOK: every local of the two tasks, and the bounded channel *)
(* between them, stays within its type.                                    *)
THEOREM PipelineTypes ==
  Spec => []TypeOK
<1>1. Spec => []ItemInv
  BY ItemInit, ItemStep, PTL DEF Spec
<1> QED BY <1>1, ItemInvTypes, PTL

(* The pending map and failed_ids never let go of an item that the broker  *)
(* has not stored.                                                         *)
THEOREM ConfirmedItemsStored ==
  Spec => []ConfirmedIsStored
<1>1. Spec => []ItemInv
  BY ItemInit, ItemStep, PTL DEF Spec
<1>2. ItemInv => ConfirmedIsStored
  BY DEF ItemInv
<1> QED BY <1>1, <1>2, PTL

(* Every written item without its ACK at the end has been logged as failed:*)
(* a retry is ended by the ACK of its own item only, which is then no      *)
(* longer pending, and an item leaves the map only stored or unwritten.    *)
THEOREM WrittenItemsReported ==
  Spec => []WrittenIsReported
<1>1. Spec => []ItemInv
  BY ItemInit, ItemStep, PTL DEF Spec
<1>2. ItemInv => WrittenIsReported
  <2> SUFFICES ASSUME ItemInv, pc = "done" PROVE WrittenIsReported
    BY DEF WrittenIsReported
  <2>1. pending \subseteq final_failed
    BY DEF ItemInv, Kept, Sending, Retried, Place
  <2>2. Items \subseteq Sent
    BY SenderAssumption, SMTT(30) DEF ItemInv, Place, Locals, Sent, Items
  <2>3. Items \ accepted \subseteq final_failed \cup (failed_ids \ pending)
    BY <2>1, <2>2 DEF ItemInv, ConfirmedIsStored
  <2> QED BY <2>1, <2>3 DEF WrittenIsReported
<1> QED BY <1>1, <1>2, PTL

-----------------------------------------------------------------------------
(* The permits of the semaphore: the inductive invariant on top of ItemInv.*)

(* The pieces on wire w are in the order of the items, each once, and of   *)
(* items in P.                                                             *)
InOrder(w, P) ==
  /\ \A k \in 1 .. Len(w) : w[k][1] \in P
  /\ \A j, k \in 1 .. Len(w) : j < k =>
       \/ w[j][1] < w[k][1]
       \/ w[j][1] = w[k][1] /\ w[j][2] < w[k][2]

(* The lines r confirm items in P, each once, and none that is still on    *)
(* wire w.                                                                 *)
Distinct(r, w, P) ==
  \A k \in 1 .. Len(r) : r[k][1] = "ok" =>
    /\ r[k][2] \in P
    /\ \A j \in 1 .. Len(w) : w[j][1] # r[k][2]
    /\ \A j \in 1 .. Len(r) : j # k => r[j] # r[k]

(* Until the retries each item is sent once, so it is confirmed once, and  *)
(* is pending until the reader has read that.                              *)
Once ==
  Sending => /\ failed_ids \subseteq Sent
             /\ InOrder(wire, pending)
             /\ Distinct(replies, wire, pending)

(* The permits of failed writes come after the last write that succeeds.   *)
Broken == Sending /\ conn # "broken" => failed_ids = {}

PermitInv == Once /\ Broken /\ PermitsAccounted /\ InFlightBound

-----------------------------------------------------------------------------
(* Pieces on the wire and lines of the server.                             *)

Pieces == Nat \X {1, 2}

(* Writing the command of the next item.                                   *)
LEMMA OrderPut ==
  ASSUME NEW P, NEW w \in Seq(Pieces), InOrder(w, P),
         NEW id \in Nat, \A p \in P : p \in Nat /\ p < id
  PROVE  InOrder(w \o <<<<id, 1>>, <<id, 2>>>>, P \cup {id})
<1> DEFINE v == w \o <<<<id, 1>>, <<id, 2>>>>
<1>1. /\ Len(v) = Len(w) + 2 /\ Len(w) \in Nat
      /\ \A k \in 1 .. Len(w) : v[k] = w[k]
      /\ v[Len(w) + 1] = <<id, 1>> /\ v[Len(w) + 2] = <<id, 2>>
  BY SMTT(30) DEF Pieces
<1> HIDE DEF v
<1>2. \A k \in 1 .. Len(v) : k \in 1 .. Len(w) \/ k = Len(w) + 1 \/ k = Len(w) + 2
  BY <1>1, SMTT(30)
<1>3. \A k \in 1 .. Len(v) : v[k][1] \in P \cup {id}
  BY <1>1, <1>2, SMTT(30) DEF InOrder
<1>4. ASSUME NEW j \in 1 .. Len(v), NEW k \in 1 .. Len(v), j < k
      PROVE  \/ v[j][1] < v[k][1]
             \/ v[j][1] = v[k][1] /\ v[j][2] < v[k][2]
  <2>1. CASE k \in 1 .. Len(w)
    <3>1. j \in 1 .. Len(w)
      BY <1>1, <1>4, <2>1, SMTT(30)
    <3> QED BY <1>1, <1>4, <2>1, <3>1, SMTT(30) DEF InOrder
  <2>2. CASE j \in 1 .. Len(w)
    BY <1>1, <1>2, <2>1, <2>2, SMTT(30) DEF InOrder
  <2>3. CASE j = Len(w) + 1 \/ j = Len(w) + 2
    <3>1. (j = Len(w) + 1 /\ k = Len(w) + 2) \/ k \in 1 .. Len(w)
      BY <1>1, <1>2, <1>4, <2>3, SMTT(30)
    <3> QED BY <1>1, <2>1, <3>1, SMTT(30)
  <2> QED BY <1>2, <2>2, <2>3
<1> QED BY <1>3, <1>4 DEF v, InOrder

(* Reading from the wire.                                                  *)
LEMMA CutIndex ==
  ASSUME NEW A, NEW s \in Seq(A), NEW n \in 0 .. Len(s),
         NEW t, t = SubSeq(s, n + 1, Len(s))
  PROVE  \A k \in 1 .. Len(t) : k + n \in 1 .. Len(s) /\ t[k] = s[k + n]
BY SMTT(30)

(* A read that returned one command returned its two pieces.               *)
LEMMA CutTwo ==
  ASSUME NEW A, NEW s \in Seq(A), NEW n \in 0 .. Len(s), NEW x, NEW y,
         SubSeq(s, 1, n) = <<x, y>>
  PROVE  /\ n = 2 /\ 1 \in 1 .. Len(s) /\ 2 \in 1 .. Len(s)
         /\ s[1] = x /\ s[2] = y
<1> DEFINE t == SubSeq(s, 1, n)
<1>1. Len(t) = n /\ \A k \in 1 .. n : t[k] = s[k]
  BY SMTT(30)
<1>2. Len(<<x, y>>) = 2 /\ <<x, y>>[1] = x /\ <<x, y>>[2] = y
  BY SMTT(30)
<1> HIDE DEF t
<1>3. t = <<x, y>>
  BY DEF t
<1>4. n = 2
  BY <1>1, <1>2, <1>3
<1>5. 1 \in 1 .. n /\ 2 \in 1 .. n /\ 1 \in 1 .. Len(s) /\ 2 \in 1 .. Len(s)
  BY <1>4, SMTT(30)
<1> QED BY <1>1, <1>2, <1>3, <1>4, <1>5

(* What a read leaves is still in order.                                   *)
LEMMA OrderCut ==
  ASSUME NEW P, NEW w \in Seq(Pieces), InOrder(w, P), NEW n \in 0 .. Len(w)
  PROVE  InOrder(SubSeq(w, n + 1, Len(w)), P)
<1> DEFINE v == SubSeq(w, n + 1, Len(w))
<1>1. /\ Len(v) = Len(w) - n /\ Len(w) \in Nat
      /\ \A k \in 1 .. Len(v) : v[k] = w[k + n] /\ k + n \in 1 .. Len(w)
  BY SMTT(30)
<1> HIDE DEF v
<1> QED BY <1>1, SMTT(30) DEF InOrder, v

(* The lines that confirm are left as they are by all that happens on the  *)
(* wire but a publish.                                                     *)
LEMMA DistinctWire ==
  ASSUME NEW P, NEW Q, P \subseteq Q, NEW r, NEW w, NEW v, Distinct(r, w, P),
         \A k \in 1 .. Len(v) :
           v[k][1] \notin P \/ \E j \in 1 .. Len(w) : v[k][1] = w[j][1]
  PROVE  Distinct(r, v, Q)
BY DEF Distinct

(* The reader takes a line, and its item off the pending map.              *)
LEMMA DistinctTail ==
  ASSUME NEW S, NEW P, NEW r \in Seq(Lines(S)), r # <<>>, NEW w,
         InOrder(w, P), Distinct(r, w, P),
         NEW Q, Q = IF Head(r)[1] = "ok" THEN P \ {Head(r)[2]} ELSE P
  PROVE  /\ Head(r)[1] = "ok" => Head(r)[2] \in P
         /\ Distinct(Tail(r), w, Q)
         /\ InOrder(w, Q)
<1> DEFINE t == Tail(r)
<1>1. /\ Len(r) \in Nat /\ Len(t) = Len(r) - 1 /\ 1 \in 1 .. Len(r)
      /\ r[1] = Head(r)
      /\ \A k \in 1 .. Len(r) : r[k] \in Lines(S)
      /\ \A k \in 1 .. Len(t) : t[k] = r[k + 1] /\ k + 1 \in 1 .. Len(r) /\ k + 1 # 1
  BY SMTT(30)
<1> HIDE DEF t
<1>2. Head(r)[1] = "ok" =>
        /\ Head(r)[2] \in P
        /\ \A j \in 1 .. Len(w) : w[j][1] # Head(r)[2]
        /\ \A j \in 1 .. Len(r) : j # 1 => r[j] # r[1]
  BY <1>1 DEF Distinct
<1>3. \A k \in 1 .. Len(r) : r[k][1] = "ok" => r[k] = Ok(r[k][2])
  BY <1>1, LineIsAck
<1>4. \A k \in 1 .. Len(r) : k # 1 /\ r[k][1] = "ok" => r[k][2] \in Q
  <2> SUFFICES ASSUME NEW k \in 1 .. Len(r), k # 1, r[k][1] = "ok"
               PROVE  r[k][2] \in Q
    OBVIOUS
  <2>1. r[k][2] \in P
    BY DEF Distinct
  <2>2. ASSUME Head(r)[1] = "ok", r[k][2] = Head(r)[2]
        PROVE  FALSE
    <3>1. r[k] = Ok(r[k][2]) /\ r[1] = Ok(r[1][2])
      BY <1>1, <1>3, <2>2
    <3>2. r[k] = r[1]
      BY <1>1, <2>2, <3>1
    <3> QED BY <1>2, <2>2, <3>2
  <2> QED BY <2>1, <2>2
<1>5. Distinct(t, w, Q)
  <2> SUFFICES ASSUME NEW k \in 1 .. Len(t), t[k][1] = "ok"
               PROVE  /\ t[k][2] \in Q
                      /\ \A j \in 1 .. Len(w) : w[j][1] # t[k][2]
                      /\ \A j \in 1 .. Len(t) : j # k => t[j] # t[k]
    BY DEF Distinct
  <2>1. t[k] = r[k + 1] /\ k + 1 \in 1 .. Len(r) /\ k + 1 # 1
    BY <1>1
  <2>2. t[k][2] \in Q
    BY <1>4, <2>1
  <2>3. /\ \A j \in 1 .. Len(w) : w[j][1] # t[k][2]
        /\ \A j \in 1 .. Len(r) : j # k + 1 => r[j] # r[k + 1]
    BY <2>1 DEF Distinct
  <2>4. \A j \in 1 .. Len(t) : j # k => j + 1 # k + 1
    BY <1>1, SMTT(30)
  <2> QED BY <1>1, <2>1, <2>2, <2>3, <2>4
<1>6. InOrder(w, Q)
  BY <1>2 DEF InOrder
<1> QED BY <1>2, <1>5, <1>6 DEF t

(* The server answers: it confirms an item that is no longer on the wire   *)
(* and had no confirmation, or it confirms nothing.                        *)
LEMMA DistinctAppend ==
  ASSUME NEW S, NEW P, NEW r \in Seq(Lines(S)), NEW w, Distinct(r, w, P),
         NEW x,
         x[1] = "ok" => /\ x[2] \in P
                        /\ \A j \in 1 .. Len(w) : w[j][1] # x[2]
                        /\ \A j \in 1 .. Len(r) : r[j] # x
  PROVE  Distinct(Append(r, x), w, P)
<1> DEFINE t == Append(r, x)
<1>1. /\ Len(r) \in Nat /\ Len(t) = Len(r) + 1
      /\ \A k \in 1 .. Len(r) : t[k] = r[k]
      /\ t[Len(r) + 1] = x
  BY SMTT(30)
<1> HIDE DEF t
<1>2. \A k \in 1 .. Len(t) : k \in 1 .. Len(r) \/ k = Len(r) + 1
  BY <1>1, SMTT(30)
<1> SUFFICES ASSUME NEW k \in 1 .. Len(t), t[k][1] = "ok"
             PROVE  /\ t[k][2] \in P
                    /\ \A j \in 1 .. Len(w) : w[j][1] # t[k][2]
                    /\ \A j \in 1 .. Len(t) : j # k => t[j] # t[k]
  BY DEF Distinct, t
<1>3. CASE k = Len(r) + 1
  <2>1. x[1] = "ok" /\ t[k] = x
    BY <1>1, <1>3
  <2>2. \A j \in 1 .. Len(t) : j # k => j \in 1 .. Len(r)
    BY <1>2, <1>3
  <2> QED BY <1>1, <2>1, <2>2
<1>4. CASE k \in 1 .. Len(r)
  <2>1. t[k] = r[k] /\ r[k][1] = "ok"
    BY <1>1, <1>4
  <2>2. /\ r[k][2] \in P
        /\ \A j \in 1 .. Len(w) : w[j][1] # r[k][2]
        /\ \A j \in 1 .. Len(r) : j # k => r[j] # r[k]
    BY <1>4, <2>1 DEF Distinct
  <2>3. x # r[k]
    BY <1>4, <2>1
  <2>4. \A j \in 1 .. Len(t) : j # k => t[j] # t[k]
    BY <1>1, <1>2, <2>1, <2>2, <2>3
  <2> QED BY <2>1, <2>2, <2>4
<1> QED BY <1>2, <1>3, <1>4

(* A lost connection cuts the replies short.                               *)
LEMMA DistinctCut ==
  ASSUME NEW S, NEW P, NEW r \in Seq(Lines(S)), NEW w, Distinct(r, w, P),
         NEW n \in 0 .. Len(r)
  PROVE  Distinct(SubSeq(r, 1, n), w, P)
<1> DEFINE t == SubSeq(r, 1, n)
<1>1. \A k \in 1 .. Len(t) : t[k] = r[k] /\ k \in 1 .. Len(r)
  BY SMTT(30)
<1> HIDE DEF t
<1>2. Distinct(t, w, P)
  BY <1>1 DEF Distinct
<1> QED BY <1>2 DEF t

-----------------------------------------------------------------------------
(* The permits.                                                            *)

(* The sets of items are finite, so that they can be counted.              *)
LEMMA Counts ==
  ASSUME NEW P, P \subseteq Items
  PROVE  /\ IsFiniteSet(P) /\ Cardinality(P) \in Nat
         /\ \A x \in P : Cardinality(P \ {x}) = Cardinality(P) - 1
         /\ \A x : x \notin P => Cardinality(P \cup {x}) = Cardinality(P) + 1
<1>1. IsFiniteSet(Items)
  <2>1. 1 \in Int /\ N \in Int
    BY SenderAssumption, SMTT(30)
  <2> QED BY <2>1, FS_Interval DEF Items
<1>2. IsFiniteSet(P)
  BY <1>1, FS_Subset
<1> QED BY <1>2, FS_CardinalityType, FS_AddElement, FS_RemoveElement

(* The counted sets have items only, the pieces and lines have their types.*)
LEMMA Counted ==
  ASSUME ItemInv
  PROVE  /\ pending \subseteq Items /\ failed_ids \subseteq Items
         /\ Cardinality(pending) \in Nat /\ Cardinality(failed_ids) \in Nat
         /\ permits \in Nat /\ Holds \in {0, 1}
         /\ wire \in Seq(Pieces)
         /\ replies \in Seq(Lines(accepted))
<1>1. TypeOK
  BY ItemInvTypes
<1>2. Items \X {1, 2} \subseteq Pieces
  BY SMTT(30) DEF Items, Pieces
<1>3. wire \in Seq(Pieces)
  BY <1>1, <1>2, SeqWiden DEF TypeOK
<1> QED BY <1>1, <1>3, Counts DEF TypeOK, Holds, ItemInv, Flow

(* A step after the sending, or one that changes nothing but the program   *)
(* counter of the main task and the free permits.                          *)
LEMMA PermitsMain ==
  ASSUME ItemInv, PermitInv,
         Main, ~ Write, ~ WriteFails, ~ RetryWrite
  PROVE  PermitInv'
<1> USE DEF PermitInv
<1>1. UNCHANGED <<pending, wire, replies>> /\ Sent' = Sent
  BY SentFacts DEF Main, Acquire, Poll, Drain, DrainEnds, Collect, NextRetry,
    RetryAnswer, RetryTimeout, RetriesExhausted, RetryWriteFails, Join, serverVars,
    ItemInv
<1>2. InFlightBound'
  BY <1>1 DEF InFlightBound
<1>3. CASE Sending'
  <2>1. /\ Acquire \/ Poll \/ Drain \/ DrainEnds
        /\ Sending
        /\ UNCHANGED <<failed_ids, conn>>
    BY <1>3 DEF Main, Acquire, Poll, Drain, DrainEnds, Collect, NextRetry,
      RetryAnswer, RetryTimeout, RetriesExhausted, RetryWriteFails, Join, Sending
  <2>2. Once' /\ Broken'
    BY <1>1, <2>1 DEF Once, Broken
  <2>3. /\ permits' \in Nat /\ Holds' \in {0, 1}
        /\ permits' + Holds' = permits + Holds
    <3>1. CASE Acquire
      BY <3>1, Counted, SMTT(30) DEF Acquire, Holds
    <3>2. CASE Poll \/ Drain \/ DrainEnds
      <4>1. permits' = permits /\ Holds = 0 /\ Holds' = 0
        BY <3>2 DEF Poll, Drain, DrainEnds, Holds
      <4> QED BY <4>1, Counted
    <3> QED BY <2>1, <3>1, <3>2
  <2>4. PermitsAccounted'
    BY <1>1, <2>1, <2>3, Counted, SMTT(30) DEF PermitsAccounted
  <2> QED BY <1>2, <2>2, <2>4
<1>4. CASE ~ Sending'
  BY <1>2, <1>4 DEF Once, Broken, PermitsAccounted
<1> QED BY <1>3, <1>4

(* A write turns the permit the loop holds into one its item owes; a write *)
(* that fails gives it back, and one more.                                 *)
LEMMA PermitsWrite ==
  ASSUME ItemInv, PermitInv, Write \/ WriteFails
  PROVE  PermitInv'
<1> USE DEF PermitInv
<1>1. /\ pc = "write" /\ NextItem /\ UNCHANGED replies
      /\ i \notin Sent /\ i \notin pending /\ i \notin failed_ids
      /\ Sent' = Sent \cup {i}
  <2>1. pc = "write" /\ NextItem /\ UNCHANGED replies
    BY DEF Write, WriteFails, serverVars
  <2>2. Sent' = Sent \cup {i} /\ i \notin Sent
    BY <2>1, SentFacts DEF NextItem, ItemInv
  <2>3. pending \subseteq Sent /\ failed_ids \subseteq Sent
    BY <2>1 DEF ItemInv, Flow, Once, Sending
  <2> QED BY <2>1, <2>2, <2>3
<1>2. Sending /\ Holds = 1 /\ Holds' = 0
  BY <1>1 DEF Sending, Holds, NextItem
<1>3. ASSUME Write PROVE PermitInv'
  <2>1. /\ pending' = pending \cup {i} /\ Put(i)
        /\ UNCHANGED <<failed_ids, permits, conn>> /\ conn # "broken"
    BY <1>3 DEF Write
  <2>2. failed_ids = {} /\ Cardinality(failed_ids) = 0
    BY <1>2, <2>1, FS_EmptySet DEF Broken
  <2>3. Cardinality(pending') = Cardinality(pending) + 1
    BY <1>1, <2>1, Counts, Counted
  <2>4. PermitsAccounted' /\ InFlightBound'
    <3>1. permits + Cardinality(pending) + 1 = max_inflight + 0
      BY <1>2, <2>2 DEF PermitsAccounted
    <3> QED BY <1>2, <2>1, <2>2, <2>3, <3>1, Counted, SenderAssumption, SMTT(30)
          DEF PermitsAccounted, InFlightBound
  <2>5. InOrder(wire', pending') /\ Distinct(replies, wire', pending')
    <3>1. InOrder(wire, pending) /\ Distinct(replies, wire, pending)
      BY <1>2 DEF Once
    <3>2. i \in Nat /\ \A p \in pending : p \in Nat /\ p < i
      BY SMTT(30) DEF ItemInv, Flow, Locals, Sent
    <3>3. CASE conn = "up"
      <4>1. wire' = wire \o <<<<i, 1>>, <<i, 2>>>>
        BY <2>1, <3>3 DEF Put
      <4>2. InOrder(wire', pending')
        BY <2>1, <3>1, <3>2, <4>1, OrderPut, Counted
      <4>3. \A k \in 1 .. Len(wire') : wire'[k][1] \notin pending
              \/ \E j \in 1 .. Len(wire) : wire'[k][1] = wire[j][1]
        BY <1>1, <4>1, Counted, SMTT(30) DEF Pieces
      <4> QED BY <2>1, <3>1, <4>2, <4>3, DistinctWire
    <3>4. CASE conn # "up"
      <4>1. wire' = wire
        BY <2>1, <3>4 DEF Put
      <4>2. InOrder(wire', pending')
        BY <2>1, <3>1, <4>1 DEF InOrder
      <4> QED BY <2>1, <3>1, <4>1, <4>2, DistinctWire
    <3> QED BY <3>3, <3>4
  <2>6. Once' /\ Broken'
    BY <1>1, <1>2, <2>1, <2>2, <2>5 DEF Once, Broken
  <2> QED BY <2>4, <2>6
<1>4. ASSUME WriteFails PROVE PermitInv'
  <2>1. /\ failed_ids' = failed_ids \cup {i} /\ permits' = permits + 2
        /\ conn' = "broken" /\ UNCHANGED <<pending, wire>>
    BY <1>4 DEF WriteFails, serverVars
  <2>2. Cardinality(failed_ids') = Cardinality(failed_ids) + 1
    BY <1>1, <2>1, Counts, Counted
  <2>3. PermitsAccounted'
    <3>1. permits + Cardinality(pending) + 1 = max_inflight + Cardinality(failed_ids)
      BY <1>2 DEF PermitsAccounted
    <3>2. /\ permits \in Nat /\ max_inflight \in Nat
          /\ Cardinality(pending) \in Nat /\ Cardinality(failed_ids) \in Nat
      BY Counted, SenderAssumption
    <3>3. (permits + 2) + Cardinality(pending) + 0
            = max_inflight + (Cardinality(failed_ids) + 1)
      BY <3>1, <3>2, SMTT(30)
    <3> QED BY <1>2, <2>1, <2>2, <3>3 DEF PermitsAccounted
  <2>4. Once' /\ Broken' /\ InFlightBound'
    BY <1>1, <1>2, <2>1 DEF Once, Broken, InFlightBound
  <2> QED BY <2>3, <2>4
<1> QED BY <1>3, <1>4

(* An ACK gives back the permit its item owes, and does so once.           *)
LEMMA PermitsReader ==
  ASSUME ItemInv, PermitInv, Reader
  PROVE  PermitInv'
<1> USE DEF PermitInv
<1>1. /\ UNCHANGED <<pc, i, failed_ids, conn, wire>>
      /\ pending' \subseteq pending
  BY DEF Reader, ReadLine, Deliver, ReadTimeout, ReadEof, ReadError, mainVars,
    serverVars
<1>2. Sent' = Sent /\ Sending' = Sending /\ Holds' = Holds
  BY <1>1, SentFacts DEF ItemInv, Sending, Holds
<1>3. InFlightBound'
  <2>1. Cardinality(pending') <= Cardinality(pending) /\ Cardinality(pending') \in Nat
    BY <1>1, Counts, Counted, FS_Subset
  <2> QED BY <2>1, Counted, SenderAssumption, SMTT(30) DEF InFlightBound
<1>4. CASE Sending
  <2>1. ASSUME ReadLine PROVE PermitInv'
    <3>1. replies # <<>> /\ replies' = Tail(replies)
      BY <2>1 DEF ReadLine
    <3>2. pending' = IF Head(replies)[1] = "ok" THEN pending \ {Head(replies)[2]}
                                                ELSE pending
      BY <2>1 DEF ReadLine
    <3>3. /\ Head(replies)[1] = "ok" => Head(replies)[2] \in pending
          /\ Distinct(replies', wire, pending')
          /\ InOrder(wire, pending')
      BY <1>4, <3>1, <3>2, DistinctTail, Counted DEF Once
    <3>4. permits' + Cardinality(pending') = permits + Cardinality(pending)
      <4>1. CASE Head(replies)[1] = "ok"
        <5>1. Cardinality(pending') = Cardinality(pending) - 1
          BY <3>2, <3>3, <4>1, Counts, Counted
        <5>2. permits' = permits + 1
          BY <2>1, <4>1 DEF ReadLine
        <5> QED BY <5>1, <5>2, Counted, SMTT(30)
      <4>2. CASE Head(replies)[1] # "ok"
        BY <2>1, <4>2 DEF ReadLine
      <4> QED BY <4>1, <4>2
    <3>5. PermitsAccounted'
      BY <1>1, <1>2, <1>4, <3>4 DEF PermitsAccounted
    <3> QED BY <1>1, <1>2, <1>3, <3>3, <3>5 DEF Once, Broken
  <2>2. ASSUME ~ ReadLine PROVE PermitInv'
    <3>1. UNCHANGED <<pending, permits, replies>>
      BY <2>2 DEF Reader, Deliver, ReadTimeout, ReadEof, ReadError, serverVars
    <3> QED BY <1>1, <1>2, <1>3, <3>1 DEF Once, Broken, PermitsAccounted
  <2> QED BY <2>1, <2>2
<1>5. CASE ~ Sending
  BY <1>2, <1>3, <1>5 DEF Once, Broken, PermitsAccounted
<1> QED BY <1>4, <1>5

(* The server has read the command of an item it confirms: no other piece  *)
(* of the item is on its way, and no other confirmation.                   *)
LEMMA PermitsServer ==
  ASSUME ItemInv, PermitInv, ServerReads
  PROVE  PermitInv'
<1> USE DEF PermitInv
<1>1. UNCHANGED <<pc, i, failed_ids, permits, pending, conn>>
  BY DEF ServerReads, mainVars
<1>2. Sent' = Sent /\ Sending' = Sending /\ Holds' = Holds
  BY <1>1, SentFacts DEF ItemInv, Sending, Holds
<1>3. Broken' /\ PermitsAccounted' /\ InFlightBound'
  BY <1>1, <1>2 DEF Broken, PermitsAccounted, InFlightBound
<1>4. ASSUME Sending
      PROVE  InOrder(wire', pending) /\ Distinct(replies', wire', pending)
  <2>1. InOrder(wire, pending) /\ Distinct(replies, wire, pending)
    BY <1>4 DEF Once
  <2>2. PICK n \in Reads :
          /\ n <= Len(wire)
          /\ wire' = SubSeq(wire, n + 1, Len(wire))
          /\ \/ \E id \in Items :
                  /\ SubSeq(wire, 1, n) = <<<<id, 1>>, <<id, 2>>>>
                  /\ Publish(id)
             \/ replies' = Append(replies, Other)
    BY DEF ServerReads
  <2>3. n \in 0 .. Len(wire)
    BY <2>2, Counted, SenderAssumption, SMTT(30)
  <2>4. InOrder(wire', pending)
    BY <2>1, <2>2, <2>3, OrderCut, Counted
  <2>5. \A k \in 1 .. Len(wire') : k + n \in 1 .. Len(wire) /\ wire'[k] = wire[k + n]
    BY <2>2, <2>3, CutIndex, Counted
  <2>6. Distinct(replies, wire', pending)
    BY <2>1, <2>5, DistinctWire
  <2>7. CASE replies' = Append(replies, Other)
    <3>1. Other[1] # "ok"
      BY SMTT(30) DEF Other
    <3> QED BY <2>4, <2>6, <2>7, <3>1, DistinctAppend, Counted
  <2>8. ASSUME NEW id \in Items, SubSeq(wire, 1, n) = <<<<id, 1>>, <<id, 2>>>>,
               replies' = Append(replies, Ok(id))
        PROVE  Distinct(replies', wire', pending)
    <3>1. /\ n = 2 /\ 1 \in 1 .. Len(wire) /\ 2 \in 1 .. Len(wire)
          /\ wire[1] = <<id, 1>> /\ wire[2] = <<id, 2>>
      BY <2>3, <2>8, CutTwo, Counted
    <3>2. id \in pending /\ wire[1][1] = id
      BY <2>1, <3>1, SMTT(30) DEF InOrder
    <3>3. \A j \in 1 .. Len(replies) : replies[j] # Ok(id)
      BY <2>1, <3>1, <3>2, SMTT(30) DEF Distinct, Ok
    <3>4. \A k \in 1 .. Len(wire') : wire'[k][1] # id
      <4> SUFFICES ASSUME NEW k \in 1 .. Len(wire'), wire'[k][1] = id PROVE FALSE
        OBVIOUS
      <4>1. k + 2 \in 1 .. Len(wire) /\ wire[k + 2][1] = id /\ 2 < k + 2
        BY <2>5, <3>1, SMTT(30)
      <4>2. wire[k + 2][2] \in {1, 2}
        BY <4>1, Counted, SMTT(30) DEF Pieces
      <4>3. id < id \/ 2 < wire[k + 2][2]
        BY <2>1, <3>1, <4>1, SMTT(30) DEF InOrder
      <4> QED BY <4>2, <4>3, SMTT(30) DEF Items
    <3>5. Ok(id)[2] = id
      BY SMTT(30) DEF Ok
    <3> QED BY <2>6, <2>8, <3>2, <3>3, <3>4, <3>5, DistinctAppend, Counted
  <2> QED BY <2>2, <2>4, <2>7, <2>8 DEF Publish
<1>5. Once'
  BY <1>1, <1>2, <1>4 DEF Once
<1> QED BY <1>3, <1>5

(* A lost connection takes pieces and lines away, and no permit.           *)
LEMMA PermitsLost ==
  ASSUME ItemInv, PermitInv, ConnectionLost
  PROVE  PermitInv'
<1> USE DEF PermitInv
<1>1. /\ UNCHANGED <<pc, i, failed_ids, permits, pending>>
      /\ conn = "up" /\ wire' = <<>>
  BY DEF ConnectionLost, mainVars
<1>2. Sent' = Sent /\ Sending' = Sending /\ Holds' = Holds
  BY <1>1, SentFacts DEF ItemInv, Sending, Holds
<1>3. Broken' /\ PermitsAccounted' /\ InFlightBound'
  BY <1>1, <1>2 DEF Broken, PermitsAccounted, InFlightBound
<1>4. ASSUME Sending
      PROVE  InOrder(wire', pending) /\ Distinct(replies', wire', pending)
  <2>1. Distinct(replies, wire, pending)
    BY <1>4 DEF Once
  <2>2. 1 .. Len(wire') = {}
    BY <1>1, SMTT(30)
  <2>3. PICK n \in 0 .. Len(replies) : replies' = SubSeq(replies, 1, n)
    BY DEF ConnectionLost
  <2>4. Distinct(replies', wire, pending)
    BY <2>1, <2>3, DistinctCut, Counted
  <2>5. Distinct(replies', wire', pending)
    BY <2>2, <2>4, DistinctWire
  <2> QED BY <2>2, <2>5 DEF InOrder
<1>5. Once'
  BY <1>1, <1>2, <1>4 DEF Once
<1> QED BY <1>3, <1>5

(* Every step keeps the invariant of the permits.                          *)
LEMMA PermitStep ==
  ItemInv /\ PermitInv /\ [Next]_vars => PermitInv'
<1> SUFFICES ASSUME ItemInv, PermitInv, [Next]_vars PROVE PermitInv'
  OBVIOUS
<1>1. CASE RetryWrite
  <2>1. ~ Sending' /\ UNCHANGED pending
    BY <1>1 DEF RetryWrite, Sending
  <2> QED BY <2>1 DEF PermitInv, Once, Broken, PermitsAccounted, InFlightBound
<1>2. CASE UNCHANGED vars
  BY <1>2 DEF vars, mainVars, readerVars, serverVars, PermitInv, Once, Broken,
    PermitsAccounted, InFlightBound, Sending, Sent, Holds
<1> QED BY <1>1, <1>2, PermitsMain, PermitsWrite, PermitsReader, PermitsServer,
      PermitsLost DEF Next

(* At the start every permit is free.                                      *)
LEMMA PermitInit ==
  Init => PermitInv
<1> SUFFICES ASSUME Init PROVE PermitInv
  OBVIOUS
<1>1. /\ pc = "acquire" /\ pending = {} /\ failed_ids = {} /\ permits = max_inflight
      /\ wire = <<>> /\ replies = <<>>
  BY DEF Init
<1>2. Once /\ Broken
  BY <1>1, SMTT(30) DEF Once, Broken, InOrder, Distinct
<1>3. Cardinality({}) = 0
  BY FS_EmptySet
<1>4. PermitsAccounted /\ InFlightBound
  BY <1>1, <1>3, SenderAssumption, SMTT(30) DEF PermitsAccounted, InFlightBound, Holds
<1> QED BY <1>2, <1>4 DEF PermitInv

(* The two tasks hand each permit back exactly once: until the retries     *)
(* each one is free, held by the send loop or owed by a pending item, up   *)
(* to the one that every failed write adds.                                *)
THEOREM PermitsAreAccounted ==
  Spec => []PermitsAccounted
<1>1. Spec => [](ItemInv /\ PermitInv)
  BY ItemInit, ItemStep, PermitInit, PermitStep, PTL DEF Spec
<1>2. PermitInv => PermitsAccounted
  BY DEF PermitInv
<1> QED BY <1>1, <1>2, PTL

(* The pending map never has more than max_inflight items: the permits a   *)
(* failed write adds come when no write succeeds any more.                 *)
THEOREM InFlightIsBounded ==
  Spec => []InFlightBound
<1>1. Spec => [](ItemInv /\ PermitInv)
  BY ItemInit, ItemStep, PermitInit, PermitStep, PTL DEF Spec
<1>2. PermitInv => InFlightBound
  BY DEF PermitInv
<1> QED BY <1>1, <1>2, PTL
=============================================================================
