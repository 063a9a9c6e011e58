------------------------------- MODULE Sender -------------------------------
(***************************************************************************)
(* The sender's pipeline (send_messages_async_pipeline in                  *)
(* clients/sender_1/src/main.rs): the send loop, the semaphore that bounds *)
(* the messages in flight, the pending map, the ACK reader task with its   *)
(* bounded result channel, the drain, the retries and the final join.      *)
(*                                                                         *)
(* An item is one encrypted message for one receiver; items are sent in    *)
(* the order 1, 2, ...  The server is seen through its connection: it      *)
(* takes what one read returns for one request (handle_client in           *)
(* server/src/server.rs).  A command on the wire is two pieces, so that a  *)
(* read can end inside a command or hold more than one.                    *)
(***************************************************************************)
EXTENDS Naturals, Sequences, FiniteSets

CONSTANTS
  N,             \* items to send
  BatchSize,     \* batch_size times the number of receivers
  max_inflight,
  max_retries,
  Answers,       \* how the server may answer a first publish
  Reads,         \* pieces one read of the server may return; {2}: one command
  Faults,        \* "drop": connection lost; "timeout": ack_timeout expires
  NoItem

Items == 1 .. N

ASSUME SenderAssumption ==
  /\ N \in Nat \ {0}
  /\ BatchSize \in Nat \ {0}
  /\ max_inflight \in Nat \ {0}
  /\ max_retries \in Nat
  /\ Answers \subseteq {"ok", "error"}
  /\ Reads \subseteq Nat \ {0}
  /\ Faults \subseteq {"drop", "timeout"}
  /\ NoItem \notin Items

VARIABLES
  pc,            \* of the main task
  i,             \* the next item to send
  permits,       \* of the semaphore
  pending,       \* ids in the pending map
  failed_ids,    \* items whose write failed or that had no ACK in time
  unacked,       \* items left to retry
  em, attempt,   \* the item being retried, its attempts so far
  final_failed,  \* items logged as permanently failed
  ack_chan,      \* the channel of AckResults, a sequence of replies
  rpc,           \* of the ACK reader: "read", "deliver", "last", "stopped"
  result,        \* the AckResult the reader is about to deliver
  conn,          \* "up", "lost" (the peer is gone), "broken" (writes fail)
  wire,          \* pieces written and not yet read by the server
  replies,       \* lines of the server not yet read by the reader
  accepted,      \* items the broker has stored
  taken          \* items the server has read whole

mainVars   == <<pc, i, unacked, em, attempt, final_failed, failed_ids>>
readerVars == <<rpc, result>>
serverVars == <<wire, replies, accepted, taken>>
vars == <<mainVars, permits, pending, ack_chan, readerVars, conn, serverVars>>

(* AckResult; a ServerError and an Unknown line are treated alike.         *)
Ok(id)  == <<"ok", id>>
Other   == <<"error", NoItem>>
IoError == <<"io", NoItem>>

Init ==
  /\ pc = "acquire"
  /\ i = 1
  /\ permits = max_inflight
  /\ pending = {}
  /\ failed_ids = {}
  /\ unacked = {}
  /\ em = NoItem
  /\ attempt = 0
  /\ final_failed = {}
  /\ ack_chan = <<>>
  /\ rpc = "read"
  /\ result = Other
  /\ conn = "up"
  /\ wire = <<>>
  /\ replies = <<>>
  /\ accepted = {}
  /\ taken = {}

-----------------------------------------------------------------------------
(* The send loop.                                                          *)

Acquire ==
  /\ pc = "acquire"
  /\ permits > 0
  /\ permits' = permits - 1
  /\ pc' = "write"
  /\ UNCHANGED <<i, unacked, em, attempt, final_failed, failed_ids, pending,
                 ack_chan, readerVars, conn, serverVars>>

(* After an item: on to the next one, or to the results at a batch's end.  *)
NextItem ==
  /\ i' = i + 1
  /\ pc' = IF i % BatchSize = 0 \/ i = N THEN "poll" ELSE "acquire"

(* A command goes out in two pieces; on a lost connection it goes nowhere. *)
Put(id) == wire' = IF conn = "up" THEN wire \o <<<<id, 1>>, <<id, 2>>>> ELSE wire

Write_PermitDropped ==
  /\ pc = "write"
  /\ conn # "broken"
  /\ pending' = pending \cup {i}
  /\ Put(i)
  /\ NextItem
  /\ permits' = permits + 1
  /\ UNCHANGED <<unacked, em, attempt, final_failed, failed_ids, ack_chan,
                 readerVars, conn, replies, accepted, taken>>

(* The item is pending before it is written, and the permit is forgotten:  *)
(* the ACK reader gives it back.                                           *)
Write ==
  /\ pc = "write"
  /\ conn # "broken"
  /\ pending' = pending \cup {i}
  /\ Put(i)
  /\ NextItem
  /\ UNCHANGED <<unacked, em, attempt, final_failed, failed_ids, permits,
                 ack_chan, readerVars, conn, replies, accepted, taken>>

WriteFails_KeepsPending ==
  /\ pc = "write"
  /\ conn # "up"
  /\ conn' = "broken"
  /\ pending' = pending \cup {i}
  /\ failed_ids' = failed_ids \cup {i}
  /\ permits' = permits + 2
  /\ NextItem
  /\ UNCHANGED <<unacked, em, attempt, final_failed, ack_chan, readerVars,
                 serverVars>>

(* write_all or flush fails: add_permits(1), and continue drops the permit *)
(* the loop still holds, which adds another.                               *)
WriteFails ==
  /\ pc = "write"
  /\ conn # "up"
  /\ conn' = "broken"
  /\ failed_ids' = failed_ids \cup {i}
  /\ permits' = permits + 2
  /\ NextItem
  /\ UNCHANGED <<unacked, em, attempt, final_failed, pending, ack_chan,
                 readerVars, serverVars>>

(* try_recv until the channel is empty, then the next batch or the drain.  *)
Poll ==
  /\ pc = "poll"
  /\ IF ack_chan # <<>>
     THEN ack_chan' = Tail(ack_chan) /\ UNCHANGED pc
     ELSE UNCHANGED ack_chan /\ pc' = IF i > N THEN "drain" ELSE "acquire"
  /\ UNCHANGED <<i, unacked, em, attempt, final_failed, failed_ids, permits,
                 pending, readerVars, conn, serverVars>>

-----------------------------------------------------------------------------
(* Drain, retries and join.                                                *)

(* No reply is on its way any more: a timeout is certain to expire.        *)
Silent == replies = <<>> /\ (wire = <<>> \/ conn # "up") /\ rpc \in {"read", "stopped"}

Drain ==
  /\ pc = "drain"
  /\ pending # {}
  /\ ack_chan # <<>>
  /\ ack_chan' = Tail(ack_chan)
  /\ pc' = IF Head(ack_chan) = IoError THEN "collect" ELSE "drain"
  /\ UNCHANGED <<i, unacked, em, attempt, final_failed, failed_ids, permits,
                 pending, readerVars, conn, serverVars>>

(* Nothing is pending, or drain_timeout has passed.                        *)
DrainEnds ==
  /\ pc = "drain"
  /\ pending = {} \/ (ack_chan = <<>> /\ Silent) \/ "timeout" \in Faults
  /\ pc' = "collect"
  /\ UNCHANGED <<i, unacked, em, attempt, final_failed, failed_ids, permits,
                 pending, ack_chan, readerVars, conn, serverVars>>

Collect ==
  /\ pc = "collect"
  /\ unacked' = pending
  /\ failed_ids' = failed_ids \cup pending
  /\ pc' = "next"
  /\ UNCHANGED <<i, em, attempt, final_failed, permits, pending, ack_chan,
                 readerVars, conn, serverVars>>

(* The pending map has no order.  Without items left, ack_tx is dropped.   *)
NextRetry ==
  /\ pc = "next"
  /\ \/ \E id \in unacked :
          /\ em' = id
          /\ unacked' = unacked \ {id}
          /\ attempt' = 0
          /\ pc' = "retry"
     \/ /\ unacked = {}
        /\ pc' = "join"
        /\ UNCHANGED <<em, unacked, attempt>>
  /\ UNCHANGED <<i, final_failed, failed_ids, permits, pending, ack_chan,
                 readerVars, conn, serverVars>>

RetryWrite ==
  /\ pc = "retry"
  /\ attempt < max_retries
  /\ conn # "broken"
  /\ Put(em)
  /\ pc' = "wait"
  /\ UNCHANGED <<i, unacked, em, attempt, final_failed, failed_ids, permits,
                 pending, ack_chan, readerVars, conn, replies, accepted, taken>>

RetryWriteFails ==
  /\ pc = "retry"
  /\ attempt < max_retries
  /\ conn # "up"
  /\ conn' = "broken"
  /\ attempt' = attempt + 1
  /\ UNCHANGED <<pc, i, unacked, em, final_failed, failed_ids, permits,
                 pending, ack_chan, readerVars, serverVars>>

RetryAnswer_AnyOk ==
  /\ pc = "wait"
  /\ ack_chan # <<>>
  /\ ack_chan' = Tail(ack_chan)
  /\ IF Head(ack_chan)[1] = "ok"
     THEN pc' = "next" /\ UNCHANGED attempt
     ELSE pc' = "retry" /\ attempt' = attempt + 1
  /\ UNCHANGED <<i, unacked, em, final_failed, failed_ids, permits, pending,
                 readerVars, conn, serverVars>>

(* Whatever result comes first is taken for the answer to this attempt.    *)
RetryAnswer ==
  /\ pc = "wait"
  /\ ack_chan # <<>>
  /\ ack_chan' = Tail(ack_chan)
  /\ IF Head(ack_chan) = Ok(em)
     THEN pc' = "next" /\ UNCHANGED attempt
     ELSE pc' = "retry" /\ attempt' = attempt + 1
  /\ UNCHANGED <<i, unacked, em, final_failed, failed_ids, permits, pending,
                 readerVars, conn, serverVars>>

(* No result within ack_timeout.                                           *)
RetryTimeout ==
  /\ pc = "wait"
  /\ ack_chan = <<>>
  /\ Silent \/ "timeout" \in Faults
  /\ pc' = "retry"
  /\ attempt' = attempt + 1
  /\ UNCHANGED <<i, unacked, em, final_failed, failed_ids, permits, pending,
                 ack_chan, readerVars, conn, serverVars>>

RetriesExhausted ==
  /\ pc = "retry"
  /\ attempt = max_retries
  /\ final_failed' = final_failed \cup {em}
  /\ pc' = "next"
  /\ UNCHANGED <<i, unacked, em, attempt, failed_ids, permits, pending,
                 ack_chan, readerVars, conn, serverVars>>

Join ==
  /\ pc = "join"
  /\ rpc = "stopped"
  /\ pc' = "done"
  /\ UNCHANGED <<i, unacked, em, attempt, final_failed, failed_ids, permits,
                 pending, ack_chan, readerVars, conn, serverVars>>

-----------------------------------------------------------------------------
(* The ACK reader task.                                                    *)

(* An ACK line takes its item off the pending map and gives a permit back; *)
(* any other line does neither.                                            *)
ReadLine ==
  /\ rpc = "read"
  /\ replies # <<>>
  /\ replies' = Tail(replies)
  /\ result' = Head(replies)
  /\ rpc' = "deliver"
  /\ IF Head(replies)[1] = "ok"
     THEN /\ pending' = pending \ {Head(replies)[2]}
          /\ permits' = permits + 1
     ELSE UNCHANGED <<pending, permits>>
  /\ UNCHANGED <<mainVars, ack_chan, conn, wire, accepted, taken>>

Deliver_Unbounded ==
  /\ rpc \in {"deliver", "last"}
  /\ ack_chan' = Append(ack_chan, result)
  /\ rpc' = IF rpc = "deliver" THEN "read" ELSE "stopped"
  /\ UNCHANGED <<mainVars, permits, pending, result, conn, serverVars>>

(* ack_tx.send waits while the channel is full.                            *)
Deliver ==
  /\ rpc \in {"deliver", "last"}
  /\ Len(ack_chan) < 2 * max_inflight
  /\ ack_chan' = Append(ack_chan, result)
  /\ rpc' = IF rpc = "deliver" THEN "read" ELSE "stopped"
  /\ UNCHANGED <<mainVars, permits, pending, result, conn, serverVars>>

(* The main task writes nothing before the reader's next line.             *)
MainWaits == pc \in {"drain", "wait", "join"} \/ (pc = "acquire" /\ permits = 0)

ReadTimeout_Retry ==
  /\ rpc = "read"
  /\ replies = <<>>
  /\ (Silent /\ MainWaits) \/ "timeout" \in Faults
  /\ rpc' = "read"
  /\ UNCHANGED <<mainVars, permits, pending, ack_chan, result, conn, serverVars>>

(* No line within ack_timeout: the task ends, without a result.            *)
ReadTimeout ==
  /\ rpc = "read"
  /\ replies = <<>>
  /\ (Silent /\ MainWaits) \/ "timeout" \in Faults
  /\ rpc' = "stopped"
  /\ UNCHANGED <<mainVars, permits, pending, ack_chan, result, conn, serverVars>>

ReadEof ==
  /\ rpc = "read"
  /\ replies = <<>>
  /\ conn # "up"
  /\ rpc' = "stopped"
  /\ UNCHANGED <<mainVars, permits, pending, ack_chan, result, conn, serverVars>>

ReadError ==
  /\ rpc = "read"
  /\ replies = <<>>
  /\ conn # "up"
  /\ result' = IoError
  /\ rpc' = "last"
  /\ UNCHANGED <<mainVars, permits, pending, ack_chan, conn, serverVars>>

-----------------------------------------------------------------------------
(* The server's side of the connection.                                    *)

Publish_AckFirst(id) ==
  \/ /\ replies' = Append(replies, Ok(id))
     /\ accepted' \in {accepted, accepted \cup {id}}
  \/ /\ replies' = Append(replies, Other)
     /\ UNCHANGED accepted

(* A publish: stored and confirmed, or refused.  An id the broker has is a *)
(* duplicate and refused, unless its status is gone after the ack.         *)
Publish(id) ==
  \/ /\ "ok" \in Answers \/ id \in accepted
     /\ replies' = Append(replies, Ok(id))
     /\ accepted' = accepted \cup {id}
  \/ /\ "error" \in Answers \/ id \in accepted
     /\ replies' = Append(replies, Other)
     /\ UNCHANGED accepted

(* What one read returns is one request.  It is a publish when it is one   *)
(* whole command, and an unknown command or a malformed one otherwise.     *)
ServerReads ==
  /\ conn = "up"
  /\ \E n \in Reads :
       /\ n <= Len(wire)
       /\ wire' = SubSeq(wire, n + 1, Len(wire))
       /\ \/ \E id \in Items :
               /\ SubSeq(wire, 1, n) = <<<<id, 1>>, <<id, 2>>>>
               /\ Publish(id)
               /\ taken' = taken \cup {id}
          \/ /\ \A id \in Items : SubSeq(wire, 1, n) # <<<<id, 1>>, <<id, 2>>>>
             /\ replies' = Append(replies, Other)
             /\ UNCHANGED <<accepted, taken>>
  /\ UNCHANGED <<mainVars, permits, pending, ack_chan, readerVars, conn>>

(* The connection goes down, with what is on its way in either direction.  *)
ConnectionLost ==
  /\ "drop" \in Faults
  /\ conn = "up"
  /\ conn' = "lost"
  /\ wire' = <<>>
  /\ \E n \in 0 .. Len(replies) : replies' = SubSeq(replies, 1, n)
  /\ UNCHANGED <<mainVars, permits, pending, ack_chan, readerVars, accepted, taken>>

-----------------------------------------------------------------------------
Main ==
  \/ Acquire \/ Write \/ WriteFails \/ Poll \/ Drain \/ DrainEnds \/ Collect
  \/ NextRetry \/ RetryWrite \/ RetryWriteFails \/ RetryAnswer \/ RetryTimeout
  \/ RetriesExhausted \/ Join

Reader == ReadLine \/ Deliver \/ ReadTimeout \/ ReadEof \/ ReadError

Next == Main \/ Reader \/ ServerReads \/ ConnectionLost

Spec == Init /\ [][Next]_vars

(* Both tasks are polled when they can go on, and the server answers what  *)
(* it has been sent.                                                       *)
FairSpec == Spec /\ WF_vars(Main) /\ WF_vars(Reader) /\ WF_vars(ServerReads)

-----------------------------------------------------------------------------
Replies == {Ok(id) : id \in Items} \cup {Other, IoError}

(* Every field has the type the code gives it, and the result channel is   *)
(* within the capacity it was created with.                                *)
TypeOK ==
  /\ pc \in {"acquire", "write", "poll", "drain", "collect", "next", "retry",
             "wait", "join", "done"}
  /\ i \in 1 .. N + 1
  /\ permits \in Nat
  /\ pending \subseteq Items
  /\ failed_ids \subseteq Items
  /\ unacked \subseteq Items
  /\ em \in Items \cup {NoItem}
  /\ attempt \in 0 .. max_retries
  /\ final_failed \subseteq Items
  /\ ack_chan \in Seq(Replies) /\ Len(ack_chan) <= 2 * max_inflight
  /\ rpc \in {"read", "deliver", "last", "stopped"}
  /\ result \in Replies
  /\ conn \in {"up", "lost", "broken"}
  /\ wire \in Seq(Items \X {1, 2})
  /\ replies \in Seq(Replies)
  /\ accepted \subseteq Items
  /\ taken \subseteq Items

Sending == pc \in {"acquire", "write", "poll", "drain", "collect"}

Holds == IF pc = "write" THEN 1 ELSE 0

(* Until the retries, every permit of the semaphore is free, held by the   *)
(* send loop or owed by one pending item; a failed write adds one to them  *)
(* (add_permits and the drop of the permit).                               *)
PermitsAccounted ==
  Sending =>
    permits + Cardinality(pending) + Holds = max_inflight + Cardinality(failed_ids)

(* The messages awaiting their ACK are never more than max_inflight, also  *)
(* after the permits that failed writes have added.                        *)
InFlightBound == Cardinality(pending) <= max_inflight

Sent == 1 .. i - 1

(* An item that is sent, not in failed_ids and no longer pending, so one   *)
(* the sender takes for confirmed, has been stored by the broker.          *)
ConfirmedIsStored == (Sent \ failed_ids) \ pending \subseteq accepted

(* When the pipeline returns, an item that was written and is without its  *)
(* ACK, or that the broker does not have, is one of the permanent failures *)
(* it counts: joined commands, refusals, timeouts and a retry that reads   *)
(* another item's ACK hide none.  Excepted are the items whose write       *)
(* failed: they are in failed_ids, off the pending map, neither retried    *)
(* nor counted (see LossesReported).                                       *)
WrittenIsReported ==
  pc = "done" =>
    /\ pending \subseteq final_failed
    /\ Items \ accepted \subseteq final_failed \cup (failed_ids \ pending)

NoPermit == pc = "acquire" /\ permits = 0

(* The reader waits for room in the result channel, and the main task,     *)
(* which would empty it, for a permit of the reader or for its end.        *)
FullChannel ==
  /\ rpc \in {"deliver", "last"}
  /\ Len(ack_chan) = 2 * max_inflight
  /\ NoPermit \/ pc = "join"

(* The main task waits for a permit that no one is left to give back.      *)
NoReader == NoPermit /\ rpc = "stopped"

(* The pipeline comes to its end, through timeouts, errors and a lost      *)
(* connection: the semaphore, the result channel and the join keep it      *)
(* waiting for ever in no other way than the two above.                    *)
PipelineEnds == <>(pc = "done" \/ FullChannel \/ NoReader)

-----------------------------------------------------------------------------
(* What the repository says and the code does not do.                      *)

(* A message logged as "permanently failed" is one the broker does not     *)
(* have: the log is where to look for undelivered messages.                *)
FailedIsNotStored == final_failed \cap accepted = {}

(* "Channel capacity equals max_inflight so the sender task does not       *)
(* block", "release the channel so the main task knows", "so the ACK task  *)
(* can exit": neither of the two waits is ever reached.                    *)
NeverStuck == ~ FullChannel /\ ~ NoReader

(* When the pipeline returns, its count of failures has every item the     *)
(* broker did not get.                                                     *)
LossesReported == pc = "done" => Items \ accepted \subseteq final_failed

(* The server reads one command per line: once it has read everything, it  *)
(* has taken every command that was sent.                                  *)
LinesTaken == (conn = "up" /\ wire = <<>>) => Sent \ failed_ids \subseteq taken
=============================================================================
