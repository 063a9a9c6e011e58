------------------------------ MODULE Receiver ------------------------------
(***************************************************************************)
(* The receiver client (clients/receiver_1/src/main.rs): the connection    *)
(* loop and receive_loop, the ACK sender, the heartbeat and the message    *)
(* writer task, the channels between them and the running flag they share. *)
(*                                                                         *)
(* A line of the server arrives in two pieces, so that the 500 ms timeout  *)
(* of a read can expire inside it.  The broker is seen through the lines   *)
(* it pushes and the acks it gets; a message may be pushed again.          *)
(***************************************************************************)
EXTENDS Naturals, Sequences, Functions

CONSTANTS
  Msgs,
  Bad,           \* messages that do not parse or decrypt
  NoMsg,
  Capacity,      \* of the message and the ACK channel (4096)
  BATCH,         \* records written together (100)
  MaxPushes,     \* lines the broker pushes, all together
  Faults         \* "drop", "refuse", "sigint", "slow", "open", "flush"

ASSUME ReceiverAssumption ==
  /\ Bad \subseteq Msgs
  /\ NoMsg \notin Msgs
  /\ Capacity \in Nat \ {0} /\ BATCH \in Nat \ {0} /\ MaxPushes \in Nat
  /\ Faults \subseteq {"drop", "refuse", "sigint", "slow", "open", "flush"}

VARIABLES
  pc,            \* of main and receive_loop
  running,       \* the shared AtomicBool
  sigint,        \* Ctrl+C was pressed
  conn,          \* "up", "down"
  wire,          \* pieces of lines on their way from the server
  line,          \* pieces read_line has so far
  id,            \* the message in hand
  processed,     \* the HashSet of receive_loop
  msgs, acks,    \* the two channels
  apc, aid,      \* ACK sender: "top", "recv", "write", "stopped"; its id
  hb,            \* heartbeat task: runs
  ppc,           \* message writer: "open", "recv", "check", "stopped"
  batch,         \* its records not yet written
  file,          \* ids in the JSONL file, in the order written
  acked,         \* acks the broker has got
  pushes,        \* times each message was pushed
  unsaved        \* ids a logged error of the file keeps from it

loopVars == <<pc, line, id, processed>>
ackVars  == <<acks, apc, aid>>
procVars == <<ppc, batch, file, unsaved>>
netVars  == <<conn, wire, acked, pushes>>
vars == <<loopVars, running, sigint, msgs, ackVars, hb, procVars, netVars>>

Init ==
  /\ pc = "loop"
  /\ running = TRUE
  /\ sigint = FALSE
  /\ conn = "down"
  /\ wire = <<>> /\ line = <<>>
  /\ id = NoMsg
  /\ processed = {}
  /\ msgs = <<>> /\ acks = <<>>
  /\ apc = "stopped" /\ aid = NoMsg
  /\ hb = FALSE
  /\ ppc = "open"
  /\ batch = <<>> /\ file = <<>>
  /\ acked = {}
  /\ unsaved = {}
  /\ pushes = [m \in Msgs |-> 0]

-----------------------------------------------------------------------------
(* main and receive_loop.                                                  *)

(* The test of the connection loop.                                        *)
LoopAgain ==
  /\ pc = "loop"
  /\ pc' = IF running THEN "connect" ELSE "wait"
  /\ UNCHANGED <<line, id, processed, running, sigint, msgs, ackVars, hb, procVars, netVars>>

(* The TCP and the TLS connection are made, receive_loop is entered, the   *)
(* ACK and heartbeat tasks are spawned, the first request is written.      *)
Connect ==
  /\ pc = "connect"
  /\ conn' = "up"
  /\ wire' = <<>> /\ line' = <<>>
  /\ acks' = <<>> /\ apc' = "top"
  /\ hb' = TRUE
  /\ pc' = "register"
  /\ UNCHANGED <<running, sigint, id, processed, msgs, aid, procVars, acked, pushes>>

ConnectFails ==
  /\ pc = "connect"
  /\ pc' = "loop"
  /\ UNCHANGED <<line, id, processed, running, sigint, msgs, ackVars, hb, procVars, netVars>>

(* The requests whose answer send_recv waits for, without a timeout.       *)
Configuring == {"declare_queue", "declare_exchange", "bind"}
Handshaking == {"register"} \cup Configuring

Registered ==
  /\ pc = "register"
  /\ conn = "up"
  /\ pc' = "declare_queue"
  /\ UNCHANGED <<line, id, processed, running, sigint, msgs, ackVars, hb, procVars, netVars>>

(* An answer of configure_server.  It is not looked at, so the end of the  *)
(* stream is as good.  After the last one consume is written, which has no *)
(* answer, and the message loop is entered.                                *)
Configured ==
  /\ pc \in Configuring
  /\ pc' = CASE pc = "declare_queue" -> "declare_exchange"
             [] pc = "declare_exchange" -> "bind"
             [] pc = "bind" -> "top"
  /\ processed' = IF pc = "bind" THEN {} ELSE processed
  /\ UNCHANGED <<line, id, running, sigint, msgs, ackVars, hb, procVars, netVars>>

(* Another answer to the registration, or the end of the stream: both      *)
(* tasks are aborted and running is cleared.                               *)
HandshakeRefused ==
  /\ pc = "register"
  /\ conn = "down" \/ "refuse" \in Faults
  /\ running' = FALSE
  /\ apc' = "stopped" /\ hb' = FALSE
  /\ conn' = "down"
  /\ pc' = "loop"
  /\ UNCHANGED <<sigint, line, id, processed, msgs, acks, aid, procVars, wire,
                 acked, pushes>>

(* An I/O error leaves through `?`: ack_tx is dropped, which ends the ACK  *)
(* sender; the heartbeat task stays until it fails to write.               *)
HandshakeFails ==
  /\ pc \in Handshaking
  /\ conn = "down"
  /\ apc' = "stopped"
  /\ pc' = "loop"
  /\ UNCHANGED <<running, sigint, line, id, processed, msgs, acks, aid, hb,
                 procVars, netVars>>

(* The test at the top of the message loop.                                *)
Top ==
  /\ pc = "top"
  /\ pc' = IF running THEN "read" ELSE "cleanup"
  /\ UNCHANGED <<line, id, processed, running, sigint, msgs, ackVars, hb, procVars, netVars>>

(* The envelope parses, and both of its layers decrypt.                    *)
decrypt_message(m) == m \notin Bad

(* The body of the loop for one complete line.                             *)
TakeLine(m) ==
  IF m \in processed \/ ~ decrypt_message(m)
  THEN pc' = "top" /\ UNCHANGED <<id, processed>>
  ELSE pc' = "store" /\ id' = m /\ processed' = processed \cup {m}

(* The read goes on whatever has become of running since the test.  A line *)
(* of which the first piece was dropped is no message.                     *)
ReadPiece ==
  /\ pc = "read"
  /\ wire # <<>>
  /\ wire' = Tail(wire)
  /\ LET m == Head(wire)[1]
         end == Head(wire)[2] = 2
     IN IF end
        THEN /\ line' = <<>>
             /\ IF line = <<<<m, 1>>>> THEN TakeLine(m)
                ELSE pc' = "top" /\ UNCHANGED <<id, processed>>
        ELSE line' = Append(line, Head(wire)) /\ UNCHANGED <<pc, id, processed>>
  /\ UNCHANGED <<running, sigint, msgs, ackVars, hb, procVars, conn, acked, pushes>>

(* The timeout drops the future of read_line and, with the next iteration, *)
(* the line it was filling.                                                *)
ReadTimeout ==
  /\ pc = "read"
  /\ line # <<>> => "slow" \in Faults
  /\ line' = <<>>
  /\ pc' = "top"
  /\ UNCHANGED <<id, processed, running, sigint, msgs, ackVars, hb, procVars, netVars>>

(* End of file or an error.                                                *)
ReadEnds ==
  /\ pc = "read"
  /\ conn = "down" /\ wire = <<>>
  /\ pc' = "cleanup"
  /\ UNCHANGED <<line, id, processed, running, sigint, msgs, ackVars, hb, procVars, netVars>>

SendMsg_TrySend ==
  /\ pc = "store"
  /\ msgs' = IF ppc = "stopped" \/ Len(msgs) >= Capacity THEN msgs ELSE Append(msgs, id)
  /\ pc' = "ack"
  /\ UNCHANGED <<line, id, processed, running, sigint, ackVars, hb, procVars, netVars>>

(* msg_tx.send waits for room, and fails when the writer task is gone.     *)
SendMsg ==
  /\ pc = "store"
  /\ IF ppc = "stopped" THEN UNCHANGED msgs
     ELSE Len(msgs) < Capacity /\ msgs' = Append(msgs, id)
  /\ pc' = "ack"
  /\ UNCHANGED <<line, id, processed, running, sigint, ackVars, hb, procVars, netVars>>

SendAck_Blocks ==
  /\ pc = "ack"
  /\ Len(acks) < Capacity /\ acks' = Append(acks, id)
  /\ pc' = "top"
  /\ id' = NoMsg
  /\ UNCHANGED <<line, processed, running, sigint, msgs, apc, aid, hb, procVars, netVars>>

SendAck ==
  /\ pc = "ack"
  /\ IF apc = "stopped" THEN UNCHANGED acks
     ELSE Len(acks) < Capacity /\ acks' = Append(acks, id)
  /\ pc' = "top"
  /\ id' = NoMsg
  /\ UNCHANGED <<line, processed, running, sigint, msgs, apc, aid, hb, procVars, netVars>>

Cleanup_StaysRunning ==
  /\ pc = "cleanup"
  /\ apc' = "stopped" /\ hb' = FALSE
  /\ pc' = "shutdown"
  /\ UNCHANGED <<running, line, id, processed, sigint, msgs, acks, aid, procVars, netVars>>

(* running is cleared, both tasks are aborted.                             *)
Cleanup ==
  /\ pc = "cleanup"
  /\ running' = FALSE
  /\ apc' = "stopped" /\ hb' = FALSE
  /\ pc' = "shutdown"
  /\ UNCHANGED <<line, id, processed, sigint, msgs, acks, aid, procVars, netVars>>

(* shutdown().await on the stream, which writes to the broker.             *)
ShutdownStream ==
  /\ pc = "shutdown"
  /\ conn' = "down"
  /\ wire' = <<>>
  /\ pc' = "loop"
  /\ UNCHANGED <<line, id, processed, running, sigint, msgs, ackVars, hb, procVars,
                 acked, pushes>>

Exit ==
  /\ pc = "wait"
  /\ ppc = "stopped"
  /\ pc' = "exit"
  /\ UNCHANGED <<line, id, processed, running, sigint, msgs, ackVars, hb, procVars, netVars>>

-----------------------------------------------------------------------------
(* ack_sender_worker.                                                      *)

AckTop ==
  /\ apc = "top"
  /\ apc' = IF running THEN "recv" ELSE "stopped"
  /\ UNCHANGED <<loopVars, running, sigint, msgs, acks, aid, hb, procVars, netVars>>

AckRecv ==
  /\ apc = "recv"
  /\ acks # <<>>
  /\ aid' = Head(acks)
  /\ acks' = Tail(acks)
  /\ apc' = "write"
  /\ UNCHANGED <<loopVars, running, sigint, msgs, hb, procVars, netVars>>

(* 500 ms without an ack to send.                                          *)
AckTimeout ==
  /\ apc = "recv"
  /\ acks = <<>>
  /\ apc' = "top"
  /\ UNCHANGED <<loopVars, running, sigint, msgs, acks, aid, hb, procVars, netVars>>

(* A write on a connection that has gone down fails, or is lost unseen.    *)
AckWrite ==
  /\ apc = "write"
  /\ IF conn = "up"
     THEN acked' = acked \cup {aid} /\ apc' = "top"
     ELSE UNCHANGED acked /\ apc' \in {"top", "stopped"}
  /\ UNCHANGED <<loopVars, running, sigint, msgs, acks, aid, hb, procVars, conn,
                 wire, pushes>>

(* heartbeat_task ends on a write that fails or when running is false.     *)
HeartbeatEnds ==
  /\ hb
  /\ conn = "down" \/ ~ running
  /\ hb' = FALSE
  /\ UNCHANGED <<loopVars, running, sigint, msgs, ackVars, procVars, netVars>>

-----------------------------------------------------------------------------
(* process_messages_task.                                                  *)

(* Without its file the task returns, and the channel goes with it.        *)
OpenFile ==
  /\ ppc = "open"
  /\ \/ ppc' = "recv" /\ UNCHANGED <<msgs, unsaved>>
     \/ "open" \in Faults /\ ppc' = "stopped" /\ msgs' = <<>> /\ unsaved' = Msgs
  /\ UNCHANGED <<loopVars, running, sigint, ackVars, hb, batch, file, netVars>>

Flush_KeepsBatch(b) ==
  /\ batch' = b
  /\ file' = file \o b
  /\ UNCHANGED unsaved

(* flush_batch: its errors are only logged, the batch is cleared.          *)
Flush(b) ==
  /\ batch' = <<>>
  /\ \/ file' = file \o b /\ UNCHANGED unsaved
     \/ "flush" \in Faults /\ unsaved' = unsaved \cup Range(b) /\ UNCHANGED file

ProcRecv ==
  /\ ppc = "recv"
  /\ msgs # <<>>
  /\ msgs' = Tail(msgs)
  /\ LET b == Append(batch, Head(msgs))
     IN IF Len(b) >= BATCH THEN Flush(b) ELSE batch' = b /\ UNCHANGED <<file, unsaved>>
  /\ UNCHANGED <<loopVars, running, sigint, ackVars, hb, ppc, netVars>>

(* Five seconds without a message: the batch is written.                   *)
ProcTimeout ==
  /\ ppc = "recv"
  /\ msgs = <<>>
  /\ Flush(batch)
  /\ ppc' = "check"
  /\ UNCHANGED <<loopVars, running, sigint, msgs, ackVars, hb, netVars>>

(* After the write, running is tested.  Without it the task ends, and what *)
(* was sent to it during the write goes with the channel.                  *)
ProcCheck ==
  /\ ppc = "check"
  /\ ppc' = IF running THEN "recv" ELSE "stopped"
  /\ msgs' = IF running THEN msgs ELSE <<>>
  /\ UNCHANGED <<loopVars, running, sigint, ackVars, hb, batch, file, unsaved, netVars>>

-----------------------------------------------------------------------------
(* The broker, the network and the user.                                   *)

Push(m) ==
  /\ conn = "up"
  /\ pc \in {"top", "read", "store", "ack"}
  /\ SumFunction(pushes) < MaxPushes
  /\ pushes' = [pushes EXCEPT ![m] = @ + 1]
  /\ wire' = wire \o <<<<m, 1>>, <<m, 2>>>>
  /\ UNCHANGED <<loopVars, running, sigint, msgs, ackVars, hb, procVars, conn, acked>>

ConnectionLost ==
  /\ "drop" \in Faults
  /\ conn = "up"
  /\ conn' = "down"
  /\ \E n \in 0 .. Len(wire) : wire' = SubSeq(wire, 1, n)
  /\ UNCHANGED <<loopVars, running, sigint, msgs, ackVars, hb, procVars, acked, pushes>>

Sigint ==
  /\ "sigint" \in Faults
  /\ ~ sigint
  /\ sigint' = TRUE
  /\ running' = FALSE
  /\ UNCHANGED <<loopVars, msgs, ackVars, hb, procVars, netVars>>

(* What main and receive_loop do by themselves, and what they wait for the *)
(* broker to do.                                                           *)
Loop ==
  \/ LoopAgain \/ HandshakeFails \/ Top \/ ReadPiece \/ ReadTimeout \/ ReadEnds
  \/ SendMsg \/ SendAck \/ Cleanup \/ Exit

Answered ==
  \/ Connect \/ ConnectFails \/ Registered \/ Configured \/ HandshakeRefused
  \/ ShutdownStream

AckSender == AckTop \/ AckRecv \/ AckTimeout

Writer == OpenFile \/ ProcRecv \/ ProcTimeout \/ ProcCheck

Next ==
  \/ Loop \/ Answered \/ AckSender \/ AckWrite \/ HeartbeatEnds \/ Writer
  \/ (\E m \in Msgs : Push(m)) \/ ConnectionLost \/ Sigint

Spec == Init /\ [][Next]_vars

(* The runtime polls each task that can go on.  The broker owes nothing: a *)
(* connection, an answer, a write and the shutdown of the stream come to   *)
(* an end only when the connection is lost.                                *)
FairSpec ==
  /\ Spec
  /\ WF_vars(Loop) /\ WF_vars(conn = "down" /\ ShutdownStream)
  /\ WF_vars(AckSender) /\ WF_vars(conn = "down" /\ AckWrite)
  /\ WF_vars(Writer)

-----------------------------------------------------------------------------
(* Every field has the type the code gives it; the channels and the batch  *)
(* are within their bounds.                                                *)
TypeOK ==
  /\ pc \in {"loop", "connect", "top", "read", "store", "ack", "cleanup", "shutdown",
             "wait", "exit"} \cup Handshaking
  /\ running \in BOOLEAN /\ sigint \in BOOLEAN /\ hb \in BOOLEAN
  /\ conn \in {"up", "down"}
  /\ wire \in Seq(Msgs \X {1, 2}) /\ line \in Seq(Msgs \X {1})
  /\ id \in Msgs \cup {NoMsg} /\ aid \in Msgs \cup {NoMsg}
  /\ processed \subseteq Msgs \ Bad
  /\ msgs \in Seq(Msgs) /\ Len(msgs) <= Capacity
  /\ acks \in Seq(Msgs) /\ Len(acks) <= Capacity
  /\ apc \in {"top", "recv", "write", "stopped"}
  /\ ppc \in {"open", "recv", "check", "stopped"}
  /\ batch \in Seq(Msgs) /\ Len(batch) < BATCH
  /\ file \in Seq(Msgs)
  /\ acked \subseteq Msgs
  /\ pushes \in [Msgs -> Nat]
  /\ unsaved \subseteq Msgs

(* A message is in the channel, the batch and the file at most once, all   *)
(* together, however often it is pushed and in whatever state the          *)
(* connection is lost: a process runs the message loop once.               *)
StoredOnce == IsInjective(file \o batch \o msgs)

(* As long as the process runs, a message the broker has got the ack for,  *)
(* which it then forgets, is in the file or on its way there, however full *)
(* the channels are; and the writer task never ends with records in its    *)
(* batch.  The exceptions are the messages a logged error of the file has  *)
(* hit.                                                                    *)
AckedIsKept ==
  /\ running => acked \ unsaved \subseteq Range(file \o batch \o msgs)
  /\ ppc = "stopped" => batch = <<>>

(* The waits for the broker that have neither a timeout nor a test of      *)
(* running.                                                                *)
AwaitsBroker ==
  \/ pc = "connect"
  \/ pc \in Handshaking /\ conn = "up"
  \/ pc = "ack" /\ Len(acks) = Capacity /\ apc = "write" /\ conn = "up"
  \/ pc = "shutdown" /\ conn = "up"

(* Once running is cleared, by Ctrl+C or by the end of a connection, the   *)
(* process ends, or the broker keeps it in one of those waits for ever: no *)
(* task waits for another one that is gone.                                *)
ShutdownEnds == ~ running ~> (pc = "exit" \/ [] AwaitsBroker)

-----------------------------------------------------------------------------
(* What the repository says and the code does not do.                      *)

(* Only Ctrl+C ends the receiver: it reconnects when a connection drops.   *)
Reconnects == pc = "exit" => sigint

(* In-flight work is drained before the process ends: what it has          *)
(* processed and stored, it has also acknowledged.                         *)
AcksDrained == pc = "exit" => Range(file) \subseteq acked

(* "Wait for the processing task to drain and finish": what the broker has *)
(* got the ack for is in the file when the process ends, errors of the     *)
(* file aside.                                                             *)
AckedIsSaved == pc = "exit" => acked \ unsaved \subseteq Range(file)

(* Every message of which the whole line has arrived is processed.         *)
LinesProcessed ==
  (pc = "read" /\ conn = "up" /\ wire = <<>> /\ line = <<>>) =>
    \A m \in Msgs \ Bad : pushes[m] > 0 => m \in processed
=============================================================================
