--------------------------- MODULE StorageProofs ----------------------------
(***************************************************************************)
(* The storage actor implements MetadataStore, for any number of messages, *)
(* callers, channel slots and faults; on the way there, that replies reach *)
(* the callers that wait for them, and that updates find their rows.       *)
(***************************************************************************)
EXTENDS Storage, TLAPS

(* Zenon proves what follows, unless a leaf asks for another prover.       *)
USE ZenonT(30)

AsyncOps == {"delivered", "acknowledged"}

(* The worker holds a command while it reconnects or executes, and a task  *)
(* in a call has its command.                                              *)
Handed ==
  /\ work # NoCommand <=> wpc \in {"reconnect", "execute"}
  /\ \A c \in Callers : cpc[c] # "idle" => call[c] \in Commands(c)

(* A command with a reply is the call of the one caller that waits for it. *)
Matched ==
  /\ Len(chan) <= Capacity
  /\ \A i \in DOMAIN chan : chan[i].op \in SyncOps =>
       cpc[chan[i].by] = "wait" /\ call[chan[i].by] = chan[i]
  /\ \A i, j \in DOMAIN chan :
       chan[i].op \in SyncOps /\ chan[j].op \in SyncOps /\ chan[i].by = chan[j].by
         => i = j
  /\ work # NoCommand /\ work.op \in SyncOps =>
       /\ cpc[work.by] = "wait" /\ call[work.by] = work
       /\ \A i \in DOMAIN chan : chan[i].op \in SyncOps => chan[i].by # work.by

(* No waiting caller has lost its command.                                 *)
Served ==
  \A c \in Callers : cpc[c] = "wait" =>
    \/ work # NoCommand /\ work.op \in SyncOps /\ work.by = c
    \/ \E i \in DOMAIN chan : chan[i].op \in SyncOps /\ chan[i].by = c

(* UpdatesHaveRows, and what makes it last: an update that waits for a     *)
(* slot has its row, and so has a publish about to be confirmed.           *)
Rows ==
  /\ UpdatesHaveRows
  /\ \A c \in Callers :
       /\ cpc[c] = "send" /\ call[c].op \in AsyncOps => meta[call[c].key] # NoMeta
       /\ cpc[c] = "return" /\ call[c].op = "save" /\ answer[c] = "ok"
            => meta[call[c].key] # NoMeta

Inv == TypeOK /\ Handed /\ Matched /\ Served /\ Rows

-----------------------------------------------------------------------------
(* What a command of StorageCommand carries.                               *)
LEMMA CommandFacts ==
  ASSUME NEW c \in Callers, NEW cmd \in Commands(c)
  PROVE  /\ cmd \in Command /\ cmd # NoCommand
         /\ cmd.by = c /\ cmd.op \in AllOps
         /\ cmd.op = "save" => cmd.key \in Ids /\ cmd.val \in Metas
         /\ cmd.op \in AsyncOps => cmd.key \in Ids /\ cmd.val \in Times
         /\ cmd.op = "save_key" => cmd.key \in Clients /\ cmd.val \in Keys \cup {BadKey}
<1>1. cmd \in Command
  BY DEF Command
<1>2. cmd # NoCommand
  BY NoCommandAssumption
<1>3. cmd.by = c /\ cmd.op \in AllOps
  BY DEF Commands, AllOps, SyncOps
<1>4. cmd.op = "save" => cmd.key \in Ids /\ cmd.val \in Metas
  BY DEF Commands
<1>5. cmd.op \in AsyncOps => cmd.key \in Ids /\ cmd.val \in Times
  BY DEF Commands, AsyncOps
<1>6. cmd.op = "save_key" => cmd.key \in Clients /\ cmd.val \in Keys \cup {BadKey}
  BY DEF Commands
<1> QED
  BY <1>1, <1>2, <1>3, <1>4, <1>5, <1>6

(* The same of a command in the channel or in the worker's hand.           *)
LEMMA CommandTypes ==
  ASSUME NEW cmd \in Command
  PROVE  /\ cmd # NoCommand
         /\ cmd.by \in Callers /\ cmd \in Commands(cmd.by) /\ cmd.op \in AllOps
         /\ cmd.op = "save" => cmd.key \in Ids /\ cmd.val \in Metas
         /\ cmd.op \in AsyncOps => cmd.key \in Ids /\ cmd.val \in Times
         /\ cmd.op = "save_key" => cmd.key \in Clients /\ cmd.val \in Keys \cup {BadKey}
<1>1. PICK c \in Callers : cmd \in Commands(c)
  BY DEF Command
<1> QED
  BY <1>1, CommandFacts

(* What the worker holds while it executes.                                *)
LEMMA Held ==
  ASSUME TypeOK, Handed, wpc \in {"reconnect", "execute"}
  PROVE  work \in Command /\ work # NoCommand
BY DEF TypeOK, Handed

(* The head of a channel that is not empty is a command.                   *)
LEMMA HeadFacts ==
  ASSUME NEW S, NEW s \in Seq(S), s # <<>>
  PROVE  /\ Head(s) \in S /\ Head(s) = s[1]
         /\ Tail(s) \in Seq(S) /\ Len(Tail(s)) = Len(s) - 1 /\ 1 \in DOMAIN s
         /\ \A i \in DOMAIN Tail(s) : Tail(s)[i] = s[i + 1] /\ i + 1 \in DOMAIN s
         /\ \A i \in DOMAIN s : i # 1 => i - 1 \in DOMAIN Tail(s)
BY SMTT(30)

(* The state of the calls that a step of the worker leaves alone.          *)
LEMMA TypesStep == TypeOK /\ Handed /\ [Next]_vars => TypeOK'
<1> SUFFICES ASSUME TypeOK, Handed, [Next]_vars
             PROVE  TypeOK'
  OBVIOUS
<1> USE DEF tables, buffers, callers
<1>1. ASSUME NEW c \in Callers, NEW cmd \in Commands(c), Call(c, cmd)
      PROVE  TypeOK'
  BY <1>1, CommandFacts DEF Call, TypeOK
<1>2. ASSUME NEW c \in Callers, Send(c)
      PROVE  TypeOK'
  <2>1. call[c] \in Command
    BY <1>2, CommandFacts DEF Send, Handed
  <2> QED
    BY <1>2, <2>1, SMTT(30) DEF Send, TypeOK
<1>3. ASSUME NEW c \in Callers, Return(c)
      PROVE  TypeOK'
  <2>1. call[c] \in Commands(c)
    BY <1>3 DEF Return, Handed
  <2>2. known' \subseteq Ids
    BY <1>3, <2>1, CommandFacts, SMTT(30) DEF Return, TypeOK, AsyncOps
  <2> QED
    BY <1>3, <2>2 DEF Return, TypeOK
<1>4. CASE Recv
  BY <1>4, HeadFacts DEF Recv, TypeOK
<1>5. CASE Reconnect \/ Tick
  BY <1>5 DEF Reconnect, Tick, TypeOK
<1>6. CASE ReconnectFails
  BY <1>6, Held, CommandTypes, SMTT(30) DEF ReconnectFails, Reply, Done, Fault, TypeOK
<1>7. CASE SaveMetadata \/ Query
  BY <1>7, Held, CommandTypes DEF SaveMetadata, Query, Execute, Reply, Done, TypeOK
<1>8. CASE SavePublicKey
  BY <1>8, Held, CommandTypes DEF SavePublicKey, Execute, Reply, Done, TypeOK
<1>9. CASE QueryFails
  BY <1>9, Held, CommandTypes, SMTT(30) DEF QueryFails, StatementFails, Fault, Execute, Reply, Done, TypeOK
<1>10. CASE BufferDelivered \/ BufferAcknowledged
  BY <1>10, Held, CommandTypes DEF BufferDelivered, BufferAcknowledged, Execute, AsyncOps, TypeOK
<1>11. CASE FlushDelivered \/ FlushAcknowledged
  BY <1>11 DEF FlushDelivered, FlushAcknowledged, Filled, NoUpdates, TypeOK
<1>12. CASE FlushDeliveredFails \/ FlushAcknowledgedFails
  BY <1>12, SMTT(30) DEF FlushDeliveredFails, FlushAcknowledgedFails, StatementFails, Fault, NoUpdates, TypeOK
<1>13. CASE ClosePool
  <2>1. pool' \in BOOLEAN
    BY <1>13 DEF ClosePool
  <2> QED
    BY <1>13, <2>1, SMTT(30) DEF ClosePool, Fault, TypeOK
<1>14. CASE Crash
  <2>1. pool' \in BOOLEAN /\ loaded' \in BOOLEAN
    BY <1>14 DEF Crash
  <2>2. chan' \in Seq(Command) /\ known' \subseteq Ids
    BY <1>14, SMTT(30) DEF Crash
  <2> QED
    BY <1>14, <2>1, <2>2, SMTT(30) DEF Crash, Fault, Done, NoUpdates, TypeOK
<1>15. CASE UNCHANGED vars
  BY <1>15 DEF vars, TypeOK
<1>16. ASSUME NEW id \in Ids, Forget(id)
       PROVE  TypeOK'
  BY <1>16 DEF Forget, TypeOK
<1> HIDE DEF tables, buffers, callers
<1> QED
  BY <1>1, <1>2, <1>3, <1>4, <1>5, <1>6, <1>7, <1>8, <1>9, <1>10, <1>11, <1>12, <1>13, <1>14,
     <1>15, <1>16 DEF Next, Worker

(* The steps that end a command that has a reply.                          *)
LEMMA Finishes ==
  ASSUME TypeOK, Handed,
         ReconnectFails \/ SaveMetadata \/ Query \/ SavePublicKey \/ QueryFails
  PROVE  /\ work \in Command /\ work # NoCommand /\ work.by \in Callers
         /\ chan' = chan /\ work' = NoCommand /\ wpc' = "select" /\ call' = call
         /\ buffers' = buffers /\ known' = known
         /\ \/ /\ work.op \in SyncOps /\ cpc' = [cpc EXCEPT ![work.by] = "return"]
               /\ \E a \in {"ok", "error"} : answer' = [answer EXCEPT ![work.by] = a]
            \/ work.op \notin SyncOps /\ cpc' = cpc /\ answer' = answer
<1>1. work \in Command /\ work # NoCommand /\ work.by \in Callers
  BY Held, CommandTypes DEF ReconnectFails, SaveMetadata, Query, SavePublicKey, QueryFails, Execute
<1> QED
  BY <1>1 DEF ReconnectFails, SaveMetadata, Query, SavePublicKey, QueryFails, Execute, Reply, Done,
              SyncOps, callers, buffers, tables

(* The steps that concern no call: the worker on its buffers, the pool.    *)
Quiet ==
  \/ Reconnect \/ Tick \/ BufferDelivered \/ BufferAcknowledged
  \/ FlushDelivered \/ FlushAcknowledged \/ FlushDeliveredFails \/ FlushAcknowledgedFails
  \/ ClosePool \/ (\E id \in Ids : Forget(id)) \/ UNCHANGED vars

(* They leave the channel and the calls alone.                             *)
LEMMA QuietFacts ==
  ASSUME Quiet
  PROVE  /\ chan' = chan /\ call' = call /\ cpc' = cpc /\ answer' = answer
         /\ known' \subseteq known /\ meta' = meta
         /\ work' = work \/ (work' = NoCommand /\ work.op \notin SyncOps)
<1> USE DEF tables, buffers, callers
<1>1. CASE Reconnect \/ Tick \/ BufferDelivered \/ BufferAcknowledged
  BY <1>1 DEF Reconnect, Tick, BufferDelivered, BufferAcknowledged, Execute, SyncOps
<1>2. CASE \/ FlushDelivered \/ FlushAcknowledged \/ FlushDeliveredFails \/ FlushAcknowledgedFails
           \/ ClosePool \/ (\E id \in Ids : Forget(id)) \/ UNCHANGED vars
  BY <1>2 DEF FlushDelivered, FlushAcknowledged, FlushDeliveredFails, FlushAcknowledgedFails,
              ClosePool, Forget, vars
<1> QED
  BY <1>1, <1>2 DEF Quiet

(* Tasks in a call keep their command; the worker drops its own with Done. *)
LEMMA HandedStep == TypeOK /\ Handed /\ Matched /\ [Next]_vars => Handed'
<1> SUFFICES ASSUME TypeOK, Handed, Matched, [Next]_vars
             PROVE  Handed'
  OBVIOUS
<1> USE DEF tables, buffers, callers
<1>1. ASSUME NEW c \in Callers, NEW cmd \in Commands(c), Call(c, cmd)
      PROVE  Handed'
  BY <1>1 DEF Call, TypeOK, Handed
<1>2. ASSUME NEW c \in Callers, Send(c) \/ Return(c)
      PROVE  Handed'
  BY <1>2 DEF Send, Return, TypeOK, Handed
<1>3. CASE Recv
  BY <1>3, HeadFacts, CommandTypes DEF Recv, TypeOK, Handed
<1>4. CASE Reconnect \/ Tick
  BY <1>4 DEF Reconnect, Tick, Handed
<1>5. ASSUME \/ ReconnectFails \/ SaveMetadata \/ Query \/ SavePublicKey \/ QueryFails
      PROVE  Handed'
  <2>1. /\ work \in Command /\ work # NoCommand /\ work.by \in Callers
        /\ work' = NoCommand /\ wpc' = "select" /\ call' = call
        /\ cpc' = cpc \/ (work.op \in SyncOps /\ cpc' = [cpc EXCEPT ![work.by] = "return"])
    BY <1>5, Finishes
  <2> QED
    BY <2>1 DEF Handed, Matched, TypeOK
<1>6. CASE \/ BufferDelivered \/ BufferAcknowledged
  BY <1>6 DEF BufferDelivered, BufferAcknowledged, Handed
<1>7. CASE \/ FlushDelivered \/ FlushAcknowledged \/ FlushDeliveredFails \/ FlushAcknowledgedFails
  BY <1>7 DEF FlushDelivered, FlushAcknowledged, FlushDeliveredFails, FlushAcknowledgedFails, Handed
<1>8. CASE ClosePool
  BY <1>8 DEF ClosePool, Handed
<1>9. CASE Crash
  BY <1>9 DEF Crash, Done, Handed
<1>10. CASE UNCHANGED vars
  BY <1>10 DEF vars, Handed
<1>11. ASSUME NEW id \in Ids, Forget(id)
       PROVE  Handed'
  BY <1>11 DEF Forget, Handed
<1> HIDE DEF tables, buffers, callers
<1> QED
  BY <1>1, <1>2, <1>3, <1>4, <1>5, <1>6, <1>7, <1>8, <1>9, <1>10, <1>11 DEF Next, Worker

(* Channel and calls stay as Matched and Served want them: a reply is sent *)
(* to the caller whose command leaves the worker's hand, and no other.     *)
LEMMA MatchedStep ==
  TypeOK /\ Handed /\ Matched /\ Served /\ [Next]_vars => Matched' /\ Served'
<1> SUFFICES ASSUME TypeOK, Handed, Matched, Served, [Next]_vars
             PROVE  Matched' /\ Served'
  OBVIOUS
<1> USE DEF tables, buffers, callers
<1>0. /\ cpc \in [Callers -> {"idle", "send", "wait", "return"}]
      /\ call \in [Callers -> Command \cup {NoCommand}] /\ chan \in Seq(Command)
      /\ \A i \in DOMAIN chan : chan[i] \in Command /\ chan[i].by \in Callers
      /\ work # NoCommand => work.by \in Callers
  BY CommandTypes, SMTT(30) DEF TypeOK
<1>1. ASSUME NEW c \in Callers, NEW cmd \in Commands(c), Call(c, cmd)
      PROVE  Matched' /\ Served'
  BY <1>0, <1>1 DEF Call, Matched, Served
<1>2. ASSUME NEW c \in Callers, Send(c)
      PROVE  Matched' /\ Served'
  <2>1. call[c] \in Command /\ call[c].by = c /\ cpc[c] = "send"
    BY <1>2, CommandFacts DEF Send, Handed
  <2>2. /\ Len(chan') = Len(chan) + 1 /\ Len(chan') <= Capacity /\ Len(chan) \in Nat
        /\ DOMAIN chan' = 1 .. (Len(chan) + 1) /\ DOMAIN chan = 1 .. Len(chan)
        /\ chan'[Len(chan) + 1] = call[c]
        /\ \A i \in DOMAIN chan : chan'[i] = chan[i]
    BY <1>0, <1>2, <2>1, StorageAssumption, SMTT(30) DEF Send
  <2>3. /\ call' = call /\ work' = work
        /\ \A d \in Callers : d # c => cpc'[d] = cpc[d]
        /\ cpc'[c] = IF call[c].op \in SyncOps THEN "wait" ELSE "return"
    BY <1>0, <1>2 DEF Send
  <2>4. Matched'
    BY <1>0, <2>1, <2>2, <2>3, SMTT(30) DEF Matched
  <2>5. Served'
    BY <1>0, <2>1, <2>2, <2>3, SMTT(30) DEF Served
  <2> QED
    BY <2>4, <2>5
<1>3. ASSUME NEW c \in Callers, Return(c)
      PROVE  Matched' /\ Served'
  BY <1>0, <1>3 DEF Return, Matched, Served
<1>4. CASE Recv
  <2>1. /\ work = NoCommand /\ work' = chan[1] /\ work' # NoCommand /\ 1 \in DOMAIN chan
        /\ cpc' = cpc /\ call' = call
    BY <1>0, <1>4, HeadFacts, CommandTypes DEF Recv, Handed
  <2>2. /\ Len(chan') <= Len(chan) /\ Len(chan) \in Nat /\ Len(chan') \in Nat
        /\ \A i \in DOMAIN chan' : chan'[i] = chan[i + 1] /\ i + 1 \in DOMAIN chan /\ i \in Nat
        /\ \A i \in DOMAIN chan : i # 1 => i - 1 \in DOMAIN chan' /\ i \in Nat
    BY <1>0, <1>4, SMTT(30) DEF Recv
  <2>3. Matched'
    <3>1. Len(chan') <= Capacity
      BY <2>2, StorageAssumption, SMTT(30) DEF Matched
    <3>2. \A i \in DOMAIN chan' : chan'[i].op \in SyncOps =>
            cpc'[chan'[i].by] = "wait" /\ call'[chan'[i].by] = chan'[i]
      BY <2>1, <2>2, SMTT(30) DEF Matched
    <3>3. ASSUME NEW i \in DOMAIN chan', NEW j \in DOMAIN chan',
                 chan'[i].op \in SyncOps, chan'[j].op \in SyncOps, chan'[i].by = chan'[j].by
          PROVE  i = j
      <4>1. i + 1 = j + 1
        BY <2>2, <3>3, SMTT(30) DEF Matched
      <4> QED
        BY <2>2, <4>1, SMTT(30)
    <3>4. work'.op \in SyncOps => cpc'[work'.by] = "wait" /\ call'[work'.by] = work'
      BY <2>1 DEF Matched
    <3>5. ASSUME NEW i \in DOMAIN chan', work'.op \in SyncOps, chan'[i].op \in SyncOps
          PROVE  chan'[i].by # work'.by
      <4>1. /\ chan'[i] = chan[i + 1] /\ work' = chan[1] /\ i + 1 # 1
            /\ 1 \in DOMAIN chan /\ i + 1 \in DOMAIN chan
        BY <2>1, <2>2, SMTT(30)
      <4>2. \A m, n \in DOMAIN chan :
              chan[m].op \in SyncOps /\ chan[n].op \in SyncOps /\ chan[m].by = chan[n].by
                => m = n
        BY DEF Matched
      <4> HIDE <2>1, <2>2, <1>0
      <4> QED
        BY <3>5, <4>1, <4>2
    <3> QED
      BY <3>1, <3>2, <3>3, <3>4, <3>5 DEF Matched
  <2>4. ASSUME NEW c \in Callers, cpc'[c] = "wait"
        PROVE  \/ work' # NoCommand /\ work'.op \in SyncOps /\ work'.by = c
               \/ \E i \in DOMAIN chan' : chan'[i].op \in SyncOps /\ chan'[i].by = c
    <3>1. PICK i \in DOMAIN chan : chan[i].op \in SyncOps /\ chan[i].by = c
      BY <2>1, <2>4 DEF Served
    <3>2. CASE i = 1
      BY <2>1, <3>1, <3>2
    <3>3. CASE i # 1
      <4>1. i - 1 \in DOMAIN chan' /\ chan'[i - 1] = chan[i]
        BY <2>2, <3>3, SMTT(30)
      <4> QED
        BY <3>1, <4>1
    <3> QED
      BY <3>2, <3>3
  <2> QED
    BY <2>3, <2>4 DEF Served
<1>5. CASE \/ ReconnectFails \/ SaveMetadata \/ Query \/ SavePublicKey \/ QueryFails
  <2>1. /\ work \in Command /\ work # NoCommand /\ work.by \in Callers
        /\ chan' = chan /\ work' = NoCommand /\ call' = call
        /\ \/ work.op \in SyncOps /\ cpc' = [cpc EXCEPT ![work.by] = "return"]
           \/ work.op \notin SyncOps /\ cpc' = cpc
    BY <1>5, Finishes
  <2>2. Matched'
    BY <1>0, <2>1 DEF Matched
  <2>3. Served'
    BY <1>0, <2>1 DEF Served
  <2> QED
    BY <2>2, <2>3
<1>6. CASE Quiet
  <2>1. /\ chan' = chan /\ call' = call /\ cpc' = cpc
        /\ work' = work \/ (work' = NoCommand /\ work.op \notin SyncOps)
    BY <1>6, QuietFacts
  <2> QED
    BY <2>1 DEF Matched, Served
<1>7. CASE Crash
  BY <1>7, StorageAssumption, SMTT(30) DEF Crash, Done, Matched, Served
<1> HIDE DEF tables, buffers, callers
<1> QED
  BY <1>1, <1>2, <1>3, <1>4, <1>5, <1>6, <1>7 DEF Next, Worker, Quiet

-----------------------------------------------------------------------------
(* Recv moves a command from the channel to the worker's hand.             *)
LEMMA UpdatesRecv ==
  ASSUME TypeOK, Handed, Recv, NEW op
  PROVE  Updates(op)' = Updates(op)
<1>1. /\ work = NoCommand /\ work' = chan[1] /\ 1 \in DOMAIN chan
      /\ \A i \in DOMAIN chan' : chan'[i] = chan[i + 1] /\ i + 1 \in DOMAIN chan
      /\ \A i \in DOMAIN chan : i # 1 => i - 1 \in DOMAIN chan' /\ chan'[i - 1] = chan[i]
  BY HeadFacts, SMTT(30) DEF Recv, Handed, TypeOK
<1>2. {chan'[i] : i \in DOMAIN chan'} \cup {work'} = {chan[i] : i \in DOMAIN chan}
  BY <1>1, SMTT(30)
<1> QED
  BY <1>1, <1>2 DEF Updates

(* send puts the caller's command into the channel.                        *)
LEMMA UpdatesSend ==
  ASSUME TypeOK, Handed, NEW c \in Callers, Send(c), NEW op
  PROVE  Updates(op)' = IF call[c].op = op THEN Updates(op) \cup {call[c]} ELSE Updates(op)
<1>1. call[c] \in Command /\ call[c] # NoCommand /\ chan \in Seq(Command)
  BY CommandFacts DEF Send, Handed, TypeOK
<1>2. {chan'[i] : i \in DOMAIN chan'} = {chan[i] : i \in DOMAIN chan} \cup {call[c]}
  <2>1. /\ Len(chan) \in Nat /\ DOMAIN chan' = 1 .. (Len(chan) + 1) /\ DOMAIN chan = 1 .. Len(chan)
        /\ chan'[Len(chan) + 1] = call[c]
        /\ \A i \in DOMAIN chan : chan'[i] = chan[i]
    <3>1. chan' = Append(chan, call[c])
      BY DEF Send
    <3> QED
      BY <1>1, <3>1, SMTT(30)
  <2> QED
    BY <2>1, SMTT(30)
<1>3. work' = work
  BY DEF Send
<1> QED
  BY <1>1, <1>2, <1>3 DEF Updates

(* A command that leaves the worker's hand is the only one to disappear.   *)
LEMMA UpdatesDone ==
  ASSUME chan' = chan, work' = work \/ work' = NoCommand, NEW op
  PROVE  /\ Updates(op)' \subseteq Updates(op)
         /\ Updates(op) \subseteq Updates(op)' \cup {work}
         /\ work' = work \/ work.op # op => Updates(op)' = Updates(op)
BY DEF Updates

(* What is owed follows from the updates under way and the buffers.        *)
LEMMA OwedSame ==
  ASSUME \A op \in AsyncOps : Updates(op)' = Updates(op), buffers' = buffers
  PROVE  owed_delivered' = owed_delivered /\ owed_acknowledged' = owed_acknowledged
BY DEF owed_delivered, owed_acknowledged, Pending, Pairs, buffers, AsyncOps

(* Less under way, or less in the buffers: less is owed.                   *)
LEMMA OwedLess ==
  ASSUME \A op \in AsyncOps : Updates(op)' \subseteq Updates(op),
         \A id \in Ids : /\ delivered_updates'[id] \in {delivered_updates[id], NoTime}
                         /\ acknowledged_updates'[id] \in {acknowledged_updates[id], NoTime}
  PROVE  /\ owed_delivered' \subseteq owed_delivered
         /\ owed_acknowledged' \subseteq owed_acknowledged
BY DEF owed_delivered, owed_acknowledged, Pending, Pairs, AsyncOps

(* What is owed after a step is owed to a message.                         *)
LEMMA OwedTypes ==
  ASSUME TypeOK', NEW u \in (owed_delivered \cup owed_acknowledged)'
  PROVE  u[1] \in Ids
<1>1. ASSUME NEW op \in AsyncOps, NEW cmd \in Updates(op)'
      PROVE  cmd.key \in Ids
  BY <1>1, CommandTypes, SMTT(30) DEF Updates, TypeOK
<1> QED
  BY <1>1, SMTT(30) DEF owed_delivered, owed_acknowledged, Pending, Pairs, AsyncOps

-----------------------------------------------------------------------------
(* A step that leaves the tables, the debts and the faults alone stutters. *)
LEMMA Stutters ==
  ASSUME tables' = tables, pool' = pool, faults' = faults,
         owed_delivered' = owed_delivered, owed_acknowledged' = owed_acknowledged
  PROVE  UNCHANGED Store!vars
BY DEF tables, Store!vars, Store!columns, Store!owed, Store!health

(* A step that takes a fault, or meets the closed pool, may lose updates.  *)
LEMMA Loses ==
  ASSUME tables' = tables, faults' = faults + 1 \/ (~ pool /\ faults' = faults),
         owed_delivered' \subseteq owed_delivered, owed_acknowledged' \subseteq owed_acknowledged
  PROVE  Store!Next
BY DEF tables, Store!Next, Store!Lose, Store!columns

(* The send of an update is a promise of the store: its row is there.      *)
LEMMA SendSimulates ==
  ASSUME TypeOK, Handed, Rows, NEW c \in Callers, Send(c)
  PROVE  Store!Next \/ UNCHANGED Store!vars
<1>0. tables' = tables /\ buffers' = buffers /\ pool' = pool /\ faults' = faults
  BY DEF Send, tables, buffers
<1>1. /\ cpc[c] = "send" /\ call[c].op \in AllOps
      /\ call[c].op \in AsyncOps => call[c].key \in Ids /\ call[c].val \in Times
  BY CommandFacts DEF Send, Handed
<1>2. CASE call[c].op \notin AsyncOps
  <2>1. \A op \in AsyncOps : Updates(op)' = Updates(op)
    BY <1>2, UpdatesSend
  <2> QED
    BY <1>0, <2>1, OwedSame, Stutters
<1>3. CASE call[c].op \in AsyncOps
  <2>1. meta[call[c].key] # NoMeta
    BY <1>1, <1>3 DEF Rows
  <2>2. \A op \in AsyncOps :
          Updates(op)' = IF call[c].op = op THEN Updates(op) \cup {call[c]} ELSE Updates(op)
    BY UpdatesSend
  <2>3. \/ /\ owed_delivered' = owed_delivered \cup {<<call[c].key, call[c].val>>}
           /\ owed_acknowledged' = owed_acknowledged
        \/ /\ owed_acknowledged' = owed_acknowledged \cup {<<call[c].key, call[c].val>>}
           /\ owed_delivered' = owed_delivered
    <3>1. CASE call[c].op = "delivered"
      <4>1. /\ Updates("delivered")' = Updates("delivered") \cup {call[c]}
            /\ Updates("acknowledged")' = Updates("acknowledged")
        BY <2>2, <3>1 DEF AsyncOps
      <4> QED
        BY <1>0, <4>1 DEF owed_delivered, owed_acknowledged, Pending, Pairs, buffers
    <3>2. CASE call[c].op = "acknowledged"
      <4>1. /\ Updates("acknowledged")' = Updates("acknowledged") \cup {call[c]}
            /\ Updates("delivered")' = Updates("delivered")
        BY <2>2, <3>2 DEF AsyncOps
      <4> QED
        BY <1>0, <4>1 DEF owed_delivered, owed_acknowledged, Pending, Pairs, buffers
    <3> QED
      BY <1>3, <3>1, <3>2 DEF AsyncOps
  <2>4. Store!Promise(call[c].key, call[c].val)
    BY <1>0, <2>1, <2>3 DEF tables, Store!Promise, Store!columns, Store!health
  <2> QED
    BY <1>1, <1>3, <2>4 DEF Store!Next
<1> QED
  BY <1>2, <1>3

(* The end of a command with a reply: a row, a key, or nothing.            *)
LEMMA FinishSimulates ==
  ASSUME TypeOK, Handed,
         ReconnectFails \/ SaveMetadata \/ Query \/ SavePublicKey \/ QueryFails
  PROVE  Store!Next \/ UNCHANGED Store!vars
<1>0. /\ work \in Command /\ chan' = chan /\ work' = NoCommand /\ buffers' = buffers
  BY Finishes
<1>1. CASE ReconnectFails
  <2>1. \A op \in AsyncOps : Updates(op)' \subseteq Updates(op)
    BY <1>0, UpdatesDone
  <2>2. owed_delivered' \subseteq owed_delivered /\ owed_acknowledged' \subseteq owed_acknowledged
    BY <1>0, <2>1, OwedLess DEF buffers
  <2>3. tables' = tables /\ faults' = faults + 1
    BY <1>1 DEF ReconnectFails, Fault, tables
  <2> QED
    BY <2>2, <2>3, Loses
<1>2. CASE SaveMetadata \/ Query \/ SavePublicKey \/ QueryFails
  <2>1. work.op \notin AsyncOps
    BY <1>2 DEF SaveMetadata, Query, SavePublicKey, QueryFails, Execute, SyncOps, AsyncOps
  <2>2. \A op \in AsyncOps : Updates(op)' = Updates(op)
    BY <1>0, <2>1, UpdatesDone
  <2>3. owed_delivered' = owed_delivered /\ owed_acknowledged' = owed_acknowledged
    BY <1>0, <2>2, OwedSame
  <2>4. CASE SaveMetadata
    <3>1. work.key \in Ids /\ work.val \in Metas
      BY <1>0, <2>4, CommandTypes DEF SaveMetadata, Execute
    <3>2. Store!Save(work.key, work.val)
      BY <2>3, <2>4 DEF SaveMetadata, Store!Save, Store!columns, Store!owed, Store!health
    <3> QED
      BY <3>1, <3>2 DEF Store!Next
  <2>5. CASE Query
    BY <2>3, <2>5, Stutters DEF Query
  <2>6. CASE SavePublicKey
    <3>1. CASE work.val = BadKey
      BY <2>3, <2>6, <3>1, Stutters DEF SavePublicKey, tables
    <3>2. CASE work.val # BadKey
      <4>1. work.key \in Clients /\ work.val \in Keys
        BY <1>0, <2>6, <3>2, CommandTypes DEF SavePublicKey, Execute
      <4>2. Store!SaveKey(work.key, work.val)
        BY <2>3, <2>6, <3>2
           DEF SavePublicKey, Store!SaveKey, Store!columns, Store!owed, Store!health
      <4> QED
        BY <4>1, <4>2 DEF Store!Next
    <3> QED
      BY <3>1, <3>2
  <2>7. CASE QueryFails
    BY <2>3, <2>7, Loses DEF QueryFails, StatementFails, Fault
  <2> QED
    BY <1>2, <2>4, <2>5, <2>6, <2>7
<1> QED
  BY <1>1, <1>2

(* Buffering w: the pair of w stays, and another pair of its message may   *)
(* go.                                                                     *)
LEMMA Superseding ==
  ASSUME NEW old, NEW new \in SUBSET old, NEW w \in old, old \subseteq new \cup {w},
         NEW f \in [Ids -> Times \cup {NoTime}], w.key \in Ids, w.val # NoTime
  PROVE  Store!Superseded(Pairs(old, f), Pairs(new, [f EXCEPT ![w.key] = w.val]))
<1> DEFINE g == [f EXCEPT ![w.key] = w.val]
<1>1. g[w.key] = w.val /\ \A id \in Ids : id # w.key => g[id] = f[id]
  OBVIOUS
<1> HIDE DEF g
<1> USE DEF Pairs
<1>2. <<w.key, w.val>> \in Pairs(new, g)
  BY <1>1
<1>3. ASSUME NEW u \in Pairs(new, g)
      PROVE  u \in Pairs(old, f)
  <2>1. CASE \E cmd \in new : u = <<cmd.key, cmd.val>>
    BY <2>1
  <2>2. ASSUME NEW id \in Ids, g[id] # NoTime, u = <<id, g[id]>>
        PROVE  u \in Pairs(old, f)
    <3>1. CASE id = w.key
      BY <1>1, <2>2, <3>1
    <3>2. CASE id # w.key
      BY <1>1, <2>2, <3>2
    <3> QED
      BY <3>1, <3>2
  <2> QED
    BY <1>3, <2>1, <2>2
<1>4. ASSUME NEW u \in Pairs(old, f), u \notin Pairs(new, g)
      PROVE  \E v \in Pairs(new, g) : v[1] = u[1]
  <2>1. CASE \E cmd \in old : u = <<cmd.key, cmd.val>>
    BY <1>2, <1>4, <2>1
  <2>2. ASSUME NEW id \in Ids, f[id] # NoTime, u = <<id, f[id]>>
        PROVE  \E v \in Pairs(new, g) : v[1] = u[1]
    <3>1. CASE id = w.key
      BY <1>2, <2>2, <3>1
    <3>2. CASE id # w.key
      BY <1>1, <1>4, <2>2, <3>2
    <3> QED
      BY <3>1, <3>2
  <2> QED
    BY <1>4, <2>1, <2>2
<1> HIDE DEF Pairs
<1>5. Store!Superseded(Pairs(old, f), Pairs(new, g))
  BY <1>3, <1>4 DEF Store!Superseded
<1> QED
  BY <1>5 DEF g

(* A buffered update takes the place of an earlier one of its message.     *)
LEMMA BufferSimulates ==
  ASSUME TypeOK, Handed, BufferDelivered \/ BufferAcknowledged
  PROVE  Store!Next
<1>0. /\ work \in Command /\ work # NoCommand /\ work' = NoCommand /\ chan' = chan
      /\ tables' = tables /\ pool' = pool /\ faults' = faults
  BY Held DEF BufferDelivered, BufferAcknowledged, Execute
<1>1. work.key \in Ids /\ work.val \in Times
  BY <1>0, CommandTypes DEF BufferDelivered, BufferAcknowledged, Execute, AsyncOps
<1>2. /\ delivered_updates \in [Ids -> Times \cup {NoTime}]
      /\ acknowledged_updates \in [Ids -> Times \cup {NoTime}]
      /\ work.val # NoTime
  BY <1>1, StorageAssumption DEF TypeOK
<1>3. work \in Updates(work.op)
  BY <1>0 DEF Updates
<1>4. CASE BufferDelivered
  <2>1. /\ work.op = "delivered" /\ acknowledged_updates' = acknowledged_updates
        /\ delivered_updates' = [delivered_updates EXCEPT ![work.key] = work.val]
    BY <1>4 DEF BufferDelivered, Execute
  <2>2. /\ Updates("delivered")' \subseteq Updates("delivered")
        /\ Updates("delivered") \subseteq Updates("delivered")' \cup {work}
        /\ Updates("acknowledged")' = Updates("acknowledged")
    BY <1>0, <2>1, UpdatesDone
  <2>3. owed_acknowledged' = owed_acknowledged
    BY <2>1, <2>2 DEF owed_acknowledged, Pending, Pairs
  <2>4. Store!Superseded(owed_delivered, owed_delivered')
    BY <1>1, <1>2, <1>3, <2>1, <2>2, Superseding DEF owed_delivered, Pending
  <2>5. Store!Superseded(owed_acknowledged, owed_acknowledged')
    BY <2>3 DEF Store!Superseded
  <2> QED
    BY <1>0, <2>4, <2>5 DEF Store!Next, Store!Supersede, Store!columns, Store!health, tables
<1>5. CASE BufferAcknowledged
  <2>1. /\ work.op = "acknowledged" /\ delivered_updates' = delivered_updates
        /\ acknowledged_updates' = [acknowledged_updates EXCEPT ![work.key] = work.val]
    BY <1>5 DEF BufferAcknowledged, Execute
  <2>2. /\ Updates("acknowledged")' \subseteq Updates("acknowledged")
        /\ Updates("acknowledged") \subseteq Updates("acknowledged")' \cup {work}
        /\ Updates("delivered")' = Updates("delivered")
    BY <1>0, <2>1, UpdatesDone
  <2>3. owed_delivered' = owed_delivered
    BY <2>1, <2>2 DEF owed_delivered, Pending, Pairs
  <2>4. Store!Superseded(owed_acknowledged, owed_acknowledged')
    BY <1>1, <1>2, <1>3, <2>1, <2>2, Superseding DEF owed_acknowledged, Pending
  <2>5. Store!Superseded(owed_delivered, owed_delivered')
    BY <2>3 DEF Store!Superseded
  <2> QED
    BY <1>0, <2>4, <2>5 DEF Store!Next, Store!Supersede, Store!columns, Store!health, tables
<1> QED
  BY <1>4, <1>5

(* A flush records the buffer, which it clears; only NULLs are written.    *)
LEMMA FlushSimulates ==
  ASSUME TypeOK, FlushDelivered \/ FlushAcknowledged
  PROVE  Store!Next
<1>0. \A op \in AsyncOps : Updates(op)' = Updates(op)
  BY UpdatesDone DEF FlushDelivered, FlushAcknowledged
<1>1. CASE FlushDelivered
  <2>1. /\ delivered_time' = Store!Recorded(delivered_time, delivered_updates)
        /\ delivered_updates' = NoUpdates /\ delivered_updates \in Store!Batches
    BY <1>1 DEF FlushDelivered, Filled, Store!Recorded, Store!Batches, TypeOK
  <2>2. Store!Settled(owed_delivered, owed_delivered', delivered_updates)
    BY <1>0, <2>1, SMTT(30) DEF owed_delivered, Pending, Pairs, Store!Settled, NoUpdates, AsyncOps
  <2>3. owed_acknowledged' = owed_acknowledged
    BY <1>0, <1>1 DEF FlushDelivered, owed_acknowledged, Pending, Pairs, AsyncOps
  <2>4. Store!RecordDelivered
    BY <1>1, <2>1, <2>2, <2>3 DEF FlushDelivered, Store!RecordDelivered, Store!health
  <2> QED
    BY <2>4 DEF Store!Next
<1>2. CASE FlushAcknowledged
  <2>1. /\ acknowledged_time' = Store!Recorded(acknowledged_time, acknowledged_updates)
        /\ acknowledged_updates' = NoUpdates /\ acknowledged_updates \in Store!Batches
    BY <1>2 DEF FlushAcknowledged, Filled, Store!Recorded, Store!Batches, TypeOK
  <2>2. Store!Settled(owed_acknowledged, owed_acknowledged', acknowledged_updates)
    BY <1>0, <2>1, SMTT(30) DEF owed_acknowledged, Pending, Pairs, Store!Settled, NoUpdates, AsyncOps
  <2>3. owed_delivered' = owed_delivered
    BY <1>0, <1>2 DEF FlushAcknowledged, owed_delivered, Pending, Pairs, AsyncOps
  <2>4. Store!RecordAcknowledged
    BY <1>2, <2>1, <2>2, <2>3 DEF FlushAcknowledged, Store!RecordAcknowledged, Store!health
  <2> QED
    BY <2>4 DEF Store!Next
<1> QED
  BY <1>1, <1>2

(* Every step of the actor is a step of the store, or none.                *)
LEMMA Simulates ==
  ASSUME TypeOK, Handed, Rows, [Next]_vars
  PROVE  Store!Next \/ UNCHANGED Store!vars
<1> USE DEF tables, buffers, callers
<1>1. ASSUME NEW c \in Callers, (\E cmd \in Commands(c) : Call(c, cmd)) \/ Return(c)
      PROVE  UNCHANGED Store!vars
  <2>1. /\ chan' = chan /\ work' = work /\ buffers' = buffers
        /\ tables' = tables /\ pool' = pool /\ faults' = faults
    BY <1>1 DEF Call, Return
  <2> QED
    BY <2>1, UpdatesDone, OwedSame, Stutters
<1>2. ASSUME NEW c \in Callers, Send(c)
      PROVE  Store!Next \/ UNCHANGED Store!vars
  BY <1>2, SendSimulates
<1>3. CASE Recv
  <2>1. \A op \in AsyncOps : Updates(op)' = Updates(op)
    BY <1>3, UpdatesRecv
  <2>2. buffers' = buffers /\ tables' = tables /\ pool' = pool /\ faults' = faults
    BY <1>3 DEF Recv
  <2> QED
    BY <2>1, <2>2, OwedSame, Stutters
<1>4. CASE ReconnectFails \/ SaveMetadata \/ Query \/ SavePublicKey \/ QueryFails
  BY <1>4, FinishSimulates
<1>5. CASE BufferDelivered \/ BufferAcknowledged
  BY <1>5, BufferSimulates
<1>6. CASE FlushDelivered \/ FlushAcknowledged
  BY <1>6, FlushSimulates
<1>7. CASE Tick \/ (\E id \in Ids : Forget(id)) \/ UNCHANGED vars
  <2>1. /\ chan' = chan /\ work' = work /\ buffers' = buffers
        /\ tables' = tables /\ pool' = pool /\ faults' = faults
    BY <1>7 DEF Tick, Forget, vars
  <2> QED
    BY <2>1, UpdatesDone, OwedSame, Stutters
<1>8. CASE Reconnect \/ ClosePool
  <2>1. /\ chan' = chan /\ work' = work /\ buffers' = buffers /\ tables' = tables
    BY <1>8 DEF Reconnect, ClosePool
  <2>2. owed_delivered' = owed_delivered /\ owed_acknowledged' = owed_acknowledged
    BY <2>1, UpdatesDone, OwedSame
  <2>3. CASE ClosePool
    <3>1. faults' = faults + 1
      BY <2>3 DEF ClosePool, Fault
    <3> QED
      BY <2>1, <2>2, <3>1, Loses
  <2>4. CASE Reconnect /\ pool = TRUE
    <3>1. pool' = pool /\ faults' = faults
      BY <2>4 DEF Reconnect
    <3> QED
      BY <2>1, <2>2, <3>1, Stutters
  <2>5. CASE Reconnect /\ pool = FALSE
    <3>1. ~ pool /\ faults' = faults
      BY <2>5 DEF Reconnect
    <3> QED
      BY <2>1, <2>2, <3>1, Loses
  <2>6. pool = TRUE \/ pool = FALSE
    BY DEF TypeOK
  <2> QED
    BY <1>8, <2>3, <2>4, <2>5, <2>6
<1>9. CASE FlushDeliveredFails \/ FlushAcknowledgedFails
  <2>1. \A op \in AsyncOps : Updates(op)' = Updates(op)
    BY <1>9, UpdatesDone DEF FlushDeliveredFails, FlushAcknowledgedFails
  <2>2. /\ \A id \in Ids : /\ delivered_updates'[id] \in {delivered_updates[id], NoTime}
                           /\ acknowledged_updates'[id] \in {acknowledged_updates[id], NoTime}
        /\ tables' = tables /\ (faults' = faults + 1 \/ (~ pool /\ faults' = faults))
    BY <1>9 DEF FlushDeliveredFails, FlushAcknowledgedFails, NoUpdates, StatementFails, Fault
  <2>3. owed_delivered' \subseteq owed_delivered /\ owed_acknowledged' \subseteq owed_acknowledged
    BY <2>1, <2>2, OwedLess
  <2> QED
    BY <2>2, <2>3, Loses
<1>10. CASE Crash
  <2>1. \A op \in AsyncOps : Updates(op)' = {}
    BY <1>10, SMTT(30) DEF Crash, Done, Updates
  <2>2. /\ \A id \in Ids : delivered_updates'[id] = NoTime /\ acknowledged_updates'[id] = NoTime
        /\ tables' = tables /\ faults' = faults + 1
    BY <1>10 DEF Crash, Fault, NoUpdates
  <2>3. owed_delivered' \subseteq owed_delivered /\ owed_acknowledged' \subseteq owed_acknowledged
    BY <2>1, <2>2, OwedLess
  <2> QED
    BY <2>2, <2>3, Loses
<1> HIDE DEF tables, buffers, callers
<1> QED
  BY <1>1, <1>2, <1>3, <1>4, <1>5, <1>6, <1>7, <1>8, <1>9, <1>10 DEF Next, Worker

-----------------------------------------------------------------------------
(* What every step of the store keeps: rows and recorded times stay, and   *)
(* what is newly owed has its row.                                         *)
LEMMA StoreKeeps ==
  ASSUME TypeOK, Store!Next \/ UNCHANGED Store!vars
  PROVE  /\ \A id \in Ids :
              /\ meta[id] # NoMeta => meta'[id] # NoMeta
              /\ delivered_time[id] # NoTime => delivered_time'[id] = delivered_time[id]
              /\ acknowledged_time[id] # NoTime => acknowledged_time'[id] = acknowledged_time[id]
         /\ \A u \in (owed_delivered \cup owed_acknowledged)' :
              u \in owed_delivered \cup owed_acknowledged \/ meta[u[1]] # NoMeta
<1> USE DEF Store!columns, Store!owed, Store!health
<1>1. ASSUME NEW id \in Ids, NEW m \in Metas, Store!Save(id, m)
      PROVE  /\ \A k \in Ids : meta[k] # NoMeta => meta'[k] # NoMeta
             /\ delivered_time' = delivered_time /\ acknowledged_time' = acknowledged_time
             /\ owed_delivered' = owed_delivered /\ owed_acknowledged' = owed_acknowledged
  BY <1>1, StorageAssumption DEF Store!Save, TypeOK
<1>2. ASSUME NEW id \in Ids, NEW t \in Times, Store!Promise(id, t)
      PROVE  /\ meta' = meta
             /\ delivered_time' = delivered_time /\ acknowledged_time' = acknowledged_time
             /\ \A u \in (owed_delivered \cup owed_acknowledged)' :
                  u \in owed_delivered \cup owed_acknowledged \/ meta[u[1]] # NoMeta
  BY <1>2, SMTT(30) DEF Store!Promise
<1>3. CASE Store!RecordDelivered
  BY <1>3 DEF Store!RecordDelivered, Store!Recorded, Store!Settled
<1>4. CASE Store!RecordAcknowledged
  BY <1>4 DEF Store!RecordAcknowledged, Store!Recorded, Store!Settled
<1>5. CASE \/ \E k \in Clients, key \in Keys : Store!SaveKey(k, key)
           \/ Store!Supersede \/ Store!Lose \/ UNCHANGED Store!vars
  BY <1>5 DEF Store!SaveKey, Store!Supersede, Store!Superseded, Store!Lose, Store!vars
<1> HIDE DEF Store!columns, Store!owed, Store!health
<1> QED
  BY <1>1, <1>2, <1>3, <1>4, <1>5 DEF Store!Next

(* publish goes on only with the row that save_metadata confirmed.         *)
LEMMA RowsStep ==
  ASSUME TypeOK, Handed, Matched, Rows, [Next]_vars
  PROVE  Rows'
<1> USE DEF tables, buffers, callers
<1>1. \A id \in Ids : meta[id] # NoMeta => meta'[id] # NoMeta
  BY Simulates, StoreKeeps
<1>2. \A u \in (owed_delivered \cup owed_acknowledged)' : meta'[u[1]] # NoMeta
  <2> SUFFICES ASSUME NEW u \in (owed_delivered \cup owed_acknowledged)'
               PROVE  meta'[u[1]] # NoMeta
    OBVIOUS
  <2>1. u[1] \in Ids
    BY TypesStep, OwedTypes
  <2>2. u \in owed_delivered \cup owed_acknowledged \/ meta[u[1]] # NoMeta
    BY Simulates, StoreKeeps
  <2> QED
    BY <1>1, <2>1, <2>2 DEF Rows, UpdatesHaveRows
<1>3. /\ known \subseteq Ids /\ \A id \in known : meta[id] # NoMeta
      /\ cpc \in [Callers -> {"idle", "send", "wait", "return"}]
      /\ answer \in [Callers -> {"none", "ok", "error"}]
      /\ call \in [Callers -> Command \cup {NoCommand}]
      /\ \A c \in Callers : cpc[c] # "idle" /\ call[c].op \in AsyncOps \cup {"save"} => call[c].key \in Ids
  <2>1. \A c \in Callers : cpc[c] # "idle" /\ call[c].op \in AsyncOps \cup {"save"} => call[c].key \in Ids
    BY CommandFacts DEF Handed
  <2> QED
    BY <2>1 DEF Rows, UpdatesHaveRows, TypeOK
<1>4. ASSUME NEW c \in Callers, NEW cmd \in Commands(c), Call(c, cmd)
      PROVE  Rows'
  <2>1. cmd.op \in AsyncOps => cmd.key \in known
    BY <1>4 DEF Call, Allowed, AsyncOps
  <2> QED
    BY <1>1, <1>2, <1>3, <1>4, <2>1 DEF Call, Rows, UpdatesHaveRows
<1>5. ASSUME NEW c \in Callers, Send(c)
      PROVE  Rows'
  <2>1. call[c].op \notin SyncOps => call[c].op # "save"
    BY DEF SyncOps
  <2> QED
    BY <1>1, <1>2, <1>3, <1>5, <2>1 DEF Send, Rows, UpdatesHaveRows
<1>6. ASSUME NEW c \in Callers, Return(c)
      PROVE  Rows'
  <2>1. \A id \in known' : id \in known \/ (id = call[c].key /\ call[c].op = "save" /\ answer[c] = "ok")
    BY <1>6 DEF Return
  <2>2. \A id \in known' : meta'[id] # NoMeta
    BY <1>1, <1>3, <1>6, <2>1 DEF Rows, Return
  <2> QED
    BY <1>1, <1>2, <1>3, <1>6, <2>2 DEF Return, Rows, UpdatesHaveRows
<1>7. CASE Recv
  BY <1>1, <1>2, <1>3, <1>7 DEF Recv, Rows, UpdatesHaveRows
<1>8. CASE \/ ReconnectFails \/ SaveMetadata \/ Query \/ SavePublicKey \/ QueryFails
  <2>1. /\ work \in Command /\ work # NoCommand /\ work.by \in Callers
        /\ call' = call /\ known' = known
        /\ \/ /\ work.op \in SyncOps /\ cpc' = [cpc EXCEPT ![work.by] = "return"]
              /\ \E a \in {"ok", "error"} : answer' = [answer EXCEPT ![work.by] = a]
           \/ work.op \notin SyncOps /\ cpc' = cpc /\ answer' = answer
    BY <1>8, Finishes
  <2>2. work.op \in SyncOps => call[work.by] = work /\ cpc[work.by] = "wait"
    BY <2>1 DEF Matched
  <2>3. ASSUME work.op = "save", answer'[work.by] = "ok"
        PROVE  meta'[work.key] # NoMeta
    <3>1. CASE SaveMetadata
      <4>1. work.key \in Ids /\ work.val \in Metas
        BY <2>1, <2>3, CommandTypes
      <4> QED
        BY <3>1, <4>1, StorageAssumption DEF SaveMetadata, TypeOK
    <3>2. CASE ReconnectFails \/ QueryFails
      BY <1>3, <2>1, <2>3, <3>2 DEF ReconnectFails, QueryFails, Reply, SyncOps
    <3>3. CASE Query \/ SavePublicKey
      BY <2>3, <3>3 DEF Query, SavePublicKey, Execute
    <3> QED
      BY <1>8, <3>1, <3>2, <3>3
  <2>4. ASSUME NEW c \in Callers, cpc'[c] = "return", call'[c].op = "save", answer'[c] = "ok"
        PROVE  meta'[call'[c].key] # NoMeta
    <3>1. CASE work.op \in SyncOps /\ c = work.by
      BY <2>1, <2>2, <2>3, <2>4, <3>1
    <3>2. CASE work.op \notin SyncOps \/ c # work.by
      <4>1. cpc'[c] = cpc[c] /\ answer'[c] = answer[c]
        BY <1>3, <2>1, <3>2
      <4> QED
        BY <1>1, <1>3, <2>1, <2>4, <4>1 DEF Rows
    <3> QED
      BY <3>1, <3>2
  <2>5. \A c \in Callers : cpc'[c] = "send" => cpc[c] = "send"
    BY <1>3, <2>1
  <2> QED
    BY <1>1, <1>2, <1>3, <2>1, <2>4, <2>5 DEF Rows, UpdatesHaveRows
<1>9. CASE Quiet
  BY <1>1, <1>2, <1>3, <1>9, QuietFacts DEF Rows, UpdatesHaveRows
<1>10. CASE Crash
  BY <1>1, <1>2, <1>10 DEF Crash, Rows, UpdatesHaveRows
<1> HIDE DEF tables, buffers, callers
<1> QED
  BY <1>4, <1>5, <1>6, <1>7, <1>8, <1>9, <1>10 DEF Next, Worker, Quiet

(* The invariant holds of every behaviour of the actor.                    *)
THEOREM Invariance == Spec => []Inv
<1>1. Init => Inv
  <2> SUFFICES ASSUME Init
               PROVE  Inv
    OBVIOUS
  <2>1. TypeOK
    <3>1. pool \in BOOLEAN /\ loaded \in BOOLEAN
      BY DEF Init
    <3>2. chan \in Seq(Command) /\ known \subseteq Ids /\ faults \in Nat
      BY SMTT(30) DEF Init
    <3> QED
      BY <3>1, <3>2 DEF Init, NoUpdates, TypeOK
  <2>2. Handed /\ Served
    BY DEF Init, Handed, Served
  <2>3. Matched
    BY StorageAssumption, SMTT(30) DEF Init, Matched
  <2>4. owed_delivered = {} /\ owed_acknowledged = {}
    BY SMTT(30) DEF Init, NoUpdates, owed_delivered, owed_acknowledged, Pending, Pairs, Updates
  <2>5. Rows
    BY <2>4 DEF Init, Rows, UpdatesHaveRows
  <2> QED
    BY <2>1, <2>2, <2>3, <2>5 DEF Inv
<1>2. Inv /\ [Next]_vars => Inv'
  BY TypesStep, HandedStep, MatchedStep, RowsStep DEF Inv
<1> QED
  BY <1>1, <1>2, PTL DEF Spec

(* OneReplyPerCall: the worker answers the caller that waits, once.        *)
THEOREM RepliesMatch == Spec => []OneReplyPerCall
<1>1. Inv => OneReplyPerCall
  <2> SUFFICES ASSUME Inv, NEW c \in Callers
               PROVE  /\ Len(chan) <= Capacity
                      /\ LET mine == {i \in DOMAIN chan : chan[i].by = c /\ chan[i].op \in SyncOps}
                             held == work # NoCommand /\ work.by = c /\ work.op \in SyncOps
                         IN  IF cpc[c] = "wait"
                             THEN IF held THEN mine = {} ELSE \E i \in mine : mine = {i}
                             ELSE mine = {} /\ ~ held
    BY DEF OneReplyPerCall, Inv, Matched
  <2> DEFINE mine == {i \in DOMAIN chan : chan[i].by = c /\ chan[i].op \in SyncOps}
             held == work # NoCommand /\ work.by = c /\ work.op \in SyncOps
  <2>1. CASE cpc[c] # "wait"
    BY <2>1 DEF Inv, Matched
  <2>2. CASE cpc[c] = "wait" /\ held
    BY <2>2 DEF Inv, Matched
  <2>3. CASE cpc[c] = "wait" /\ ~ held
    <3>1. PICK i \in DOMAIN chan : chan[i].op \in SyncOps /\ chan[i].by = c
      BY <2>3 DEF Inv, Served
    <3>2. i \in mine /\ \A j \in mine : j = i
      BY <3>1 DEF Inv, Matched
    <3> QED
      BY <2>3, <3>2 DEF Inv, Matched
  <2> QED
    BY <2>1, <2>2, <2>3
<1> QED
  BY <1>1, Invariance, PTL

(* TypeOK: the channel, the worker, the buffers and the tables             *)
(* have their types in every order of calls, faults and restarts.          *)
THEOREM StorageTypes == Spec => []TypeOK
<1>1. Inv => TypeOK
  BY DEF Inv
<1> QED
  BY <1>1, Invariance, PTL

(* UpdatesHaveRows: an accepted update of a time has its row in the table. *)
THEOREM RowsExist == Spec => []UpdatesHaveRows
<1>1. Inv => UpdatesHaveRows
  BY DEF Inv, Rows
<1> QED
  BY <1>1, Invariance, PTL

(* TimesStick: neither a save, a flush, a fault nor a restart changes a    *)
(* time that is recorded.                                                  *)
THEOREM TimesAreKept == Spec => TimesStick
<1>1. Inv /\ [Next]_vars =>
        \A id \in Ids :
          /\ meta[id] # NoMeta => meta'[id] # NoMeta
          /\ delivered_time[id] # NoTime => delivered_time'[id] = delivered_time[id]
          /\ acknowledged_time[id] # NoTime => acknowledged_time'[id] = acknowledged_time[id]
  BY Simulates, StoreKeeps DEF Inv
<1> QED
  BY <1>1, Invariance, PTL DEF Spec, TimesStick

(* StoreSpec: the actor with its channel, buffers and worker implements    *)
(* the store without them.                                                 *)
THEOREM ImplementsStore == Spec => StoreSpec
<1>1. Init => Store!Init
  <2> SUFFICES ASSUME Init
               PROVE  Store!Init
    OBVIOUS
  <2>1. owed_delivered = {} /\ owed_acknowledged = {}
    BY SMTT(30) DEF Init, NoUpdates, owed_delivered, owed_acknowledged, Pending, Pairs, Updates
  <2> QED
    BY <2>1 DEF Init, NoUpdates, Store!Init
<1>2. Inv /\ [Next]_vars => [Store!Next]_(Store!vars)
  BY Simulates DEF Inv
<1> QED
  BY <1>1, <1>2, Invariance, PTL DEF Spec, StoreSpec, Store!Spec
=============================================================================
