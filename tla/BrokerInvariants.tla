-------------------------- MODULE BrokerInvariants ---------------------------
(***************************************************************************)
(* What the operations on a queue keep and add.  Then, for every value of  *)
(* the constants: every step of Broker keeps its state within the types,   *)
(* and a locked queue belongs to the publish that locked it; from that,    *)
(* the bound on every queue.  A message whose publisher was answered ACK   *)
(* is not lost (UnackedNotLost).  A message is only where it is routed to  *)
(* (RouteInv).  One that was published once and acknowledged is not        *)
(* written to a client again (AckedNotRedelivered).                        *)
(***************************************************************************)
EXTENDS Broker, TLAPS

-----------------------------------------------------------------------------
(* What the operations of a queue do: retain, push_back, pop_front.        *)

LOCAL INSTANCE WellFoundedInduction

(* A non-empty set of naturals has a least element: the induction below.   *)
LEMMA LeastNat ==
  ASSUME NEW T, T \subseteq Nat, T # {}
  PROVE  \E n \in T : \A k \in T : n <= k
<1>1. PICK n \in T : \A k \in T : ~ (<<k, n>> \in OpToRel(<, Nat))
  BY NatLessThanWellFounded, WFMin, Zenon
<1>2. \A k \in T : ~ (k < n)
  BY <1>1, Zenon DEF OpToRel
<1> QED BY <1>2

(* A queue as the provers see it: a function on 1 .. Len(s).               *)
LEMMA SeqRange ==
  ASSUME NEW A, NEW s \in Seq(A)
  PROVE  Range(s) = {s[i] : i \in 1 .. Len(s)}
BY DEF Range

(* push_back adds one element, at the end.                                 *)
LEMMA AppendRange ==
  ASSUME NEW A, NEW s \in Seq(A), NEW e \in A
  PROVE  /\ Append(s, e) \in Seq(A)
         /\ Len(Append(s, e)) = Len(s) + 1
         /\ Range(Append(s, e)) = Range(s) \cup {e}
<1>1. Append(s, e) \in Seq(A)  OBVIOUS
<1>2. Range(Append(s, e)) = {Append(s, e)[i] : i \in 1 .. Len(Append(s, e))}
  BY <1>1, SeqRange, Zenon
<1>3. Range(s) = {s[i] : i \in 1 .. Len(s)}  BY SeqRange
<1>4. Len(s) \in Nat  OBVIOUS
<1> QED BY <1>1, <1>2, <1>3, <1>4

(* One step of the loop that Keep stands for, at element i of s.           *)
KeepStep(s, T, f, i) ==
  IF i = 0 THEN <<>>
  ELSE IF s[i] \in T THEN Append(f[i - 1], s[i]) ELSE f[i - 1]

KeepsUpTo(s, T, f, n) == f = [i \in 0 .. n |-> KeepStep(s, T, f, i)]

(* The recursion of Keep has a solution on every prefix of the queue.      *)
LEMMA KeepExists ==
  ASSUME NEW A, NEW s \in Seq(A), NEW T
  PROVE  \E f : KeepsUpTo(s, T, f, Len(s))
<1> DEFINE Bad == {n \in 0 .. Len(s) : ~ \E f : KeepsUpTo(s, T, f, n)}
<1>0. Len(s) \in Nat  OBVIOUS
<1>1. SUFFICES ASSUME Bad # {} PROVE FALSE
  BY <1>0
<1>2. PICK n \in Bad : \A k \in Bad : n <= k
  <2>1. Bad \subseteq Nat  BY <1>0
  <2> QED BY <1>1, <2>1, LeastNat, Zenon
<1>3. n # 0
  <2> DEFINE f0 == [i \in 0 .. 0 |-> <<>>]
  <2>1. KeepsUpTo(s, T, f0, 0)  BY DEF KeepsUpTo, KeepStep
  <2> QED BY <2>1, <1>2
<1>4. n \in 1 .. Len(s) /\ n - 1 \in 0 .. Len(s) /\ n - 1 \notin Bad
  BY <1>0, <1>2, <1>3
<1>5. PICK f : KeepsUpTo(s, T, f, n - 1)
  BY <1>4
<1> DEFINE g == [i \in 0 .. n |-> IF i = n THEN KeepStep(s, T, f, n) ELSE f[i]]
<1>6. KeepsUpTo(s, T, g, n)
  <2>1. \A i \in 0 .. n : g[i] = KeepStep(s, T, g, i)
    <3> SUFFICES ASSUME NEW i \in 0 .. n PROVE g[i] = KeepStep(s, T, g, i)
      OBVIOUS
    <3>1. i # 0 => i - 1 \in 0 .. n /\ i - 1 # n /\ g[i - 1] = f[i - 1]
      BY <1>0, <1>4
    <3>2. KeepStep(s, T, g, i) = KeepStep(s, T, f, i)
      BY <3>1 DEF KeepStep
    <3>3. i # n => f[i] = KeepStep(s, T, f, i)
      <4>1. i # n => i \in 0 .. n - 1  BY <1>0, <1>4
      <4> HIDE DEF g
      <4> QED BY <4>1, <1>5 DEF KeepsUpTo
    <3> QED BY <3>2, <3>3
  <2>2. g = [i \in 0 .. n |-> g[i]]  OBVIOUS
  <2> HIDE DEF g
  <2> QED BY <2>1, <2>2 DEF KeepsUpTo
<1> QED BY <1>6, <1>2

(* Every prefix result consists of elements of s that are in T, holds all  *)
(* of those, and is no longer than the prefix.                             *)
LEMMA KeepInvariant ==
  ASSUME NEW A, NEW s \in Seq(A), NEW T, NEW f, KeepsUpTo(s, T, f, Len(s)),
         NEW n \in 0 .. Len(s)
  PROVE  /\ f[n] \in Seq(A)
         /\ Range(f[n]) = {s[i] : i \in 1 .. n} \cap T
         /\ Len(f[n]) <= n
<1> DEFINE P(k) == /\ f[k] \in Seq(A)
                   /\ Range(f[k]) = {s[i] : i \in 1 .. k} \cap T
                   /\ Len(f[k]) <= k
           Bad == {k \in 0 .. Len(s) : ~ P(k)}
<1>0. Len(s) \in Nat  OBVIOUS
<1>1. \A i \in 0 .. Len(s) : f[i] = KeepStep(s, T, f, i)
  BY DEF KeepsUpTo
<1>2. SUFFICES ASSUME Bad # {} PROVE FALSE
  BY Zenon
<1>3. PICK k \in Bad : \A j \in Bad : k <= j
  <2>1. Bad \subseteq Nat  BY <1>0
  <2> HIDE DEF Bad
  <2> QED BY <1>2, <2>1, LeastNat, Zenon
<1>4. k # 0
  <2>1. f[0] = <<>>  BY <1>0, <1>1 DEF KeepStep
  <2>2. Range(<<>>) = {}  BY DEF Range
  <2>3. P(0)  BY <2>1, <2>2
  <2> QED BY <2>3, <1>3
<1>5. k \in 1 .. Len(s) /\ k - 1 \in 0 .. Len(s) /\ P(k - 1)
  <2>1. k \in 1 .. Len(s) /\ k - 1 \in 0 .. Len(s) /\ ~ (k <= k - 1)
    BY <1>0, <1>4
  <2>2. k - 1 \notin Bad
    <3> HIDE DEF Bad
    <3> QED BY <2>1, <1>3
  <2> HIDE DEF P
  <2> QED BY <2>1, <2>2
<1>6. s[k] \in A
  BY <1>5
<1>7. {s[i] : i \in 1 .. k} = {s[i] : i \in 1 .. k - 1} \cup {s[k]}
  BY <1>5, <1>0
<1>8. P(k)
  <2>1. CASE s[k] \notin T
    <3>1. f[k] = f[k - 1]  BY <2>1, <1>1, <1>5, <1>0 DEF KeepStep
    <3> QED BY <3>1, <2>1, <1>5, <1>7, <1>0
  <2>2. CASE s[k] \in T
    <3>1. f[k] = Append(f[k - 1], s[k])
      <4>1. f[k] = KeepStep(s, T, f, k) /\ k # 0
        BY <1>1, <1>4
      <4> QED BY <4>1, <2>2 DEF KeepStep
    <3>2. /\ f[k] \in Seq(A)
          /\ Len(f[k]) = Len(f[k - 1]) + 1
          /\ Range(f[k]) = Range(f[k - 1]) \cup {s[k]}
      BY <3>1, <1>5, <1>6, AppendRange
    <3>3. Len(f[k - 1]) \in Nat  BY <1>5
    <3>4. Range(f[k]) = {s[i] : i \in 1 .. k} \cap T
      BY <3>2, <1>5, <1>7, <2>2
    <3>5. Len(f[k]) <= k
      BY <3>2, <3>3, <1>5, <1>0
    <3> QED BY <3>2, <3>4, <3>5
  <2> QED BY <2>1, <2>2
<1> QED BY <1>8, <1>3

(* retain and filter: the result holds exactly the elements of s that are  *)
(* in T and is no longer than s.                                           *)
THEOREM KeepProperties ==
  ASSUME NEW A, NEW s \in Seq(A), NEW T
  PROVE  /\ Keep(s, T) \in Seq(A)
         /\ Range(Keep(s, T)) = Range(s) \cap T
         /\ Len(Keep(s, T)) <= Len(s)
<1> DEFINE kept == CHOOSE f : KeepsUpTo(s, T, f, Len(s))
<1>1. KeepsUpTo(s, T, kept, Len(s))
  BY KeepExists
<1>2. Keep(s, T) = kept[Len(s)]
  BY DEF Keep, KeepsUpTo, KeepStep
<1>3. Len(s) \in 0 .. Len(s)
  OBVIOUS
<1>4. Range(s) = {s[i] : i \in 1 .. Len(s)}
  BY SeqRange
<1> HIDE DEF kept
<1>5. /\ kept[Len(s)] \in Seq(A)
      /\ Range(kept[Len(s)]) = {s[i] : i \in 1 .. Len(s)} \cap T
      /\ Len(kept[Len(s)]) <= Len(s)
  BY <1>1, <1>3, KeepInvariant, Zenon
<1> QED BY <1>2, <1>4, <1>5

(* pop_front removes one element, the first.                               *)
LEMMA TailRange ==
  ASSUME NEW A, NEW s \in Seq(A), s # <<>>
  PROVE  /\ Head(s) \in A
         /\ Tail(s) \in Seq(A)
         /\ Len(s) \in Nat \ {0}
         /\ Len(Tail(s)) = Len(s) - 1
         /\ Range(s) = Range(Tail(s)) \cup {Head(s)}
<1>1. Tail(s) \in Seq(A) /\ Head(s) \in A /\ Len(Tail(s)) = Len(s) - 1
  OBVIOUS
<1>2. Range(Tail(s)) = {Tail(s)[i] : i \in 1 .. Len(Tail(s))}
  BY <1>1, SeqRange, Zenon
<1>3. Range(s) = {s[i] : i \in 1 .. Len(s)}  BY SeqRange
<1>4. Len(s) \in Nat \ {0}  OBVIOUS
<1>5. \A i \in 1 .. Len(Tail(s)) : i + 1 \in 1 .. Len(s) /\ Tail(s)[i] = s[i + 1]
  BY <1>1, <1>4
<1>6. \A i \in 1 .. Len(s) : i # 1 => i - 1 \in 1 .. Len(Tail(s)) /\ Tail(s)[i - 1] = s[i]
  BY <1>1, <1>4, <1>5
<1>7. Head(s) = s[1] /\ 1 \in 1 .. Len(s)
  BY <1>4
<1>8. Range(Tail(s)) \cup {Head(s)} \subseteq Range(s)
  BY <1>2, <1>3, <1>5, <1>7
<1>9. ASSUME NEW x \in Range(s) PROVE x \in Range(Tail(s)) \cup {Head(s)}
  <2>1. PICK i \in 1 .. Len(s) : x = s[i]  BY <1>3
  <2>2. CASE i = 1  BY <2>1, <2>2, <1>7
  <2>3. CASE i # 1  BY <2>1, <2>3, <1>2, <1>6, Zenon
  <2> QED BY <2>2, <2>3
<1> QED BY <1>1, <1>4, <1>8, <1>9

(* A queue has a length, zero when it is empty, and holds only messages.   *)
LEMMA QueueFacts ==
  ASSUME NEW A
  PROVE  /\ <<>> \in Seq(A) /\ Len(<<>>) = 0
         /\ \A s \in Seq(A) : Len(s) \in Nat /\ Range(s) \subseteq A
BY DEF Range

-----------------------------------------------------------------------------
(* x is at most once in s.                                                 *)
Single(s, x) == \A i, j \in 1 .. Len(s) : s[i] = x /\ s[j] = x => i = j

(* It stays so when something else is pushed, or x for the first time.     *)
LEMMA SingleAppend ==
  ASSUME NEW A, NEW s \in Seq(A), NEW e \in A, NEW x, Single(s, x),
         e # x \/ x \notin Range(s)
  PROVE  Single(Append(s, e), x)
<1>1. Len(s) \in Nat /\ Len(Append(s, e)) = Len(s) + 1
  OBVIOUS
<1>2. /\ \A i \in 1 .. Len(s) : Append(s, e)[i] = s[i]
      /\ Append(s, e)[Len(s) + 1] = e
  OBVIOUS
<1>3. Range(s) = {s[i] : i \in 1 .. Len(s)}
  BY SeqRange
<1> DEFINE t == Append(s, e)
<1>4. \A i \in 1 .. Len(t) : i \in 1 .. Len(s) \/ i = Len(s) + 1
  BY <1>1
<1>5. \A i \in 1 .. Len(s) : s[i] = x => e # x
  BY <1>3, Zenon
<1> HIDE DEF t
<1>6. ASSUME NEW i \in 1 .. Len(t), NEW j \in 1 .. Len(t), t[i] = x, t[j] = x
      PROVE  i = j
  BY <1>2, <1>4, <1>5, <1>6, Zenon DEF Single, t
<1> QED BY <1>6, Zenon DEF Single, t

(* When the front is popped, and x is gone if it was there.                *)
LEMMA SingleTail ==
  ASSUME NEW A, NEW s \in Seq(A), s # <<>>, NEW x, Single(s, x)
  PROVE  Single(Tail(s), x) /\ (Head(s) = x => x \notin Range(Tail(s)))
<1>1. Tail(s) \in Seq(A) /\ Len(Tail(s)) = Len(s) - 1 /\ Len(s) \in Nat \ {0}
  OBVIOUS
<1>2. \A i \in 1 .. Len(Tail(s)) : i + 1 \in 1 .. Len(s) /\ Tail(s)[i] = s[i + 1]
  BY <1>1
<1>3. Single(Tail(s), x)
  BY <1>1, <1>2 DEF Single
<1>4. Range(Tail(s)) = {Tail(s)[i] : i \in 1 .. Len(Tail(s))}
  BY <1>1, SeqRange, Zenon
<1>5. Head(s) = s[1] /\ 1 \in 1 .. Len(s)
  BY <1>1
<1>6. \A i \in 1 .. Len(Tail(s)) : Head(s) = x => Tail(s)[i] # x
  BY <1>1, <1>2, <1>5 DEF Single
<1> QED BY <1>3, <1>4, <1>6, Zenon

(* And when retain drops other elements.                                   *)
LEMMA KeepSingle ==
  ASSUME NEW A, NEW s \in Seq(A), NEW T, NEW x, Single(s, x)
  PROVE  Single(Keep(s, T), x)
<1> DEFINE kept == CHOOSE f : KeepsUpTo(s, T, f, Len(s))
<1>1. KeepsUpTo(s, T, kept, Len(s))
  BY KeepExists
<1>2. Keep(s, T) = kept[Len(s)]
  BY DEF Keep, KeepsUpTo, KeepStep
<1> HIDE DEF kept
<1>3. ASSUME NEW n \in 0 .. Len(s)
      PROVE  /\ kept[n] \in Seq(A)
             /\ Range(kept[n]) = {s[i] : i \in 1 .. n} \cap T
             /\ Len(kept[n]) <= n
  BY <1>1, KeepInvariant, Zenon
<1> DEFINE Bad == {k \in 0 .. Len(s) : ~ Single(kept[k], x)}
<1>4. Len(s) \in Nat /\ Len(s) \in 0 .. Len(s)
  OBVIOUS
<1>5. \A i \in 0 .. Len(s) : kept[i] = KeepStep(s, T, kept, i)
  BY <1>1 DEF KeepsUpTo
<1>6. SUFFICES ASSUME Bad # {} PROVE FALSE
  BY <1>2, <1>4, Zenon
<1>7. PICK k \in Bad : \A j \in Bad : k <= j
  <2>1. Bad \subseteq Nat  BY <1>4
  <2> HIDE DEF Bad
  <2> QED BY <1>6, <2>1, LeastNat, Zenon
<1>8. k # 0
  <2>1. kept[0] = <<>>  BY <1>4, <1>5 DEF KeepStep
  <2>2. Single(kept[0], x)  BY <2>1 DEF Single
  <2> QED BY <2>2, <1>7
<1>9. k \in 1 .. Len(s) /\ k - 1 \in 0 .. Len(s) /\ Single(kept[k - 1], x)
  <2>1. k \in 1 .. Len(s) /\ k - 1 \in 0 .. Len(s) /\ ~ (k <= k - 1)
    BY <1>4, <1>8
  <2>2. k - 1 \notin Bad
    <3> HIDE DEF Bad
    <3> QED BY <2>1, <1>7
  <2>3. Single(kept[k - 1], x)
    BY <2>1, <2>2
  <2> QED BY <2>1, <2>3
<1>10. /\ kept[k - 1] \in Seq(A)
       /\ Range(kept[k - 1]) = {s[i] : i \in 1 .. k - 1} \cap T
  BY <1>9, <1>3, Zenon
<1>11. s[k] \in A /\ (s[k] = x => x \notin {s[i] : i \in 1 .. k - 1})
  BY <1>4, <1>9 DEF Single
<1>12. Single(kept[k], x)
  <2>1. CASE s[k] \notin T
    <3>1. kept[k] = kept[k - 1]  BY <2>1, <1>5, <1>8, <1>9, <1>4 DEF KeepStep
    <3> QED BY <3>1, <1>9
  <2>2. CASE s[k] \in T
    <3>1. kept[k] = Append(kept[k - 1], s[k])
      <4>1. kept[k] = KeepStep(s, T, kept, k) /\ k # 0
        BY <1>5, <1>8
      <4> QED BY <4>1, <2>2 DEF KeepStep
    <3>2. s[k] # x \/ x \notin Range(kept[k - 1])
      BY <1>10, <1>11, Zenon
    <3>3. Single(Append(kept[k - 1], s[k]), x)
      BY <3>2, <1>9, <1>10, <1>11, SingleAppend, ZenonT(30)
    <3> QED BY <3>1, <3>3
  <2> QED BY <2>1, <2>2
<1> QED BY <1>12, <1>7

-----------------------------------------------------------------------------
(* Zenon proves what follows, unless a leaf asks for another prover.       *)
USE ZenonT(30)

(* An evicting publish owns the queue it has locked, which is not empty.   *)
LockInv ==
  \A c \in Conns : pc[c] = "evict" =>
    /\ queues[at[c]] # <<>>
    /\ \A d \in Conns : pc[d] = "evict" /\ at[d] = at[c] => d = c

(* The part of TypeOK about the locals of the handlers.                    *)
LocalsOK ==
  /\ pc \in [Conns -> Pcs]
  /\ cur \in [Conns -> Msgs \cup {NoMsg}]
  /\ \A c \in Conns :
       pc[c] \in PublishPcs \cup DeliverPcs \cup AckPcs => cur[c] \in Msgs
  /\ target \in [Conns -> SUBSET Queues]
  /\ todo \in [Conns -> SUBSET Queues]
  /\ at \in [Conns -> Queues \cup {NoQueue}]
  /\ \A c \in Conns :
       pc[c] \in {"snapshot", "evict", "ack_clean"} => at[c] \in Queues
  /\ tries \in [Conns -> 0 .. MAX_RETRIES - 1]

(* A handler that drops its locals keeps them within their types.          *)
LEMMA LeaveTypes ==
  ASSUME LocalsOK, NEW c \in Conns, NEW next \in {"select", "closed"},
         Leave(c, next)
  PROVE  LocalsOK'
<1>1. 0 \in 0 .. MAX_RETRIES - 1
  BY BrokerConstants, SMTT(30)
<1> QED BY <1>1 DEF LocalsOK, Leave, Goto, Pcs, PublishPcs, DeliverPcs, AckPcs

(* So does one that returns to its loop or closes, and so do the channels. *)
LEMMA ReturnTypes ==
  ASSUME TypeOK, NEW c \in Conns, Return(c) \/ Close(c)
  PROVE  LocalsOK' /\ chan' \in [Conns -> Seq(Msgs)]
<1>1. LocalsOK /\ chan \in [Conns -> Seq(Msgs)]
  BY DEF TypeOK, LocalsOK
<1>2. <<>> \in Seq(Msgs)
  BY SMTT(30)
<1>3. LocalsOK'
  BY <1>1, LeaveTypes DEF Return, Close
<1> QED BY <1>1, <1>2, <1>3 DEF Return, Close

(* No step of a handler or of a spawned task leaves the types.             *)
LEMMA TypeStep ==
  TypeOK /\ LockInv /\ [Next]_vars => TypeOK'
<1> SUFFICES ASSUME TypeOK, LockInv, [Next]_vars PROVE TypeOK'
  OBVIOUS
<1>0. ASSUME NEW c \in Conns, Return(c) \/ Close(c)
      PROVE  LocalsOK' /\ chan' \in [Conns -> Seq(Msgs)]
  BY <1>0, ReturnTypes
<1> USE BrokerConstants DEF TypeOK, LocalsOK, Goto, topology, locals, history, Pcs, PublishPcs, DeliverPcs, AckPcs, Status,
      Absent
<1>1. ASSUME NEW c \in Conns, NEW q \in Queues, DeclareQueue(c, q)
      PROVE  TypeOK'
  BY <1>1 DEF DeclareQueue
<1>2. ASSUME NEW c \in Conns, NEW x \in Exchanges, DeclareExchange(c, x)
      PROVE  TypeOK'
  BY <1>2 DEF DeclareExchange
<1>3. ASSUME NEW c \in Conns, NEW q \in Queues, NEW x \in Exchanges,
             NEW k \in Keys, BindQueue(c, q, x, k)
      PROVE  TypeOK'
  <2>1. bindings' \in [Exchanges -> SUBSET (Queues \X Keys)]
    <3>1. /\ bindings \in [Exchanges -> SUBSET (Queues \X Keys)]
          /\ bindings' = [bindings EXCEPT ![x] = @ \cup {<<q, k>>}]
      BY <1>3 DEF BindQueue
    <3> HIDE DEF TypeOK
    <3> QED BY <3>1, SMTT(40)
  <2> QED BY <1>3, <2>1 DEF BindQueue
<1>4. ASSUME NEW c \in Conns, NEW m \in Msgs, PublishCheck(c, m)
      PROVE  TypeOK'
  <2>1. attempts' \in [Msgs -> Nat]
    <3>1. /\ attempts \in [Msgs -> Nat]
          /\ attempts' = [attempts EXCEPT ![m] = @ + 1]
      BY <1>4 DEF PublishCheck
    <3> HIDE DEF TypeOK
    <3> QED BY <3>1, SMTT(40)
  <2> QED BY <1>4, <2>1 DEF PublishCheck
<1>5. ASSUME NEW c \in Conns, NEW q \in Queues, RegisterConsumer(c, q)
      PROVE  TypeOK'
  BY <1>5 DEF RegisterConsumer
<1>6. ASSUME NEW c \in Conns, NEW m \in Msgs, AckCheck(c, m)
      PROVE  TypeOK'
  BY <1>6 DEF AckCheck
<1>7. ASSUME NEW c \in Conns, Disconnect(c)
      PROVE  TypeOK'
  BY <1>0, <1>7 DEF Disconnect
<1>8. ASSUME NEW c \in Conns, PublishSaveFails(c)
      PROVE  TypeOK'
  BY <1>0, <1>8 DEF PublishSaveFails
<1>9. ASSUME NEW c \in Conns, PublishRoute(c)
      PROVE  TypeOK'
  <2>1. target_queues(cur[c]) \subseteq Queues
    <3>1. cur[c] \in Msgs  BY <1>9 DEF PublishRoute
    <3>2. Route[cur[c]] \in Exchanges \X Keys  BY <3>1
    <3>3. bindings[Route[cur[c]][1]] \subseteq Queues \X Keys  BY <3>2
    <3>4. \A b \in bindings[Route[cur[c]][1]] : b[1] \in Queues  BY <3>3
    <3> QED BY <3>4, SMTT(40) DEF target_queues
  <2>2. CASE Return(c)  BY <1>0, <1>9, <2>2 DEF PublishRoute
  <2>3. CASE /\ Goto(c, "enqueue")
             /\ target' = [target EXCEPT ![c] = target_queues(cur[c])]
             /\ todo' = [todo EXCEPT ![c] = target_queues(cur[c])]
             /\ UNCHANGED <<cur, at, tries, chan>>
    BY <1>9, <2>1, <2>3 DEF PublishRoute
  <2> HIDE DEF TypeOK
  <2> QED BY <1>9, <2>2, <2>3 DEF PublishRoute
<1>10. ASSUME NEW c \in Conns, NEW q \in Queues, PublishEnqueue(c, q)
      PROVE  TypeOK'
  <2>1. cur[c] \in Msgs  BY <1>10 DEF PublishEnqueue
  <2>2. Append(queues[q], cur[c]) \in Seq(Msgs)  BY <2>1, AppendRange
  <2> QED BY <1>10, <2>2 DEF PublishEnqueue, PushBack
<1>11. ASSUME NEW c \in Conns, NEW q \in Queues, PublishPop(c, q)
      PROVE  TypeOK'
  BY <1>11 DEF PublishPop
<1>12. ASSUME NEW c \in Conns, PublishEvict(c)
      PROVE  TypeOK'
  <2>1. cur[c] \in Msgs /\ at[c] \in Queues /\ queues[at[c]] # <<>>
    BY <1>12 DEF PublishEvict, LockInv
  <2>2. Head(queues[at[c]]) \in Msgs /\ Tail(queues[at[c]]) \in Seq(Msgs)
    BY <2>1, TailRange
  <2>3. Append(Tail(queues[at[c]]), cur[c]) \in Seq(Msgs)
    BY <2>1, <2>2, AppendRange
  <2> QED BY <1>12, <2>1, <2>2, <2>3 DEF PublishEvict, PushBack
<1>13. ASSUME NEW c \in Conns, PublishTrackQueues(c)
      PROVE  TypeOK'
  BY <1>13 DEF PublishTrackQueues
<1>14. ASSUME NEW c \in Conns, PublishTrackStatus(c)
      PROVE  TypeOK'
  BY <1>14 DEF PublishTrackStatus
<1>15. ASSUME NEW c \in Conns, NEW q \in Queues, PublishNotify(c, q)
      PROVE  TypeOK'
  <2>1. cur[c] \in Msgs  BY <1>15 DEF PublishNotify
  <2>2. \A r \in Conns : Append(chan[r], cur[c]) \in Seq(Msgs)
    BY <2>1, AppendRange
  <2>3. chan' \in [Conns -> Seq(Msgs)]  BY <1>15, <2>2 DEF PublishNotify
  <2>4. consumers' \in [Queues -> SUBSET Conns]
    <3> DEFINE live == {r \in consumers[q] : ~ is_closed(r)}
    <3>1. live \subseteq Conns  OBVIOUS
    <3>2. consumers' = [consumers EXCEPT ![q] = live]  BY <1>15 DEF PublishNotify
    <3> HIDE DEF live
    <3> QED BY <3>1, <3>2
  <2>5. CASE confirmed' = confirmed \cup {cur[c]} /\ Leave(c, "select")
    <3>1. LocalsOK'  BY <2>5, LeaveTypes
    <3> QED BY <1>15, <2>1, <2>3, <2>4, <2>5, <3>1 DEF PublishNotify
  <2>6. CASE /\ todo' = [todo EXCEPT ![c] = @ \ {q}]
             /\ UNCHANGED <<pc, cur, target, at, tries, confirmed>>
    BY <1>15, <2>3, <2>4, <2>6 DEF PublishNotify
  <2> HIDE DEF TypeOK
  <2> QED BY <1>15, <2>5, <2>6 DEF PublishNotify
<1>16. ASSUME NEW c \in Conns, SnapshotQueue(c)
      PROVE  TypeOK'
  <2>1. at[c] \in Queues  BY <1>16 DEF SnapshotQueue
  <2>2. Keep(queues[at[c]], {m \in Msgs : can_deliver(m)}) \in Seq(Msgs)
    BY <2>1, KeepProperties
  <2>3. backlog' \in [Conns -> [Queues -> Seq(Msgs)]]
    BY <1>16, <2>1, <2>2 DEF SnapshotQueue
  <2> QED BY <1>0, <1>16, <2>3 DEF SnapshotQueue
<1>17. ASSUME NEW c \in Conns, WriteSucceeds(c)
      PROVE  TypeOK'
  <2>1. cur[c] \in Msgs  BY <1>17 DEF WriteSucceeds
  <2>2. /\ offered' \in [Conns -> SUBSET Msgs]
        /\ received' \in [Conns -> SUBSET Msgs]
    BY <1>17, <2>1 DEF WriteSucceeds
  <2>3. LocalsOK'
    BY <1>17, <2>1 DEF WriteSucceeds
  <2> QED BY <1>17, <2>2, <2>3 DEF WriteSucceeds
<1>18. ASSUME NEW c \in Conns, WriteFails(c)
      PROVE  TypeOK'
  <2>1. CASE /\ tries[c] + 1 < MAX_RETRIES
             /\ tries' = [tries EXCEPT ![c] = @ + 1]
             /\ UNCHANGED <<pc, cur, target, todo, at, chan>>
    <3>1. tries' \in [Conns -> 0 .. MAX_RETRIES - 1]  BY <2>1, SMTT(40)
    <3>2. UNCHANGED <<topology, history, consumers, backlog, queues,
                      message_queues, message_status, pc, cur, target, todo,
                      at, chan>>
      BY <1>18, <2>1 DEF WriteFails
    <3> QED BY <3>1, <3>2
  <2>2. CASE Close(c)  BY <1>0, <1>18, <2>2 DEF WriteFails
  <2> HIDE DEF TypeOK
  <2> QED BY <1>18, <2>1, <2>2 DEF WriteFails
<1>19. ASSUME NEW c \in Conns, FlushFails(c)
      PROVE  TypeOK'
  <2>1. CASE /\ tries[c] + 1 < MAX_RETRIES
             /\ tries' = [tries EXCEPT ![c] = @ + 1]
             /\ UNCHANGED <<pc, offered>>
    <3>1. tries' \in [Conns -> 0 .. MAX_RETRIES - 1]  BY <2>1, SMTT(40)
    <3>2. UNCHANGED <<topology, history, consumers, backlog, queues,
                      message_queues, message_status, pc, cur, target, todo,
                      at, chan>>
      BY <1>19, <2>1 DEF FlushFails
    <3> QED BY <3>1, <3>2
  <2>2. CASE /\ Goto(c, "mark_again")
             /\ offered' = [offered EXCEPT ![c] = @ \cup {cur[c]}]
             /\ UNCHANGED tries
    <3>1. cur[c] \in Msgs  BY <1>19 DEF FlushFails
    <3>2. offered' \in [Conns -> SUBSET Msgs]
      BY <2>2, <3>1
    <3>3. LocalsOK'
      BY <1>19, <2>2, <3>1 DEF FlushFails
    <3> QED BY <1>19, <3>2, <3>3 DEF FlushFails
  <2> HIDE DEF TypeOK
  <2> QED BY <1>19, <2>1, <2>2 DEF FlushFails
<1>20. ASSUME NEW c \in Conns, MarkDelivered(c)
      PROVE  TypeOK'
  <2>1. message_status' \in [Msgs -> Status]
    BY <1>20 DEF MarkDelivered, SetDelivered
  <2> QED BY <1>20, <2>1 DEF MarkDelivered
<1>21. ASSUME NEW c \in Conns, MarkDeliveredAgain(c)
      PROVE  TypeOK'
  <2>1. message_status' \in [Msgs -> Status]
    BY <1>21 DEF MarkDeliveredAgain, SetDelivered
  <2> QED BY <1>0, <1>21, <2>1 DEF MarkDeliveredAgain
<1>22. ASSUME NEW c \in Conns, AckMark(c)
      PROVE  TypeOK'
  <2>1. cur[c] \in Msgs  BY <1>22 DEF AckMark
  <2>2. message_status' \in [Msgs -> Status]
    BY <1>22, <2>1 DEF AckMark
  <2> QED BY <1>22, <2>1, <2>2 DEF AckMark
<1>23. ASSUME NEW c \in Conns, AckScan(c)
      PROVE  TypeOK'
  BY <1>23 DEF AckScan
<1>24. ASSUME NEW c \in Conns, NEW q \in Queues, AckVisit(c, q)
      PROVE  TypeOK'
  BY <1>24 DEF AckVisit
<1>25. ASSUME NEW c \in Conns, AckClean(c)
      PROVE  TypeOK'
  <2>1. at[c] \in Queues  BY <1>25 DEF AckClean
  <2>2. Keep(queues[at[c]], Msgs \ {cur[c]}) \in Seq(Msgs)
    BY <2>1, KeepProperties
  <2>3. queues' \in [Queues -> Seq(Msgs)]  BY <1>25, <2>1, <2>2 DEF AckClean
  <2> QED BY <1>25, <2>3 DEF AckClean
<1>26. ASSUME NEW c \in Conns, AckEnd(c)
      PROVE  TypeOK'
  BY <1>26 DEF AckEnd
<1>27. ASSUME NEW c \in Conns, AckDropQueues(c)
      PROVE  TypeOK'
  BY <1>27 DEF AckDropQueues
<1>28. ASSUME NEW c \in Conns, AckDropStatus(c)
      PROVE  TypeOK'
  BY <1>28 DEF AckDropStatus
<1>29. ASSUME NEW c \in Conns, AckReply(c)
      PROVE  TypeOK'
  BY <1>0, <1>29 DEF AckReply
<1>30. ASSUME NEW c \in Conns, TakeDelivery(c)
      PROVE  TypeOK'
  <2>1. Head(chan[c]) \in Msgs /\ Tail(chan[c]) \in Seq(Msgs)
    <3>1. chan[c] \in Seq(Msgs) /\ chan[c] # <<>>  BY <1>30 DEF TakeDelivery
    <3> QED BY <3>1, TailRange
  <2>2. chan' \in [Conns -> Seq(Msgs)]  BY <1>30, <2>1 DEF TakeDelivery
  <2>3. CASE Goto(c, "write") /\ cur' = [cur EXCEPT ![c] = Head(chan[c])]
    BY <1>30, <2>1, <2>2, <2>3 DEF TakeDelivery
  <2>4. CASE UNCHANGED <<pc, cur>>  BY <1>30, <2>2, <2>4 DEF TakeDelivery
  <2> HIDE DEF TypeOK
  <2> QED BY <1>30, <2>3, <2>4 DEF TakeDelivery
<1>31. ASSUME NEW c \in Conns, NEW q \in Queues, SendBacklog(c, q)
      PROVE  TypeOK'
  <2>1. Head(backlog[c][q]) \in Msgs /\ Tail(backlog[c][q]) \in Seq(Msgs)
    <3>1. backlog[c] \in [Queues -> Seq(Msgs)]  OBVIOUS
    <3> HIDE DEF TypeOK
    <3>2. backlog[c][q] \in Seq(Msgs)  BY <3>1
    <3>3. backlog[c][q] # <<>>  BY <1>31 DEF SendBacklog
    <3> QED BY <3>2, <3>3, TailRange, SMTT(40)
  <2>2. Append(chan[c], Head(backlog[c][q])) \in Seq(Msgs)
    BY <2>1, AppendRange
  <2>3. backlog' \in [Conns -> [Queues -> Seq(Msgs)]]
    BY <1>31, <2>1 DEF SendBacklog
  <2> QED BY <1>31, <2>2, <2>3 DEF SendBacklog
<1>32. ASSUME NEW c \in Conns, NEW q \in Queues, DropBacklog(c, q)
      PROVE  TypeOK'
  <2>1. <<>> \in Seq(Msgs)
    <3> HIDE DEF TypeOK
    <3> QED BY SMTT(40)
  <2>2. backlog' \in [Conns -> [Queues -> Seq(Msgs)]]
    BY <1>32, <2>1 DEF DropBacklog
  <2> QED BY <1>32, <2>2 DEF DropBacklog
<1>33. CASE UNCHANGED vars
  BY <1>33 DEF vars
<1> HIDE DEF TypeOK
<1>34. ASSUME NEW c \in Conns, Command(c) PROVE TypeOK'
  BY <1>34, <1>1, <1>2, <1>3, <1>4, <1>5, <1>6, <1>7 DEF Command
<1>35. ASSUME NEW c \in Conns, Step(c) PROVE TypeOK'
  BY <1>35, <1>8, <1>9, <1>10, <1>11, <1>12, <1>13, <1>14, <1>15,
     <1>16, <1>17, <1>18, <1>19, <1>20, <1>21, <1>22,
     <1>23, <1>24, <1>25, <1>26, <1>27, <1>28, <1>29 DEF Step
<1>36. ASSUME NEW c \in Conns, Spawned(c) PROVE TypeOK'
  BY <1>36, <1>31, <1>32 DEF Spawned
<1> QED BY <1>30, <1>33, <1>34, <1>35, <1>36 DEF Next

-----------------------------------------------------------------------------
(* If every evict in progress was in progress before and q is not the      *)
(* queue it has locked, a change of q alone keeps LockInv.                 *)
LEMMA LockFrame ==
  ASSUME TypeOK, LockInv, NEW q,
         \A d \in Conns : pc'[d] = "evict" =>
           pc[d] = "evict" /\ at'[d] = at[d] /\ at[d] # q,
         \A r \in Queues \ {q} : queues'[r] = queues[r]
  PROVE  LockInv'
<1>1. \A d \in Conns : pc[d] = "evict" => at[d] \in Queues
  BY DEF TypeOK
<1>2. \A d \in Conns : pc'[d] = "evict" => queues'[at'[d]] = queues[at[d]]
  BY <1>1
<1> QED BY <1>2, SMTT(30) DEF LockInv

(* A locked queue is touched by no other task, so LockInv is kept.         *)
LEMMA LockStep ==
  TypeOK /\ LockInv /\ [Next]_vars => LockInv'
<1> SUFFICES ASSUME TypeOK, LockInv, [Next]_vars PROVE LockInv'
  OBVIOUS
<1> USE DEF LockInv, TypeOK, Goto, Leave, Return, Close, topology,
      locals, history
<1>1. ASSUME NEW c \in Conns, NEW q \in Queues, DeclareQueue(c, q)
      PROVE  LockInv'
  BY <1>1 DEF DeclareQueue
<1>2. ASSUME NEW c \in Conns, NEW x \in Exchanges, DeclareExchange(c, x)
      PROVE  LockInv'
  BY <1>2 DEF DeclareExchange
<1>3. ASSUME NEW c \in Conns, NEW q \in Queues, NEW x \in Exchanges,
             NEW k \in Keys, BindQueue(c, q, x, k)
      PROVE  LockInv'
  BY <1>3 DEF BindQueue
<1>4. ASSUME NEW c \in Conns, NEW m \in Msgs, PublishCheck(c, m)
      PROVE  LockInv'
  BY <1>4 DEF PublishCheck
<1>5. ASSUME NEW c \in Conns, NEW q \in Queues, RegisterConsumer(c, q)
      PROVE  LockInv'
  BY <1>5 DEF RegisterConsumer
<1>6. ASSUME NEW c \in Conns, NEW m \in Msgs, AckCheck(c, m)
      PROVE  LockInv'
  BY <1>6 DEF AckCheck
<1>7. ASSUME NEW c \in Conns, Disconnect(c)
      PROVE  LockInv'
  BY <1>7 DEF Disconnect
<1>8. ASSUME NEW c \in Conns, PublishSaveFails(c)
      PROVE  LockInv'
  BY <1>8 DEF PublishSaveFails
<1>9. ASSUME NEW c \in Conns, PublishRoute(c)
      PROVE  LockInv'
  <2>1. CASE Return(c)  BY <1>9, <2>1 DEF PublishRoute
  <2>2. CASE Goto(c, "enqueue") /\ UNCHANGED at
    BY <1>9, <2>2 DEF PublishRoute
  <2> QED BY <1>9, <2>1, <2>2 DEF PublishRoute
<1>10. ASSUME NEW c \in Conns, NEW q \in Queues, PublishEnqueue(c, q)
      PROVE  LockInv'
  <2>1. \A d \in Conns : pc'[d] = "evict" =>
          pc[d] = "evict" /\ at'[d] = at[d] /\ at[d] # q
    BY <1>10 DEF PublishEnqueue, PushBack, Unlocked
  <2>2. \A r \in Queues \ {q} : queues'[r] = queues[r]
    BY <1>10 DEF PublishEnqueue, PushBack
  <2> HIDE DEF LockInv, TypeOK
  <2> QED BY <2>1, <2>2, LockFrame
<1>11. ASSUME NEW c \in Conns, NEW q \in Queues, PublishPop(c, q)
      PROVE  LockInv'
  <2>1. \A d \in Conns : pc'[d] = "evict" =>
          IF d = c THEN at'[d] = q
                   ELSE pc[d] = "evict" /\ at'[d] = at[d] /\ at[d] # q
    BY <1>11 DEF PublishPop, Unlocked
  <2>2. queues' = queues /\ queues[q] # <<>>  BY <1>11 DEF PublishPop
  <2> QED BY <2>1, <2>2
<1>12. ASSUME NEW c \in Conns, PublishEvict(c)
      PROVE  LockInv'
  <2>1. \A d \in Conns : pc'[d] = "evict" =>
          pc[d] = "evict" /\ at'[d] = at[d] /\ at[d] # at[c]
    BY <1>12 DEF PublishEvict, PushBack
  <2>2. \A r \in Queues \ {at[c]} : queues'[r] = queues[r]
    BY <1>12 DEF PublishEvict, PushBack
  <2> HIDE DEF LockInv, TypeOK
  <2> QED BY <2>1, <2>2, LockFrame
<1>13. ASSUME NEW c \in Conns, PublishTrackQueues(c)
      PROVE  LockInv'
  BY <1>13 DEF PublishTrackQueues
<1>14. ASSUME NEW c \in Conns, PublishTrackStatus(c)
      PROVE  LockInv'
  BY <1>14 DEF PublishTrackStatus
<1>15. ASSUME NEW c \in Conns, NEW q \in Queues, PublishNotify(c, q)
      PROVE  LockInv'
  <2>1. CASE Leave(c, "select")  BY <1>15, <2>1 DEF PublishNotify
  <2>2. CASE UNCHANGED <<pc, at>>  BY <1>15, <2>2 DEF PublishNotify
  <2> QED BY <1>15, <2>1, <2>2 DEF PublishNotify
<1>16. ASSUME NEW c \in Conns, SnapshotQueue(c)
      PROVE  LockInv'
  BY <1>16 DEF SnapshotQueue
<1>17. ASSUME NEW c \in Conns, WriteSucceeds(c)
      PROVE  LockInv'
  BY <1>17 DEF WriteSucceeds
<1>18. ASSUME NEW c \in Conns, WriteFails(c)
      PROVE  LockInv'
  <2>1. CASE Close(c)  BY <1>18, <2>1 DEF WriteFails
  <2>2. CASE UNCHANGED <<pc, at>>  BY <1>18, <2>2 DEF WriteFails
  <2> QED BY <1>18, <2>1, <2>2 DEF WriteFails
<1>19. ASSUME NEW c \in Conns, FlushFails(c)
      PROVE  LockInv'
  BY <1>19, SMTT(30) DEF FlushFails
<1>20. ASSUME NEW c \in Conns, MarkDelivered(c)
      PROVE  LockInv'
  BY <1>20 DEF MarkDelivered
<1>21. ASSUME NEW c \in Conns, MarkDeliveredAgain(c)
      PROVE  LockInv'
  BY <1>21 DEF MarkDeliveredAgain
<1>22. ASSUME NEW c \in Conns, AckMark(c)
      PROVE  LockInv'
  BY <1>22 DEF AckMark
<1>23. ASSUME NEW c \in Conns, AckScan(c)
      PROVE  LockInv'
  BY <1>23 DEF AckScan
<1>24. ASSUME NEW c \in Conns, NEW q \in Queues, AckVisit(c, q)
      PROVE  LockInv'
  BY <1>24 DEF AckVisit
<1>25. ASSUME NEW c \in Conns, AckClean(c)
      PROVE  LockInv'
  <2>1. \A d \in Conns : pc'[d] = "evict" =>
          pc[d] = "evict" /\ at'[d] = at[d] /\ at[d] # at[c]
    BY <1>25 DEF AckClean, Unlocked
  <2>2. \A r \in Queues \ {at[c]} : queues'[r] = queues[r]
    BY <1>25 DEF AckClean
  <2> HIDE DEF LockInv, TypeOK
  <2> QED BY <2>1, <2>2, LockFrame
<1>26. ASSUME NEW c \in Conns, AckEnd(c)
      PROVE  LockInv'
  BY <1>26 DEF AckEnd
<1>27. ASSUME NEW c \in Conns, AckDropQueues(c)
      PROVE  LockInv'
  BY <1>27 DEF AckDropQueues
<1>28. ASSUME NEW c \in Conns, AckDropStatus(c)
      PROVE  LockInv'
  BY <1>28 DEF AckDropStatus
<1>29. ASSUME NEW c \in Conns, AckReply(c)
      PROVE  LockInv'
  <2>1. CASE Return(c)  BY <1>29, <2>1 DEF AckReply
  <2>2. CASE Close(c)  BY <1>29, <2>2 DEF AckReply
  <2> QED BY <1>29, <2>1, <2>2 DEF AckReply
<1>30. ASSUME NEW c \in Conns, TakeDelivery(c)
      PROVE  LockInv'
  BY <1>30, SMTT(30) DEF TakeDelivery
<1>31. ASSUME NEW c \in Conns, NEW q \in Queues, SendBacklog(c, q)
      PROVE  LockInv'
  BY <1>31 DEF SendBacklog
<1>32. ASSUME NEW c \in Conns, NEW q \in Queues, DropBacklog(c, q)
      PROVE  LockInv'
  BY <1>32 DEF DropBacklog
<1>33. CASE UNCHANGED vars
  BY <1>33 DEF vars
<1> HIDE DEF LockInv, TypeOK
<1>34. ASSUME NEW c \in Conns, Command(c) PROVE LockInv'
  BY <1>34, <1>1, <1>2, <1>3, <1>4, <1>5, <1>6, <1>7 DEF Command
<1>35. ASSUME NEW c \in Conns, Step(c) PROVE LockInv'
  BY <1>35, <1>8, <1>9, <1>10, <1>11, <1>12, <1>13, <1>14, <1>15,
     <1>16, <1>17, <1>18, <1>19, <1>20, <1>21, <1>22,
     <1>23, <1>24, <1>25, <1>26, <1>27, <1>28, <1>29 DEF Step
<1>36. ASSUME NEW c \in Conns, Spawned(c) PROVE LockInv'
  BY <1>36, <1>31, <1>32 DEF Spawned
<1> QED BY <1>30, <1>33, <1>34, <1>35, <1>36 DEF Next

(* The broker's maps, channels and handlers keep their types, and an       *)
(* evicting publish finds a message to drop.                               *)
THEOREM TypeCorrect == Spec => [](TypeOK /\ LockInv)
<1>1. Init => TypeOK /\ LockInv
  BY BrokerConstants, QueueFacts, SMTT(30) DEF Init, TypeOK, LockInv, Pcs, PublishPcs,
     DeliverPcs, AckPcs, Status, Absent
<1>2. TypeOK /\ LockInv /\ [Next]_vars => (TypeOK /\ LockInv)'
  BY TypeStep, LockStep
<1> QED BY <1>1, <1>2, PTL DEF Spec

(* Only the first loop of publish and acknowledge's retain touch a queue.  *)
LEMMA QueueWriters ==
  ASSUME [Next]_vars
  PROVE  \/ queues' = queues
         \/ \E c \in Conns, q \in Queues : PublishEnqueue(c, q)
         \/ \E c \in Conns : PublishEvict(c)
         \/ \E c \in Conns : AckClean(c)
<1> USE DEF topology
<1>1. CASE UNCHANGED vars  BY <1>1 DEF vars
<1>2. ASSUME NEW c \in Conns, Command(c) PROVE queues' = queues
  BY <1>2 DEF Command, DeclareQueue, DeclareExchange, BindQueue, PublishCheck,
     RegisterConsumer, AckCheck, Disconnect
<1>3. ASSUME NEW c \in Conns, Step(c)
      PROVE  \/ queues' = queues
             \/ \E q \in Queues : PublishEnqueue(c, q)
             \/ PublishEvict(c)
             \/ AckClean(c)
  BY <1>3 DEF Step, PublishSaveFails, PublishRoute, PublishPop,
     PublishTrackQueues, PublishTrackStatus, PublishNotify, SnapshotQueue,
     WriteSucceeds, WriteFails, FlushFails, MarkDelivered, MarkDeliveredAgain,
     AckMark, AckScan, AckVisit, AckEnd, AckDropQueues, AckDropStatus, AckReply
<1>4. ASSUME NEW c \in Conns, TakeDelivery(c) \/ Spawned(c)
      PROVE  queues' = queues
  BY <1>4 DEF TakeDelivery, Spawned, SendBacklog, DropBacklog
<1> QED BY <1>1, <1>2, <1>3, <1>4 DEF Next

(* publish keeps every queue within its bound: it pushes on a queue with   *)
(* room or on one it has just popped.                                      *)
LEMMA QueueBoundStep ==
  TypeOK /\ LockInv /\ QueueBound /\ [Next]_vars => QueueBound'
<1> SUFFICES ASSUME TypeOK, LockInv, QueueBound, [Next]_vars PROVE QueueBound'
  OBVIOUS
<1> DEFINE bound == IF max_queue_size = 0 THEN 1 ELSE max_queue_size
<1>0. /\ bound \in Nat
      /\ \A q \in Queues : /\ queues[q] \in Seq(Msgs)
                           /\ Len(queues[q]) \in Nat
                           /\ Len(queues[q]) <= bound
  BY BrokerConstants, QueueFacts DEF TypeOK, QueueBound
<1>1. CASE queues' = queues
  BY <1>1 DEF QueueBound
<1>2. ASSUME NEW c \in Conns, NEW q \in Queues, PublishEnqueue(c, q)
      PROVE  QueueBound'
  <2>1. cur[c] \in Msgs
    BY <1>2 DEF PublishEnqueue, TypeOK, PublishPcs
  <2>2. Len(Append(queues[q], cur[c])) = Len(queues[q]) + 1
    BY <1>0, <2>1, AppendRange
  <2>3. Len(queues[q]) < max_queue_size \/ Len(queues[q]) = 0
    BY <1>2, QueueFacts DEF PublishEnqueue
  <2>4. Len(Append(queues[q], cur[c])) <= bound
    BY <2>2, <2>3, <1>0, BrokerConstants, SMTT(30)
  <2>5. queues' = [queues EXCEPT ![q] = Append(queues[q], cur[c])]
    BY <1>2 DEF PublishEnqueue, PushBack
  <2> QED BY <2>4, <2>5, <1>0 DEF QueueBound, TypeOK
<1>3. ASSUME NEW c \in Conns, PublishEvict(c) PROVE QueueBound'
  <2>1. cur[c] \in Msgs /\ at[c] \in Queues /\ queues[at[c]] # <<>>
    BY <1>3 DEF PublishEvict, TypeOK, LockInv, PublishPcs
  <2> DEFINE tail == Tail(queues[at[c]])
  <2>2. /\ tail \in Seq(Msgs)
        /\ Len(tail) = Len(queues[at[c]]) - 1
    BY <2>1, <1>0, TailRange
  <2>3. Len(Append(tail, cur[c])) = Len(tail) + 1
    BY <2>1, <2>2, AppendRange
  <2>4. Len(Append(tail, cur[c])) <= bound
    BY <2>1, <2>2, <2>3, <1>0, SMTT(30)
  <2>5. queues' = [queues EXCEPT ![at[c]] = Append(tail, cur[c])]
    BY <1>3 DEF PublishEvict, PushBack
  <2> QED BY <2>1, <2>4, <2>5, <1>0 DEF QueueBound, TypeOK
<1>4. ASSUME NEW c \in Conns, AckClean(c) PROVE QueueBound'
  <2>1. at[c] \in Queues
    BY <1>4 DEF AckClean, TypeOK
  <2> DEFINE kept == Keep(queues[at[c]], Msgs \ {cur[c]})
  <2>2. kept \in Seq(Msgs) /\ Len(kept) <= Len(queues[at[c]])
    BY <2>1, <1>0, KeepProperties
  <2>3. Len(kept) \in Nat /\ Len(kept) <= bound
    BY <2>1, <2>2, <1>0, QueueFacts, SMTT(30)
  <2>4. queues' = [queues EXCEPT ![at[c]] = kept]
    BY <1>4 DEF AckClean
  <2> QED BY <2>1, <2>3, <2>4, <1>0 DEF QueueBound, TypeOK
<1> QED BY <1>1, <1>2, <1>3, <1>4, QueueWriters

(* Every queue stays within max_queue_size, whatever publishers and        *)
(* receivers do concurrently.                                              *)
THEOREM QueueBoundHolds == Spec => []QueueBound
<1>1. Init => QueueBound
  BY BrokerConstants, QueueFacts, SMTT(30) DEF Init, QueueBound
<1>2. TypeOK /\ LockInv /\ QueueBound /\ [Next]_vars => QueueBound'
  BY QueueBoundStep
<1> QED BY <1>1, <1>2, TypeCorrect, PTL DEF Spec

-----------------------------------------------------------------------------
(* No message is lost that was confirmed.                                  *)

(* Messages that may leave the maps: evicted or acknowledged.              *)
Gone == evicted \cup acked

(* The first loop of publish has put cur into every queue it is done with, *)
(* and is done with all of them when it ends.                              *)
Placing ==
  \A c \in Conns : pc[c] \in {"enqueue", "evict", "track_queues"} =>
    /\ target[c] # {}
    /\ pc[c] = "track_queues" => todo[c] = {}
    /\ cur[c] \notin Gone =>
         \A q \in target[c] \ todo[c] : cur[c] \in Range(queues[q])

(* Once tracked, a message keeps its queue set and its status.             *)
Tracked ==
  \A c \in Conns :
    /\ pc[c] = "track_status" /\ cur[c] \notin Gone => message_queues[cur[c]] # {}
    /\ pc[c] = "notify" /\ cur[c] \notin Gone =>
         message_queues[cur[c]] # {} /\ message_status[cur[c]] # Absent

(* Only an accepted ack gets as far as the removals.                       *)
Acking ==
  \A c \in Conns :
    pc[c] \in {"ack_scan", "ack_iter", "ack_clean", "ack_drop_queues",
               "ack_drop_status"} => cur[c] \in acked

(* The queue set of a message names only queues that hold it.              *)
QueueSets ==
  \A m \in Msgs \ Gone : \A q \in message_queues[m] : m \in Range(queues[q])

(* A confirmed message has a status and a queue set.                       *)
Confirmed ==
  \A m \in confirmed \ Gone : message_status[m] # Absent /\ message_queues[m] # {}

NotLostInv == Placing /\ Tracked /\ Acking /\ QueueSets /\ Confirmed

(* The types the steps below rely on, apart from the rest of TypeOK.       *)
LEMMA LocalTypes ==
  ASSUME TypeOK
  PROVE  /\ pc \in [Conns -> Pcs]
         /\ cur \in [Conns -> Msgs \cup {NoMsg}]
         /\ target \in [Conns -> SUBSET Queues]
         /\ todo \in [Conns -> SUBSET Queues]
         /\ message_status \in [Msgs -> Status]
         /\ message_queues \in [Msgs -> SUBSET Queues]
BY DEF TypeOK

(* What no other handler sees of a step of c: its locals.                  *)
OthersKeep(c) ==
  \A d \in Conns \ {c} : /\ pc'[d] = pc[d] /\ cur'[d] = cur[d]
                         /\ target'[d] = target[d] /\ todo'[d] = todo[d]

(* A step of c that takes no message away and ends outside the part of     *)
(* publish and acknowledge that NotLostInv speaks of.                      *)
Idles(c) ==
  /\ UNCHANGED <<queues, message_queues, evicted, acked, confirmed>>
  /\ \A m \in Msgs : message_status[m] # Absent => message_status'[m] # Absent
  /\ OthersKeep(c)
  /\ pc'[c] \in {"select", "snapshot", "closed", "save", "ack_mark", "ack_reply"}
                 \cup DeliverPcs

(* Such a step keeps NotLostInv.                                           *)
LEMMA IdleStep ==
  ASSUME TypeOK, NotLostInv, NEW c \in Conns, Idles(c)
  PROVE  NotLostInv'
<1>1. \A d \in Conns : pc[d] = "notify" => cur[d] \in Msgs
  BY DEF TypeOK, PublishPcs
<1>2. Placing'
  BY DEF NotLostInv, Placing, Idles, OthersKeep, Gone, DeliverPcs
<1>3. Tracked'
  BY <1>1, SMTT(30) DEF NotLostInv, Tracked, Idles, OthersKeep, Gone, DeliverPcs
<1>4. Acking'
  BY DEF NotLostInv, Acking, Idles, OthersKeep, DeliverPcs
<1>5. QueueSets'
  BY DEF NotLostInv, QueueSets, Idles, Gone
<1>6. Confirmed'
  BY DEF NotLostInv, Confirmed, Idles, Gone, TypeOK
<1> QED BY <1>2, <1>3, <1>4, <1>5, <1>6 DEF NotLostInv

(* A step that touches nothing NotLostInv speaks of.                       *)
LEMMA NotLostStutter ==
  ASSUME NotLostInv,
         UNCHANGED <<queues, message_queues, message_status, evicted, acked,
                     confirmed, pc, cur, target, todo>>
  PROVE  NotLostInv'
BY DEF NotLostInv, Placing, Tracked, Acking, QueueSets, Confirmed, Gone

(* A step of an accepted acknowledge by c: it may change any entry of its  *)
(* own message, and none of another one.                                   *)
Acknowledges(c) ==
  /\ OthersKeep(c)
  /\ cur[c] \in Msgs /\ cur'[c] = cur[c]
  /\ acked \subseteq acked' /\ cur[c] \in acked'
  /\ UNCHANGED <<evicted, confirmed>>
  /\ pc'[c] \in {"ack_scan", "ack_iter", "ack_clean", "ack_drop_queues",
                 "ack_drop_status", "ack_reply"}
  /\ \A r \in Queues : Range(queues[r]) \ {cur[c]} \subseteq Range(queues'[r])
  /\ \A m \in Msgs \ {cur[c]} : /\ message_queues'[m] = message_queues[m]
                               /\ message_status'[m] = message_status[m]

(* Such a step keeps NotLostInv: its message counts as gone.               *)
LEMMA AcknowledgeStep ==
  ASSUME TypeOK, NotLostInv, NEW c \in Conns, Acknowledges(c)
  PROVE  NotLostInv'
<1>1. /\ cur[c] \in Gone' /\ Gone \subseteq Gone'
      /\ acked \subseteq acked' /\ cur[c] \in acked'
  BY DEF Acknowledges, Gone
<1>2. /\ \A d \in Conns : target[d] \subseteq Queues
      /\ \A d \in Conns : pc[d] \in {"track_status", "notify"} => cur[d] \in Msgs
      /\ \A m \in Msgs : message_queues[m] \subseteq Queues
      /\ confirmed \subseteq Msgs
  BY DEF TypeOK, PublishPcs
<1>3. Placing'
  BY <1>1, <1>2, SMTT(30) DEF NotLostInv, Placing, Acknowledges, OthersKeep
<1>4. Tracked'
  BY <1>1, <1>2, SMTT(30) DEF NotLostInv, Tracked, Acknowledges, OthersKeep
<1>5. Acking'
  BY <1>1 DEF NotLostInv, Acking, Acknowledges, OthersKeep
<1>6. QueueSets'
  BY <1>1, <1>2 DEF NotLostInv, QueueSets, Acknowledges
<1>7. Confirmed'
  BY <1>1, <1>2 DEF NotLostInv, Confirmed, Acknowledges
<1> QED BY <1>3, <1>4, <1>5, <1>6, <1>7 DEF NotLostInv

(* The retain of acknowledge takes only its own message out of the queue.  *)
LEMMA CleanAcknowledges ==
  ASSUME TypeOK, NEW c \in Conns, AckClean(c), cur[c] \in Msgs, cur[c] \in acked
  PROVE  Acknowledges(c)
<1> DEFINE q == at[c]
           kept == Keep(queues[q], Msgs \ {cur[c]})
<1>1. q \in Queues /\ queues \in [Queues -> Seq(Msgs)]
  BY DEF AckClean, TypeOK
<1>2. Range(kept) = Range(queues[q]) \cap (Msgs \ {cur[c]})
  BY <1>1, KeepProperties
<1>3. \A r \in Queues : Range(queues[r]) \subseteq Msgs
  BY <1>1, QueueFacts
<1>4. queues' = [queues EXCEPT ![q] = kept]
  BY DEF AckClean
<1>5. /\ OthersKeep(c)
      /\ cur'[c] = cur[c] /\ pc'[c] = "ack_iter"
      /\ UNCHANGED <<message_queues, message_status, evicted, acked, confirmed>>
  BY LocalTypes DEF AckClean, OthersKeep, Goto, history
<1> HIDE DEF q, kept
<1>6. \A r \in Queues : Range(queues[r]) \ {cur[c]} \subseteq Range(queues'[r])
  BY <1>1, <1>2, <1>3, <1>4
<1> QED BY <1>5, <1>6 DEF Acknowledges

(* c pushes its message on q, after it evicted `old' if that is a message. *)
Places(c, q, old) ==
  /\ OthersKeep(c)
  /\ pc[c] \in {"enqueue", "evict"}
  /\ cur'[c] = cur[c] /\ target'[c] = target[c] /\ todo'[c] = todo[c] \ {q}
  /\ pc'[c] \in {"enqueue", "track_queues"}
  /\ pc'[c] = "track_queues" => todo'[c] = {}
  /\ UNCHANGED <<acked, confirmed>>
  /\ evicted \subseteq evicted' /\ (old \in Msgs => old \in evicted')
  /\ \A r \in Queues : Range(queues[r]) \ {old} \subseteq Range(queues'[r])
  /\ cur[c] \in Range(queues'[q])
  /\ \A m \in Msgs \ {old} : /\ message_queues'[m] = message_queues[m]
                            /\ message_status'[m] = message_status[m]

(* The push of publish keeps NotLostInv.                                   *)
LEMMA PlaceStep ==
  ASSUME TypeOK, NotLostInv, NEW c \in Conns, NEW q \in Queues, NEW old,
         Places(c, q, old)
  PROVE  NotLostInv'
<1>1. Gone \subseteq Gone' /\ (old \in Msgs => old \in Gone')
  BY DEF Places, Gone
<1>2. /\ \A d \in Conns : target[d] \subseteq Queues
      /\ \A d \in Conns :
           pc[d] \in {"enqueue", "evict", "track_queues", "track_status", "notify"}
             => cur[d] \in Msgs
      /\ \A m \in Msgs : message_queues[m] \subseteq Queues
      /\ confirmed \subseteq Msgs
  BY DEF TypeOK, PublishPcs
<1>3. Placing'
  <2>1. ASSUME NEW d \in Conns \ {c}, pc'[d] \in {"enqueue", "evict", "track_queues"}
        PROVE  /\ target'[d] # {}
               /\ pc'[d] = "track_queues" => todo'[d] = {}
               /\ cur'[d] \notin Gone' =>
                    \A r \in target'[d] \ todo'[d] : cur'[d] \in Range(queues'[r])
    <3>1. /\ pc'[d] = pc[d] /\ cur'[d] = cur[d]
          /\ target'[d] = target[d] /\ todo'[d] = todo[d]
      BY DEF Places, OthersKeep
    <3>2. /\ target[d] # {}
          /\ pc[d] = "track_queues" => todo[d] = {}
          /\ cur[d] \notin Gone =>
               \A r \in target[d] \ todo[d] : cur[d] \in Range(queues[r])
      BY <2>1, <3>1 DEF NotLostInv, Placing
    <3>3. cur[d] \notin Gone' => cur[d] \notin Gone /\ cur[d] # old
      BY <1>1, <1>2, <2>1, <3>1
    <3>4. \A r \in Queues : Range(queues[r]) \ {old} \subseteq Range(queues'[r])
      BY DEF Places
    <3> QED BY <1>2, <3>1, <3>2, <3>3, <3>4
  <2>2. /\ target'[c] # {}
        /\ pc'[c] = "track_queues" => todo'[c] = {}
        /\ cur'[c] \notin Gone' =>
             \A r \in target'[c] \ todo'[c] : cur'[c] \in Range(queues'[r])
    BY <1>1, <1>2 DEF NotLostInv, Placing, Places
  <2> QED BY <2>1, <2>2 DEF Placing
<1>4. Tracked'
  BY <1>1, <1>2, SMTT(30) DEF NotLostInv, Tracked, Places, OthersKeep
<1>5. Acking'
  BY DEF NotLostInv, Acking, Places, OthersKeep
<1>6. QueueSets'
  BY <1>1, <1>2 DEF NotLostInv, QueueSets, Places
<1>7. Confirmed'
  BY <1>1, <1>2 DEF NotLostInv, Confirmed, Places
<1> QED BY <1>3, <1>4, <1>5, <1>6, <1>7 DEF NotLostInv

(* Accepting a command and ending a connection lose no message.            *)
LEMMA NotLostCommand ==
  ASSUME TypeOK, LockInv, NotLostInv, NEW c \in Conns,
         Command(c)
  PROVE  NotLostInv'
<1>1. ASSUME NEW q \in Queues, DeclareQueue(c, q)
      PROVE  NotLostInv'
  BY <1>1, NotLostStutter DEF DeclareQueue, locals, history
<1>2. ASSUME NEW x \in Exchanges, DeclareExchange(c, x)
      PROVE  NotLostInv'
  BY <1>2, NotLostStutter DEF DeclareExchange, locals, history
<1>3. ASSUME NEW q \in Queues, NEW x \in Exchanges,
             NEW k \in Keys, BindQueue(c, q, x, k)
      PROVE  NotLostInv'
  BY <1>3, NotLostStutter DEF BindQueue, locals, history
<1>4. ASSUME NEW m \in Msgs, PublishCheck(c, m)
      PROVE  Idles(c)
  BY LocalTypes, <1>4 DEF PublishCheck, DeliverPcs, Idles, OthersKeep,
    Goto, history
<1>5. ASSUME NEW q \in Queues, RegisterConsumer(c, q)
      PROVE  Idles(c)
  BY LocalTypes, <1>5 DEF RegisterConsumer, DeliverPcs, Idles, OthersKeep,
    Goto,
    history
<1>6. ASSUME NEW m \in Msgs, AckCheck(c, m)
      PROVE  Idles(c)
  BY LocalTypes, <1>6 DEF AckCheck, DeliverPcs, Idles, OthersKeep, Goto,
    history
<1>7. ASSUME Disconnect(c)
      PROVE  Idles(c)
  BY LocalTypes, <1>7 DEF Disconnect, Close, Leave, DeliverPcs, Idles,
    OthersKeep, Goto, history
<1> QED BY <1>1, <1>2, <1>3, <1>4, <1>5, <1>6, <1>7, IdleStep DEF Command

(* Nor does delivering messages to a receiver.                             *)
LEMMA NotLostDeliver ==
  ASSUME TypeOK, LockInv, NotLostInv, NEW c \in Conns,
         \/ SnapshotQueue(c)
         \/ WriteSucceeds(c)
         \/ WriteFails(c)
         \/ FlushFails(c)
         \/ MarkDelivered(c)
         \/ MarkDeliveredAgain(c)
         \/ TakeDelivery(c)
         \/ Spawned(c)
  PROVE  NotLostInv'
<1>1. ASSUME SnapshotQueue(c)
      PROVE  Idles(c)
  BY LocalTypes, <1>1 DEF SnapshotQueue, Return, Leave, DeliverPcs, Idles,
    OthersKeep, Goto, history
<1>2. ASSUME WriteSucceeds(c)
      PROVE  Idles(c)
  BY LocalTypes, <1>2 DEF WriteSucceeds, DeliverPcs, Idles, OthersKeep, Goto,
    history
<1>3. ASSUME WriteFails(c)
      PROVE  Idles(c)
  <2>1. CASE Close(c)
    BY LocalTypes, <1>3, <2>1 DEF WriteFails, Close, Leave, DeliverPcs, Idles,
      OthersKeep, Goto, history
  <2>2. CASE UNCHANGED <<pc, cur, target, todo>>
    BY LocalTypes, <1>3, <2>2
    DEF WriteFails, DeliverPcs, Idles, OthersKeep,
      Goto, history
  <2> QED BY <1>3, <2>1, <2>2 DEF WriteFails
<1>4. ASSUME FlushFails(c)
      PROVE  Idles(c)
  <2>1. CASE UNCHANGED pc
    BY LocalTypes, <1>4, <2>1 DEF FlushFails, DeliverPcs, Idles, OthersKeep,
      Goto, history
  <2>2. CASE Goto(c, "mark_again")
    BY LocalTypes, <1>4, <2>2 DEF FlushFails, DeliverPcs, Idles, OthersKeep,
      Goto, history
  <2> QED BY <1>4, <2>1, <2>2 DEF FlushFails
<1>5. ASSUME MarkDelivered(c)
      PROVE  Idles(c)
  BY LocalTypes, <1>5 DEF MarkDelivered, SetDelivered, DeliverPcs, Idles,
    OthersKeep, Goto, history, Absent
<1>6. ASSUME MarkDeliveredAgain(c)
      PROVE  Idles(c)
  BY LocalTypes, <1>6 DEF MarkDeliveredAgain, SetDelivered, Return, Leave,
    DeliverPcs, Idles, OthersKeep, Goto, history, Absent
<1>7. ASSUME TakeDelivery(c)
      PROVE  Idles(c)
  <2>1. CASE UNCHANGED <<pc, cur>>
    BY LocalTypes, <1>7, <2>1 DEF TakeDelivery, DeliverPcs, Idles, OthersKeep,
      Goto, history
  <2>2. CASE /\ Goto(c, "write")
             /\ cur' = [cur EXCEPT ![c] = Head(chan[c])]
    BY LocalTypes, <1>7, <2>2 DEF TakeDelivery, DeliverPcs, Idles, OthersKeep,
      Goto, history
  <2> QED BY <1>7, <2>1, <2>2 DEF TakeDelivery
<1>8. ASSUME NEW q \in Queues, SendBacklog(c, q)
      PROVE  NotLostInv'
  BY <1>8, NotLostStutter DEF SendBacklog, locals, history
<1>9. ASSUME NEW q \in Queues, DropBacklog(c, q)
      PROVE  NotLostInv'
  BY <1>9, NotLostStutter DEF DropBacklog, locals, history
<1> QED BY <1>1, <1>2, <1>3, <1>4, <1>5, <1>6, <1>7, <1>8, <1>9, IdleStep
  DEF Spawned

(* Nor does acknowledging, except the message it counts as acknowledged.   *)
LEMMA NotLostAck ==
  ASSUME TypeOK, LockInv, NotLostInv, NEW c \in Conns,
         \/ AckMark(c)
         \/ AckScan(c)
         \/ \E q \in Queues : AckVisit(c, q)
         \/ AckClean(c)
         \/ AckEnd(c)
         \/ AckDropQueues(c)
         \/ AckDropStatus(c)
         \/ AckReply(c)
  PROVE  NotLostInv'
<1>0. /\ pc[c] = "ack_mark" => cur[c] \in Msgs
      /\ pc[c] \in {"ack_scan", "ack_iter", "ack_clean", "ack_drop_queues",
                    "ack_drop_status"} => cur[c] \in Msgs /\ cur[c] \in acked
  BY DEF TypeOK, AckPcs, NotLostInv, Acking
<1>1. ASSUME AckMark(c)
      PROVE  Acknowledges(c)
  BY LocalTypes, <1>0, <1>1 DEF AckMark, Acknowledges, OthersKeep, Goto,
    history
<1>2. ASSUME AckScan(c)
      PROVE  Acknowledges(c)
  BY LocalTypes, <1>0, <1>2 DEF AckScan, Acknowledges, OthersKeep, Goto,
    history
<1>3. ASSUME NEW q \in Queues, AckVisit(c, q)
      PROVE  Acknowledges(c)
  BY LocalTypes, <1>0, <1>3 DEF AckVisit, Acknowledges, OthersKeep, Goto,
    history
<1>4. ASSUME AckClean(c)
      PROVE  Acknowledges(c)
  BY <1>0, <1>4, CleanAcknowledges DEF AckClean
<1>5. ASSUME AckEnd(c)
      PROVE  Acknowledges(c)
  BY LocalTypes, <1>0, <1>5 DEF AckEnd, Acknowledges, OthersKeep, Goto,
    history
<1>6. ASSUME AckDropQueues(c)
      PROVE  Acknowledges(c)
  BY LocalTypes, <1>0, <1>6 DEF AckDropQueues, Acknowledges, OthersKeep, Goto,
    history
<1>7. ASSUME AckDropStatus(c)
      PROVE  Acknowledges(c)
  BY LocalTypes, <1>0, <1>7 DEF AckDropStatus, Acknowledges, OthersKeep, Goto,
    history
<1>8. ASSUME AckReply(c)
      PROVE  Idles(c)
  <2>1. CASE Return(c)
    BY LocalTypes, <1>8, <2>1 DEF AckReply, Return, Leave, DeliverPcs, Idles,
      OthersKeep, Goto, history
  <2>2. CASE Close(c)
    BY LocalTypes, <1>8, <2>2 DEF AckReply, Close, Leave, DeliverPcs, Idles,
      OthersKeep, Goto, history
  <2> QED BY <1>8, <2>1, <2>2 DEF AckReply
<1> QED BY <1>1, <1>2, <1>3, <1>4, <1>5, <1>6, <1>7, <1>8,
     IdleStep, AcknowledgeStep

-----------------------------------------------------------------------------
(* publish.                                                                *)

(* Nor does the first loop of publish, except a message it counts as       *)
(* evicted.                                                                *)
LEMMA NotLostPlace ==
  ASSUME TypeOK, LockInv, NotLostInv, NEW c \in Conns,
         \/ PublishSaveFails(c)
         \/ PublishRoute(c)
         \/ \E q \in Queues : PublishEnqueue(c, q)
         \/ \E q \in Queues : PublishPop(c, q)
         \/ PublishEvict(c)
  PROVE  NotLostInv'
<1>1. ASSUME PublishSaveFails(c)
      PROVE  Idles(c)
  BY LocalTypes, <1>1 DEF PublishSaveFails, Return, Leave, DeliverPcs, Idles,
    OthersKeep, Goto, history
<1>2. ASSUME PublishRoute(c)
      PROVE  NotLostInv'
  <2>1. CASE Return(c)
    <3>1. Idles(c)
      BY LocalTypes, <1>2, <2>1 DEF PublishRoute, Return, Leave,
        DeliverPcs, Idles, OthersKeep, Goto, history
    <3> QED BY <3>1, IdleStep
  <2>2. CASE /\ target_queues(cur[c]) # {}
             /\ Goto(c, "enqueue")
             /\ target' = [target EXCEPT ![c] = target_queues(cur[c])]
             /\ todo' = [todo EXCEPT ![c] = target_queues(cur[c])]
             /\ UNCHANGED cur
    <3>1. /\ OthersKeep(c)
          /\ pc'[c] = "enqueue" /\ target'[c] # {} /\ todo'[c] = target'[c]
          /\ UNCHANGED <<queues, message_queues, message_status, evicted, acked,
                         confirmed>>
      BY LocalTypes, <1>2, <2>2 DEF PublishRoute, OthersKeep, Goto, history
    <3>2. Placing'
      BY <3>1 DEF NotLostInv, Placing, OthersKeep, Gone
    <3>3. Tracked'
      BY <3>1 DEF NotLostInv, Tracked, OthersKeep, Gone
    <3>4. Acking'
      BY <3>1 DEF NotLostInv, Acking, OthersKeep
    <3>5. QueueSets' /\ Confirmed'
      BY <3>1 DEF NotLostInv, QueueSets, Confirmed, Gone
    <3> QED BY <3>2, <3>3, <3>4, <3>5 DEF NotLostInv
  <2> QED BY <1>2, <2>1, <2>2 DEF PublishRoute
<1>3. ASSUME NEW q \in Queues, PublishEnqueue(c, q)
      PROVE  NotLostInv'
  <2>1. cur[c] \in Msgs /\ queues \in [Queues -> Seq(Msgs)]
    BY <1>3 DEF PublishEnqueue, TypeOK, PublishPcs
  <2>2. queues' = [queues EXCEPT ![q] = Append(queues[q], cur[c])]
    BY <1>3 DEF PublishEnqueue, PushBack
  <2>3. Range(Append(queues[q], cur[c])) = Range(queues[q]) \cup {cur[c]}
    BY <2>1, AppendRange, SMTT(30)
  <2>4. /\ \A r \in Queues : Range(queues[r]) \ {NoMsg} \subseteq Range(queues'[r])
        /\ cur[c] \in Range(queues'[q])
    BY <2>1, <2>2, <2>3
  <2>5. /\ OthersKeep(c)
        /\ pc[c] = "enqueue"
        /\ cur'[c] = cur[c] /\ target'[c] = target[c] /\ todo'[c] = todo[c] \ {q}
        /\ pc'[c] \in {"enqueue", "track_queues"}
        /\ pc'[c] = "track_queues" => todo'[c] = {}
        /\ UNCHANGED <<message_queues, message_status, evicted, acked, confirmed>>
    BY LocalTypes, <1>3 DEF PublishEnqueue, PushBack, OthersKeep, Goto,
      history
  <2>6. Places(c, q, NoMsg)
    BY <2>4, <2>5, BrokerConstants DEF Places
  <2> QED BY <2>6, PlaceStep
<1>4. ASSUME NEW q \in Queues, PublishPop(c, q)
      PROVE  NotLostInv'
  <2>1. /\ OthersKeep(c)
        /\ pc[c] = "enqueue" /\ pc'[c] = "evict"
        /\ UNCHANGED <<queues, message_queues, message_status, evicted, acked,
                       confirmed, cur, target, todo>>
    BY LocalTypes, <1>4 DEF PublishPop, OthersKeep, Goto, history
  <2>2. Placing'
    BY <2>1 DEF NotLostInv, Placing, OthersKeep, Gone
  <2>3. Tracked' /\ Acking'
    BY <2>1 DEF NotLostInv, Tracked, Acking, OthersKeep, Gone
  <2>4. QueueSets' /\ Confirmed'
    BY <2>1 DEF NotLostInv, QueueSets, Confirmed, Gone
  <2> QED BY <2>2, <2>3, <2>4 DEF NotLostInv
<1>5. ASSUME PublishEvict(c)
      PROVE  NotLostInv'
  <2> DEFINE q == at[c]
             old == Head(queues[q])
             rest == Tail(queues[q])
  <2>1. /\ pc[c] = "evict" /\ cur[c] \in Msgs /\ q \in Queues
        /\ queues \in [Queues -> Seq(Msgs)] /\ queues[q] # <<>>
        /\ message_queues \in [Msgs -> SUBSET Queues]
    BY <1>5 DEF PublishEvict, LockInv, TypeOK, PublishPcs
  <2>2. old \in Msgs /\ rest \in Seq(Msgs) /\ Range(queues[q]) = Range(rest) \cup {old}
    BY <2>1, TailRange
  <2>3. queues' = [queues EXCEPT ![q] = Append(rest, cur[c])]
    BY <1>5 DEF PublishEvict, PushBack
  <2>4. /\ message_queues' = [message_queues EXCEPT ![old] = @ \ {q}]
        /\ message_status' = [message_status EXCEPT ![old] = Absent]
        /\ evicted' = evicted \cup {old}
        /\ UNCHANGED <<acked, confirmed>>
    BY <1>5 DEF PublishEvict
  <2>5. /\ OthersKeep(c)
        /\ cur'[c] = cur[c] /\ target'[c] = target[c] /\ todo'[c] = todo[c] \ {q}
        /\ pc'[c] \in {"enqueue", "track_queues"}
        /\ pc'[c] = "track_queues" => todo'[c] = {}
    BY LocalTypes, <1>5 DEF PublishEvict, PushBack, OthersKeep, Goto
  <2> HIDE DEF q, old, rest
  <2>6. Range(Append(rest, cur[c])) = Range(rest) \cup {cur[c]}
    BY <2>1, <2>2, AppendRange, SMTT(30)
  <2>7. /\ \A r \in Queues : Range(queues[r]) \ {old} \subseteq Range(queues'[r])
        /\ cur[c] \in Range(queues'[q])
    BY <2>1, <2>2, <2>3, <2>6
  <2>8. \A m \in Msgs \ {old} : /\ message_queues'[m] = message_queues[m]
                               /\ message_status'[m] = message_status[m]
    BY LocalTypes, <2>1, <2>4
  <2>9. Places(c, q, old)
    BY <2>1, <2>4, <2>5, <2>7, <2>8 DEF Places
  <2> QED BY <2>1, <2>9, PlaceStep
<1> QED BY <1>1, <1>2, <1>3, <1>4, <1>5, IdleStep

(* Nor does what publish does after it: recording the queue set and the    *)
(* status, and answering ACK.                                              *)
LEMMA NotLostTrack ==
  ASSUME TypeOK, LockInv, NotLostInv, NEW c \in Conns,
         \/ PublishTrackQueues(c)
         \/ PublishTrackStatus(c)
         \/ \E q \in Queues : PublishNotify(c, q)
  PROVE  NotLostInv'
<1>1. ASSUME PublishTrackQueues(c)
      PROVE  NotLostInv'
  <2>1. /\ OthersKeep(c)
        /\ pc[c] = "track_queues" /\ pc'[c] = "track_status" /\ cur'[c] = cur[c]
        /\ UNCHANGED <<queues, message_status, evicted, acked, confirmed>>
        /\ message_queues' = [message_queues EXCEPT ![cur[c]] = target[c]]
    BY LocalTypes, <1>1 DEF PublishTrackQueues, OthersKeep, Goto, history
  <2>2. /\ message_queues \in [Msgs -> SUBSET Queues] /\ cur[c] \in Msgs
        /\ \A d \in Conns : pc[d] \in {"track_status", "notify"} => cur[d] \in Msgs
        /\ confirmed \subseteq Msgs
    BY <2>1 DEF TypeOK, PublishPcs
  <2>3. /\ target[c] # {}
        /\ cur[c] \notin Gone => \A q \in target[c] : cur[c] \in Range(queues[q])
    BY <2>1 DEF NotLostInv, Placing
  <2>4. \A m \in Msgs : message_queues[m] # {} => message_queues'[m] # {}
    BY <2>1, <2>2, <2>3
  <2>5. Placing'
    BY <2>1 DEF NotLostInv, Placing, OthersKeep, Gone
  <2>6. Tracked'
    BY <2>1, <2>2, <2>3, <2>4, SMTT(30) DEF NotLostInv, Tracked, OthersKeep, Gone
  <2>7. Acking'
    BY <2>1 DEF NotLostInv, Acking, OthersKeep
  <2>8. QueueSets'
    <3> SUFFICES ASSUME NEW m \in Msgs \ Gone, NEW q \in message_queues'[m]
                 PROVE  m \in Range(queues[q])
      BY <2>1 DEF QueueSets, Gone
    <3>1. CASE m = cur[c]
      BY <2>1, <2>2, <2>3, <3>1
    <3>2. CASE m # cur[c]
      BY <2>1, <2>2, <3>2 DEF NotLostInv, QueueSets
    <3> QED BY <3>1, <3>2
  <2>9. Confirmed'
    BY <2>1, <2>2, <2>4 DEF NotLostInv, Confirmed, Gone
  <2> QED BY <2>5, <2>6, <2>7, <2>8, <2>9 DEF NotLostInv
<1>2. ASSUME PublishTrackStatus(c)
      PROVE  NotLostInv'
  <2>1. /\ OthersKeep(c)
        /\ pc[c] = "track_status" /\ pc'[c] = "notify" /\ cur'[c] = cur[c]
        /\ UNCHANGED <<queues, message_queues, evicted, acked, confirmed>>
        /\ message_status' = [message_status EXCEPT ![cur[c]] = "sent"]
    BY LocalTypes, <1>2 DEF PublishTrackStatus, OthersKeep, Goto, history
  <2>2. /\ \A d \in Conns : pc[d] \in {"track_status", "notify"} => cur[d] \in Msgs
        /\ confirmed \subseteq Msgs
    BY DEF TypeOK, PublishPcs
  <2>3. /\ \A m \in Msgs : message_status[m] # Absent => message_status'[m] # Absent
        /\ message_status'[cur[c]] # Absent
    BY LocalTypes, <2>1, <2>2 DEF Absent
  <2>4. Placing'
    BY <2>1 DEF NotLostInv, Placing, OthersKeep, Gone
  <2>5. Tracked'
    BY <2>1, <2>2, <2>3 DEF NotLostInv, Tracked, OthersKeep, Gone
  <2>6. Acking'
    BY <2>1 DEF NotLostInv, Acking, OthersKeep
  <2>7. QueueSets' /\ Confirmed'
    BY <2>1, <2>2, <2>3 DEF NotLostInv, QueueSets, Confirmed, Gone
  <2> QED BY <2>4, <2>5, <2>6, <2>7 DEF NotLostInv
<1>3. ASSUME NEW q \in Queues, PublishNotify(c, q)
      PROVE  NotLostInv'
  <2>1. CASE /\ confirmed' = confirmed \cup {cur[c]}
             /\ Leave(c, "select")
    <3>1. /\ OthersKeep(c)
          /\ pc[c] = "notify" /\ pc'[c] = "select"
          /\ UNCHANGED <<queues, message_queues, message_status, evicted, acked>>
      BY LocalTypes, <1>3, <2>1, SMTT(30) DEF PublishNotify, OthersKeep, Leave, Goto
    <3>2. Placing'
      BY <3>1 DEF NotLostInv, Placing, OthersKeep, Gone
    <3>3. Tracked'
      BY <3>1 DEF NotLostInv, Tracked, OthersKeep, Gone
    <3>4. Acking'
      BY <3>1 DEF NotLostInv, Acking, OthersKeep
    <3>5. QueueSets'
      BY <3>1 DEF NotLostInv, QueueSets, Gone
    <3>6. Confirmed'
      BY <2>1, <3>1 DEF NotLostInv, Tracked, Confirmed, Gone
    <3> QED BY <3>2, <3>3, <3>4, <3>5, <3>6 DEF NotLostInv
  <2>2. CASE /\ todo' = [todo EXCEPT ![c] = @ \ {q}]
             /\ UNCHANGED <<pc, cur, target, confirmed>>
    <3>1. /\ OthersKeep(c)
          /\ pc[c] = "notify" /\ UNCHANGED <<pc, cur, target, confirmed>>
          /\ UNCHANGED <<queues, message_queues, message_status, evicted, acked>>
      BY LocalTypes, <1>3, <2>2 DEF PublishNotify, OthersKeep
    <3>2. Placing'
      BY <3>1 DEF NotLostInv, Placing, OthersKeep, Gone
    <3>3. Tracked' /\ Acking' /\ QueueSets' /\ Confirmed'
      BY <3>1 DEF NotLostInv, Tracked, Acking, QueueSets, Confirmed, Gone
    <3> QED BY <3>2, <3>3 DEF NotLostInv
  <2> QED BY <1>3, <2>1, <2>2 DEF PublishNotify
<1> QED BY <1>1, <1>2, <1>3

(* No step loses a message that is neither evicted nor acknowledged.       *)
LEMMA NotLostStep ==
  TypeOK /\ LockInv /\ NotLostInv /\ [Next]_vars => NotLostInv'
<1> SUFFICES ASSUME TypeOK, LockInv, NotLostInv, [Next]_vars PROVE NotLostInv'
  OBVIOUS
<1>1. CASE UNCHANGED vars
  BY <1>1, NotLostStutter DEF vars, locals, history
<1>2. ASSUME NEW c \in Conns, Step(c) PROVE NotLostInv'
  BY <1>2, NotLostPlace, NotLostTrack, NotLostDeliver, NotLostAck DEF Step
<1> QED BY <1>1, <1>2, NotLostCommand, NotLostDeliver DEF Next

(* It holds in every state of every behaviour.                             *)
LEMMA NothingLostAlways == Spec => []NotLostInv
<1>1. Init => NotLostInv
  BY DEF Init, NotLostInv, Placing, Tracked, Acking, QueueSets, Confirmed
<1>2. TypeOK /\ LockInv /\ NotLostInv /\ [Next]_vars => NotLostInv'
  BY NotLostStep
<1> QED BY <1>1, <1>2, TypeCorrect, PTL DEF Spec

(* A message whose publisher was answered ACK stays in every queue of its  *)
(* queue set, with a status, until it is acknowledged or evicted.          *)
THEOREM NothingLost == Spec => []UnackedNotLost
<1>1. TypeOK /\ NotLostInv => UnackedNotLost
  <2>1. TypeOK => confirmed \subseteq Msgs  BY DEF TypeOK
  <2> QED BY <2>1 DEF NotLostInv, QueueSets, Confirmed, Gone, UnackedNotLost
<1> QED BY <1>1, NothingLostAlways, TypeCorrect, PTL

-----------------------------------------------------------------------------
(* Where messages may be, as far as publishers and consumers are concerned.*)

(* m was published and goes to queue q; m was published and c consumes a   *)
(* queue it goes to.                                                       *)
OnRoute(m, q)  == attempts[m] > 0 /\ q \in target_queues(m)
Intended(m, c) == attempts[m] > 0 /\ target_queues(m) \cap subscribed[c] # {}

(* What the handler of c has in hand: a publish its message and queues on  *)
(* the route of it, a consume its own queue, an ack what c was offered.    *)
InHand(c) ==
  /\ pc[c] \in PublishPcs => attempts[cur[c]] > 0
  /\ pc[c] \in PublishPcs \ {"save"} =>
       target[c] \subseteq target_queues(cur[c]) /\ todo[c] \subseteq target_queues(cur[c])
  /\ pc[c] = "evict" => at[c] \in target_queues(cur[c])
  /\ pc[c] = "snapshot" => at[c] \in subscribed[c]
  /\ pc[c] \in AckPcs => cur[c] \in offered[c]

(* Queues hold what is routed to them, channels and spawned tasks what     *)
(* their connection consumes, and consumer lists only subscribers.         *)
RouteInv ==
  /\ \A q \in Queues : \A m \in Range(queues[q]) : OnRoute(m, q)
  /\ \A c \in Conns : \A m \in Range(chan[c]) : Intended(m, c)
  /\ \A c \in Conns, q \in Queues : \A m \in Range(backlog[c][q]) : Intended(m, c)
  /\ \A q \in Queues : \A c \in consumers[q] : q \in subscribed[c]
  /\ \A c \in Conns : InHand(c)

(* Publishes, bindings, subscriptions and deliveries are not taken back.   *)
Widens ==
  /\ \A m \in Msgs : attempts[m] > 0 => attempts'[m] > 0
  /\ \A m \in Msgs : target_queues(m) \subseteq target_queues(m)'
  /\ \A c \in Conns : subscribed[c] \subseteq subscribed'[c]
  /\ \A c \in Conns : offered[c] \subseteq offered'[c]

(* No step takes one back.                                                 *)
LEMMA WidenStep ==
  ASSUME TypeOK, [Next]_vars
  PROVE  Widens
<1> DEFINE Same == UNCHANGED <<attempts, bindings, subscribed, offered>>
           Wide(c) == \/ \E m \in Msgs : PublishCheck(c, m)
                      \/ \E q \in Queues, x \in Exchanges, k \in Keys : BindQueue(c, q, x, k)
                      \/ \E q \in Queues : RegisterConsumer(c, q)
                      \/ WriteSucceeds(c)
                      \/ FlushFails(c)
<1>1. Same \/ \E c \in Conns : Wide(c)
  <2> USE DEF history, topology
  <2>1. CASE UNCHANGED vars  BY <2>1 DEF vars
  <2>2. ASSUME NEW c \in Conns, Command(c) PROVE Same \/ Wide(c)
    BY <2>2 DEF Command, DeclareQueue, DeclareExchange, AckCheck, Disconnect
  <2>3. ASSUME NEW c \in Conns, Step(c) PROVE Same \/ Wide(c)
    BY <2>3 DEF Step, PublishSaveFails, PublishRoute, PublishEnqueue, PublishPop,
       PublishEvict, PublishTrackQueues, PublishTrackStatus, PublishNotify,
       SnapshotQueue, WriteFails, MarkDelivered, MarkDeliveredAgain, AckMark,
       AckScan, AckVisit, AckClean, AckEnd, AckDropQueues, AckDropStatus, AckReply
  <2>4. ASSUME NEW c \in Conns, TakeDelivery(c) \/ Spawned(c) PROVE Same
    BY <2>4 DEF TakeDelivery, Spawned, SendBacklog, DropBacklog
  <2> HIDE DEF Same, Wide
  <2> QED BY <2>1, <2>2, <2>3, <2>4 DEF Next
<1>2. CASE Same
  BY <1>2 DEF Widens, target_queues
<1>3. ASSUME NEW c \in Conns, NEW m \in Msgs, PublishCheck(c, m) PROVE Widens
  <2>1. \A n \in Msgs : attempts[n] > 0 => attempts'[n] > 0
    <3>1. attempts \in [Msgs -> Nat] /\ attempts' = [attempts EXCEPT ![m] = @ + 1]
      BY <1>3 DEF PublishCheck, TypeOK
    <3> QED BY <3>1, SMTT(30)
  <2> QED BY <1>3, <2>1 DEF PublishCheck, Widens, target_queues, topology
<1>4. ASSUME NEW c \in Conns, NEW q \in Queues, NEW x \in Exchanges, NEW k \in Keys,
             BindQueue(c, q, x, k)
      PROVE  Widens
  <2>1. \A y \in Exchanges : bindings[y] \subseteq bindings'[y]
    <3>1. /\ DOMAIN bindings = Exchanges
          /\ bindings' = [bindings EXCEPT ![x] = @ \cup {<<q, k>>}]
      BY <1>4 DEF BindQueue, TypeOK
    <3> QED BY <3>1, SMTT(30)
  <2>2. \A m \in Msgs : Route[m][1] \in Exchanges
    BY BrokerConstants, SMTT(30)
  <2>3. \A m \in Msgs : target_queues(m) \subseteq target_queues(m)'
    BY <2>1, <2>2 DEF target_queues
  <2> QED BY <1>4, <2>3 DEF BindQueue, Widens, history
<1>5. ASSUME NEW c \in Conns, NEW q \in Queues, RegisterConsumer(c, q) PROVE Widens
  BY <1>5 DEF RegisterConsumer, TypeOK, Widens, target_queues
<1>6. ASSUME NEW c \in Conns, WriteSucceeds(c) \/ FlushFails(c) PROVE Widens
  <2>1. \A d \in Conns : offered[d] \subseteq offered'[d]
    BY <1>6 DEF WriteSucceeds, FlushFails, TypeOK
  <2>2. UNCHANGED <<attempts, bindings, subscribed>>
    BY <1>6 DEF WriteSucceeds, FlushFails, topology
  <2> QED BY <2>1, <2>2 DEF Widens, target_queues
<1> QED BY <1>1, <1>2, <1>3, <1>4, <1>5, <1>6

(* The locals of the other handlers, which a step of c leaves alone.       *)
Alone(c) ==
  \A d \in Conns \ {c} : /\ pc'[d] = pc[d] /\ cur'[d] = cur[d] /\ at'[d] = at[d]
                         /\ target'[d] = target[d] /\ todo'[d] = todo[d]

(* What a step of c may carry where.                                       *)
Carries(c) ==
  /\ \A q \in Queues : \A m \in Range(queues'[q]) : m \in Range(queues[q]) \/ OnRoute(m, q)
  /\ \A d \in Conns : \A m \in Range(chan'[d]) : m \in Range(chan[d]) \/ Intended(m, d)
  /\ \A d \in Conns, q \in Queues : \A m \in Range(backlog'[d][q]) :
       m \in Range(backlog[d][q]) \/ Intended(m, d)
  /\ \A q \in Queues : \A d \in consumers'[q] : d \in consumers[q] \/ q \in subscribed'[d]
  /\ Alone(c)

(* Such a step keeps every message where it may be.                        *)
LEMMA CarryStep ==
  ASSUME TypeOK, TypeOK', RouteInv, Widens, NEW c \in Conns, Carries(c), InHand(c)'
  PROVE  RouteInv'
<1>1. /\ \A q \in Queues : Range(queues'[q]) \subseteq Msgs
      /\ \A d \in Conns : Range(chan'[d]) \subseteq Msgs
      /\ \A d \in Conns, q \in Queues : Range(backlog'[d][q]) \subseteq Msgs
      /\ \A q \in Queues : consumers'[q] \subseteq Conns
  <2>1. /\ \A q \in Queues : queues'[q] \in Seq(Msgs)
        /\ \A d \in Conns : chan'[d] \in Seq(Msgs)
        /\ \A d \in Conns, q \in Queues : backlog'[d][q] \in Seq(Msgs)
        /\ \A q \in Queues : consumers'[q] \subseteq Conns
    BY DEF TypeOK
  <2> QED BY <2>1, QueueFacts
<1>2. \A m \in Msgs, q \in Queues : OnRoute(m, q) => OnRoute(m, q)'
  BY DEF OnRoute, Widens
<1>3. \A m \in Msgs, d \in Conns : Intended(m, d) => Intended(m, d)'
  BY DEF Intended, Widens
<1>4. \A q \in Queues : \A m \in Range(queues'[q]) : OnRoute(m, q)'
  BY <1>1, <1>2 DEF RouteInv, Carries
<1>5. \A d \in Conns : \A m \in Range(chan'[d]) : Intended(m, d)'
  BY <1>1, <1>3 DEF RouteInv, Carries
<1>6. \A d \in Conns, q \in Queues : \A m \in Range(backlog'[d][q]) : Intended(m, d)'
  BY <1>1, <1>3 DEF RouteInv, Carries
<1>7. \A q \in Queues : \A d \in consumers'[q] : q \in subscribed'[d]
  BY <1>1 DEF RouteInv, Carries, Widens
<1>8. ASSUME NEW d \in Conns, d # c PROVE InHand(d)'
  <2>1. /\ pc'[d] = pc[d] /\ cur'[d] = cur[d] /\ at'[d] = at[d]
        /\ target'[d] = target[d] /\ todo'[d] = todo[d]
    BY <1>8 DEF Carries, Alone
  <2>2. InHand(d)
    BY DEF RouteInv
  <2>3. /\ pc[d] \in PublishPcs => cur[d] \in Msgs
        /\ "evict" \in PublishPcs \ {"save"}
    BY DEF TypeOK, PublishPcs
  <2>4. ASSUME NEW m \in Msgs, m = cur[d], pc[d] \in PublishPcs
        PROVE  /\ attempts'[cur'[d]] > 0
               /\ target_queues(cur[d]) \subseteq target_queues(cur[d])'
    BY <2>1, <2>2, <2>4 DEF InHand, Widens, target_queues
  <2>5. subscribed[d] \subseteq subscribed'[d] /\ offered[d] \subseteq offered'[d]
    BY DEF Widens
  <2> QED BY <2>1, <2>2, <2>3, <2>4, <2>5 DEF InHand
<1> QED BY <1>4, <1>5, <1>6, <1>7, <1>8 DEF RouteInv

(* A step that carries nothing.                                            *)
Stays(c) ==
  /\ UNCHANGED <<queues, backlog, consumers>>
  /\ \A d \in Conns : chan'[d] \in {chan[d], <<>>}
  /\ Alone(c)

(* It carries everything where it was.                                     *)
LEMMA StayCarries ==
  ASSUME NEW c \in Conns, Stays(c)
  PROVE  Carries(c)
<1>1. Range(<<>>) = {}
  BY SMTT(30) DEF Range
<1> QED BY <1>1 DEF Stays, Carries

(* How the handler of c goes on: outside of publish, consume and ack, or   *)
(* within the loops of publish, or within ack.                             *)
Settled(c) == pc'[c] \notin PublishPcs \cup AckPcs \cup {"snapshot"}

Publishes(c) ==
  /\ pc[c] \in PublishPcs \ {"save"} /\ pc'[c] \in PublishPcs \ {"save"}
  /\ cur'[c] = cur[c] /\ target'[c] = target[c]
  /\ todo'[c] \subseteq todo[c] \cup target[c]
  /\ pc'[c] = "evict" => at'[c] \in todo[c]

Answers(c) == pc[c] \in AckPcs /\ pc'[c] \in AckPcs /\ cur'[c] = cur[c]

(* It has in hand what it may.                                             *)
LEMMA HandStep ==
  ASSUME NEW c \in Conns, TypeOK, InHand(c), Widens, Settled(c) \/ Publishes(c) \/ Answers(c)
  PROVE  InHand(c)'
<1>1. CASE Settled(c)
  BY <1>1 DEF Settled, InHand, PublishPcs, AckPcs
<1>2. CASE Publishes(c)
  <2>1. cur[c] \in Msgs /\ pc'[c] \notin AckPcs /\ pc'[c] # "snapshot"
    BY <1>2 DEF Publishes, TypeOK, PublishPcs, AckPcs
  <2>2. ASSUME NEW m \in Msgs, m = cur[c]
        PROVE  /\ attempts'[cur'[c]] > 0
               /\ target_queues(cur[c]) \subseteq target_queues(cur[c])'
    BY <1>2, <2>2 DEF Publishes, InHand, Widens, target_queues
  <2>3. target[c] \cup todo[c] \subseteq target_queues(cur[c])
    BY <1>2 DEF Publishes, InHand
  <2> QED BY <1>2, <2>1, <2>2, <2>3 DEF Publishes, InHand
<1>3. CASE Answers(c)
  <2>1. pc'[c] \notin PublishPcs /\ pc'[c] # "snapshot"
    BY <1>3 DEF Answers, PublishPcs, AckPcs
  <2>2. "evict" \in PublishPcs
    BY DEF PublishPcs
  <2> QED BY <1>3, <2>1, <2>2 DEF Answers, InHand, Widens
<1> QED BY <1>1, <1>2, <1>3

(* The types of the locals, apart from the rest of TypeOK.                 *)
LEMMA HandTypes ==
  ASSUME TypeOK
  PROVE  /\ pc \in [Conns -> Pcs] /\ cur \in [Conns -> Msgs \cup {NoMsg}]
         /\ at \in [Conns -> Queues \cup {NoQueue}]
         /\ target \in [Conns -> SUBSET Queues] /\ todo \in [Conns -> SUBSET Queues]
BY DEF TypeOK

(* The end of a command, or of the connection.                             *)
LEMMA ReturnStays ==
  ASSUME TypeOK, NEW c \in Conns, Return(c) \/ Close(c),
         UNCHANGED <<queues, backlog, consumers>>
  PROVE  Stays(c) /\ Settled(c)
<1>1. Alone(c)
  BY HandTypes DEF Return, Close, Leave, Goto, Alone
<1>2. pc'[c] \in {"select", "closed"}
  BY HandTypes DEF Return, Close, Leave, Goto
<1>3. \A d \in Conns : chan'[d] \in {chan[d], <<>>}
  BY DEF Return, Close, TypeOK
<1> QED BY <1>1, <1>2, <1>3 DEF Stays, Settled, PublishPcs, AckPcs

(* The commands keep the routes.                                           *)
LEMMA RouteCommand ==
  ASSUME TypeOK, TypeOK', RouteInv, Widens, NEW c \in Conns, Command(c)
  PROVE  RouteInv'
<1> USE DEF Alone, Goto, locals
<1>0. InHand(c)
  BY DEF RouteInv
<1>1. ASSUME NEW q \in Queues, DeclareQueue(c, q) PROVE Stays(c) /\ Settled(c)
  BY <1>1, HandTypes DEF DeclareQueue, Stays, Settled, PublishPcs, AckPcs
<1>2. ASSUME NEW x \in Exchanges, DeclareExchange(c, x) PROVE Stays(c) /\ Settled(c)
  BY <1>2, HandTypes DEF DeclareExchange, Stays, Settled, PublishPcs, AckPcs
<1>3. ASSUME NEW q \in Queues, NEW x \in Exchanges, NEW k \in Keys, BindQueue(c, q, x, k)
      PROVE  Stays(c) /\ Settled(c)
  BY <1>3, HandTypes DEF BindQueue, Stays, Settled, PublishPcs, AckPcs
<1>4. ASSUME NEW m \in Msgs, PublishCheck(c, m) PROVE Stays(c) /\ InHand(c)'
  <2>1. Stays(c) /\ pc'[c] = "save" /\ cur'[c] = m
    BY <1>4, HandTypes DEF PublishCheck, Stays
  <2>2. attempts'[m] > 0
    <3>1. attempts \in [Msgs -> Nat]
      BY DEF TypeOK
    <3>2. attempts' = [attempts EXCEPT ![m] = @ + 1]
      BY <1>4 DEF PublishCheck
    <3> QED BY <3>1, <3>2, SMTT(30)
  <2> QED BY <2>1, <2>2 DEF InHand, PublishPcs, AckPcs
<1>5. ASSUME NEW q \in Queues, RegisterConsumer(c, q) PROVE Carries(c) /\ InHand(c)'
  <2>1. /\ UNCHANGED <<queues, chan, backlog>> /\ Alone(c)
        /\ pc'[c] = "snapshot" /\ at'[c] = q
    BY <1>5, HandTypes DEF RegisterConsumer
  <2>2. /\ consumers' = [consumers EXCEPT ![q] = @ \cup {c}]
        /\ subscribed' = [subscribed EXCEPT ![c] = @ \cup {q}]
        /\ consumers \in [Queues -> SUBSET Conns]
        /\ subscribed \in [Conns -> SUBSET Queues]
    BY <1>5 DEF RegisterConsumer, TypeOK
  <2>3. /\ q \in subscribed'[c]
        /\ \A r \in Queues : \A d \in consumers'[r] : d \in consumers[r] \/ r \in subscribed'[d]
    BY <2>2
  <2> QED BY <2>1, <2>3 DEF Carries, InHand, PublishPcs, AckPcs
<1>6. ASSUME NEW m \in Msgs, AckCheck(c, m) PROVE Stays(c) /\ InHand(c)'
  <2>1. /\ Stays(c) /\ pc'[c] \in {"ack_reply", "ack_mark"} /\ cur'[c] = m
        /\ m \in offered'[c]
    BY <1>6, HandTypes DEF AckCheck, Stays, history
  <2> QED BY <2>1 DEF InHand, PublishPcs, AckPcs
<1>7. ASSUME Disconnect(c) PROVE Stays(c) /\ Settled(c)
  BY <1>7, ReturnStays DEF Disconnect
<1>8. (Stays(c) => Carries(c)) /\ (Settled(c) => InHand(c)')
  BY <1>0, StayCarries, HandStep
<1> QED BY <1>1, <1>2, <1>3, <1>4, <1>5, <1>6, <1>7, <1>8, CarryStep DEF Command

(* So do the steps of publish that put nothing anywhere.                   *)
LEMMA RoutePublish ==
  ASSUME TypeOK, TypeOK', RouteInv, Widens, NEW c \in Conns,
         \/ PublishSaveFails(c) \/ PublishRoute(c) \/ PublishTrackQueues(c)
         \/ PublishTrackStatus(c) \/ \E q \in Queues : PublishPop(c, q)
  PROVE  RouteInv'
<1> USE DEF Alone, Goto
<1>0. InHand(c)
  BY DEF RouteInv
<1>1. ASSUME PublishSaveFails(c) PROVE Stays(c) /\ Settled(c)
  BY <1>1, ReturnStays DEF PublishSaveFails
<1>2. ASSUME PublishRoute(c) PROVE Stays(c) /\ InHand(c)'
  <2>1. CASE Return(c)
    <3>1. Stays(c) /\ Settled(c)
      BY <1>2, <2>1, ReturnStays DEF PublishRoute
    <3> QED BY <1>0, <3>1, HandStep
  <2>2. CASE ~ Return(c)
    <3> DEFINE t == target_queues(cur[c])
    <3>1. /\ pc[c] = "save" /\ Stays(c)
          /\ pc'[c] = "enqueue" /\ cur'[c] = cur[c] /\ target'[c] = t /\ todo'[c] = t
      BY <1>2, <2>2, HandTypes DEF PublishRoute, Stays
    <3>2. UNCHANGED <<bindings, attempts>>
      BY <1>2 DEF PublishRoute, topology, history
    <3>3. attempts[cur[c]] > 0
      BY <1>0, <3>1 DEF InHand, PublishPcs
    <3>4. target_queues(cur[c])' = t
      BY <3>1, <3>2 DEF target_queues
    <3> QED BY <3>1, <3>2, <3>3, <3>4 DEF InHand, PublishPcs, AckPcs
  <2> QED BY <2>1, <2>2
<1>3. ASSUME PublishTrackQueues(c) PROVE Stays(c) /\ Publishes(c)
  BY <1>3, HandTypes DEF PublishTrackQueues, Stays, Publishes, PublishPcs
<1>4. ASSUME PublishTrackStatus(c) PROVE Stays(c) /\ Publishes(c)
  BY <1>4, HandTypes DEF PublishTrackStatus, Stays, Publishes, PublishPcs
<1>5. ASSUME NEW q \in Queues, PublishPop(c, q) PROVE Stays(c) /\ Publishes(c)
  BY <1>5, HandTypes DEF PublishPop, Stays, Publishes, PublishPcs
<1>6. (Stays(c) => Carries(c)) /\ (Settled(c) \/ Publishes(c) => InHand(c)')
  BY <1>0, StayCarries, HandStep
<1> QED BY <1>1, <1>2, <1>3, <1>4, <1>5, <1>6, CarryStep

(* And those of a delivery and of an ack.                                  *)
LEMMA RouteAnswer ==
  ASSUME TypeOK, TypeOK', RouteInv, Widens, NEW c \in Conns,
         \/ WriteSucceeds(c) \/ WriteFails(c) \/ FlushFails(c)
         \/ MarkDelivered(c) \/ MarkDeliveredAgain(c)
         \/ AckMark(c) \/ AckScan(c) \/ AckEnd(c) \/ AckDropQueues(c)
         \/ AckDropStatus(c) \/ AckReply(c) \/ \E q \in Queues : AckVisit(c, q)
  PROVE  RouteInv'
<1> USE DEF Alone, Goto, PublishPcs, AckPcs
<1>0. InHand(c)
  BY DEF RouteInv
<1>1. ASSUME WriteSucceeds(c) PROVE Stays(c) /\ Settled(c)
  BY <1>1, HandTypes DEF WriteSucceeds, Stays, Settled
<1>2. ASSUME WriteFails(c) PROVE Stays(c) /\ Settled(c)
  <2>1. CASE Close(c)
    BY <1>2, <2>1, ReturnStays DEF WriteFails
  <2>2. CASE ~ Close(c)
    BY <1>2, <2>2, HandTypes DEF WriteFails, Stays, Settled
  <2> QED BY <2>1, <2>2
<1>3. ASSUME FlushFails(c) PROVE Stays(c) /\ Settled(c)
  BY <1>3, HandTypes DEF FlushFails, Stays, Settled
<1>4. ASSUME MarkDelivered(c) PROVE Stays(c) /\ Settled(c)
  BY <1>4, HandTypes DEF MarkDelivered, Stays, Settled
<1>5. ASSUME MarkDeliveredAgain(c) PROVE Stays(c) /\ Settled(c)
  BY <1>5, ReturnStays DEF MarkDeliveredAgain
<1>6. ASSUME AckMark(c) PROVE Stays(c) /\ Answers(c)
  BY <1>6, HandTypes DEF AckMark, Stays, Answers
<1>7. ASSUME AckScan(c) PROVE Stays(c) /\ Answers(c)
  BY <1>7, HandTypes DEF AckScan, Stays, Answers
<1>8. ASSUME AckEnd(c) PROVE Stays(c) /\ Answers(c)
  BY <1>8, HandTypes DEF AckEnd, Stays, Answers
<1>9. ASSUME AckDropQueues(c) PROVE Stays(c) /\ Answers(c)
  BY <1>9, HandTypes DEF AckDropQueues, Stays, Answers
<1>10. ASSUME AckDropStatus(c) PROVE Stays(c) /\ Answers(c)
  BY <1>10, HandTypes DEF AckDropStatus, Stays, Answers
<1>11. ASSUME AckReply(c) PROVE Stays(c) /\ Settled(c)
  BY <1>11, ReturnStays DEF AckReply
<1>12. ASSUME NEW q \in Queues, AckVisit(c, q) PROVE Stays(c) /\ Answers(c)
  BY <1>12, HandTypes DEF AckVisit, Stays, Answers
<1>13. (Stays(c) => Carries(c)) /\ (Settled(c) \/ Answers(c) => InHand(c)')
  BY <1>0, StayCarries, HandStep
<1> HIDE DEF Alone, Goto, PublishPcs, AckPcs
<1> QED BY <1>1, <1>2, <1>3, <1>4, <1>5, <1>6, <1>7, <1>8, <1>9, <1>10, <1>11, <1>12,
           <1>13, CarryStep

(* publish pushes its message on a queue of its route, acknowledge only    *)
(* takes its own out.                                                      *)
LEMMA RouteQueues ==
  ASSUME TypeOK, TypeOK', LockInv, RouteInv, Widens, NEW c \in Conns,
         \/ \E q \in Queues : PublishEnqueue(c, q)
         \/ PublishEvict(c) \/ AckClean(c)
  PROVE  RouteInv'
<1>0. /\ InHand(c)
      /\ queues \in [Queues -> Seq(Msgs)]
      /\ pc[c] \in {"enqueue", "evict"} => cur[c] \in Msgs
  BY DEF RouteInv, TypeOK, PublishPcs
<1>1. ASSUME NEW q \in Queues, NEW s \in Seq(Msgs), pc[c] \in {"enqueue", "evict"},
             Range(s) \subseteq Range(queues[q]), OnRoute(cur[c], q), PushBack(c, q, s),
             UNCHANGED <<chan, backlog, consumers, cur, target>>
      PROVE  RouteInv'
  <2>0. cur[c] \in Msgs
    BY <1>0, <1>1
  <2>1. Range(Append(s, cur[c])) = Range(s) \cup {cur[c]}
    BY <2>0, AppendRange, SMTT(30)
  <2>2. queues' = [queues EXCEPT ![q] = Append(s, cur[c])]
    BY <1>1 DEF PushBack
  <2>3. \A r \in Queues : \A m \in Range(queues'[r]) : m \in Range(queues[r]) \/ OnRoute(m, r)
    BY <1>0, <1>1, <2>1, <2>2
  <2>4. Alone(c)
    BY <1>1, HandTypes DEF PushBack, Goto, Alone
  <2>5. Publishes(c)
    BY <1>1, HandTypes DEF PushBack, Goto, Publishes, PublishPcs
  <2> QED BY <1>0, <1>1, <2>3, <2>4, <2>5, HandStep, CarryStep DEF Carries
<1>2. ASSUME NEW q \in Queues, PublishEnqueue(c, q) PROVE RouteInv'
  <2>1. OnRoute(cur[c], q)
    BY <1>0, <1>2 DEF PublishEnqueue, InHand, OnRoute, PublishPcs
  <2> QED BY <1>0, <1>1, <1>2, <2>1 DEF PublishEnqueue
<1>3. ASSUME PublishEvict(c) PROVE RouteInv'
  <2>1. at[c] \in Queues /\ queues[at[c]] # <<>>
    BY <1>3 DEF PublishEvict, LockInv, TypeOK
  <2>2. /\ Tail(queues[at[c]]) \in Seq(Msgs)
        /\ Range(Tail(queues[at[c]])) \subseteq Range(queues[at[c]])
    BY <1>0, <2>1, TailRange
  <2>3. OnRoute(cur[c], at[c])
    BY <1>0, <1>3 DEF PublishEvict, InHand, OnRoute, PublishPcs
  <2> QED BY <1>1, <1>3, <2>1, <2>2, <2>3 DEF PublishEvict
<1>4. ASSUME AckClean(c) PROVE RouteInv'
  <2>1. at[c] \in Queues
    BY <1>4 DEF AckClean, TypeOK
  <2> DEFINE kept == Keep(queues[at[c]], Msgs \ {cur[c]})
  <2>2. Range(kept) = Range(queues[at[c]]) \cap (Msgs \ {cur[c]})
    BY <1>0, <2>1, KeepProperties
  <2>3. queues' = [queues EXCEPT ![at[c]] = kept]
    BY <1>4 DEF AckClean
  <2> HIDE DEF kept
  <2>4. \A r \in Queues : Range(queues'[r]) \subseteq Range(queues[r])
    BY <1>0, <2>1, <2>2, <2>3
  <2>5. Alone(c) /\ Answers(c) /\ UNCHANGED <<chan, backlog, consumers>>
    BY <1>4, HandTypes DEF AckClean, Goto, Alone, Answers, AckPcs
  <2> QED BY <1>0, <2>4, <2>5, HandStep, CarryStep DEF Carries
<1> QED BY <1>2, <1>3, <1>4

(* A notification goes to consumers of a queue on the route.               *)
LEMMA RouteNotify ==
  ASSUME TypeOK, TypeOK', RouteInv, Widens, NEW c \in Conns, NEW q \in Queues,
         PublishNotify(c, q)
  PROVE  RouteInv'
<1> DEFINE live == {r \in consumers[q] : ~ is_closed(r)}
<1>1. /\ pc[c] = "notify" /\ q \in todo[c] /\ UNCHANGED <<queues, backlog>>
      /\ consumers' = [consumers EXCEPT ![q] = live]
      /\ chan' = [r \in Conns |-> IF r \in live THEN Append(chan[r], cur[c]) ELSE chan[r]]
  BY DEF PublishNotify
<1>2. /\ InHand(c) /\ cur[c] \in Msgs
      /\ chan \in [Conns -> Seq(Msgs)] /\ consumers \in [Queues -> SUBSET Conns]
  BY <1>1 DEF RouteInv, TypeOK, PublishPcs
<1>3. OnRoute(cur[c], q)
  BY <1>1, <1>2 DEF InHand, OnRoute, PublishPcs
<1>4. live \subseteq consumers[q] /\ \A r \in live : Intended(cur[c], r)
  BY <1>3 DEF RouteInv, OnRoute, Intended
<1> HIDE DEF live
<1>5. \A d \in Conns : \A m \in Range(chan'[d]) : m \in Range(chan[d]) \/ Intended(m, d)
  <2> SUFFICES ASSUME NEW d \in Conns, NEW m \in Range(chan'[d])
               PROVE  m \in Range(chan[d]) \/ Intended(m, d)
    OBVIOUS
  <2>1. chan[d] \in Seq(Msgs) /\ cur[c] \in Msgs
    BY <1>2
  <2>2. Range(Append(chan[d], cur[c])) = Range(chan[d]) \cup {cur[c]}
    BY <2>1, AppendRange, SMTT(30)
  <2> QED BY <1>1, <1>4, <2>2
<1>6. \A r \in Queues : consumers'[r] \subseteq consumers[r]
  BY <1>1, <1>2, <1>4
<1>7. Alone(c) /\ (Settled(c) \/ Publishes(c))
  <2>1. CASE todo[c] # {q}
    BY <1>1, <2>1, HandTypes DEF PublishNotify, Alone, Publishes, PublishPcs
  <2>2. CASE todo[c] = {q}
    BY <2>2, HandTypes DEF PublishNotify, Leave, Goto, Alone, Settled, PublishPcs, AckPcs
  <2> QED BY <2>1, <2>2
<1>8. Carries(c)
  BY <1>1, <1>5, <1>6, <1>7 DEF Carries
<1> QED BY <1>2, <1>7, <1>8, HandStep, CarryStep

(* A snapshot takes from a queue its connection consumes, and what is      *)
(* taken from it goes to that connection.                                  *)
LEMMA RouteDeliver ==
  ASSUME TypeOK, TypeOK', RouteInv, Widens, NEW c \in Conns,
         SnapshotQueue(c) \/ Spawned(c) \/ TakeDelivery(c)
  PROVE  RouteInv'
<1>0. /\ InHand(c)
      /\ queues \in [Queues -> Seq(Msgs)]
      /\ chan \in [Conns -> Seq(Msgs)]
      /\ backlog \in [Conns -> [Queues -> Seq(Msgs)]]
  BY DEF RouteInv, TypeOK
<1>1. ASSUME SnapshotQueue(c) PROVE RouteInv'
  <2> DEFINE q == at[c]
             kept == Keep(queues[q], {m \in Msgs : can_deliver(m)})
  <2>1. q \in Queues /\ q \in subscribed[c]
    BY <1>0, <1>1 DEF SnapshotQueue, TypeOK, InHand
  <2>2. Range(kept) \subseteq Range(queues[q])
    BY <1>0, <2>1, KeepProperties
  <2>3. \A m \in Range(queues[q]) : Intended(m, c)
    BY <2>1 DEF RouteInv, OnRoute, Intended
  <2>4. backlog' = [backlog EXCEPT ![c][q] = kept]
    BY <1>1 DEF SnapshotQueue
  <2>5. Alone(c) /\ Settled(c) /\ UNCHANGED <<queues, chan, consumers>>
    BY <1>1, HandTypes DEF SnapshotQueue, Return, Leave, Goto, Alone, Settled,
       PublishPcs, AckPcs
  <2> HIDE DEF q, kept
  <2>6. \A d \in Conns, r \in Queues : \A m \in Range(backlog'[d][r]) :
          m \in Range(backlog[d][r]) \/ Intended(m, d)
    <3>1. backlog'[c][q] = kept
      BY <1>0, <2>1, <2>4
    <3>2. \A d \in Conns, r \in Queues : d # c \/ r # q => backlog'[d][r] = backlog[d][r]
      BY <1>0, <2>1, <2>4
    <3> QED BY <2>2, <2>3, <3>1, <3>2
  <2> QED BY <1>0, <2>5, <2>6, HandStep, CarryStep DEF Carries
<1>2. ASSUME InHand(c)', Alone(c), UNCHANGED <<queues, consumers>>,
             \A d \in Conns : \A m \in Range(chan'[d]) : m \in Range(chan[d]) \/ Intended(m, d),
             \A d \in Conns, r \in Queues : Range(backlog'[d][r]) \subseteq Range(backlog[d][r])
      PROVE  RouteInv'
  BY <1>2, CarryStep DEF Carries
<1>3. ASSUME NEW q \in Queues, SendBacklog(c, q) PROVE RouteInv'
  <2> DEFINE b == backlog[c][q]
  <2>1. b \in Seq(Msgs) /\ b # <<>>
    BY <1>0, <1>3 DEF SendBacklog
  <2>2. Head(b) \in Msgs /\ Range(b) = Range(Tail(b)) \cup {Head(b)}
    BY <2>1, TailRange
  <2>3. Intended(Head(b), c)
    BY <2>2 DEF RouteInv
  <2>4. /\ chan' = [chan EXCEPT ![c] = Append(@, Head(b))]
        /\ backlog' = [backlog EXCEPT ![c][q] = Tail(@)]
        /\ UNCHANGED <<queues, consumers, locals, history, topology>>
    BY <1>3 DEF SendBacklog
  <2>5. Range(Append(chan[c], Head(b))) = Range(chan[c]) \cup {Head(b)}
    <3>1. chan[c] \in Seq(Msgs) /\ Head(b) \in Msgs
      BY <1>0, <2>2
    <3> HIDE DEF b
    <3> QED BY <3>1, AppendRange, SMTT(30)
  <2>6. \A d \in Conns : \A m \in Range(chan'[d]) : m \in Range(chan[d]) \/ Intended(m, d)
    <3> HIDE DEF b
    <3> QED BY <1>0, <2>3, <2>4, <2>5
  <2>7. \A d \in Conns, r \in Queues : Range(backlog'[d][r]) \subseteq Range(backlog[d][r])
    <3>1. backlog'[c][q] = Tail(b)
      BY <1>0, <2>4
    <3>2. \A d \in Conns, r \in Queues : d # c \/ r # q => backlog'[d][r] = backlog[d][r]
      BY <1>0, <2>4
    <3> QED BY <2>2, <3>1, <3>2
  <2>8. Alone(c) /\ InHand(c)'
    BY <1>0, <2>4 DEF locals, history, topology, Alone, InHand, target_queues
  <2> QED BY <1>2, <2>4, <2>6, <2>7, <2>8
<1>4. ASSUME NEW q \in Queues, DropBacklog(c, q) PROVE RouteInv'
  <2>1. /\ backlog' = [backlog EXCEPT ![c][q] = <<>>]
        /\ UNCHANGED <<queues, consumers, chan, locals, history, topology>>
    BY <1>4 DEF DropBacklog
  <2>2. Range(<<>>) = {}
    BY SMTT(30) DEF Range
  <2>3. \A d \in Conns, r \in Queues : Range(backlog'[d][r]) \subseteq Range(backlog[d][r])
    <3>1. backlog'[c][q] = <<>>
      BY <1>0, <2>1
    <3>2. \A d \in Conns, r \in Queues : d # c \/ r # q => backlog'[d][r] = backlog[d][r]
      BY <1>0, <2>1
    <3> QED BY <2>2, <3>1, <3>2
  <2>4. Alone(c) /\ InHand(c)'
    BY <1>0, <2>1 DEF locals, history, topology, Alone, InHand, target_queues
  <2> QED BY <1>2, <2>1, <2>3, <2>4
<1>5. ASSUME TakeDelivery(c) PROVE RouteInv'
  <2>1. chan' = [chan EXCEPT ![c] = Tail(@)] /\ UNCHANGED <<queues, consumers, backlog>>
    BY <1>5 DEF TakeDelivery
  <2>2. Range(Tail(chan[c])) \subseteq Range(chan[c])
    BY <1>0, <1>5, TailRange DEF TakeDelivery
  <2>3. \A d \in Conns : Range(chan'[d]) \subseteq Range(chan[d])
    BY <1>0, <2>1, <2>2
  <2>4. Alone(c) /\ Settled(c)
    BY <1>5, HandTypes DEF TakeDelivery, Goto, Alone, Settled, PublishPcs, AckPcs
  <2> QED BY <1>0, <1>2, <2>1, <2>3, <2>4, HandStep
<1> QED BY <1>1, <1>3, <1>4, <1>5 DEF Spawned

(* Every step keeps the routes.                                            *)
LEMMA RouteStep ==
  TypeOK /\ TypeOK' /\ LockInv /\ RouteInv /\ [Next]_vars => RouteInv'
<1> SUFFICES ASSUME TypeOK, TypeOK', LockInv, RouteInv, [Next]_vars PROVE RouteInv'
  OBVIOUS
<1>1. Widens
  BY WidenStep
<1>2. CASE UNCHANGED vars
  <2>1. UNCHANGED <<bindings, queues, consumers, chan, backlog, pc, cur, target, todo, at,
                    attempts, subscribed, offered>>
    BY <1>2 DEF vars, topology, locals, history
  <2>2. /\ \A m, q : OnRoute(m, q) => OnRoute(m, q)'
        /\ \A m, c : Intended(m, c) => Intended(m, c)'
    BY <2>1 DEF OnRoute, Intended, target_queues
  <2>3. \A c : InHand(c) => InHand(c)'
    BY <2>1 DEF InHand, target_queues
  <2> QED BY <2>1, <2>2, <2>3 DEF RouteInv
<1>3. ASSUME NEW c \in Conns, Step(c) PROVE RouteInv'
  BY <1>1, <1>3, RoutePublish, RouteAnswer, RouteQueues, RouteNotify, RouteDeliver DEF Step
<1> QED BY <1>1, <1>2, <1>3, RouteCommand, RouteDeliver DEF Next

(* A message is only in queues it was published for, and on its way only   *)
(* to connections that consume one of them.                                *)
LEMMA RoutesKept == Spec => []RouteInv
<1>1. Init => RouteInv
  <2> SUFFICES ASSUME Init PROVE RouteInv
    OBVIOUS
  <2>1. Range(<<>>) = {}
    BY SMTT(30) DEF Range
  <2> QED BY <2>1 DEF Init, RouteInv, InHand, PublishPcs, AckPcs
<1>2. TypeOK /\ TypeOK' /\ LockInv /\ RouteInv /\ [Next]_vars => RouteInv'
  BY RouteStep
<1> QED BY <1>1, <1>2, TypeCorrect, PTL DEF Spec

-----------------------------------------------------------------------------
(* An acknowledged message is not delivered again.                         *)

(* A publish that has not yet made its message known by a status.          *)
PrePcs == {"save", "enqueue", "evict", "track_queues", "track_status"}

(* Nobody but publishes has seen m.                                        *)
Fresh(m) ==
  /\ message_status[m] = Absent
  /\ m \notin acked
  /\ \A c \in Conns : m \notin offered[c] /\ (cur[c] = m => pc[c] \in PrePcs)

(* Nobody at all has seen an id that was never published.                  *)
Unpublished ==
  \A m \in Msgs : attempts[m] = 0 => Fresh(m) /\ \A c \in Conns : cur[c] # m

(* An id published once has one publish; until that sets the status nobody *)
(* else knows the id, and after its ack the status does not come back.     *)
OnePublish ==
  \A m \in Msgs : attempts[m] = 1 =>
    \A c, d \in Conns :
      cur[c] = m /\ cur[d] = m /\ pc[c] \in PrePcs /\ pc[d] \in PrePcs => c = d

Hidden ==
  \A m \in Msgs : attempts[m] = 1 =>
    \A c \in Conns : cur[c] = m /\ pc[c] \in PrePcs => Fresh(m)

AckFinal ==
  \A m \in Msgs : attempts[m] = 1 /\ m \in acked =>
    message_status[m] \in {Absent, "acknowledged"}

PublishedOnce == Unpublished /\ OnePublish /\ Hidden /\ AckFinal

(* A step of c that publishes nothing: what it does to the statuses, to    *)
(* the histories of acks and deliveries, and to the message in its hand.   *)
Moves(c) ==
  /\ UNCHANGED attempts
  /\ \A d \in Conns \ {c} : pc'[d] = pc[d] /\ cur'[d] = cur[d]
  /\ \A m \in Msgs : \/ message_status'[m] \in {message_status[m], Absent}
                     \/ message_status[m] = "sent" /\ message_status'[m] = "delivered"
                     \/ message_status[m] # Absent /\ message_status'[m] = "acknowledged"
  /\ \A m \in acked' \ acked : /\ m = cur[c] /\ pc[c] \notin PrePcs
                               /\ message_status'[m] \in {Absent, "acknowledged"}
  /\ \A d \in Conns : \A m \in offered'[d] :
       m \in offered[d] \/ (m = cur[c] /\ pc[c] \notin PrePcs)
  /\ \A m \in Msgs : cur'[c] = m =>
       \/ cur[c] = m /\ (pc[c] \in PrePcs <=> pc'[c] \in PrePcs)
       \/ pc'[c] \notin PrePcs /\ (message_status[m] # Absent \/ m \in offered[c])
  /\ pc[c] = "select" /\ pc'[c] = "write" => can_deliver(cur'[c]) /\ cur'[c] \in Msgs

(* Such a step keeps PublishedOnce.                                        *)
LEMMA MoveStep ==
  ASSUME PublishedOnce, NEW c \in Conns, Moves(c)
  PROVE  PublishedOnce'
<1> USE DEF PublishedOnce
<1>1. \A m \in Msgs : attempts'[m] = attempts[m]
  BY DEF Moves
<1>2. \A m \in Msgs, d \in Conns :
        cur'[d] = m /\ pc'[d] \in PrePcs => cur[d] = m /\ pc[d] \in PrePcs
  BY DEF Moves
<1>3. ASSUME NEW m \in Msgs, Fresh(m) PROVE Fresh(m)'
  <2>1. message_status'[m] = Absent
    BY <1>3 DEF Fresh, Moves, Absent
  <2>2. \A d \in Conns : cur'[d] = m => pc'[d] \in PrePcs
    BY <1>3 DEF Fresh, Moves
  <2>3. m \notin acked' /\ \A d \in Conns : m \notin offered'[d]
    BY <1>3 DEF Fresh, Moves
  <2> QED BY <2>1, <2>2, <2>3 DEF Fresh
<1>4. Unpublished'
  <2> SUFFICES ASSUME NEW m \in Msgs, attempts[m] = 0
               PROVE  Fresh(m)' /\ \A d \in Conns : cur'[d] # m
    BY <1>1 DEF Unpublished
  <2>1. Fresh(m) /\ \A d \in Conns : cur[d] # m
    BY DEF Unpublished
  <2>2. \A d \in Conns : cur'[d] # m
    BY <2>1 DEF Moves, Fresh
  <2> QED BY <1>3, <2>1, <2>2
<1>5. OnePublish'
  BY <1>1, <1>2 DEF OnePublish
<1>6. Hidden'
  BY <1>1, <1>2, <1>3 DEF Hidden
<1>7. AckFinal'
  <2> SUFFICES ASSUME NEW m \in Msgs, attempts[m] = 1, m \in acked'
               PROVE  message_status'[m] \in {Absent, "acknowledged"}
    BY <1>1 DEF AckFinal
  <2>1. CASE m \in acked
    <3>1. message_status[m] \in {Absent, "acknowledged"}
      BY <2>1 DEF AckFinal
    <3> QED BY <3>1 DEF Moves, Absent
  <2>2. CASE m \notin acked
    BY <2>2 DEF Moves
  <2> QED BY <2>1, <2>2
<1> QED BY <1>4, <1>5, <1>6, <1>7

(* The check of publish, which counts, is not of that kind.                *)
LEMMA CheckStep ==
  ASSUME TypeOK, PublishedOnce, NEW c \in Conns, NEW m \in Msgs, PublishCheck(c, m)
  PROVE  PublishedOnce'
<1> USE DEF PublishedOnce
<1>1. /\ UNCHANGED <<message_status, acked, offered>>
      /\ attempts'[m] = attempts[m] + 1 /\ attempts[m] \in Nat
      /\ \A n \in Msgs \ {m} : attempts'[n] = attempts[n]
      /\ cur'[c] = m /\ pc'[c] = "save"
      /\ \A d \in Conns \ {c} : pc'[d] = pc[d] /\ cur'[d] = cur[d]
  BY DEF PublishCheck, Goto, TypeOK
<1>2. attempts'[m] # 0 /\ (attempts'[m] = 1 => attempts[m] = 0)
  BY <1>1, SMTT(30)
<1>3. "save" \in PrePcs
  BY DEF PrePcs
<1>4. \A n \in Msgs : Fresh(n) => Fresh(n)'
  BY <1>1, <1>3 DEF Fresh
<1>5. attempts[m] = 0 => Fresh(m) /\ \A d \in Conns : cur[d] # m
  BY DEF Unpublished
<1>6. /\ \A n \in Msgs \ {m}, d \in Conns : cur'[d] = n => cur[d] = n /\ pc'[d] = pc[d]
      /\ attempts[m] = 0 => \A d \in Conns : cur'[d] = m => d = c
  BY <1>1, <1>5
<1>7. Unpublished'
  BY <1>1, <1>2, <1>4, <1>6 DEF Unpublished
<1>8. OnePublish'
  <2>1. ASSUME NEW n \in Msgs, attempts'[n] = 1, NEW d \in Conns, NEW e \in Conns,
               cur'[d] = n, cur'[e] = n, pc'[d] \in PrePcs, pc'[e] \in PrePcs
        PROVE  d = e
    <3>1. CASE n = m
      BY <1>2, <1>6, <2>1, <3>1
    <3>2. CASE n # m
      BY <1>1, <1>6, <2>1, <3>2 DEF OnePublish
    <3> QED BY <3>1, <3>2
  <2> QED BY <2>1 DEF OnePublish
<1>9. Hidden'
  BY <1>1, <1>2, <1>4, <1>5, <1>6 DEF Hidden
<1>10. AckFinal'
  <2>1. attempts[m] = 0 => m \notin acked
    BY <1>5 DEF Fresh
  <2> QED BY <1>1, <1>2, <2>1 DEF AckFinal
<1> QED BY <1>7, <1>8, <1>9, <1>10

(* Nor is the step that makes the message known.                           *)
LEMMA KnownStep ==
  ASSUME TypeOK, PublishedOnce, NEW c \in Conns, PublishTrackStatus(c)
  PROVE  PublishedOnce'
<1> USE DEF PublishedOnce
<1>1. /\ UNCHANGED <<attempts, cur, acked, offered>>
      /\ pc[c] = "track_status" /\ pc'[c] = "notify" /\ cur[c] \in Msgs
      /\ \A d \in Conns \ {c} : pc'[d] = pc[d]
      /\ \A n \in Msgs \ {cur[c]} : message_status'[n] = message_status[n]
  BY DEF PublishTrackStatus, Goto, TypeOK, PublishPcs, history
<1>2. pc[c] \in PrePcs /\ pc'[c] \notin PrePcs
  BY <1>1 DEF PrePcs
<1>3. attempts[cur[c]] # 0
  BY <1>1 DEF Unpublished
<1>4. \A n \in Msgs \ {cur[c]} : Fresh(n) => Fresh(n)'
  BY <1>1 DEF Fresh
<1>5. \A d \in Conns : pc'[d] \in PrePcs => pc[d] \in PrePcs /\ d # c
  BY <1>1, <1>2
<1>6. ASSUME attempts[cur[c]] = 1
      PROVE  /\ cur[c] \notin acked
             /\ \A d \in Conns : cur[d] = cur[c] /\ pc[d] \in PrePcs => d = c
  <2>1. Fresh(cur[c])
    BY <1>1, <1>2, <1>6 DEF Hidden
  <2>2. \A d \in Conns : cur[d] = cur[c] /\ pc[d] \in PrePcs => d = c
    BY <1>1, <1>2, <1>6 DEF OnePublish
  <2> QED BY <2>1, <2>2 DEF Fresh
<1>7. Unpublished'
  BY <1>1, <1>3, <1>4 DEF Unpublished
<1>8. OnePublish'
  BY <1>1, <1>5 DEF OnePublish
<1>9. Hidden'
  BY <1>1, <1>4, <1>5, <1>6 DEF Hidden
<1>10. AckFinal'
  BY <1>1, <1>6 DEF AckFinal
<1> QED BY <1>7, <1>8, <1>9, <1>10

(* What the steps of publish do, apart from these two.                     *)
LEMMA PublishMoves ==
  ASSUME TypeOK, NEW c \in Conns,
         \/ PublishSaveFails(c)
         \/ PublishRoute(c)
         \/ \E q \in Queues : PublishEnqueue(c, q)
         \/ \E q \in Queues : PublishPop(c, q)
         \/ PublishEvict(c)
         \/ PublishTrackQueues(c)
         \/ \E q \in Queues : PublishNotify(c, q)
  PROVE  Moves(c)
<1> USE BrokerConstants DEF Moves, PrePcs, Goto, Leave, Return, history
<1>1. CASE PublishSaveFails(c)
  BY LocalTypes, <1>1 DEF PublishSaveFails
<1>2. CASE PublishRoute(c)
  BY LocalTypes, <1>2 DEF PublishRoute
<1>3. ASSUME NEW q \in Queues, PublishEnqueue(c, q) PROVE Moves(c)
  BY LocalTypes, <1>3 DEF PublishEnqueue, PushBack
<1>4. ASSUME NEW q \in Queues, PublishPop(c, q) PROVE Moves(c)
  BY LocalTypes, <1>4 DEF PublishPop
<1>5. CASE PublishEvict(c)
  <2>1. \A m \in Msgs : message_status'[m] \in {message_status[m], Absent}
    BY LocalTypes, <1>5 DEF PublishEvict
  <2>2. /\ pc[c] = "evict" /\ pc'[c] \in {"enqueue", "track_queues"} /\ UNCHANGED cur
        /\ \A d \in Conns \ {c} : pc'[d] = pc[d]
        /\ UNCHANGED <<attempts, acked, offered>>
    BY LocalTypes, <1>5 DEF PublishEvict, PushBack
  <2> QED BY <2>1, <2>2
<1>6. CASE PublishTrackQueues(c)
  BY LocalTypes, <1>6 DEF PublishTrackQueues
<1>7. ASSUME NEW q \in Queues, PublishNotify(c, q) PROVE Moves(c)
  <2>1. UNCHANGED <<attempts, acked, offered, message_status>> /\ pc[c] = "notify"
    BY <1>7 DEF PublishNotify
  <2>2. CASE UNCHANGED <<pc, cur>>
    BY <2>1, <2>2
  <2>3. CASE Leave(c, "select")
    BY LocalTypes, <2>1, <2>3
  <2> QED BY <1>7, <2>2, <2>3 DEF PublishNotify
<1> QED BY <1>1, <1>2, <1>3, <1>4, <1>5, <1>6, <1>7

(* What the steps of consume and of the deliveries do.                     *)
LEMMA DeliverMoves ==
  ASSUME TypeOK, NEW c \in Conns,
         \/ \E q \in Queues : RegisterConsumer(c, q)
         \/ SnapshotQueue(c)
         \/ Spawned(c)
         \/ TakeDelivery(c)
         \/ WriteSucceeds(c)
         \/ WriteFails(c)
         \/ FlushFails(c)
         \/ MarkDelivered(c)
         \/ MarkDeliveredAgain(c)
  PROVE  Moves(c)
<1> USE BrokerConstants DEF Moves, PrePcs, Goto, Leave, Return, Close, history, locals
<1>1. ASSUME NEW q \in Queues, RegisterConsumer(c, q) PROVE Moves(c)
  BY LocalTypes, <1>1 DEF RegisterConsumer
<1>2. CASE SnapshotQueue(c)
  BY LocalTypes, <1>2 DEF SnapshotQueue
<1>3. CASE Spawned(c)
  BY LocalTypes, <1>3 DEF Spawned, SendBacklog, DropBacklog
<1>4. CASE TakeDelivery(c)
  <2>1. /\ UNCHANGED <<attempts, acked, offered, message_status>> /\ pc[c] = "select"
        /\ Head(chan[c]) \in Msgs
    BY <1>4, TailRange DEF TakeDelivery, TypeOK
  <2>2. CASE UNCHANGED <<pc, cur>>
    BY <2>1, <2>2
  <2>3. CASE /\ can_deliver(Head(chan[c])) /\ Goto(c, "write")
             /\ cur' = [cur EXCEPT ![c] = Head(chan[c])]
    <3>1. message_status[Head(chan[c])] # Absent
      BY <2>3 DEF can_deliver, Absent
    <3>2. /\ pc'[c] = "write" /\ cur'[c] = Head(chan[c])
          /\ \A d \in Conns \ {c} : pc'[d] = pc[d] /\ cur'[d] = cur[d]
      BY LocalTypes, <2>3
    <3> QED BY <2>1, <2>3, <3>1, <3>2
  <2> QED BY <1>4, <2>2, <2>3 DEF TakeDelivery
<1>5. CASE WriteSucceeds(c)
  BY LocalTypes, <1>5 DEF WriteSucceeds, TypeOK
<1>6. CASE WriteFails(c)
  BY LocalTypes, <1>6 DEF WriteFails
<1>7. CASE FlushFails(c)
  <2>1. /\ UNCHANGED <<attempts, acked, message_status, cur>> /\ pc[c] = "write"
        /\ pc'[c] \in {"write", "mark_again"}
        /\ \A d \in Conns \ {c} : pc'[d] = pc[d]
    BY LocalTypes, <1>7 DEF FlushFails
  <2>2. \A d \in Conns : offered'[d] \subseteq offered[d] \cup {cur[c]}
    <3>1. offered \in [Conns -> SUBSET Msgs]
      BY DEF TypeOK
    <3>2. \/ UNCHANGED offered
          \/ offered' = [offered EXCEPT ![c] = @ \cup {cur[c]}]
      BY <1>7 DEF FlushFails
    <3> QED BY <3>1, <3>2
  <2> QED BY <2>1, <2>2
<1>8. CASE MarkDelivered(c)
  BY LocalTypes, <1>8 DEF MarkDelivered, SetDelivered
<1>9. CASE MarkDeliveredAgain(c)
  BY LocalTypes, <1>9 DEF MarkDeliveredAgain, SetDelivered
<1> QED BY <1>1, <1>2, <1>3, <1>4, <1>5, <1>6, <1>7, <1>8, <1>9

(* What the other commands and the steps of acknowledge do.                *)
LEMMA AckMoves ==
  ASSUME TypeOK, NEW c \in Conns,
         \/ \E q \in Queues : DeclareQueue(c, q)
         \/ \E x \in Exchanges : DeclareExchange(c, x)
         \/ \E q \in Queues, x \in Exchanges, k \in Keys : BindQueue(c, q, x, k)
         \/ Disconnect(c)
         \/ \E m \in Msgs : AckCheck(c, m)
         \/ AckMark(c)
         \/ AckScan(c)
         \/ \E q \in Queues : AckVisit(c, q)
         \/ AckClean(c)
         \/ AckEnd(c)
         \/ AckDropQueues(c)
         \/ AckDropStatus(c)
         \/ AckReply(c)
  PROVE  Moves(c)
<1> USE BrokerConstants DEF Moves, PrePcs, Goto, Leave, Return, Close, history, locals
<1>1. CASE \E q \in Queues : DeclareQueue(c, q)
  BY <1>1 DEF DeclareQueue
<1>2. CASE \E x \in Exchanges : DeclareExchange(c, x)
  BY <1>2 DEF DeclareExchange
<1>3. CASE \E q \in Queues, x \in Exchanges, k \in Keys : BindQueue(c, q, x, k)
  BY <1>3 DEF BindQueue
<1>4. CASE Disconnect(c)
  BY LocalTypes, <1>4 DEF Disconnect
<1>5. ASSUME NEW m \in Msgs, AckCheck(c, m) PROVE Moves(c)
  BY LocalTypes, <1>5 DEF AckCheck
<1>6. CASE AckMark(c)
  <2>1. /\ pc[c] = "ack_mark" /\ pc'[c] = "ack_scan" /\ cur[c] \in Msgs
        /\ \A d \in Conns \ {c} : pc'[d] = pc[d]
        /\ UNCHANGED <<cur, attempts, offered>>
        /\ acked' = acked \cup {cur[c]}
    BY LocalTypes, <1>6 DEF AckMark, TypeOK, AckPcs
  <2>2. /\ message_status'[cur[c]] = IF message_status[cur[c]] = Absent THEN Absent
                                                                   ELSE "acknowledged"
        /\ \A m \in Msgs \ {cur[c]} : message_status'[m] = message_status[m]
    BY LocalTypes, <1>6, <2>1 DEF AckMark
  <2> QED BY <2>1, <2>2
<1>7. CASE AckScan(c)
  BY LocalTypes, <1>7 DEF AckScan
<1>8. CASE \E q \in Queues : AckVisit(c, q)
  BY LocalTypes, <1>8 DEF AckVisit
<1>9. CASE AckClean(c)
  BY LocalTypes, <1>9 DEF AckClean
<1>10. CASE AckEnd(c)
  BY LocalTypes, <1>10 DEF AckEnd
<1>11. CASE AckDropQueues(c)
  BY LocalTypes, <1>11 DEF AckDropQueues
<1>12. CASE AckDropStatus(c)
  BY LocalTypes, <1>12 DEF AckDropStatus
<1>13. CASE AckReply(c)
  BY LocalTypes, <1>13 DEF AckReply
<1> QED BY <1>1, <1>2, <1>3, <1>4, <1>5, <1>6, <1>7, <1>8, <1>9, <1>10, <1>11,
      <1>12, <1>13

(* Every step is of that kind, but the check and the step that makes the   *)
(* message known.                                                          *)
LEMMA EveryMove ==
  ASSUME TypeOK, [Next]_vars
  PROVE  \/ UNCHANGED vars
         \/ \E c \in Conns : \/ Moves(c)
                             \/ \E m \in Msgs : PublishCheck(c, m)
                             \/ PublishTrackStatus(c)
<1> SUFFICES ASSUME NEW c \in Conns, Command(c) \/ Step(c) \/ TakeDelivery(c) \/ Spawned(c)
             PROVE  \/ Moves(c)
                    \/ \E m \in Msgs : PublishCheck(c, m)
                    \/ PublishTrackStatus(c)
  BY DEF Next
<1>1. CASE Command(c)
  BY <1>1, DeliverMoves, AckMoves DEF Command
<1>2. CASE Step(c)
  BY <1>2, PublishMoves, DeliverMoves, AckMoves DEF Step
<1> QED BY <1>1, <1>2, DeliverMoves

(* It holds in every state of every behaviour.                             *)
LEMMA PublishedOnceAlways == Spec => []PublishedOnce
<1>1. Init => PublishedOnce
  <2> SUFFICES ASSUME Init PROVE PublishedOnce
    OBVIOUS
  <2>1. /\ \A m \in Msgs : attempts[m] = 0 /\ message_status[m] = Absent
        /\ acked = {}
        /\ \A c \in Conns : offered[c] = {} /\ cur[c] \notin Msgs
    BY BrokerConstants DEF Init
  <2>2. \A m \in Msgs : attempts[m] # 1
    BY <2>1, SMTT(30)
  <2>3. Unpublished
    BY <2>1 DEF Unpublished, Fresh
  <2> QED BY <2>2, <2>3 DEF PublishedOnce, OnePublish, Hidden, AckFinal
<1>2. TypeOK /\ PublishedOnce /\ [Next]_vars => PublishedOnce'
  <2> SUFFICES ASSUME TypeOK, PublishedOnce, [Next]_vars PROVE PublishedOnce'
    OBVIOUS
  <2>1. CASE UNCHANGED vars
    BY <2>1 DEF vars, locals, history, PublishedOnce, Unpublished, OnePublish, Hidden,
      AckFinal, Fresh
  <2> QED BY <2>1, EveryMove, MoveStep, CheckStep, KnownStep
<1> QED BY <1>1, <1>2, TypeCorrect, PTL DEF Spec

(* An acknowledged message, published once, is not written to a client     *)
(* again: TakeDelivery looks at its status, which does not come back.      *)
THEOREM AckedStaysAcked == Spec => AckedNotRedelivered
<1>1. TypeOK /\ PublishedOnce /\ [Next]_vars =>
        [\A c \in Conns : pc[c] = "select" /\ pc'[c] = "write" =>
           cur'[c] \notin acked \/ attempts[cur'[c]] > 1]_vars
  <2> SUFFICES ASSUME TypeOK, PublishedOnce, [Next]_vars, ~ UNCHANGED vars,
                      NEW d \in Conns, pc[d] = "select", pc'[d] = "write"
               PROVE  cur'[d] \notin acked \/ attempts[cur'[d]] > 1
    OBVIOUS
  <2>1. PICK c \in Conns : \/ Moves(c)
                           \/ \E m \in Msgs : PublishCheck(c, m)
                           \/ PublishTrackStatus(c)
    BY EveryMove
  <2>2. Moves(c) /\ c = d
    <3>1. CASE Moves(c)
      BY <3>1 DEF Moves
    <3>2. CASE \E m \in Msgs : PublishCheck(c, m)
      BY LocalTypes, <3>2 DEF PublishCheck, Goto
    <3>3. CASE PublishTrackStatus(c)
      BY LocalTypes, <3>3 DEF PublishTrackStatus, Goto
    <3> QED BY <2>1, <3>1, <3>2, <3>3
  <2>3. can_deliver(cur'[d]) /\ cur'[d] \in Msgs
    BY <2>2 DEF Moves
  <2>4. attempts[cur'[d]] \in Nat
    BY <2>3 DEF TypeOK
  <2>5. attempts[cur'[d]] \in {0, 1} => cur'[d] \notin acked
    BY <2>3 DEF PublishedOnce, Unpublished, AckFinal, Fresh, can_deliver, Absent
  <2>6. attempts[cur'[d]] \in {0, 1} \/ attempts[cur'[d]] > 1
    BY <2>4, SMTT(30)
  <2> QED BY <2>5, <2>6
<1> QED BY <1>1, PublishedOnceAlways, TypeCorrect, PTL DEF Spec, AckedNotRedelivered

=============================================================================
