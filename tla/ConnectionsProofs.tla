------------------------- MODULE ConnectionsProofs --------------------------
(***************************************************************************)
(* What holds of the server's connections for any number of them: the      *)
(* heartbeat monitor forgets clients that are gone, the connection limits  *)
(* are kept, and what the count of clients is, also when it wraps.         *)
(***************************************************************************)
EXTENDS Connections, FiniteSetTheorems, TLAPS

(* Zenon proves what follows, unless a leaf asks for another prover.       *)
USE ZenonT(30)

PCs == {"none", "tls", "entry", "serving", "returned", "closed"}

(* A connection has a CN from its handshake on.                            *)
Identified ==
  /\ cpc \in [Conns -> PCs]
  /\ \A c \in Conns : cpc[c] \in {"entry", "serving", "returned"} => CnOf[c] \in CNs

(* Every entry of the monitor has a connection that will still remove it:  *)
(* one that is served, or whose handler has returned.                      *)
Tracked ==
  /\ heartbeats \in [CNs -> {"none", "fresh", "stale"}]
  /\ \A n \in CNs : heartbeats[n] # "none" =>
       \E c \in Conns : CnOf[c] = n /\ cpc[c] \in {"serving", "returned"}

(* The limiter has counted every connection that is served, and has not    *)
(* counted past a limit.                                                   *)
Counted ==
  /\ by_cn \in [CNs -> Nat] /\ by_ip \in [IPs -> Nat]
  /\ \A n \in CNs : /\ Cardinality(ServingCn(n)) <= by_cn[n]
                    /\ max_connections_per_cn > 0 => by_cn[n] <= max_connections_per_cn
  /\ \A a \in IPs : /\ Cardinality(ServingIp(a)) <= by_ip[a]
                    /\ max_connections_per_ip > 0 => by_ip[a] <= max_connections_per_ip

(* The steps of a connection's task and of its client that do not enter it.*)
Other(c) ==
  \/ Accept(c) \/ HandshakeFails(c) \/ Handshake(c) \/ Reject(c) \/ Close(c)
  \/ Command(c) \/ Disconnect(c) \/ DeliveryFails(c)

(* Steps of the main loop and the monitor leave the connections alone.     *)
Outside ==
  \/ Select \/ Signal \/ Shutdown \/ CollectTimedOut
  \/ \E n \in CNs : RemoveTimedOut(n) \/ Age(n)

(* Next, split into the steps the proofs treat alike.                      *)
LEMMA NextCases ==
  ASSUME [Next]_vars
  PROVE  \/ Outside
         \/ \E c \in Conns : Other(c) \/ Enter(c)
         \/ UNCHANGED vars
BY DEF Next, Outside, Other, Task, Leave, Monitor

(* No step gives a connection without a CN to a handler: MTlsAuth.         *)
LEMMA IdentifiedStep == Identified /\ [Next]_vars => Identified'
<1> SUFFICES ASSUME Identified, [Next]_vars
             PROVE  Identified'
  OBVIOUS
<1>1. CASE Outside
  BY <1>1 DEF Outside, Select, Signal, Shutdown, CollectTimedOut, RemoveTimedOut, Age, Identified
<1>2. ASSUME NEW c \in Conns, Other(c) \/ Enter(c)
      PROVE  Identified'
  <2>1. CASE Handshake(c)
    BY <2>1, ConnectionsAssumption DEF Handshake, Identified, PCs
  <2>2. CASE Command(c)
    BY <2>2 DEF Command, Identified
  <2>3. CASE Accept(c) \/ HandshakeFails(c) \/ Reject(c) \/ Close(c) \/ Disconnect(c)
             \/ DeliveryFails(c) \/ Enter(c)
    BY <2>3 DEF Accept, HandshakeFails, Reject, Close, Disconnect, DeliveryFails, Enter,
                Identified, PCs
  <2> QED
    BY <1>2, <2>1, <2>2, <2>3 DEF Other
<1>3. CASE UNCHANGED vars
  BY <1>3 DEF vars, Identified
<1> QED
  BY <1>1, <1>2, <1>3, NextCases

(* An entry appears only with a served connection, and the last connection *)
(* of a CN to close takes it away: record_heartbeat, remove_client.        *)
LEMMA TrackedStep == Identified /\ Tracked /\ [Next]_vars => Tracked'
<1> SUFFICES ASSUME Identified, Tracked, [Next]_vars
             PROVE  Tracked'
  OBVIOUS
<1>1. CASE Outside
  <2>1. CASE Select \/ Signal \/ Shutdown \/ CollectTimedOut
    BY <2>1, SMTT(30) DEF Select, Signal, Shutdown, CollectTimedOut, monitor, Tracked
  <2>2. ASSUME NEW n \in CNs, RemoveTimedOut(n) \/ Age(n)
        PROVE  Tracked'
    <3>1. cpc' = cpc
      BY <2>2 DEF RemoveTimedOut, Age
    <3>2. heartbeats' \in [CNs -> {"none", "fresh", "stale"}]
      BY <2>2 DEF RemoveTimedOut, Age, Tracked
    <3>3. \A m \in CNs : heartbeats'[m] # "none" => heartbeats[m] # "none"
      BY <2>2, SMTT(30) DEF RemoveTimedOut, Age, Tracked
    <3> QED
      BY <3>1, <3>2, <3>3 DEF Tracked
  <2> QED
    BY <1>1, <2>1, <2>2 DEF Outside
<1>2. ASSUME NEW c \in Conns, Other(c) \/ Enter(c)
      PROVE  Tracked'
  <2>1. CASE Enter(c) \/ Command(c)
    <3>1. /\ heartbeats' = [heartbeats EXCEPT ![CnOf[c]] = "fresh"]
          /\ cpc'[c] = "serving"
          /\ \A d \in Conns : d # c => cpc'[d] = cpc[d]
      BY <2>1 DEF Enter, Command, record_heartbeat, Identified
    <3>2. cpc[c] \in {"entry", "serving"} /\ CnOf[c] \in CNs
      BY <2>1 DEF Enter, Command, Identified
    <3>3. ASSUME NEW n \in CNs, heartbeats'[n] # "none"
          PROVE  \E d \in Conns : CnOf[d] = n /\ cpc'[d] \in {"serving", "returned"}
      <4>1. CASE n = CnOf[c]
        BY <3>1, <4>1
      <4>2. CASE n # CnOf[c]
        BY <3>1, <3>3, <4>2, SMTT(30) DEF Tracked
      <4> QED
        BY <4>1, <4>2
    <3> QED
      BY <3>1, <3>3 DEF Tracked
  <2>2. CASE Disconnect(c) \/ Close(c)
    <3>1. /\ heartbeats' = [heartbeats EXCEPT ![CnOf[c]] = "none"]
          /\ \A d \in Conns : d # c => cpc'[d] = cpc[d]
      BY <2>2 DEF Disconnect, Close, remove_client, Identified
    <3>2. CnOf[c] \in CNs
      BY <2>2 DEF Disconnect, Close, Identified
    <3> QED
      BY <3>1, <3>2 DEF Tracked
  <2>3. CASE DeliveryFails(c)
    BY <2>3, SMTT(30) DEF DeliveryFails, monitor, Tracked, Identified
  <2>4. CASE Accept(c) \/ HandshakeFails(c) \/ Handshake(c) \/ Reject(c)
    <3>1. heartbeats' = heartbeats
      BY <2>4 DEF Accept, HandshakeFails, Handshake, Reject, monitor
    <3>2. /\ cpc[c] \in {"none", "tls", "entry"}
          /\ \A d \in Conns : d # c => cpc'[d] = cpc[d]
      BY <2>4 DEF Accept, HandshakeFails, Handshake, Reject, Identified
    <3>3. \A d \in Conns : cpc[d] \in {"serving", "returned"} => cpc'[d] = cpc[d]
      BY <3>2
    <3> QED
      BY <3>1, <3>3, SMTT(30) DEF Tracked
  <2> QED
    BY <1>2, <2>1, <2>2, <2>3, <2>4 DEF Other
<1>3. CASE UNCHANGED vars
  BY <1>3 DEF vars, monitor, Tracked
<1> QED
  BY <1>1, <1>2, <1>3, NextCases

(* For any connections, clients and order of their ends: when all          *)
(* connections of a client are closed the HeartbeatMonitor has no entry of *)
(* it, whether the handler, main or the monitor's task removed it.         *)
THEOREM MonitorForgets == Spec => []GoneIsForgotten
<1>1. Init => Identified /\ Tracked
  BY ConnectionsAssumption DEF Init, Identified, PCs, Tracked
<1>2. Identified /\ Tracked /\ [Next]_vars => Identified' /\ Tracked'
  BY IdentifiedStep, TrackedStep
<1>3. Identified /\ Tracked => GoneIsForgotten
  BY DEF Identified, Tracked, GoneIsForgotten
<1> QED
  BY <1>1, <1>2, <1>3, PTL DEF Spec

-----------------------------------------------------------------------------
(* Connections served are finite sets; fewer of them count for less.       *)
LEMMA ServingFinite ==
  ASSUME NEW S \in SUBSET Conns, NEW T \in SUBSET S
  PROVE  /\ IsFiniteSet(S) /\ IsFiniteSet(T)
         /\ Cardinality(S) \in Nat /\ Cardinality(T) \in Nat
         /\ Cardinality(T) <= Cardinality(S)
BY FS_Subset, FS_CardinalityType, ConnectionsAssumption

(* A step that serves no new connection keeps the counts above the served. *)
LEMMA CountedFrame ==
  ASSUME Counted, UNCHANGED limits, \A c \in Conns : cpc'[c] = "serving" => cpc[c] = "serving"
  PROVE  Counted'
<1>1. \A n \in CNs : /\ ServingCn(n)' \in SUBSET ServingCn(n) /\ ServingCn(n) \in SUBSET Conns
                     /\ Cardinality(ServingCn(n)') \in Nat
                     /\ Cardinality(ServingCn(n)) \in Nat
                     /\ Cardinality(ServingCn(n)') <= Cardinality(ServingCn(n))
  <2>1. \A n \in CNs : ServingCn(n)' \in SUBSET ServingCn(n) /\ ServingCn(n) \in SUBSET Conns
    BY DEF ServingCn, Serving
  <2> QED
    BY <2>1, ServingFinite
<1>2. \A a \in IPs : /\ ServingIp(a)' \in SUBSET ServingIp(a) /\ ServingIp(a) \in SUBSET Conns
                     /\ Cardinality(ServingIp(a)') \in Nat
                     /\ Cardinality(ServingIp(a)) \in Nat
                     /\ Cardinality(ServingIp(a)') <= Cardinality(ServingIp(a))
  <2>1. \A a \in IPs : ServingIp(a)' \in SUBSET ServingIp(a) /\ ServingIp(a) \in SUBSET Conns
    BY DEF ServingIp, Serving
  <2> QED
    BY <2>1, ServingFinite
<1>3. by_cn' = by_cn /\ by_ip' = by_ip
  BY DEF limits
<1> QED
  BY <1>1, <1>2, <1>3, SMTT(30) DEF Counted

(* check_connection and its two increments are one step under the lock.    *)
LEMMA CountedEnter ==
  ASSUME Identified, Counted, NEW c \in Conns, Enter(c)
  PROVE  Counted'
<1> DEFINE m == CnOf[c]
           i == IpOf[c]
<1>1. m \in CNs /\ i \in IPs /\ cpc[c] = "entry"
  BY ConnectionsAssumption DEF Enter, Identified
<1>2. \A n \in CNs : ServingCn(n)' = IF n = m THEN ServingCn(n) \cup {c} ELSE ServingCn(n)
  BY <1>1 DEF Enter, Identified, ServingCn, Serving
<1>3. \A a \in IPs : ServingIp(a)' = IF a = i THEN ServingIp(a) \cup {c} ELSE ServingIp(a)
  BY <1>1 DEF Enter, Identified, ServingIp, Serving
<1>4. /\ by_cn' = [by_cn EXCEPT ![m] = @ + 1] /\ by_ip' = [by_ip EXCEPT ![i] = @ + 1]
      /\ max_connections_per_ip > 0 => by_ip[i] < max_connections_per_ip
      /\ max_connections_per_cn > 0 => by_cn[m] < max_connections_per_cn
  BY DEF Enter, check_connection
<1>5. c \notin ServingCn(m) /\ c \notin ServingIp(i)
  BY <1>1 DEF ServingCn, ServingIp, Serving
<1>6. /\ \A n \in CNs : IsFiniteSet(ServingCn(n)) /\ Cardinality(ServingCn(n)) \in Nat
      /\ \A a \in IPs : IsFiniteSet(ServingIp(a)) /\ Cardinality(ServingIp(a)) \in Nat
  BY ServingFinite DEF ServingCn, ServingIp, Serving
<1>7. /\ Cardinality(ServingCn(m) \cup {c}) = Cardinality(ServingCn(m)) + 1
      /\ Cardinality(ServingIp(i) \cup {c}) = Cardinality(ServingIp(i)) + 1
  BY <1>1, <1>5, <1>6, FS_AddElement
<1> HIDE DEF m, i
<1>8. ASSUME NEW n \in CNs
      PROVE  /\ Cardinality(ServingCn(n)') <= by_cn'[n]
             /\ max_connections_per_cn > 0 => by_cn'[n] <= max_connections_per_cn
  <2>1. CASE n = m
    <3>1. Cardinality(ServingCn(n)') = Cardinality(ServingCn(m)) + 1 /\ by_cn'[n] = by_cn[m] + 1
      BY <1>1, <1>2, <1>4, <1>7, <2>1 DEF Counted
    <3> QED
      BY <1>1, <1>4, <1>6, <3>1, ConnectionsAssumption, SMTT(30) DEF Counted
  <2>2. CASE n # m
    BY <1>1, <1>2, <1>4, <2>2 DEF Counted
  <2> QED
    BY <2>1, <2>2
<1>9. ASSUME NEW a \in IPs
      PROVE  /\ Cardinality(ServingIp(a)') <= by_ip'[a]
             /\ max_connections_per_ip > 0 => by_ip'[a] <= max_connections_per_ip
  <2>1. CASE a = i
    <3>1. Cardinality(ServingIp(a)') = Cardinality(ServingIp(i)) + 1 /\ by_ip'[a] = by_ip[i] + 1
      BY <1>1, <1>3, <1>4, <1>7, <2>1 DEF Counted
    <3> QED
      BY <1>1, <1>4, <1>6, <3>1, ConnectionsAssumption, SMTT(30) DEF Counted
  <2>2. CASE a # i
    BY <1>1, <1>3, <1>4, <2>2 DEF Counted
  <2> QED
    BY <2>1, <2>2
<1>10. by_cn' \in [CNs -> Nat] /\ by_ip' \in [IPs -> Nat]
  BY <1>1, <1>4, SMTT(30) DEF Counted
<1> QED
  BY <1>8, <1>9, <1>10 DEF Counted

(* For any connections and limits: no more of a CN or an IP are served at  *)
(* once than allowed, in every order of accepts, handshakes and ends.      *)
THEOREM LimitsAreKept == Spec => []LimitsHold
<1>1. Init => Identified /\ Counted
  <2> SUFFICES ASSUME Init
               PROVE  Identified /\ Counted
    OBVIOUS
  <2>1. Serving = {}
    BY DEF Init, Serving
  <2>2. /\ \A n \in CNs : Cardinality(ServingCn(n)) = 0
        /\ \A a \in IPs : Cardinality(ServingIp(a)) = 0
    <3>1. /\ \A n \in CNs : ServingCn(n) = {}
          /\ \A a \in IPs : ServingIp(a) = {}
      BY <2>1 DEF ServingCn, ServingIp
    <3> QED
      BY <3>1, FS_EmptySet
  <2>3. Identified
    BY ConnectionsAssumption DEF Init, Identified, PCs
  <2>4. Counted
    BY <2>2, ConnectionsAssumption, SMTT(30) DEF Init, Counted
  <2> QED
    BY <2>3, <2>4
<1>2. Identified /\ Counted /\ [Next]_vars => Counted'
  <2> SUFFICES ASSUME Identified, Counted, [Next]_vars
               PROVE  Counted'
    OBVIOUS
  <2>1. CASE Outside
    <3>1. UNCHANGED <<limits, cpc>>
      BY <2>1 DEF Outside, Select, Signal, Shutdown, CollectTimedOut, RemoveTimedOut, Age
    <3> QED
      BY <3>1, CountedFrame
  <2>2. ASSUME NEW c \in Conns, Other(c)
        PROVE  Counted'
    <3>1. UNCHANGED limits
      BY <2>2 DEF Other, Accept, HandshakeFails, Handshake, Reject, Close, Command, Disconnect,
                  DeliveryFails
    <3>2. \A d \in Conns : cpc'[d] = "serving" => cpc[d] = "serving"
      BY <2>2 DEF Other, Accept, HandshakeFails, Handshake, Reject, Close, Command, Disconnect,
                  DeliveryFails, Identified
    <3> QED
      BY <3>1, <3>2, CountedFrame
  <2>3. ASSUME NEW c \in Conns, Enter(c)
        PROVE  Counted'
    BY <2>3, CountedEnter
  <2>4. CASE UNCHANGED vars
    BY <2>4, CountedFrame DEF vars
  <2> QED
    BY <2>1, <2>2, <2>3, <2>4, NextCases
<1>3. Counted => LimitsHold
  <2> SUFFICES ASSUME Counted
               PROVE  LimitsHold
    OBVIOUS
  <2>1. /\ \A n \in CNs : Cardinality(ServingCn(n)) \in Nat
        /\ \A a \in IPs : Cardinality(ServingIp(a)) \in Nat
    BY ServingFinite DEF ServingCn, ServingIp, Serving
  <2> QED
    BY <2>1, ConnectionsAssumption, SMTT(30) DEF Counted, LimitsHold
<1> QED
  BY <1>1, <1>2, <1>3, IdentifiedStep, PTL DEF Spec

-----------------------------------------------------------------------------
(* The count of clients is a machine word, and wraps.                      *)

(* A positive multiple is no smaller.                                      *)
LEMMA Multiple ==
  ASSUME NEW M \in Nat \ {0}, NEW k \in Int, k >= 1
  PROVE  M * k >= M
BY SMTT(30)

(* Division by a positive number.                                          *)
LEMMA DivMod ==
  ASSUME NEW M \in Nat \ {0}, NEW a \in Int
  PROVE  a \div M \in Int /\ a % M \in 0 .. M - 1 /\ a = M * (a \div M) + (a % M)
BY SMTT(30)

(* The rest is unique.                                                     *)
LEMMA Rest ==
  ASSUME NEW M \in Nat \ {0}, NEW q \in Int, NEW r \in 0 .. M - 1
  PROVE  (M * q + r) % M = r
<1> DEFINE a == M * q + r
           p == a \div M
           s == a % M
<1>1. a \in Int /\ p \in Int /\ s \in 0 .. M - 1 /\ a = M * p + s
  BY DivMod, SMTT(30)
<1>2. M * (q - p) = s - r
  BY <1>1, SMTT(30)
<1>3. M * (p - q) = r - s
  BY <1>1, SMTT(30)
<1> HIDE DEF p, s
<1>4. q - p >= 1 => s - r >= M
  BY <1>1, <1>2, Multiple, SMTT(30)
<1>5. p - q >= 1 => r - s >= M
  BY <1>1, <1>3, Multiple, SMTT(30)
<1>6. q = p
  BY <1>1, <1>4, <1>5, SMTT(30)
<1> QED BY <1>1, <1>6, <1>2, SMTT(30) DEF s

(* Counting one up or down in a word is counting, then wrapping.           *)
LEMMA Wrapping ==
  ASSUME NEW M \in Nat \ {0}, NEW a \in Int, NEW d \in {-1, 1}
  PROVE  ((a % M) + d) % M = (a + d) % M
<1> DEFINE q == a \div M
           r == a % M
<1>1. q \in Int /\ r \in 0 .. M - 1 /\ a = M * q + r
  BY DivMod, SMTT(30)
<1> HIDE DEF q, r
<1>2. CASE r + d \in 0 .. M - 1
  <2>1. (M * q + (r + d)) % M = r + d
    BY <1>1, <1>2, Rest, SMTT(30)
  <2>2. (M * 0 + (r + d)) % M = r + d
    BY <1>1, <1>2, Rest, SMTT(30)
  <2> QED BY <1>1, <1>2, <2>1, <2>2, SMTT(30) DEF r
<1>3. CASE r + d = M
  <2>1. (M * (q + 1) + 0) % M = 0 /\ (M * 1 + 0) % M = 0
    BY <1>1, Rest, SMTT(30)
  <2>2. a + d = M * (q + 1) + 0 /\ r + d = M * 1 + 0
    BY <1>1, <1>3, SMTT(30)
  <2> QED BY <2>1, <2>2, SMTT(30) DEF r
<1>4. CASE r + d = -1
  <2>1. (M * (q - 1) + (M - 1)) % M = M - 1 /\ (M * (-1) + (M - 1)) % M = M - 1
    BY <1>1, Rest, SMTT(30)
  <2>2. a + d = M * (q - 1) + (M - 1) /\ r + d = M * (-1) + (M - 1)
    BY <1>1, <1>4, SMTT(30)
  <2> QED BY <2>1, <2>2, SMTT(30) DEF r
<1>5. r + d \in 0 .. M - 1 \/ r + d = M \/ r + d = -1
  BY <1>1, SMTT(30)
<1> QED BY <1>2, <1>3, <1>4, <1>5

(* A word of Width bits has 2^Width values, one for each set of bits.      *)
LEMMA WordSize == 2^Width \in Nat \ {0}
<1>1. Width \in Nat /\ IsFiniteSet(1 .. Width) /\ Cardinality(1 .. Width) = Width
  BY ConnectionsAssumption, FS_Interval, SMTT(30)
<1>2. IsFiniteSet(SUBSET (1 .. Width)) /\ Cardinality(SUBSET (1 .. Width)) = 2^Width
  BY <1>1, FS_SUBSET
<1>3. SUBSET (1 .. Width) # {}
  BY {} \in SUBSET (1 .. Width)
<1> QED BY <1>2, <1>3, FS_CardinalityType, FS_EmptySet

(* A handshake that failed was that of a connection that is closed.        *)
Closed == failed \subseteq {c \in Conns : cpc[c] = "closed"}

Exited == IF mpc = "exited" THEN 1 ELSE 0

(* What connected_clients would be in an unbounded word.                   *)
Balance == Cardinality(Serving) - Cardinality(failed) - Exited

(* What the increments and decrements make of connected_clients: each      *)
(* failed handshake and the shutdown take one off that was never counted.  *)
CountAccounted ==
  connected_clients = (Cardinality(Serving) - Cardinality(failed) - Exited) % 2^Width

(* One step up or down of the balance and of the word.                     *)
LEMMA CountStep ==
  ASSUME CountAccounted, NEW d \in {-1, 1}, Balance \in Int, Balance' = Balance + d,
         connected_clients' = (connected_clients + d) % 2^Width
  PROVE  CountAccounted'
<1>1. connected_clients = Balance % 2^Width
  BY DEF CountAccounted, Balance
<1>2. connected_clients' = (Balance + d) % 2^Width
  BY <1>1, Wrapping, WordSize
<1> QED BY <1>2 DEF CountAccounted, Balance

(* A step that counts nothing.                                             *)
LEMMA CountFrame ==
  ASSUME Closed, CountAccounted, UNCHANGED <<connected_clients, failed>>, Exited' = Exited,
         \A c \in Conns : /\ cpc'[c] = "serving" <=> cpc[c] = "serving"
                          /\ cpc[c] = "closed" => cpc'[c] = "closed"
  PROVE  Closed' /\ CountAccounted'
<1>1. Serving' = Serving
  BY DEF Serving
<1> QED BY <1>1 DEF Closed, CountAccounted

(* The steps that count: each moves the balance by one.                    *)
LEMMA CountSteps ==
  ASSUME Identified, Closed, CountAccounted,
         \/ Shutdown
         \/ \E c \in Conns : \/ HandshakeFails(c) \/ Enter(c) \/ Disconnect(c)
                             \/ DeliveryFails(c)
  PROVE  Closed' /\ CountAccounted'
<1>1. /\ IsFiniteSet(Serving) /\ IsFiniteSet(failed)
      /\ Cardinality(Serving) \in Nat /\ Cardinality(failed) \in Nat
  BY ServingFinite DEF Serving, Closed
<1>2. Exited \in Int /\ Balance \in Int
  BY <1>1, SMTT(30) DEF Exited, Balance
<1>3. connected_clients \in Int
  <2>1. connected_clients = Balance % 2^Width
    BY DEF CountAccounted, Balance
  <2> QED BY <1>2, <2>1, WordSize, DivMod, SMTT(30)
<1>4. CASE Shutdown
  <2>1. /\ Serving' = Serving /\ failed' = failed /\ Exited = 0 /\ Exited' = 1
        /\ connected_clients' = (connected_clients - 1) % 2^Width
    BY <1>4 DEF Shutdown, Serving, Exited
  <2>2. Balance' = Balance + (-1)
    BY <1>1, <2>1, SMTT(30) DEF Balance
  <2>3. connected_clients' = (connected_clients + (-1)) % 2^Width
    BY <1>3, <2>1, SMTT(30)
  <2>4. CountAccounted'
    BY <1>2, <2>2, <2>3, CountStep
  <2>5. Closed'
    BY <1>4 DEF Shutdown, Closed
  <2> QED BY <2>4, <2>5
<1>5. ASSUME NEW c \in Conns, HandshakeFails(c) PROVE Closed' /\ CountAccounted'
  <2>1. /\ Serving' = Serving /\ failed' = failed \cup {c} /\ c \notin failed
        /\ Exited' = Exited /\ connected_clients' = (connected_clients - 1) % 2^Width
    BY <1>5 DEF HandshakeFails, Serving, Exited, Closed, Identified, mainVars
  <2>2. Cardinality(failed') = Cardinality(failed) + 1
    BY <1>1, <2>1, FS_AddElement
  <2>3. Balance' = Balance + (-1)
    BY <1>1, <1>2, <2>1, <2>2, SMTT(30) DEF Balance
  <2>4. connected_clients' = (connected_clients + (-1)) % 2^Width
    BY <1>3, <2>1, SMTT(30)
  <2>5. CountAccounted'
    BY <1>2, <2>3, <2>4, CountStep
  <2>6. Closed'
    BY <1>5 DEF HandshakeFails, Closed, Identified
  <2> QED BY <2>5, <2>6
<1>6. ASSUME NEW c \in Conns, Enter(c) PROVE Closed' /\ CountAccounted'
  <2>1. /\ Serving' = Serving \cup {c} /\ c \notin Serving /\ failed' = failed
        /\ Exited' = Exited /\ connected_clients' = (connected_clients + 1) % 2^Width
    BY <1>6 DEF Enter, Serving, Exited, Identified, mainVars
  <2>2. Cardinality(Serving') = Cardinality(Serving) + 1
    BY <1>1, <2>1, FS_AddElement
  <2>3. Balance' = Balance + 1
    BY <1>1, <1>2, <2>1, <2>2, SMTT(30) DEF Balance
  <2>4. CountAccounted'
    BY <1>2, <2>1, <2>3, CountStep
  <2>5. Closed'
    BY <1>6 DEF Enter, Closed, Identified
  <2> QED BY <2>4, <2>5
<1>7. ASSUME NEW c \in Conns, Disconnect(c) \/ DeliveryFails(c)
      PROVE  Closed' /\ CountAccounted'
  <2>1. /\ Serving' = Serving \ {c} /\ c \in Serving /\ failed' = failed
        /\ Exited' = Exited /\ connected_clients' = (connected_clients - 1) % 2^Width
    BY <1>7 DEF Disconnect, DeliveryFails, Serving, Exited, Identified, mainVars
  <2>2. Cardinality(Serving') = Cardinality(Serving) - 1
    BY <1>1, <2>1, FS_RemoveElement
  <2>3. Balance' = Balance + (-1)
    BY <1>1, <1>2, <2>1, <2>2, SMTT(30) DEF Balance
  <2>4. connected_clients' = (connected_clients + (-1)) % 2^Width
    BY <1>3, <2>1, SMTT(30)
  <2>5. CountAccounted'
    BY <1>2, <2>3, <2>4, CountStep
  <2>6. Closed'
    BY <1>7 DEF Disconnect, DeliveryFails, Closed, Identified
  <2> QED BY <2>5, <2>6
<1> QED BY <1>4, <1>5, <1>6, <1>7

(* For any connections and any width of the word, the count of clients is  *)
(* what its increments and decrements make it, wrapped.                    *)
THEOREM CountIsAccounted == Spec => []CountAccounted
<1>1. Init => Identified /\ Closed /\ CountAccounted
  <2> SUFFICES ASSUME Init
               PROVE  Identified /\ Closed /\ CountAccounted
    OBVIOUS
  <2>1. Identified /\ Closed
    BY ConnectionsAssumption DEF Init, Identified, PCs, Closed
  <2>2. Serving = {} /\ failed = {} /\ Exited = 0 /\ connected_clients = 0
    BY DEF Init, Serving, Exited
  <2>3. Cardinality(Serving) = 0 /\ Cardinality(failed) = 0
    BY <2>2, FS_EmptySet
  <2>4. CountAccounted
    BY <2>2, <2>3, WordSize, SMTT(30) DEF CountAccounted
  <2> QED BY <2>1, <2>4
<1>2. Identified /\ Closed /\ CountAccounted /\ [Next]_vars => Closed' /\ CountAccounted'
  <2> SUFFICES ASSUME Identified, Closed, CountAccounted, [Next]_vars
               PROVE  Closed' /\ CountAccounted'
    OBVIOUS
  <2>1. CASE Select \/ Signal \/ CollectTimedOut \/ \E n \in CNs : RemoveTimedOut(n) \/ Age(n)
    <3>1. UNCHANGED <<cpc, failed, connected_clients>> /\ Exited' = Exited
      BY <2>1 DEF Select, Signal, CollectTimedOut, RemoveTimedOut, Age, Exited, mainVars
    <3> QED
      BY <3>1, CountFrame
  <2>2. ASSUME NEW c \in Conns,
               Accept(c) \/ Handshake(c) \/ Reject(c) \/ Close(c) \/ Command(c)
        PROVE  Closed' /\ CountAccounted'
    <3>1. UNCHANGED <<failed, connected_clients>> /\ Exited' = Exited
      BY <2>2 DEF Accept, Handshake, Reject, Close, Command, Exited, mainVars
    <3>2. \A d \in Conns : /\ cpc'[d] = "serving" <=> cpc[d] = "serving"
                           /\ cpc[d] = "closed" => cpc'[d] = "closed"
      BY <2>2 DEF Accept, Handshake, Reject, Close, Command, Identified
    <3> QED
      BY <3>1, <3>2, CountFrame
  <2>3. CASE UNCHANGED vars
    BY <2>3, CountFrame DEF vars, mainVars, Exited
  <2> QED
    BY <2>1, <2>2, <2>3, CountSteps, NextCases DEF Outside, Other
<1> QED
  BY <1>1, <1>2, IdentifiedStep, PTL DEF Spec

-----------------------------------------------------------------------------
(* The count of clients is exact while no handshake has failed: all the    *)
(* ways out of handle_client decrement once, in any order of the tasks.    *)
THEOREM CountIsExact == Spec => []CountExact
<1>1. CountAccounted => CountExact
  <2> SUFFICES ASSUME CountAccounted, Up, failed = {}
               PROVE  connected_clients = Cardinality(Serving) % 2^Width
    BY DEF CountExact
  <2>1. Cardinality(failed) = 0 /\ Exited = 0
    BY FS_EmptySet DEF Up, Exited
  <2>2. Cardinality(Serving) \in Nat
    BY ServingFinite DEF Serving
  <2>3. Cardinality(Serving) - Cardinality(failed) - Exited = Cardinality(Serving)
    BY <2>1, <2>2, SMTT(30)
  <2> QED BY <2>3 DEF CountAccounted
<1> QED BY <1>1, CountIsAccounted, PTL

(* Counting up or down by one stays in the word.                           *)
LEMMA WordKept ==
  ASSUME connected_clients \in 0 .. 2^Width - 1
  PROVE  /\ 0 \in 0 .. 2^Width - 1
         /\ (connected_clients + 1) % 2^Width \in 0 .. 2^Width - 1
         /\ (connected_clients - 1) % 2^Width \in 0 .. 2^Width - 1
<1>1. \A M \in Nat \ {0} : \A k \in 0 .. M - 1 :
        0 \in 0 .. M - 1 /\ (k + 1) % M \in 0 .. M - 1 /\ (k - 1) % M \in 0 .. M - 1
  BY SMTT(30)
<1> QED BY <1>1, WordSize

(* The steps outside the connections keep the types.                       *)
LEMMA TypeOutside ==
  ASSUME TypeOK, Outside
  PROVE  TypeOK'
<1> USE DEF mainVars, limits, monitor
<1>1. CASE Select \/ Signal
  BY <1>1 DEF Select, Signal, TypeOK
<1>2. CASE Shutdown
  <2>1. connected_clients' \in 0 .. 2^Width - 1
    BY <1>2, WordKept DEF Shutdown, TypeOK
  <2> QED BY <1>2, <2>1 DEF Shutdown, TypeOK
<1>3. CASE CollectTimedOut
  BY <1>3 DEF CollectTimedOut, TypeOK
<1>4. ASSUME NEW n \in CNs, RemoveTimedOut(n) \/ Age(n) PROVE TypeOK'
  BY <1>4 DEF RemoveTimedOut, Age, TypeOK
<1> QED BY <1>1, <1>2, <1>3, <1>4 DEF Outside

(* So do those of a connection.                                            *)
LEMMA TypeConnection ==
  ASSUME Identified, TypeOK, NEW c \in Conns, Other(c) \/ Enter(c)
  PROVE  TypeOK'
<1> USE DEF mainVars, limits, monitor
<1>1. CASE Accept(c) \/ Handshake(c) \/ Reject(c)
  BY <1>1 DEF Accept, Handshake, Reject, TypeOK
<1>2. CASE HandshakeFails(c)
  <2>1. connected_clients' \in 0 .. 2^Width - 1
    BY <1>2, WordKept DEF HandshakeFails, TypeOK
  <2> QED BY <1>2, <2>1 DEF HandshakeFails, TypeOK
<1>3. CASE Close(c) \/ Command(c)
  <2>1. CnOf[c] \in CNs
    BY <1>3 DEF Close, Command, Identified
  <2> QED BY <1>3, <2>1 DEF Close, Command, remove_client, record_heartbeat, TypeOK
<1>4. CASE Disconnect(c) \/ DeliveryFails(c)
  <2>1. connected_clients' \in 0 .. 2^Width - 1
    BY <1>4, WordKept DEF Disconnect, DeliveryFails, TypeOK
  <2>2. CnOf[c] \in CNs
    BY <1>4 DEF Disconnect, DeliveryFails, Identified
  <2> QED BY <1>4, <2>1, <2>2 DEF Disconnect, DeliveryFails, remove_client, TypeOK
<1>5. CASE Enter(c)
  <2>1. connected_clients' \in 0 .. 2^Width - 1
    BY <1>5, WordKept DEF Enter, TypeOK
  <2>2. CnOf[c] \in CNs /\ IpOf[c] \in IPs
    BY <1>5, ConnectionsAssumption DEF Enter, Identified
  <2>3. by_cn' \in [CNs -> Nat] /\ by_ip' \in [IPs -> Nat]
    <3>1. /\ by_ip' = [by_ip EXCEPT ![IpOf[c]] = @ + 1]
          /\ by_cn' = [by_cn EXCEPT ![CnOf[c]] = @ + 1]
          /\ by_cn \in [CNs -> Nat] /\ by_ip \in [IPs -> Nat]
      BY <1>5 DEF Enter, TypeOK
    <3> QED BY <2>2, <3>1, SMTT(30)
  <2> QED BY <1>5, <2>1, <2>2, <2>3 DEF Enter, record_heartbeat, TypeOK
<1> QED BY <1>1, <1>2, <1>3, <1>4, <1>5 DEF Other

(* The limiter's counts, the monitor's entries and the word that counts    *)
(* the clients have their types in every order of the connections' steps.  *)
THEOREM ConnectionTypes == Spec => []TypeOK
<1>1. Init => Identified /\ TypeOK
  <2> SUFFICES ASSUME Init PROVE Identified /\ TypeOK
    OBVIOUS
  <2>1. Identified
    BY ConnectionsAssumption DEF Init, Identified, PCs
  <2>2. /\ connected_clients \in 0 .. 2^Width - 1
        /\ by_cn \in [CNs -> Nat] /\ by_ip \in [IPs -> Nat]
    BY WordSize, SMTT(30) DEF Init
  <2> QED BY <2>1, <2>2 DEF Init, TypeOK
<1>2. Identified /\ TypeOK /\ [Next]_vars => TypeOK'
  <2> SUFFICES ASSUME Identified, TypeOK, [Next]_vars PROVE TypeOK'
    OBVIOUS
  <2>1. CASE UNCHANGED vars
    BY <2>1 DEF vars, mainVars, limits, monitor, TypeOK
  <2> QED BY <2>1, TypeOutside, TypeConnection, NextCases
<1> QED BY <1>1, <1>2, IdentifiedStep, PTL DEF Spec
=============================================================================
