---------------------------- MODULE Connections -----------------------------
(***************************************************************************)
(* The life of a client connection in the server: the accept loop and the  *)
(* shutdown signal (main in server/src/main.rs), the TLS handshake         *)
(* (auth.rs, connection.rs), the role check, the connection limits         *)
(* (rate_limiter.rs), the count of clients (state.rs), the entry and the   *)
(* ways out of handle_client (server.rs) and the HeartbeatMonitor.         *)
(*                                                                         *)
(* A connection's CN and IP are fixed by its certificate and its peer.     *)
(* Time is a heartbeat that gets stale: older than timeout_duration.       *)
(***************************************************************************)
EXTENDS Integers, FiniteSets

CONSTANTS
  Conns,         \* connections clients open
  CNs, IPs,
  CnOf, IpOf,    \* of a connection; NoCN: the handshake fails
  NoCN,
  Known,         \* CNs with a role
  max_connections_per_cn, max_connections_per_ip,   \* 0: unlimited
  Width,         \* bits of connected_clients (64)
  Stale,         \* heartbeats may get stale
  Signals        \* the process may get SIGTERM or SIGINT

ASSUME ConnectionsAssumption ==
  /\ IsFiniteSet(Conns)
  /\ NoCN \notin CNs
  /\ CnOf \in [Conns -> CNs \cup {NoCN}] /\ IpOf \in [Conns -> IPs]
  /\ Known \subseteq CNs
  /\ max_connections_per_cn \in Nat /\ max_connections_per_ip \in Nat
  /\ Width \in Nat \ {0}
  /\ Stale \in BOOLEAN /\ Signals \in BOOLEAN

VARIABLES
  mpc,           \* accept loop: "start", "select", "accepted", "exited"
  signalled,     \* the signal task has run trigger()
  notified,      \* the Notified future of this select! is woken
  cpc,           \* per connection: "none", "tls", "entry", "serving", "returned", "closed"
  failed,        \* connections whose handshake failed
  connected_clients,
  by_cn, by_ip,  \* the limiter's counts
  heartbeats,    \* CN -> "none", "fresh", "stale"
  beat,          \* connections whose last heartbeat is not yet stale
  timed_out      \* what the monitor has collected and not yet removed

mainVars == <<mpc, signalled, notified>>
limits   == <<by_cn, by_ip>>
monitor  == <<heartbeats, beat, timed_out>>
vars == <<mainVars, cpc, failed, connected_clients, limits, monitor>>

Init ==
  /\ mpc = "start"
  /\ signalled = FALSE
  /\ notified = FALSE
  /\ cpc = [c \in Conns |-> "none"]
  /\ failed = {}
  /\ connected_clients = 0
  /\ by_cn = [n \in CNs |-> 0]
  /\ by_ip = [a \in IPs |-> 0]
  /\ heartbeats = [n \in CNs |-> "none"]
  /\ beat = {}
  /\ timed_out = {}

Up == mpc # "exited"

-----------------------------------------------------------------------------
(* The accept loop.  Each turn of the select! makes a new Notified future; *)
(* the branch of accept drops it, woken or not.                            *)
Select ==
  /\ mpc \in {"start", "accepted"}
  /\ mpc' = "select"
  /\ notified' = FALSE
  /\ UNCHANGED <<signalled, cpc, failed, connected_clients, limits, monitor>>

Accept(c) ==
  /\ mpc = "select"
  /\ cpc[c] = "none"
  /\ cpc' = [cpc EXCEPT ![c] = "tls"]
  /\ mpc' = "accepted"
  /\ UNCHANGED <<signalled, notified, failed, connected_clients, limits, monitor>>

(* notify_waiters wakes the futures that exist; it leaves nothing behind.  *)
Signal ==
  /\ Signals
  /\ Up
  /\ ~ signalled
  /\ signalled' = TRUE
  /\ notified' = (mpc = "select")
  /\ UNCHANGED <<mpc, cpc, failed, connected_clients, limits, monitor>>

(* The final decrement_client_count; the runtime drops every other task.   *)
Shutdown ==
  /\ mpc = "select"
  /\ notified
  /\ mpc' = "exited"
  /\ connected_clients' = (connected_clients - 1) % 2^Width
  /\ UNCHANGED <<signalled, notified, cpc, failed, limits, monitor>>

-----------------------------------------------------------------------------
(* The task of a connection.                                               *)

HandshakeFails_Signed(c) ==
  /\ Up
  /\ cpc[c] = "tls"
  /\ CnOf[c] = NoCN
  /\ cpc' = [cpc EXCEPT ![c] = "closed"]
  /\ failed' = failed \cup {c}
  /\ connected_clients' = connected_clients - 1
  /\ UNCHANGED <<mainVars, limits, monitor>>

HandshakeFails(c) ==
  /\ Up
  /\ cpc[c] = "tls"
  /\ CnOf[c] = NoCN
  /\ cpc' = [cpc EXCEPT ![c] = "closed"]
  /\ failed' = failed \cup {c}
  /\ connected_clients' = (connected_clients - 1) % 2^Width
  /\ UNCHANGED <<mainVars, limits, monitor>>

Handshake(c) ==
  /\ Up
  /\ cpc[c] = "tls"
  /\ CnOf[c] # NoCN
  /\ cpc' = [cpc EXCEPT ![c] = "entry"]
  /\ UNCHANGED <<mainVars, failed, connected_clients, limits, monitor>>

check_connection_OffByOne(c) ==
  /\ max_connections_per_ip > 0 => by_ip[IpOf[c]] <= max_connections_per_ip
  /\ max_connections_per_cn > 0 => by_cn[CnOf[c]] <= max_connections_per_cn

check_connection(c) ==
  /\ max_connections_per_ip > 0 => by_ip[IpOf[c]] < max_connections_per_ip
  /\ max_connections_per_cn > 0 => by_cn[CnOf[c]] < max_connections_per_cn

(* An unknown role, or over a limit: handle_client returns at once.        *)
Reject(c) ==
  /\ Up
  /\ cpc[c] = "entry"
  /\ CnOf[c] \notin Known \/ ~ check_connection(c)
  /\ cpc' = [cpc EXCEPT ![c] = "returned"]
  /\ UNCHANGED <<mainVars, failed, connected_clients, limits, monitor>>

record_heartbeat(c) ==
  /\ heartbeats' = [heartbeats EXCEPT ![CnOf[c]] = "fresh"]
  /\ beat' = beat \cup {c}

Enter(c) ==
  /\ Up
  /\ cpc[c] = "entry"
  /\ CnOf[c] \in Known /\ check_connection(c)
  /\ by_ip' = [by_ip EXCEPT ![IpOf[c]] = @ + 1]
  /\ by_cn' = [by_cn EXCEPT ![CnOf[c]] = @ + 1]
  /\ connected_clients' = (connected_clients + 1) % 2^Width
  /\ record_heartbeat(c)
  /\ cpc' = [cpc EXCEPT ![c] = "serving"]
  /\ UNCHANGED <<mainVars, failed, timed_out>>

(* Any data received counts as a heartbeat.                                *)
Command(c) ==
  /\ Up
  /\ cpc[c] = "serving"
  /\ record_heartbeat(c)
  /\ UNCHANGED <<mainVars, cpc, failed, connected_clients, limits, timed_out>>

remove_client(c) == heartbeats' = [heartbeats EXCEPT ![CnOf[c]] = "none"]

(* End of file or a read error.                                            *)
Disconnect(c) ==
  /\ Up
  /\ cpc[c] = "serving"
  /\ connected_clients' = (connected_clients - 1) % 2^Width
  /\ remove_client(c)
  /\ cpc' = [cpc EXCEPT ![c] = "returned"]
  /\ UNCHANGED <<mainVars, failed, limits, beat, timed_out>>

DeliveryFails_Uncounted(c) ==
  /\ Up
  /\ cpc[c] = "serving"
  /\ cpc' = [cpc EXCEPT ![c] = "returned"]
  /\ UNCHANGED <<mainVars, failed, connected_clients, limits, monitor>>

(* MAX_RETRIES failed writes of a delivery.                                *)
DeliveryFails(c) ==
  /\ Up
  /\ cpc[c] = "serving"
  /\ connected_clients' = (connected_clients - 1) % 2^Width
  /\ cpc' = [cpc EXCEPT ![c] = "returned"]
  /\ UNCHANGED <<mainVars, failed, limits, monitor>>

Close_HandlerRemoves(c) ==
  /\ Up
  /\ cpc[c] = "returned"
  /\ cpc' = [cpc EXCEPT ![c] = "closed"]
  /\ UNCHANGED <<mainVars, failed, connected_clients, limits, monitor>>

(* After handle_client, main removes the client from the monitor (again).  *)
Close(c) ==
  /\ Up
  /\ cpc[c] = "returned"
  /\ remove_client(c)
  /\ cpc' = [cpc EXCEPT ![c] = "closed"]
  /\ UNCHANGED <<mainVars, failed, connected_clients, limits, beat, timed_out>>

-----------------------------------------------------------------------------
(* The monitor: entries over the timeout are collected, then removed.      *)

Age(n) ==
  /\ Stale
  /\ Up
  /\ heartbeats[n] = "fresh"
  /\ heartbeats' = [heartbeats EXCEPT ![n] = "stale"]
  /\ beat' = {c \in beat : CnOf[c] # n}
  /\ UNCHANGED <<mainVars, cpc, failed, connected_clients, limits, timed_out>>

CollectTimedOut ==
  /\ Up
  /\ timed_out = {}
  /\ \E n \in CNs : heartbeats[n] = "stale"
  /\ timed_out' = {n \in CNs : heartbeats[n] = "stale"}
  /\ UNCHANGED <<mainVars, cpc, failed, connected_clients, limits, heartbeats, beat>>

RemoveTimedOut(n) ==
  /\ Up
  /\ n \in timed_out
  /\ heartbeats' = [heartbeats EXCEPT ![n] = "none"]
  /\ timed_out' = timed_out \ {n}
  /\ UNCHANGED <<mainVars, cpc, failed, connected_clients, limits, beat>>

-----------------------------------------------------------------------------
Task(c) == HandshakeFails(c) \/ Handshake(c) \/ Reject(c) \/ Enter(c) \/ Close(c)

Leave(c) == Disconnect(c) \/ DeliveryFails(c)

Monitor == CollectTimedOut \/ \E n \in CNs : RemoveTimedOut(n)

Next ==
  \/ Select \/ Signal \/ Shutdown
  \/ \E c \in Conns : Accept(c) \/ Task(c) \/ Command(c) \/ Leave(c)
  \/ Monitor
  \/ \E n \in CNs : Age(n)

Spec == Init /\ [][Next]_vars

(* The main task, the tasks of the connections and the monitor's timer are *)
(* polled when they can go on; what clients do is theirs to choose.        *)
FairSpec ==
  /\ Spec
  /\ WF_vars(Select) /\ WF_vars(Shutdown) /\ WF_vars(Monitor)
  /\ \A c \in Conns : WF_vars(Task(c))

-----------------------------------------------------------------------------
Serving == {c \in Conns : cpc[c] = "serving"}

ServingCn(n) == {c \in Serving : CnOf[c] = n}

ServingIp(a) == {c \in Serving : IpOf[c] = a}

(* Every field has the type the code gives it; the client count stays in   *)
(* its machine word.                                                       *)
TypeOK ==
  /\ mpc \in {"start", "select", "accepted", "exited"}
  /\ signalled \in BOOLEAN /\ notified \in BOOLEAN
  /\ cpc \in [Conns -> {"none", "tls", "entry", "serving", "returned", "closed"}]
  /\ failed \subseteq Conns
  /\ connected_clients \in 0 .. 2^Width - 1
  /\ by_cn \in [CNs -> Nat] /\ by_ip \in [IPs -> Nat]
  /\ heartbeats \in [CNs -> {"none", "fresh", "stale"}]
  /\ beat \subseteq Conns
  /\ timed_out \subseteq CNs

(* Every way out of handle_client takes exactly its own connection off     *)
(* connected_clients: as long as no handshake fails and the server is up,  *)
(* the count is that of the connections served, in every order of their    *)
(* tasks.  (With a failed handshake it is not: see CountIsServing.)        *)
CountExact ==
  Up /\ failed = {} => connected_clients = Cardinality(Serving) % 2^Width

(* No more connections of a CN or an IP are served at once than the limits *)
(* allow, however their tasks overlap.                                     *)
LimitsHold ==
  /\ max_connections_per_cn > 0 =>
       \A n \in CNs : Cardinality(ServingCn(n)) <= max_connections_per_cn
  /\ max_connections_per_ip > 0 =>
       \A a \in IPs : Cardinality(ServingIp(a)) <= max_connections_per_ip

(* When all connections of a CN are closed, the monitor has no entry of    *)
(* it: no order of their ends leaves one behind.                           *)
GoneIsForgotten ==
  \A n \in CNs :
    (\A c \in Conns : CnOf[c] = n => cpc[c] \in {"none", "tls", "entry", "closed"})
      => heartbeats[n] = "none"

-----------------------------------------------------------------------------
(* What the repository says and the code does not do.                      *)

(* "Count of currently connected clients": a failed handshake and the final*)
(* cleanup each take off a client that was never counted.                  *)
CountIsServing == connected_clients = Cardinality(Serving)

(* A connection is taken off the limiter's counts when it disconnects.     *)
ReleasedOnClose == \A n \in CNs : by_cn[n] = Cardinality(ServingCn(n))

(* The monitor tracks every client whose last data is not over the timeout.*)
LiveIsTracked == \A c \in Serving \cap beat : heartbeats[CnOf[c]] = "fresh"

(* A connection that stays silent past the timeout is closed.              *)
TimedOutIsClosed ==
  \A c \in Conns :
    (cpc[c] = "serving" /\ c \notin beat) ~> (cpc[c] = "closed" \/ c \in beat)

(* A signal ends the accept loop, whenever it comes.                       *)
SignalStops == signalled ~> mpc = "exited"
=============================================================================
