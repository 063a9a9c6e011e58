-------------------------------- MODULE Acl ---------------------------------
(***************************************************************************)
(* Roles and permissions of server/src/acl.rs.  A connection's role comes  *)
(* from the common name (CN) of its certificate and never changes.         *)
(***************************************************************************)

Roles == {"Admin", "Sender", "Receiver", "Unknown"}

SenderCommands ==
  {"publish", "publish_batch", "ack", "get_public_key", "resend"}

ReceiverCommands ==
  {"declare_queue", "declare_exchange", "bind", "consume", "ack",
   "register_public_key", "resend", "heartbeat"}

(* AclManager::check_command: an Admin may do everything, an Unknown       *)
(* nothing, the others what the permission matrix lists.                   *)
check_command(role, command) ==
  \/ role = "Admin"
  \/ role = "Sender"   /\ command \in SenderCommands
  \/ role = "Receiver" /\ command \in ReceiverCommands

(* AclManager::check_resource for a queue: a receiver manages the queues   *)
(* whose name carries its own CN (ownsQueue), a sender none.               *)
check_resource(role, ownsQueue) ==
  \/ role = "Admin"
  \/ role = "Receiver" /\ ownsQueue
=============================================================================
