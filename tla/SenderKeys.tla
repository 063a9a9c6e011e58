----------------------------- MODULE SenderKeys -----------------------------
(***************************************************************************)
(* How the sender gets the receivers' public keys before it publishes      *)
(* (clients/sender_1/src/main.rs): fetch_all_public_keys with its          *)
(* attempts, the key files under keys/, the fallback to those files, the   *)
(* connections of the pipeline and the encryption, which reads the files.  *)
(* The files outlive a run of the sender; receivers register new keys with *)
(* the server at any time.                                                 *)
(***************************************************************************)
EXTENDS Naturals, FiniteSets

CONSTANTS
  Receivers,     \* receiver_client_ids
  Keys, NoKey,
  max_retries,
  Faults,        \* "connect", "io", "reply" (an error line, or end of file), "file"
  MaxFaults, MaxRuns

ASSUME SenderKeysAssumption ==
  /\ NoKey \notin Keys
  /\ max_retries \in Nat /\ MaxFaults \in Nat /\ MaxRuns \in Nat
  /\ Faults \subseteq {"connect", "io", "reply", "file"}

VARIABLES
  registered,    \* the server's public_keys table
  ever,          \* keys each receiver has registered so far
  files,         \* keys/<receiver>_public.key
  pc,
  attempt,
  todo,          \* receivers this attempt still asks for
  keys,          \* public_keys, the map the fetch returns
  fetched,       \* the map comes from the server, not from the files
  used,          \* key each receiver's ciphertext was made with
  unwritten,     \* receivers whose last fetched key is not in their file
  faults, runs

table == <<registered, ever>>
disk  == <<files, unwritten>>
vars == <<table, disk, pc, attempt, todo, keys, fetched, used, faults, runs>>

NoKeys == [r \in Receivers |-> NoKey]

Init ==
  /\ registered = NoKeys
  /\ ever = [r \in Receivers |-> {}]
  /\ files = NoKeys
  /\ pc = "connect"
  /\ attempt = 0
  /\ todo = {}
  /\ keys = NoKeys
  /\ fetched = FALSE
  /\ used = NoKeys
  /\ unwritten = {}
  /\ faults = 0
  /\ runs = 1

Fault(kind) == kind \in Faults /\ faults < MaxFaults /\ faults' = faults + 1

(* register_public_key of a receiver, which replaces its row.              *)
Register(r, k) ==
  /\ registered' = [registered EXCEPT ![r] = k]
  /\ ever' = [ever EXCEPT ![r] = @ \cup {k}]
  /\ UNCHANGED <<disk, pc, attempt, todo, keys, fetched, used, faults, runs>>

-----------------------------------------------------------------------------
(* fetch_all_public_keys_once: connect_tls, configure_server, then one     *)
(* get_public_key for each receiver.                                       *)
Connect ==
  /\ pc = "connect"
  /\ attempt < max_retries
  /\ pc' = "fetch"
  /\ todo' = Receivers
  /\ keys' = NoKeys
  /\ UNCHANGED <<table, disk, attempt, fetched, used, faults, runs>>

(* Any error of the attempt drops its map; the files written stay.         *)
AttemptFails ==
  /\ \/ pc = "connect" /\ attempt < max_retries /\ Fault("connect")
     \/ pc = "fetch" /\ todo # {} /\ Fault("io")
  /\ attempt' = attempt + 1
  /\ pc' = "connect"
  /\ keys' = NoKeys
  /\ UNCHANGED <<table, disk, todo, fetched, used, runs>>

FetchKey_WrongFile(r) ==
  /\ pc = "fetch"
  /\ r \in todo
  /\ registered[r] # NoKey
  /\ todo' = todo \ {r}
  /\ keys' = [keys EXCEPT ![r] = registered[r]]
  /\ \E q \in Receivers : files' = [files EXCEPT ![q] = registered[r]]
  /\ unwritten' = unwritten \ {r}
  /\ UNCHANGED <<table, pc, attempt, fetched, used, faults, runs>>

FetchKey_NotSaved(r) ==
  /\ pc = "fetch"
  /\ r \in todo
  /\ registered[r] # NoKey
  /\ todo' = todo \ {r}
  /\ keys' = [keys EXCEPT ![r] = registered[r]]
  /\ files' = IF files[r] = NoKey THEN [files EXCEPT ![r] = registered[r]] ELSE files
  /\ unwritten' = unwritten \ {r}
  /\ UNCHANGED <<table, pc, attempt, fetched, used, faults, runs>>

FetchKey(r) ==
  /\ pc = "fetch"
  /\ r \in todo
  /\ registered[r] # NoKey
  /\ todo' = todo \ {r}
  /\ keys' = [keys EXCEPT ![r] = registered[r]]
  /\ files' = [files EXCEPT ![r] = registered[r]]
  /\ unwritten' = unwritten \ {r}
  /\ UNCHANGED <<table, pc, attempt, fetched, used, faults, runs>>

(* std::fs::write fails: logged, and the key is in the map all the same.   *)
FetchKeyNotWritten(r) ==
  /\ pc = "fetch"
  /\ r \in todo
  /\ registered[r] # NoKey
  /\ Fault("file")
  /\ todo' = todo \ {r}
  /\ keys' = [keys EXCEPT ![r] = registered[r]]
  /\ unwritten' = unwritten \cup {r}
  /\ UNCHANGED <<table, files, pc, attempt, fetched, used, runs>>

(* "Public key not found" and every other reply: the receiver is skipped.  *)
SkipKey(r) ==
  /\ pc = "fetch"
  /\ r \in todo
  /\ \/ registered[r] = NoKey /\ UNCHANGED faults
     \/ registered[r] # NoKey /\ Fault("reply")
  /\ todo' = todo \ {r}
  /\ UNCHANGED <<table, disk, pc, attempt, keys, fetched, used, runs>>

(* A map with at least one key is the result; an empty one is retried.     *)
FetchEnds ==
  /\ pc = "fetch"
  /\ todo = {}
  /\ IF keys # NoKeys
     THEN pc' = "open" /\ fetched' = TRUE /\ UNCHANGED attempt
     ELSE pc' = "connect" /\ attempt' = attempt + 1 /\ UNCHANGED fetched
  /\ UNCHANGED <<table, disk, todo, keys, used, faults, runs>>

(* No attempt is left: the local files, and without any the run ends.      *)
Fallback ==
  /\ pc = "connect"
  /\ attempt = max_retries
  /\ keys' = files
  /\ pc' = IF files # NoKeys THEN "open" ELSE "exit"
  /\ UNCHANGED <<table, disk, attempt, todo, fetched, used, faults, runs>>

-----------------------------------------------------------------------------
(* The pipeline's three connections, or the error that ends the run.       *)
Open ==
  /\ pc = "open"
  /\ \/ pc' = "encrypt" /\ UNCHANGED faults
     \/ pc' = "exit" /\ (Fault("connect") \/ Fault("io"))
  /\ UNCHANGED <<table, disk, attempt, todo, keys, fetched, used, runs>>

(* encrypt_for_all_receivers goes over the map's receivers and takes their *)
(* keys from the files; a receiver without a file is left out.             *)
Encrypt ==
  /\ pc = "encrypt"
  /\ used' = [r \in Receivers |-> IF keys[r] # NoKey THEN files[r] ELSE NoKey]
  /\ pc' = "sent"
  /\ UNCHANGED <<table, disk, attempt, todo, keys, fetched, faults, runs>>

RunAgain ==
  /\ pc \in {"sent", "exit"}
  /\ runs < MaxRuns
  /\ runs' = runs + 1
  /\ pc' = "connect"
  /\ attempt' = 0
  /\ keys' = NoKeys
  /\ fetched' = FALSE
  /\ used' = NoKeys
  /\ UNCHANGED <<table, disk, todo, faults>>

Next ==
  \/ \E r \in Receivers : (\E k \in Keys : Register(r, k)) \/ FetchKey(r)
                          \/ FetchKeyNotWritten(r) \/ SkipKey(r)
  \/ Connect \/ AttemptFails \/ FetchEnds \/ Fallback \/ Open \/ Encrypt \/ RunAgain

Spec == Init /\ [][Next]_vars

-----------------------------------------------------------------------------
(* A message for a receiver is encrypted with a key this receiver has      *)
(* registered, through failed attempts, fallbacks and stale files.         *)
UsedKeyWasRegistered == \A r \in Receivers : used[r] \in ever[r] \cup {NoKey}

(* When the server could be reached, a receiver's messages are encrypted   *)
(* with the key fetched in this run and not with the file of an earlier    *)
(* run, unless the write of its file failed, which is only logged.         *)
UsesFetchedKey ==
  (pc = "sent" /\ fetched) => \A r \in Receivers \ unwritten : used[r] = keys[r]

-----------------------------------------------------------------------------
(* What the repository says and the code does not do.                      *)

(* Messages are addressed to every configured receiver, when a key for it  *)
(* is at hand.                                                             *)
AddressesAll == pc = "sent" => \A r \in Receivers : files[r] # NoKey => used[r] # NoKey
=============================================================================
