-------------------------- MODULE SenderKeysProofs ---------------------------
(***************************************************************************)
(* Which key a receiver's messages are encrypted with: one the receiver    *)
(* registered, and the one fetched in this run when its file was written.  *)
(* For every number of receivers, keys, attempts, runs and faults.         *)
(***************************************************************************)
EXTENDS SenderKeys, TLAPS

(* The fields that the properties below depend on have their types.        *)
KeyTypes ==
  /\ registered \in [Receivers -> Keys \cup {NoKey}]
  /\ ever \in [Receivers -> SUBSET Keys]
  /\ files \in [Receivers -> Keys \cup {NoKey}]
  /\ keys \in [Receivers -> Keys \cup {NoKey}]
  /\ used \in [Receivers -> Keys \cup {NoKey}]
  /\ todo \subseteq Receivers

(* The table, the files and the map hold keys their receiver registered:   *)
(* a file that is older than the table does, too.                          *)
Genuine ==
  \A r \in Receivers :
    /\ registered[r] \in ever[r] \cup {NoKey}
    /\ files[r] \in ever[r] \cup {NoKey}

(* A key of the map is in the file of its receiver, unless the write of    *)
(* the file failed, from the first fetch to the encryption: the fallback,  *)
(* which fetches nothing, takes the map from the files.                    *)
Mirrored ==
  pc \in {"fetch", "open", "encrypt"} =>
    \A r \in Receivers \ unwritten : keys[r] # NoKey => files[r] = keys[r]

(* So the encryption, which reads the files, uses the keys of the map.     *)
Followed == pc = "sent" => \A r \in Receivers \ unwritten : used[r] = keys[r]

KeyInv == KeyTypes /\ Genuine /\ Mirrored /\ Followed /\ UsedKeyWasRegistered

(* Every step keeps the invariant.                                         *)
LEMMA KeyStep ==
  KeyInv /\ [Next]_vars => KeyInv'
<1> SUFFICES ASSUME KeyInv, [Next]_vars PROVE KeyInv'
  OBVIOUS
<1> USE SenderKeysAssumption DEF KeyInv, KeyTypes, Genuine, Mirrored, Followed,
      UsedKeyWasRegistered, NoKeys, table, disk, Fault
<1>1. ASSUME NEW r \in Receivers, NEW k \in Keys, Register(r, k) PROVE KeyInv'
  BY <1>1 DEF Register
<1>2. ASSUME NEW r \in Receivers, FetchKey(r) PROVE KeyInv'
  BY <1>2 DEF FetchKey
<1>3. ASSUME NEW r \in Receivers, FetchKeyNotWritten(r) PROVE KeyInv'
  BY <1>3 DEF FetchKeyNotWritten
<1>4. ASSUME NEW r \in Receivers, SkipKey(r) PROVE KeyInv'
  BY <1>4 DEF SkipKey
<1>5. CASE Connect
  BY <1>5 DEF Connect
<1>6. CASE AttemptFails
  BY <1>6 DEF AttemptFails
<1>7. CASE FetchEnds
  BY <1>7 DEF FetchEnds
<1>8. CASE Fallback
  BY <1>8 DEF Fallback
<1>9. CASE Open
  BY <1>9 DEF Open
<1>10. CASE Encrypt
  BY <1>10 DEF Encrypt
<1>11. CASE RunAgain
  BY <1>11 DEF RunAgain
<1>12. CASE UNCHANGED vars
  BY <1>12 DEF vars
<1> QED BY <1>1, <1>2, <1>3, <1>4, <1>5, <1>6, <1>7, <1>8, <1>9, <1>10, <1>11, <1>12
      DEF Next

(* It holds in every state of every behaviour.                             *)
LEMMA KeyInvAlways == Spec => []KeyInv
<1>1. Init => KeyInv
  BY SenderKeysAssumption DEF Init, KeyInv, KeyTypes, Genuine, Mirrored, Followed,
    UsedKeyWasRegistered, NoKeys
<1> QED BY <1>1, KeyStep, PTL DEF Spec

(* encrypt_for_all_receivers encrypts for a receiver only with a key this  *)
(* receiver has registered, whatever attempts failed, whichever runs left  *)
(* their files and however often receivers registered new keys.            *)
THEOREM KeysAreRegistered == Spec => []UsedKeyWasRegistered
<1>1. KeyInv => UsedKeyWasRegistered
  BY DEF KeyInv
<1> QED BY <1>1, KeyInvAlways, PTL

(* When the keys were fetched, the key fetched in this run is the one      *)
(* used, unless the write of the key file failed.                          *)
THEOREM KeysAreFetched == Spec => []UsesFetchedKey
<1>1. KeyInv => UsesFetchedKey
  BY DEF KeyInv, Followed, UsesFetchedKey
<1> QED BY <1>1, KeyInvAlways, PTL
=============================================================================
