---------------------------- MODULE RateLimiter -----------------------------
(***************************************************************************)
(* The token buckets of the server (server/src/rate_limiter.rs): one       *)
(* global and one publish bucket for each CN, made full at its first       *)
(* request.  Time and tokens are whole numbers; the code's are f64.        *)
(***************************************************************************)
EXTENDS Naturals

CONSTANTS
  CNs,
  global_burst, global_rps, publish_burst, publish_rps,
  MaxTime

ASSUME RateLimiterAssumption ==
  /\ global_burst \in Nat /\ global_rps \in Nat
  /\ publish_burst \in Nat /\ publish_rps \in Nat
  /\ MaxTime \in Nat

VARIABLES
  now,
  global, publish,    \* CN -> Bucket, made or not
  allowed, published  \* requests and publishes let through so far

vars == <<now, global, publish, allowed, published>>

Buckets == [made : BOOLEAN, tokens : Nat, last : Nat]

NoBucket == [made |-> FALSE, tokens |-> 0, last |-> 0]

Init ==
  /\ now = 0
  /\ global = [n \in CNs |-> NoBucket]
  /\ publish = [n \in CNs |-> NoBucket]
  /\ allowed = [n \in CNs |-> 0]
  /\ published = [n \in CNs |-> 0]

Least(a, b) == IF a <= b THEN a ELSE b

Refill_NoCap(b, burst, rps) ==
  IF b.made THEN b.tokens + (now - b.last) * rps ELSE burst

(* Tokens at the time of a request: entry().or_insert_with and the refill. *)
Refill(b, burst, rps) ==
  IF b.made THEN Least(b.tokens + (now - b.last) * rps, burst) ELSE burst

Take_NotStamped(b, burst, rps) ==
  LET t == Refill(b, burst, rps)
  IN [made |-> TRUE, tokens |-> IF t >= 1 THEN t - 1 ELSE t, last |-> b.last]

(* The bucket after take, which stamps it also when it refuses.            *)
Take(b, burst, rps) ==
  LET t == Refill(b, burst, rps)
  IN [made |-> TRUE, tokens |-> IF t >= 1 THEN t - 1 ELSE t, last |-> now]

Has(b, burst, rps) == Refill(b, burst, rps) >= 1

(* check: the global bucket first; its token is spent also when the        *)
(* publish bucket then refuses.                                            *)
Check(n, is_publish) ==
  LET g == Has(global[n], global_burst, global_rps)
      p == Has(publish[n], publish_burst, publish_rps)
  IN /\ global' = [global EXCEPT ![n] = Take(@, global_burst, global_rps)]
     /\ publish' = IF g /\ is_publish
                   THEN [publish EXCEPT ![n] = Take(@, publish_burst, publish_rps)]
                   ELSE publish
     /\ allowed' = IF g /\ (is_publish => p) THEN [allowed EXCEPT ![n] = @ + 1] ELSE allowed
     /\ published' = IF g /\ is_publish /\ p THEN [published EXCEPT ![n] = @ + 1] ELSE published
     /\ UNCHANGED now

Tick == now < MaxTime /\ now' = now + 1 /\ UNCHANGED <<global, publish, allowed, published>>

Next == Tick \/ \E n \in CNs : \E is_publish \in BOOLEAN : Check(n, is_publish)

Spec == Init /\ [][Next]_vars

-----------------------------------------------------------------------------
(* Each map has the type the code gives it, and no bucket is over its      *)
(* burst.                                                                  *)
TypeOK ==
  /\ now \in 0 .. MaxTime
  /\ global \in [CNs -> Buckets] /\ publish \in [CNs -> Buckets]
  /\ allowed \in [CNs -> Nat] /\ published \in [CNs -> Nat]
  /\ \A n \in CNs :
       /\ global[n].tokens <= global_burst /\ global[n].last <= now
       /\ publish[n].tokens <= publish_burst /\ publish[n].last <= now

(* A client's requests let through up to now are no more than one burst    *)
(* and the refill of the elapsed time, for requests and for publishes.     *)
RateBound ==
  \A n \in CNs :
    /\ allowed[n] <= global_burst + now * global_rps
    /\ published[n] <= publish_burst + now * publish_rps
=============================================================================
