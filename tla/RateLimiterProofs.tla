------------------------- MODULE RateLimiterProofs --------------------------
(***************************************************************************)
(* The rate bound of the token buckets, for every burst, rate and time.    *)
(***************************************************************************)
EXTENDS RateLimiter, TLAPS

(* The refill of an interval: what take adds is what the clock has gained. *)
LEMMA RefillOfInterval ==
  ASSUME NEW a \in Nat, NEW b \in Nat, NEW r \in Nat, b <= a
  PROVE  (a - b) * r \in Nat /\ (a - b) * r + b * r = a * r
<1>1. a - b \in Nat
  OBVIOUS
<1>2. PICK d \in Nat : d = a - b
  BY <1>1
<1>3. d * r \in Nat /\ b * r \in Nat
  BY SMT
<1>4. a = d + b
  BY <1>2
<1>5. (d + b) * r = d * r + b * r
  BY SMT
<1> QED
  BY <1>2, <1>3, <1>4, <1>5

(* A bucket stays a bucket within its burst: Bucket::take.                 *)
LEMMA TakeType ==
  ASSUME NEW b \in Buckets, NEW burst \in Nat, NEW rps \in Nat, now \in Nat,
         b.tokens <= burst, b.last <= now
  PROVE  /\ Refill(b, burst, rps) \in 0 .. burst
         /\ Take(b, burst, rps) \in Buckets
         /\ Take(b, burst, rps).made
         /\ Take(b, burst, rps).last = now
         /\ Take(b, burst, rps).tokens =
              IF Has(b, burst, rps) THEN Refill(b, burst, rps) - 1 ELSE Refill(b, burst, rps)
<1>1. (now - b.last) * rps \in Nat
  BY RefillOfInterval DEF Buckets
<1>2. Refill(b, burst, rps) \in 0 .. burst
  BY <1>1 DEF Refill, Least, Buckets
<1> DEFINE t == Refill(b, burst, rps)
<1> HIDE DEF t
<1>3. Take(b, burst, rps) = [made |-> TRUE, tokens |-> IF t >= 1 THEN t - 1 ELSE t, last |-> now]
  BY DEF Take, t
<1>4. t \in 0 .. burst
  BY <1>2 DEF t
<1> QED
  BY <1>2, <1>3, <1>4 DEF Buckets, Has, t

(* What a bucket has given out and still holds was in its first burst or   *)
(* has been refilled since.                                                *)
Spent(b, count, burst, rps) ==
  IF b.made THEN count + b.tokens <= burst + b.last * rps ELSE count = 0

(* What a bucket gives out it has: Bucket::take keeps the balance.         *)
LEMMA TakeBalanced ==
  ASSUME NEW b \in Buckets, NEW burst \in Nat, NEW rps \in Nat, NEW count \in Nat, now \in Nat,
         b.tokens <= burst, b.last <= now, Spent(b, count, burst, rps)
  PROVE  /\ Spent(Take(b, burst, rps), count, burst, rps)
         /\ Has(b, burst, rps) => Spent(Take(b, burst, rps), count + 1, burst, rps)
<1> DEFINE t == Refill(b, burst, rps)
<1>1. t \in Nat /\ now * rps \in Nat
  BY TakeType
<1>2. count + t <= burst + now * rps
  <2>1. CASE b.made
    <3>1. /\ (now - b.last) * rps \in Nat
          /\ (now - b.last) * rps + b.last * rps = now * rps
      BY RefillOfInterval DEF Buckets
    <3>2. count + b.tokens <= burst + b.last * rps
      BY <2>1 DEF Spent
    <3>3. t <= b.tokens + (now - b.last) * rps
      BY <2>1, <3>1 DEF Refill, Least, Buckets
    <3>4. b.last * rps \in Nat /\ b.tokens \in Nat
      BY DEF Buckets
    <3> HIDE DEF t
    <3> QED
      BY <1>1, <3>1, <3>2, <3>3, <3>4
  <2>2. CASE ~ b.made
    BY <2>2, <1>1 DEF Spent, Refill
  <2> QED
    BY <2>1, <2>2
<1>3. /\ Take(b, burst, rps).made
      /\ Take(b, burst, rps).last = now
      /\ Take(b, burst, rps).tokens = IF Has(b, burst, rps) THEN t - 1 ELSE t
  BY TakeType
<1>4. Has(b, burst, rps) => t >= 1
  BY DEF Has
<1> HIDE DEF t
<1> QED
  BY <1>1, <1>2, <1>3, <1>4 DEF Spent

(* The bound at the time of each bucket's last request: inductive, as the  *)
(* bound at the present time is not.                                       *)
BucketsBalanced ==
  \A n \in CNs :
    /\ Spent(global[n], allowed[n], global_burst, global_rps)
    /\ Spent(publish[n], published[n], publish_burst, publish_rps)

(* The invariant of the proof.                                             *)
Inv == TypeOK /\ BucketsBalanced

(* A request keeps the types and the bursts: RateLimiter::check.           *)
LEMMA CheckType ==
  ASSUME TypeOK, NEW n \in CNs, NEW is_publish \in BOOLEAN, Check(n, is_publish)
  PROVE  TypeOK'
<1>0. /\ now \in Nat
      /\ global[n] \in Buckets /\ global[n].tokens <= global_burst /\ global[n].last <= now
      /\ publish[n] \in Buckets /\ publish[n].tokens <= publish_burst /\ publish[n].last <= now
  BY DEF TypeOK
<1>1. /\ Take(global[n], global_burst, global_rps) \in Buckets
      /\ Take(global[n], global_burst, global_rps).last = now
      /\ Take(global[n], global_burst, global_rps).tokens <= global_burst
  <2> DEFINE t == Refill(global[n], global_burst, global_rps)
  <2>1. /\ Take(global[n], global_burst, global_rps) \in Buckets
        /\ Take(global[n], global_burst, global_rps).last = now
        /\ t \in 0 .. global_burst
        /\ Take(global[n], global_burst, global_rps).tokens \in {t, t - 1}
    BY <1>0, TakeType, RateLimiterAssumption, ZenonT(30)
  <2> HIDE DEF t
  <2> QED
    BY <2>1, RateLimiterAssumption
<1>2. /\ Take(publish[n], publish_burst, publish_rps) \in Buckets
      /\ Take(publish[n], publish_burst, publish_rps).last = now
      /\ Take(publish[n], publish_burst, publish_rps).tokens <= publish_burst
  <2> DEFINE t == Refill(publish[n], publish_burst, publish_rps)
  <2>1. /\ Take(publish[n], publish_burst, publish_rps) \in Buckets
        /\ Take(publish[n], publish_burst, publish_rps).last = now
        /\ t \in 0 .. publish_burst
        /\ Take(publish[n], publish_burst, publish_rps).tokens \in {t, t - 1}
    BY <1>0, TakeType, RateLimiterAssumption, ZenonT(30)
  <2> HIDE DEF t
  <2> QED
    BY <2>1, RateLimiterAssumption
<1>3. allowed' \in [CNs -> Nat] /\ published' \in [CNs -> Nat] /\ now' = now
  BY DEF Check, TypeOK
<1>4. /\ global' \in [CNs -> Buckets]
      /\ \A m \in CNs : global'[m].tokens <= global_burst /\ global'[m].last <= now
  BY <1>1 DEF Check, TypeOK
<1>5. /\ publish' \in [CNs -> Buckets]
      /\ \A m \in CNs : publish'[m].tokens <= publish_burst /\ publish'[m].last <= now
  BY <1>2 DEF Check, TypeOK
<1> QED
  BY <1>3, <1>4, <1>5 DEF TypeOK

(* A request keeps both balances, also when only one bucket is asked.      *)
LEMMA CheckBalanced ==
  ASSUME Inv, NEW n \in CNs, NEW is_publish \in BOOLEAN, Check(n, is_publish)
  PROVE  BucketsBalanced'
<1> DEFINE g == Has(global[n], global_burst, global_rps)
           p == Has(publish[n], publish_burst, publish_rps)
           G == Take(global[n], global_burst, global_rps)
           P == Take(publish[n], publish_burst, publish_rps)
<1>1. /\ Spent(G, allowed[n], global_burst, global_rps)
      /\ g => Spent(G, allowed[n] + 1, global_burst, global_rps)
  BY TakeBalanced, RateLimiterAssumption DEF Inv, TypeOK, BucketsBalanced
<1>2. /\ Spent(P, published[n], publish_burst, publish_rps)
      /\ p => Spent(P, published[n] + 1, publish_burst, publish_rps)
  BY TakeBalanced, RateLimiterAssumption DEF Inv, TypeOK, BucketsBalanced
<1>3. /\ global' = [global EXCEPT ![n] = G]
      /\ publish' = IF g /\ is_publish THEN [publish EXCEPT ![n] = P] ELSE publish
      /\ allowed' = IF g /\ (is_publish => p) THEN [allowed EXCEPT ![n] = @ + 1] ELSE allowed
      /\ published' = IF g /\ is_publish /\ p THEN [published EXCEPT ![n] = @ + 1] ELSE published
  BY DEF Check
<1> HIDE DEF g, p, G, P
<1>4. ASSUME NEW m \in CNs
      PROVE  Spent(global'[m], allowed'[m], global_burst, global_rps)
  <2>1. CASE m = n
    BY <2>1, <1>1, <1>3 DEF Inv, TypeOK
  <2>2. CASE m # n
    <3>1. global'[m] = global[m] /\ allowed'[m] = allowed[m]
      BY <2>2, <1>3 DEF Inv, TypeOK
    <3> QED
      BY <3>1 DEF Inv, BucketsBalanced
  <2> QED
    BY <2>1, <2>2
<1>5. ASSUME NEW m \in CNs
      PROVE  Spent(publish'[m], published'[m], publish_burst, publish_rps)
  <2>1. CASE m = n /\ g /\ is_publish
    BY <2>1, <1>2, <1>3 DEF Inv, TypeOK
  <2>2. CASE ~ (m = n /\ g /\ is_publish)
    <3>1. publish'[m] = publish[m] /\ published'[m] = published[m]
      BY <2>2, <1>3 DEF Inv, TypeOK
    <3> QED
      BY <3>1 DEF Inv, BucketsBalanced
  <2> QED
    BY <2>1, <2>2
<1> QED
  BY <1>4, <1>5 DEF BucketsBalanced, Spent

(* A balanced bucket has not given out more than the bound.                *)
LEMMA BalancedIsBounded == Inv => RateBound
<1> SUFFICES ASSUME Inv, NEW n \in CNs
             PROVE  /\ allowed[n] <= global_burst + now * global_rps
                    /\ published[n] <= publish_burst + now * publish_rps
  BY Zenon DEF RateBound
<1>1. ASSUME NEW b \in Buckets, NEW count \in Nat, NEW burst \in Nat, NEW rps \in Nat,
             b.last <= now, Spent(b, count, burst, rps)
      PROVE  count <= burst + now * rps
  <2>1. now \in Nat /\ b.last \in Nat /\ b.tokens \in Nat
    BY DEF Inv, TypeOK, Buckets
  <2>2. /\ (now - b.last) * rps \in Nat
        /\ (now - b.last) * rps + b.last * rps = now * rps
    BY <1>1, <2>1, RefillOfInterval
  <2>3. b.last * rps \in Nat /\ now * rps \in Nat
    BY <2>1
  <2>4. CASE b.made
    BY <1>1, <2>1, <2>2, <2>3, <2>4 DEF Spent
  <2>5. CASE ~ b.made
    BY <1>1, <2>3, <2>5 DEF Spent
  <2> QED
    BY <2>4, <2>5
<1>2. /\ global[n] \in Buckets /\ publish[n] \in Buckets
      /\ allowed[n] \in Nat /\ published[n] \in Nat
      /\ global[n].last <= now /\ publish[n].last <= now
      /\ Spent(global[n], allowed[n], global_burst, global_rps)
      /\ Spent(publish[n], published[n], publish_burst, publish_rps)
  BY DEF Inv, TypeOK, BucketsBalanced
<1> QED
  BY <1>1, <1>2, RateLimiterAssumption

(* Types and balances hold after any requests at any times.                *)
LEMMA Invariance == Spec => []Inv
<1>1. Init => Inv
  BY RateLimiterAssumption DEF Init, Inv, TypeOK, BucketsBalanced, Spent, Buckets, NoBucket
<1>2. Inv /\ [Next]_vars => Inv'
  <2> SUFFICES ASSUME Inv, [Next]_vars
               PROVE  Inv'
    OBVIOUS
  <2>1. CASE Tick
    <3>1. TypeOK'
      BY <2>1, RateLimiterAssumption DEF Inv, TypeOK, Tick, Buckets
    <3>2. BucketsBalanced'
      BY <2>1 DEF Inv, BucketsBalanced, Spent, Tick
    <3> QED
      BY <3>1, <3>2 DEF Inv
  <2>2. ASSUME NEW n \in CNs, NEW is_publish \in BOOLEAN, Check(n, is_publish)
        PROVE  Inv'
    <3>1. TypeOK'
      BY <2>2, CheckType DEF Inv
    <3>2. BucketsBalanced'
      BY <2>2, CheckBalanced
    <3> QED
      BY <3>1, <3>2 DEF Inv
  <2>3. CASE UNCHANGED vars
    BY <2>3 DEF vars, Inv, TypeOK, BucketsBalanced, Spent
  <2> QED
    BY <2>1, <2>2, <2>3 DEF Next
<1> QED
  BY <1>1, <1>2, PTL DEF Spec

(* No bucket ever holds less than nothing or more than its burst:          *)
(* Bucket::take refills and takes within one call.                         *)
THEOREM LimiterTypes == Spec => []TypeOK
<1>1. Inv => TypeOK
  BY DEF Inv
<1> QED BY <1>1, Invariance, PTL

(* For every burst and rate, a client gets no more requests and publishes  *)
(* through in any time than one burst and the refill of that time          *)
(* (Bucket::take, RateLimiter::check).                                     *)
THEOREM RateIsBounded == Spec => []RateBound
BY Invariance, BalancedIsBounded, PTL
=============================================================================
