-------------------------- MODULE RateLimiterProofs --------------------------
(***************************************************************************)
(* Proofs about RateLimiter for every limit, window, set of requests and   *)
(* clock.                                                                  *)
(***************************************************************************)
EXTENDS RateLimiter, TLAPS

(* What was spent since the mark and what is left now came from the bucket *)
(* at the mark and from the refill since.                                  *)
Accounted ==
  /\ last < mark => spent = 0
  /\ last >= mark => spent + tokens <= Capacity + (last - mark)

(* Until a hint is due, the bucket lacks no more than what flows in.       *)
HintCovers ==
  \A r \in quiet : tokens >= Token \/ due[r] - last >= Token - tokens

IInv == BucketTypeOK /\ Accounted /\ HintCovers

(* Rounding up never falls short.                                          *)
LEMMA CeilDivCovers ==
  ASSUME NEW a \in Int, NEW b \in Nat \ {0}
  PROVE  /\ CeilDiv(a, b) \in Int
         /\ b * CeilDiv(a, b) >= a
  <1> DEFINE n == a + b - 1
             q == n \div b
  <1>1. n \in Int /\ q \in Int
    OBVIOUS
  <1>2. n = b * q + (n % b) /\ n % b \in 0 .. (b - 1)
    OBVIOUS
  <1>3. b * q \in Int /\ n % b \in Int
    BY <1>1, <1>2
  <1>4. b * q >= a
    <2> HIDE DEF q
    <2> QED BY <1>2, <1>3
  <1> QED BY <1>1, <1>4 DEF CeilDiv

(* The bucket holds at least one request.                                  *)
LEMMA CapacityFits == Capacity \in Nat /\ Capacity >= Token
  <1> DEFINE n == IF Burst < 1 THEN 1 ELSE Burst
  <1>1. n \in Nat /\ n >= 1
    BY BucketAssumption
  <1>2. Token * n \in Nat /\ Token * n >= Token
    <2> HIDE DEF n
    <2> QED BY <1>1, BucketAssumption
  <1> QED BY <1>2 DEF Capacity

LEMMA RefillStaysInside ==
  ASSUME BucketTypeOK
  PROVE  /\ Refilled \in 0 .. Capacity
         /\ Refilled <= tokens + (now - last)
         /\ Refilled >= tokens
         /\ Refilled < Token => Refilled = tokens + (now - last)
         /\ tokens + (now - last) >= Token => Refilled >= Token
  BY CapacityFits, BucketAssumption DEF BucketTypeOK, Refilled

LEMMA InitIInv == BucketInit => IInv
  BY CapacityFits, BucketAssumption DEF BucketInit, IInv, BucketTypeOK, Accounted, HintCovers

LEMMA TellKeeps ==
  ASSUME IInv, NEW r \in Request, Tell(r), pc' \in [Request -> {"new", "denied", "hinted", "done"}],
         UNCHANGED <<now, bucketVars, windowVars>>
  PROVE  IInv'
  <1> DEFINE wait == Second * RetryAfter
  <1> USE DEF IInv
  <1>1. RetryAfter \in Int /\ wait \in Int /\ wait >= Token - tokens
    <2>1. tokens \in Int /\ Token - tokens \in Int
      BY CapacityFits, BucketAssumption DEF BucketTypeOK
    <2>2. RetryAfter \in Int /\ wait >= Token - tokens
      BY <2>1, CeilDivCovers, BucketAssumption DEF RetryAfter
    <2> QED BY <2>2, BucketAssumption
  <1> HIDE DEF wait
  <1>2. due' = [due EXCEPT ![r] = now + wait] /\ quiet' = quiet \cup {r}
    BY DEF Tell, wait
  <1>3. BucketTypeOK'
    BY <1>1, <1>2 DEF BucketTypeOK, bucketVars, windowVars
  <1>4. Accounted'
    BY DEF Accounted, bucketVars, windowVars, Capacity, BucketTypeOK
  <1>5. HintCovers'
    <2> SUFFICES ASSUME NEW q \in quiet'
                 PROVE  tokens' >= Token \/ due'[q] - last' >= Token - tokens'
      BY DEF HintCovers
    <2>0. tokens' = tokens /\ last' = last /\ quiet' = quiet \cup {r}
      BY <1>2 DEF bucketVars
    <2>1. CASE q = r
      <3>1. due'[q] = now + wait
        BY <2>1, <1>2 DEF BucketTypeOK
      <3>2. now - last >= 0 /\ now \in Int /\ last \in Int /\ tokens \in Int
        BY CapacityFits DEF BucketTypeOK
      <3> QED BY <3>1, <3>2, <2>0, <1>1, BucketAssumption
    <2>2. CASE q # r
      BY <2>0, <2>2, <1>2 DEF BucketTypeOK, HintCovers
    <2> QED BY <2>1, <2>2
  <1> QED BY <1>3, <1>4, <1>5

LEMMA AdmitKeeps ==
  ASSUME IInv, NEW r \in Request, Admit(r)
  PROVE  IInv'
  <1> USE DEF IInv
  <1>1. BucketTypeOK'
    BY RefillStaysInside, CapacityFits, BucketAssumption DEF BucketTypeOK, Admit
  <1>2. Accounted'
    <2>1. spent' + tokens' = spent + Refilled /\ last' = now /\ mark' = mark
      BY RefillStaysInside, CapacityFits, BucketAssumption DEF BucketTypeOK, Admit
    <2>2. mark <= now /\ Capacity' = Capacity
      BY DEF BucketTypeOK, Capacity
    <2>3. CASE last < mark
      BY <2>1, <2>2, <2>3, RefillStaysInside, CapacityFits DEF BucketTypeOK, Accounted
    <2>4. CASE last >= mark
      BY <2>1, <2>2, <2>4, RefillStaysInside, CapacityFits DEF BucketTypeOK, Accounted
    <2> QED BY <2>3, <2>4 DEF BucketTypeOK
  <1>3. HintCovers'
    BY DEF Admit, HintCovers
  <1> QED BY <1>1, <1>2, <1>3

LEMMA DenyKeeps ==
  ASSUME IInv, NEW r \in Request, Deny(r)
  PROVE  IInv'
  <1> USE DEF IInv
  <1>1. BucketTypeOK'
    BY RefillStaysInside, CapacityFits, BucketAssumption
    DEF BucketTypeOK, Deny, hintVars, windowVars
  <1>2. Accounted'
    <2>1. spent' = spent /\ tokens' = Refilled /\ last' = now /\ mark' = mark
      BY DEF Deny, windowVars
    <2>2. mark <= now /\ Capacity' = Capacity
      BY DEF BucketTypeOK, Capacity
    <2>3. CASE last < mark
      BY <2>1, <2>2, <2>3, RefillStaysInside, CapacityFits DEF BucketTypeOK, Accounted
    <2>4. CASE last >= mark
      BY <2>1, <2>2, <2>4, RefillStaysInside, CapacityFits DEF BucketTypeOK, Accounted
    <2> QED BY <2>3, <2>4 DEF BucketTypeOK
  <1>3. HintCovers'
    <2> SUFFICES ASSUME NEW q \in quiet'
                 PROVE  tokens' >= Token \/ due'[q] - last' >= Token - tokens'
      BY DEF HintCovers
    <2>1. q \in quiet /\ q \in Request /\ due' = due /\ tokens' = Refilled /\ last' = now
      BY DEF Deny, hintVars, BucketTypeOK
    <2>2. Refilled < Token /\ Refilled = tokens + (now - last)
      BY RefillStaysInside DEF Deny
    <2>3. tokens < Token /\ tokens \in Int /\ now \in Int /\ last \in Int /\ due[q] \in Int
      BY <2>1, <2>2, RefillStaysInside, CapacityFits, BucketAssumption DEF BucketTypeOK
    <2>4. due[q] - last >= Token - tokens
      BY <2>1, <2>3, BucketAssumption DEF HintCovers
    <2> QED BY <2>1, <2>2, <2>3, <2>4, BucketAssumption
  <1> QED BY <1>1, <1>2, <1>3

LEMMA NextIInv == IInv /\ [BucketNext]_limiterVars => IInv'
  <1> SUFFICES ASSUME IInv, [BucketNext]_limiterVars
               PROVE  IInv'
    OBVIOUS
  <1> USE CapacityFits, BucketAssumption
      DEF IInv, BucketTypeOK, Accounted, HintCovers, bucketVars, hintVars, windowVars, Capacity
  <1>1. CASE Elapse
    BY <1>1 DEF Elapse
  <1>2. CASE Observe
    BY <1>2 DEF Observe
  <1>3. ASSUME NEW r \in Request, Admit(r)
        PROVE  IInv'
    BY <1>3, AdmitKeeps
  <1>4. ASSUME NEW r \in Request, Deny(r)
        PROVE  IInv'
    BY <1>4, DenyKeeps
  <1>5. ASSUME NEW r \in Request, Header(r) \/ Body(r)
        PROVE  IInv'
    <2>1. pc' \in [Request -> {"new", "denied", "hinted", "done"}]
      BY <1>5 DEF Header, Body
    <2> QED BY <1>5, <2>1, TellKeeps DEF Header, Body
  <1>6. ASSUME NEW r \in Request, Again(r)
        PROVE  IInv'
    BY <1>6 DEF Again
  <1>7. CASE UNCHANGED limiterVars
    BY <1>7 DEF limiterVars
  <1> QED BY <1>1, <1>2, <1>3, <1>4, <1>5, <1>6, <1>7 DEF BucketNext

LEMMA IInvAlways == BucketSpec => []IInv
  BY InitIInv, NextIInv, PTL DEF BucketSpec

(***************************************************************************)
(* The bucket never leaves its bounds, for every limit and window.         *)
(***************************************************************************)
THEOREM BucketTypeCorrect == BucketSpec => []BucketTypeOK
  BY IInvAlways, PTL DEF IInv

(***************************************************************************)
(* For every limit and window and however many requests race, any window   *)
(* of time admits at most a full bucket and what flows in meanwhile.       *)
(***************************************************************************)
THEOREM AdmissionsAreBounded == BucketSpec => []WindowBound
  <1>1. IInv => WindowBound
    BY CapacityFits, BucketAssumption DEF IInv, BucketTypeOK, Accounted, WindowBound
  <1> QED BY <1>1, IInvAlways, PTL

(***************************************************************************)
(* For every limit, window and length of a second, a client that waits as  *)
(* long as its Retry-After says finds a token unless another request was   *)
(* admitted since the hint.                                                *)
(***************************************************************************)
THEOREM HintsAreHonoured == BucketSpec => []HintHonoured
  <1>1. IInv => HintHonoured
    <2> SUFFICES ASSUME IInv, NEW r \in quiet, now >= due[r]
                 PROVE  Refilled >= Token
      BY DEF HintHonoured
    <2>1. due[r] \in Int /\ tokens \in Int /\ now \in Int /\ last \in Int
      BY CapacityFits DEF IInv, BucketTypeOK
    <2>2. CASE tokens >= Token
      BY <2>1, <2>2, RefillStaysInside, CapacityFits, BucketAssumption DEF IInv
    <2>3. CASE due[r] - last >= Token - tokens
      BY <2>1, <2>3, RefillStaysInside, BucketAssumption DEF IInv
    <2> QED BY <2>2, <2>3 DEF IInv, HintCovers
  <1> QED BY <1>1, IInvAlways, PTL
=============================================================================
