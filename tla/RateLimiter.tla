----------------------------- MODULE RateLimiter -----------------------------
(***************************************************************************)
(* The shared token bucket in front of the dashboard's routes              *)
(* (ratelimit.go), with the requests that race for it.                     *)
(*                                                                         *)
(* The bucket refills continuously, so time and tokens are measured in the *)
(* same unit: the time in which one unit flows in.  A request costs Token  *)
(* units and the bucket holds Burst of them, i.e. the whole window; a      *)
(* second is Second units long.                                            *)
(***************************************************************************)
EXTENDS Integers

CONSTANTS
  Token,      \* units per request: window / maxRequests
  Burst,      \* maxRequests
  Second,     \* units per second, for Retry-After
  Request,    \* requests in progress
  MaxTime     \* model bound on the clock

ASSUME BucketAssumption ==
  /\ Token \in Nat \ {0}
  /\ Burst \in Nat
  /\ Second \in Nat \ {0}
  /\ MaxTime \in Nat

VARIABLES
  now,      \* the clock
  tokens,   \* rateLimiter.tokens
  last,     \* rateLimiter.last
  pc,       \* per request: control of applyRateLimit's handler
  quiet,    \* the requests since whose hint nothing was admitted
  due,      \* for those: when the wait their hint asks for is over
  spent,    \* units spent on admissions since the mark
  mark      \* the start of an observed window

bucketVars == <<tokens, last>>
hintVars == <<quiet, due>>
windowVars == <<spent, mark>>
limiterVars == <<now, bucketVars, pc, hintVars, windowVars>>

(* newRateLimiter: a limit below one request is one request.               *)
Capacity == Token * (IF Burst < 1 THEN 1 ELSE Burst)

BucketTypeOK ==
  /\ now \in Nat
  /\ tokens \in 0 .. Capacity
  /\ last \in 0 .. now
  /\ pc \in [Request -> {"new", "denied", "hinted", "done"}]
  /\ quiet \subseteq Request
  /\ due \in [Request -> Int]
  /\ spent \in Nat
  /\ mark \in 0 .. now

BucketInit ==
  /\ now = 0
  /\ tokens = Capacity
  /\ last = 0
  /\ pc = [r \in Request |-> "new"]
  /\ quiet = {}
  /\ due = [r \in Request |-> 0]
  /\ spent = 0
  /\ mark = 0
-----------------------------------------------------------------------------
Elapse ==
  /\ now < MaxTime
  /\ now' = now + 1
  /\ UNCHANGED <<bucketVars, pc, hintVars, windowVars>>

(* Mutant: the refill is not capped at the burst.                          *)
RefilledUncapped == tokens + (now - last)

(* Allow: what the bucket holds once refilled up to now.                   *)
Refilled ==
  IF tokens + (now - last) <= Capacity THEN tokens + (now - last) ELSE Capacity

(* applyRateLimit: Allow admits the request, the next handler serves it.   *)
Admit(r) ==
  /\ pc[r] = "new"
  /\ Refilled >= Token
  /\ tokens' = Refilled - Token
  /\ last' = now
  /\ pc' = [pc EXCEPT ![r] = "done"]
  /\ spent' = spent + Token
  /\ quiet' = {}
  /\ due' = [q \in Request |-> 0]
  /\ UNCHANGED <<now, mark>>

(* applyRateLimit: Allow rejects the request.                              *)
Deny(r) ==
  /\ pc[r] = "new"
  /\ Refilled < Token
  /\ tokens' = Refilled
  /\ last' = now
  /\ pc' = [pc EXCEPT ![r] = "denied"]
  /\ UNCHANGED <<now, hintVars, windowVars>>

CeilDiv(a, b) == (a + b - 1) \div b

(* Mutant: the hint is rounded down.                                       *)
RetryAfterFloor == (Token - tokens) \div Second

(* retryAfter: whole seconds from the bucket as the last Allow left it,    *)
(* which need not be the Allow that rejected this request.                 *)
RetryAfter == CeilDiv(Token - tokens, Second)

(* The client is told to come back RetryAfter seconds from now.            *)
Tell(r) ==
  /\ quiet' = quiet \cup {r}
  /\ due' = [due EXCEPT ![r] = now + Second * RetryAfter]

(* applyRateLimit: the Retry-After header, under a lock hold of its own.   *)
Header(r) ==
  /\ pc[r] = "denied"
  /\ Tell(r)
  /\ pc' = [pc EXCEPT ![r] = "hinted"]
  /\ UNCHANGED <<now, bucketVars, windowVars>>

(* applyRateLimit: retry_after in a JSON client's body, computed afresh     *)
(* under a third lock hold.                                                *)
Body(r) ==
  /\ pc[r] = "hinted"
  /\ Tell(r)
  /\ pc' = [pc EXCEPT ![r] = "done"]
  /\ UNCHANGED <<now, bucketVars, windowVars>>

(* The client's next request, whether or not it waited.                    *)
Again(r) ==
  /\ pc[r] \in {"hinted", "done"}
  /\ pc' = [pc EXCEPT ![r] = "new"]
  /\ UNCHANGED <<now, bucketVars, hintVars, windowVars>>

(* Observation only: start counting admissions at any moment.              *)
Observe ==
  /\ mark # now
  /\ mark' = now
  /\ spent' = 0
  /\ UNCHANGED <<now, bucketVars, pc, hintVars>>

BucketNext ==
  \/ Elapse
  \/ Observe
  \/ \E r \in Request : Admit(r) \/ Deny(r) \/ Header(r) \/ Body(r) \/ Again(r)

BucketSpec == BucketInit /\ [][BucketNext]_limiterVars
-----------------------------------------------------------------------------
(***************************************************************************)
(* In any window of time, whenever it starts and however requests race,    *)
(* the admissions cost at most a full bucket plus what flows in during the *)
(* window: WithRateLimit's burst and sustained rate (ratelimit.go, Allow). *)
(***************************************************************************)
WindowBound == spent <= Capacity + (now - mark)

(***************************************************************************)
(* A hint is worth following, the header's and the body's alike although   *)
(* the two can differ: once the wait it asked for is over, and nothing has *)
(* been admitted since it was computed, the bucket has a token             *)
(* (ratelimit.go, retryAfter: "whole seconds until the next token is       *)
(* available").                                                            *)
(***************************************************************************)
HintHonoured == \A r \in quiet : now >= due[r] => Refilled >= Token
=============================================================================
