------------------------------- MODULE Webhook -------------------------------
(***************************************************************************)
(* Webhook notifications (webhook.go) as the push loops drive them: the    *)
(* notifier, shared by every loop of the Dashboard, remembers the last     *)
(* announced state under its mutex and gives each announcement a delivery  *)
(* goroutine of its own; an atomic counter bounds the deliveries that run  *)
(* at a time.                                                              *)
(*                                                                         *)
(* A health state stands for what shouldBroadcast and fireOnChange         *)
(* compare: the overall status and the fingerprint of the checks.          *)
(***************************************************************************)
EXTENDS Naturals, FiniteSets

CONSTANTS
  Loop,         \* push loops, one per Start
  State,        \* health states
  None,         \* no state yet
  Job,          \* delivery goroutines alive at a time (a bound of the model)
  MaxInFlight,  \* webhookMaxInFlight (8)
  PushAlways    \* push mode of the loops

ASSUME WebhookAssumption ==
  /\ None \notin State
  /\ IsFiniteSet(Job)
  /\ MaxInFlight \in Nat \ {0}
  /\ PushAlways \in BOOLEAN

VARIABLES
  cur,        \* what the probe answers now
  at,         \* per loop: control
  seen,       \* per loop: its lastStatus and lastFingerprint
  carry,      \* per loop: the response it is about to announce
  last,       \* the notifier's lastStatus and lastFingerprint; None = not announced
  job,        \* per delivery goroutine: control
  load,       \* per delivery goroutine: the response it delivers
  inFlight    \* the notifier's atomic counter

loopVars == <<at, seen, carry, last>>
jobVars == <<job, load, inFlight>>
vars == <<cur, at, seen, carry, last, job, load, inFlight>>

(* A delivery is "sending" between the in-flight check and the end of its  *)
(* HTTP exchange; "over" when the check found too many.                    *)
LoopState == {"unborn", "sample", "fire", "idle", "exited"}
JobState == {"free", "spawned", "over", "sending", "settled"}

TypeOK ==
  /\ cur \in State
  /\ at \in [Loop -> LoopState]
  /\ seen \in [Loop -> State \cup {None}]
  /\ carry \in [Loop -> State]
  /\ last \in State \cup {None}
  /\ job \in [Job -> JobState]
  /\ load \in [Job -> State]
  /\ inFlight \in Nat

Init ==
  /\ cur \in State
  /\ at = [l \in Loop |-> "unborn"]
  /\ seen = [l \in Loop |-> None]
  /\ carry = [l \in Loop |-> cur]
  /\ last = None
  /\ job = [j \in Job |-> "free"]
  /\ load = [j \in Job |-> cur]
  /\ inFlight = 0
-----------------------------------------------------------------------------
Refresh ==
  /\ cur' \in State \ {cur}
  /\ UNCHANGED <<loopVars, jobVars>>

(* Start launches a loop, whose first statement is a broadcast.            *)
Start(l) ==
  /\ at[l] = "unborn"
  /\ at' = [at EXCEPT ![l] = "sample"]
  /\ UNCHANGED <<cur, seen, carry, last, jobVars>>

Tick(l) ==
  /\ at[l] = "idle"
  /\ at' = [at EXCEPT ![l] = "sample"]
  /\ UNCHANGED <<cur, seen, carry, last, jobVars>>

(* Shutdown or the caller's context ends the loop.                         *)
Exit(l) ==
  /\ at[l] = "idle"
  /\ at' = [at EXCEPT ![l] = "exited"]
  /\ UNCHANGED <<cur, seen, carry, last, jobVars>>

(* broadcast: read the probe's response; shouldBroadcast.                  *)
Sample(l) ==
  /\ at[l] = "sample"
  /\ IF PushAlways \/ cur # seen[l]
     THEN /\ at' = [at EXCEPT ![l] = "fire"]
          /\ carry' = [carry EXCEPT ![l] = cur]
     ELSE /\ at' = [at EXCEPT ![l] = "idle"]
          /\ UNCHANGED carry
  /\ seen' = [seen EXCEPT ![l] = IF PushAlways THEN @ ELSE cur]
  /\ UNCHANGED <<cur, last, jobVars>>

(* Mutant: the unchanged-state guard looks at the first announcement only.  *)
KnownForever(l) == last # None

Known(l) == last = carry[l]

(* fireOnChange: unchanged since the last announcement ...                 *)
SkipKnown(l) ==
  /\ at[l] = "fire"
  /\ Known(l)
  /\ at' = [at EXCEPT ![l] = "idle"]
  /\ UNCHANGED <<cur, seen, carry, last, jobVars>>

(* ... or recorded as announced, and handed to a goroutine of its own.     *)
Announce(l, j) ==
  /\ at[l] = "fire"
  /\ ~Known(l)
  /\ job[j] = "free"
  /\ last' = carry[l]
  /\ job' = [job EXCEPT ![j] = "spawned"]
  /\ load' = [load EXCEPT ![j] = carry[l]]
  /\ at' = [at EXCEPT ![l] = "idle"]
  /\ UNCHANGED <<cur, seen, carry, inFlight>>
-----------------------------------------------------------------------------
(* Mutant: the limit is read before the counter is incremented.            *)
EnterUnchecked(j) ==
  /\ job[j] = "spawned"
  /\ inFlight' = inFlight + 1
  /\ job' = [job EXCEPT ![j] =
               IF inFlight > MaxInFlight THEN "over" ELSE "sending"]
  /\ UNCHANGED <<cur, loopVars, load>>

(* post: inFlight.Add(1) > webhookMaxInFlight.                             *)
Enter(j) ==
  /\ job[j] = "spawned"
  /\ inFlight' = inFlight + 1
  /\ job' = [job EXCEPT ![j] =
               IF inFlight + 1 > MaxInFlight THEN "over" ELSE "sending"]
  /\ UNCHANGED <<cur, loopVars, load>>

(* Mutant: a rejected delivery is not returned from, and sends after all.   *)
BackOutFallsThrough(j) ==
  /\ job[j] = "over"
  /\ inFlight' = inFlight - 1
  /\ job' = [job EXCEPT ![j] = "sending"]
  /\ UNCHANGED <<cur, loopVars, load>>

(* post: too many in flight; the announcement is dropped.                  *)
BackOut(j) ==
  /\ job[j] = "over"
  /\ inFlight' = inFlight - 1
  /\ job' = [job EXCEPT ![j] = "free"]
  /\ UNCHANGED <<cur, loopVars, load>>

(* Mutant: a payload that does not encode returns before the deferred       *)
(* decrement is registered.                                                *)
SettleLeak(j) ==
  /\ job[j] = "sending"
  /\ job' \in {[job EXCEPT ![j] = "settled"], [job EXCEPT ![j] = "free"]}
  /\ UNCHANGED <<cur, loopVars, load, inFlight>>

(* post: the payload does not encode, the URL makes no request, or the POST *)
(* is answered, fails, or runs into webhookTimeout.                        *)
Settle(j) ==
  /\ job[j] = "sending"
  /\ job' = [job EXCEPT ![j] = "settled"]
  /\ UNCHANGED <<cur, loopVars, load, inFlight>>

(* post: the deferred inFlight.Add(-1).                                    *)
Finish(j) ==
  /\ job[j] = "settled"
  /\ inFlight' = inFlight - 1
  /\ job' = [job EXCEPT ![j] = "free"]
  /\ UNCHANGED <<cur, loopVars, load>>
-----------------------------------------------------------------------------
LoopStep(l) ==
  \/ Start(l)
  \/ Tick(l)
  \/ Exit(l)
  \/ Sample(l)
  \/ SkipKnown(l)
  \/ \E j \in Job : Announce(l, j)

JobStep(j) == Enter(j) \/ BackOut(j) \/ Settle(j) \/ Finish(j)

Next ==
  \/ Refresh
  \/ \E l \in Loop : LoopStep(l)
  \/ \E j \in Job : JobStep(j)

(* Loops and delivery goroutines that can run do run, the ticker fires and *)
(* every POST ends within webhookTimeout.                                  *)
Fairness ==
  /\ \A l \in Loop :
       /\ WF_vars(Tick(l))
       /\ WF_vars(Sample(l))
       /\ WF_vars(SkipKnown(l))
       /\ WF_vars(\E j \in Job : Announce(l, j))
  /\ \A j \in Job : WF_vars(JobStep(j))

Spec == Init /\ [][Next]_vars /\ Fairness
-----------------------------------------------------------------------------
Counted == {j \in Job : job[j] \in {"over", "sending", "settled"}}
Sending == {j \in Job : job[j] = "sending"}

(***************************************************************************)
(* No slot leaks: the in-flight counter is the number of deliveries        *)
(* between their increment and their decrement, rejected ones included     *)
(* (webhook.go, post).                                                     *)
(***************************************************************************)
InFlightExact == inFlight = Cardinality(Counted)

(***************************************************************************)
(* However increments and rejections interleave, no more than              *)
(* webhookMaxInFlight deliveries talk to the receiver at a time            *)
(* (webhook.go:26-28).                                                     *)
(***************************************************************************)
BoundedDeliveries == Cardinality(Sending) <= MaxInFlight

(***************************************************************************)
(* When the health state stays put and a loop keeps running, the state     *)
(* last announced ends up being that state: "a fire happens when the       *)
(* overall status or the per-check fingerprint differs from the last       *)
(* announced state" (webhook.go:37-38).                                    *)
(***************************************************************************)
AnnouncedCatchesUp ==
  \A s \in State, l \in Loop :
    <>[](cur = s /\ at[l] \in {"sample", "fire", "idle"}) => <>[](last = s)
=============================================================================
