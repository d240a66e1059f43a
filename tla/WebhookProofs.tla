---------------------------- MODULE WebhookProofs ----------------------------
(***************************************************************************)
(* Proofs about Webhook for any number of loops and deliveries, any limit  *)
(* and either push mode.                                                   *)
(***************************************************************************)
EXTENDS Webhook, FiniteSetTheorems, TLAPS

(* Types, with the counter's left to InFlightExact.                        *)
JobsTyped == job \in [Job -> JobState] /\ inFlight \in Int

IInv == JobsTyped /\ InFlightExact /\ BoundedDeliveries

LEMMA JobSetsFinite ==
  /\ IsFiniteSet(Counted) /\ Cardinality(Counted) \in Nat
  /\ IsFiniteSet(Sending) /\ Cardinality(Sending) \in Nat
  <1>1. Counted \subseteq Job /\ Sending \subseteq Job
    BY DEF Counted, Sending
  <1> QED BY <1>1, FS_Subset, FS_CardinalityType, WebhookAssumption

(* Fewer send than are counted.                                            *)
LEMMA SendingCounted == Cardinality(Sending) <= Cardinality(Counted)
  <1>1. Sending \subseteq Counted
    BY DEF Sending, Counted
  <1> QED BY <1>1, JobSetsFinite, FS_Subset

LEMMA InitIInv == Init => IInv
  <1> SUFFICES ASSUME Init PROVE IInv
    OBVIOUS
  <1>1. JobsTyped /\ inFlight = 0
    BY DEF Init, JobsTyped, JobState
  <1>2. Counted = {} /\ Sending = {}
    BY DEF Init, Counted, Sending
  <1> QED BY <1>1, <1>2, FS_EmptySet, WebhookAssumption
          DEF IInv, InFlightExact, BoundedDeliveries

(* A step that leaves the counter, and who is counted or sends, alone.     *)
LEMMA Unmoved ==
  ASSUME IInv, job' \in [Job -> JobState], inFlight' = inFlight,
         Counted' = Counted, Sending' \subseteq Sending
  PROVE  IInv'
  <1>1. Cardinality(Sending') <= Cardinality(Sending)
    BY JobSetsFinite, FS_Subset
  <1>2. Cardinality(Sending') \in Nat
    BY JobSetsFinite, FS_Subset, FS_CardinalityType
  <1> QED BY <1>1, <1>2, JobSetsFinite, WebhookAssumption
          DEF IInv, JobsTyped, InFlightExact, BoundedDeliveries

LEMMA LoopKeeps ==
  ASSUME IInv, NEW l \in Loop, LoopStep(l)
  PROVE  IInv'
  <1> USE DEF IInv, JobsTyped, JobState
  <1>1. ASSUME NEW j \in Job, Announce(l, j)
        PROVE  IInv'
    <2>1. job' = [job EXCEPT ![j] = "spawned"] /\ job[j] = "free" /\ inFlight' = inFlight
      BY <1>1 DEF Announce
    <2>2. Counted' = Counted /\ Sending' = Sending
      BY <2>1 DEF Counted, Sending
    <2> QED BY <2>1, <2>2, Unmoved
  <1>2. CASE UNCHANGED jobVars
    <2>1. job' = job /\ inFlight' = inFlight
      BY <1>2 DEF jobVars
    <2>2. Counted' = Counted /\ Sending' = Sending
      BY <2>1 DEF Counted, Sending
    <2> QED BY <2>1, <2>2, Unmoved
  <1> QED BY <1>1, <1>2 DEF LoopStep, Start, Tick, Exit, Sample, SkipKnown

LEMMA EnterKeeps ==
  ASSUME IInv, NEW j \in Job, Enter(j)
  PROVE  IInv'
  <1> USE DEF IInv, JobsTyped, JobState
  <1>1. job[j] = "spawned" /\ inFlight' = inFlight + 1 /\ job' \in [Job -> JobState]
    BY DEF Enter
  <1>2. j \notin Counted /\ Counted' = Counted \cup {j}
    BY DEF Enter, Counted
  <1>3. Cardinality(Counted') = Cardinality(Counted) + 1
    BY <1>2, JobSetsFinite, FS_AddElement
  <1>4. InFlightExact'
    BY <1>1, <1>3 DEF InFlightExact
  <1>5. CASE inFlight + 1 > MaxInFlight
    <2>1. Sending' = Sending
      BY <1>5 DEF Enter, Sending
    <2> QED BY <1>1, <1>4, <2>1 DEF BoundedDeliveries
  <1>6. CASE inFlight + 1 <= MaxInFlight
    <2>1. j \notin Sending /\ Sending' = Sending \cup {j}
      BY <1>6, WebhookAssumption DEF Enter, Sending
    <2>2. Cardinality(Sending') = Cardinality(Sending) + 1
      BY <2>1, JobSetsFinite, FS_AddElement
    <2>3. Cardinality(Sending) <= inFlight
      BY SendingCounted DEF InFlightExact
    <2>4. BoundedDeliveries'
      BY <1>6, <2>2, <2>3, JobSetsFinite, WebhookAssumption DEF BoundedDeliveries
    <2> QED BY <1>1, <1>4, <2>4
  <1> QED BY <1>5, <1>6, WebhookAssumption

(* Uncounting a delivery that is not, or no longer, sending.               *)
LEMMA UncountKeeps ==
  ASSUME IInv, NEW j \in Job, job[j] \in {"over", "settled"},
         job' = [job EXCEPT ![j] = "free"], inFlight' = inFlight - 1
  PROVE  IInv'
  <1> USE DEF IInv, JobsTyped, JobState
  <1>1. j \in Counted /\ Counted' = Counted \ {j} /\ Sending' = Sending
    BY DEF Counted, Sending
  <1>2. Cardinality(Counted') = Cardinality(Counted) - 1
    BY <1>1, JobSetsFinite, FS_RemoveElement
  <1>3. job' \in [Job -> JobState] /\ inFlight' \in Int
    OBVIOUS
  <1> QED BY <1>1, <1>2, <1>3 DEF InFlightExact, BoundedDeliveries

LEMMA SettleKeeps ==
  ASSUME IInv, NEW j \in Job, Settle(j)
  PROVE  IInv'
  <1> USE DEF IInv, JobsTyped, JobState
  <1>1. job' \in [Job -> JobState] /\ inFlight' = inFlight
    BY DEF Settle
  <1>2. Counted' = Counted /\ Sending' \subseteq Sending
    BY DEF Settle, Counted, Sending
  <1> QED BY <1>1, <1>2, Unmoved

LEMMA NextIInv == IInv /\ [Next]_vars => IInv'
  <1> SUFFICES ASSUME IInv, [Next]_vars
               PROVE  IInv'
    OBVIOUS
  <1>1. CASE Refresh \/ UNCHANGED vars
    <2>1. job' = job /\ inFlight' = inFlight
      BY <1>1 DEF Refresh, vars, jobVars
    <2>2. Counted' = Counted /\ Sending' = Sending
      BY <2>1 DEF Counted, Sending
    <2> QED BY <2>1, <2>2, Unmoved DEF IInv, JobsTyped
  <1>2. ASSUME NEW l \in Loop, LoopStep(l)
        PROVE  IInv'
    BY <1>2, LoopKeeps
  <1>3. ASSUME NEW j \in Job, JobStep(j)
        PROVE  IInv'
    BY <1>3, EnterKeeps, UncountKeeps, SettleKeeps DEF JobStep, BackOut, Finish
  <1> QED BY <1>1, <1>2, <1>3 DEF Next

LEMMA IInvAlways == Spec => []IInv
  BY InitIInv, NextIInv, PTL DEF Spec

(***************************************************************************)
(* For every limit and any number of concurrent fires, the in-flight       *)
(* counter is exact: no path through post leaks a slot.                    *)
(***************************************************************************)
THEOREM NoSlotLeaks == Spec => []InFlightExact
  BY IInvAlways, PTL DEF IInv

(***************************************************************************)
(* For every limit and any number of concurrent fires, at most             *)
(* webhookMaxInFlight deliveries are talking to the receiver.              *)
(***************************************************************************)
THEOREM DeliveriesAreBounded == Spec => []BoundedDeliveries
  BY IInvAlways, PTL DEF IInv
-----------------------------------------------------------------------------
(* What the loops and the deliveries carry; the counter's type is the      *)
(* invariant's business.                                                   *)
Carried ==
  /\ cur \in State
  /\ at \in [Loop -> LoopState]
  /\ seen \in [Loop -> State \cup {None}]
  /\ carry \in [Loop -> State]
  /\ last \in State \cup {None}
  /\ load \in [Job -> State]

LEMMA InitCarried == Init => Carried
  BY DEF Init, Carried, LoopState

LEMMA NextCarried == Carried /\ [Next]_vars => Carried'
  <1> SUFFICES ASSUME Carried, [Next]_vars
               PROVE  Carried'
    OBVIOUS
  <1> USE DEF Carried, LoopState
  <1>1. CASE Refresh \/ UNCHANGED vars
    BY <1>1 DEF Refresh, vars, loopVars, jobVars
  <1>2. ASSUME NEW l \in Loop, LoopStep(l)
        PROVE  Carried'
    <2>1. CASE Start(l) \/ Tick(l) \/ Exit(l) \/ SkipKnown(l)
      BY <2>1 DEF Start, Tick, Exit, SkipKnown, jobVars
    <2>2. CASE Sample(l)
      BY <2>2 DEF Sample, jobVars
    <2>3. ASSUME NEW j \in Job, Announce(l, j)
          PROVE  Carried'
      BY <2>3 DEF Announce
    <2> QED BY <1>2, <2>1, <2>2, <2>3 DEF LoopStep
  <1>3. ASSUME NEW j \in Job, JobStep(j)
        PROVE  Carried'
    BY <1>3 DEF JobStep, Enter, BackOut, Settle, Finish, loopVars
  <1> QED BY <1>1, <1>2, <1>3 DEF Next

(***************************************************************************)
(* The loops, the notifier and the deliveries keep their types, and the    *)
(* in-flight counter never goes negative (webhook.go, post).               *)
(***************************************************************************)
THEOREM TypeCorrect == Spec => []TypeOK
  <1>1. IInv /\ Carried => TypeOK
    BY JobSetsFinite DEF IInv, JobsTyped, InFlightExact, Carried, TypeOK
  <1> QED BY <1>1, IInvAlways, InitCarried, NextCarried, PTL DEF Spec
-----------------------------------------------------------------------------
(* Loops take turns when Shutdown's caller waits for the old one to end.   *)
Alive(l) == at[l] \in {"sample", "fire", "idle"}
InTurn == \A l, m \in Loop : Alive(l) /\ Alive(m) => l = m

(* A loop that has finished a broadcast left the notifier with what it      *)
(* sampled last.                                                           *)
LastSample(l) == IF PushAlways THEN carry[l] ELSE seen[l]
UpToDate == \A l \in Loop : at[l] = "idle" => last = LastSample(l)

(* Change detection makes the two memories depend on each other: a loop    *)
(* that skips a sample relies on having announced it the first time.       *)
InStep ==
  \A l \in Loop :
    /\ at[l] = "unborn" => seen[l] = None
    /\ at[l] = "fire" /\ ~PushAlways => seen[l] = carry[l]
    /\ at[l] = "sample" /\ ~PushAlways => seen[l] \in {None, last}
    /\ at[l] = "idle" => last = LastSample(l) /\ last # None

LEMMA NextInStep ==
  ASSUME Carried, InTurn, InStep, [Next]_vars
  PROVE  InStep'
  <1> USE WebhookAssumption DEF Carried, LoopState, InStep, LastSample
  <1>1. CASE UNCHANGED loopVars
    BY <1>1 DEF loopVars
  <1>2. ASSUME NEW l \in Loop, LoopStep(l)
        PROVE  InStep'
    <2>1. CASE Start(l)
      BY <2>1 DEF Start
    <2>2. CASE Tick(l) \/ Exit(l)
      BY <2>2 DEF Tick, Exit
    <2>3. CASE Sample(l)
      BY <2>3 DEF Sample
    <2>4. CASE SkipKnown(l)
      BY <2>4 DEF SkipKnown, Known
    <2>5. ASSUME NEW j \in Job, Announce(l, j)
          PROVE  InStep'
      <3>1. \A m \in Loop \ {l} : at[m] \in {"unborn", "exited"} /\ at'[m] = at[m]
        BY <2>5 DEF Announce, InTurn, Alive
      <3>2. at'[l] = "idle" /\ last' = carry[l] /\ UNCHANGED <<seen, carry>>
        BY <2>5 DEF Announce
      <3>3. at[l] = "fire"
        BY <2>5 DEF Announce
      <3> QED BY <3>1, <3>2, <3>3
    <2> QED BY <1>2, <2>1, <2>2, <2>3, <2>4, <2>5 DEF LoopStep
  <1>3. ASSUME NEW j \in Job, JobStep(j)
        PROVE  UNCHANGED loopVars
    BY <1>3 DEF JobStep, Enter, BackOut, Settle, Finish
  <1> QED BY <1>1, <1>2, <1>3 DEF Next, Refresh, vars, loopVars

(***************************************************************************)
(* With loops that take turns, what was announced last is what the running *)
(* loop sampled last, whenever it waits for its ticker, however often the  *)
(* dashboard is restarted: the safety half of AnnouncedCatchesUp, and the  *)
(* one thing missing where a restart overlaps the old loop (webhook.go,    *)
(* fireOnChange).                                                          *)
(***************************************************************************)
THEOREM TurnsStayInStep == Spec => ([]InTurn => []UpToDate)
  <1>1. Init => InStep
    BY DEF Init, InStep
  <1>2. InStep => UpToDate
    BY DEF InStep, UpToDate
  <1>3. Carried /\ InTurn /\ InStep /\ [Next]_vars => InStep'
    BY NextInStep
  <1> QED BY <1>1, <1>2, <1>3, InitCarried, NextCarried, PTL DEF Spec
=============================================================================
