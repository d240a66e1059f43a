---------------------------- MODULE SSEPushProofs ----------------------------
(***************************************************************************)
(* Theorems about SSEPush for any number of pushers and clients, any       *)
(* health data and any configuration: type correctness, the exactness of   *)
(* the connection counter, how far the limit on connections can be         *)
(* exceeded, the safety halves of two liveness properties, and the step    *)
(* simulation of PusherLifecycle.                                          *)
(***************************************************************************)
EXTENDS SSEPush, FiniteSetTheorems, TLAPS

(***************************************************************************)
(* Type correctness is not inductive alone: that the decrement in Leave    *)
(* keeps the counter a natural number needs the counter to be exact, and   *)
(* every access to mine[c] needs a handler past Connect to hold a pusher.  *)
(***************************************************************************)
HoldsPusher == \A c \in Client : pc[c] # "idle" => mine[c] \in Pusher

IInv == TypeOK /\ HoldsPusher /\ ConnectionsExact

(* A handler that becomes a holder adds one to its pusher's holders.        *)
LEMMA HoldersAdd ==
  ASSUME IsFiniteSet(Client), NEW S, NEW T, NEW c \in Client,
         S \subseteq Client, T = S \cup {c}, c \notin S
  PROVE  Cardinality(T) = Cardinality(S) + 1
<1>1. IsFiniteSet(S) BY FS_Subset
<1>2. QED BY <1>1, FS_AddElement

(* A handler that stops holding a pusher takes one from its holders.        *)
LEMMA HoldersRemove ==
  ASSUME IsFiniteSet(Client), NEW S, NEW T, NEW c \in Client,
         S \subseteq Client, T = S \ {c}, c \in S
  PROVE  /\ Cardinality(T) = Cardinality(S) - 1
         /\ Cardinality(S) \in Nat /\ Cardinality(S) # 0
<1>1. IsFiniteSet(S) BY FS_Subset
<1>2. Cardinality(T) = Cardinality(S) - 1 BY <1>1, FS_RemoveElement
<1>3. Cardinality(S) \in Nat BY <1>1, FS_CardinalityType
<1>4. Cardinality(S) # 0 BY <1>1, FS_EmptySet
<1>5. QED BY <1>2, <1>3, <1>4

(* Steps that leave the handlers' control and the counter alone preserve    *)
(* the counting part of the invariant.                                     *)
LEMMA CountingStutter ==
  ASSUME HoldsPusher, ConnectionsExact, UNCHANGED <<pc, mine, conns>>
  PROVE  HoldsPusher' /\ ConnectionsExact'
BY DEF HoldsPusher, ConnectionsExact, Holders

(* So do steps of a handler that is a holder before and after, or neither. *)
LEMMA CountingSameHolders ==
  ASSUME TypeOK, HoldsPusher, ConnectionsExact, NEW c \in Client, NEW s,
         pc' = [pc EXCEPT ![c] = s],
         pc[c] # "idle",
         (s \in Counted) <=> (pc[c] \in Counted),
         UNCHANGED <<mine, conns>>
  PROVE  HoldsPusher' /\ ConnectionsExact'
<1>1. \A g \in Pusher : Holders(g)' = Holders(g) BY DEF Holders, TypeOK
<1>2. HoldsPusher' BY DEF HoldsPusher, TypeOK
<1>3. QED BY <1>1, <1>2 DEF ConnectionsExact

(* Deliver keeps every buffer a sequence of responses.                      *)
LEMMA DeliverType ==
  ASSUME TypeOK, NEW g \in Pusher, NEW event \in Response, Deliver(g, event)
  PROVE  chan' \in [Client -> Seq(Response)]
BY DEF Deliver, TypeOK

-----------------------------------------------------------------------------
LEMMA InitIInv == Init => IInv
<1> SUFFICES ASSUME Init PROVE IInv OBVIOUS
<1>1. TypeOK
  <2>1. <<>> \in Seq(Response) OBVIOUS
  <2>2. chan \in [Client -> Seq(Response)] BY <2>1 DEF Init
  <2>3. QED BY <2>2 DEF Init, TypeOK, LoopState, DownState, HandlerState
<1>2. HoldsPusher BY DEF Init, HoldsPusher
<1>3. \A g \in Pusher : Holders(g) = {} BY DEF Init, Holders, Counted
<1>4. ConnectionsExact BY <1>3, FS_EmptySet DEF Init, ConnectionsExact
<1>5. QED BY <1>1, <1>2, <1>4 DEF IInv

LEMMA NextIInv == IInv /\ [Next]_vars => IInv'
<1> SUFFICES ASSUME IInv, [Next]_vars PROVE IInv' OBVIOUS
<1> USE DEF IInv
<1>1. CASE UNCHANGED vars
  <2>1. TypeOK' BY <1>1 DEF vars, TypeOK
  <2>2. QED BY <1>1, <2>1, CountingStutter DEF vars
<1>2. CASE Refresh
  <2>1. TypeOK' BY <1>2 DEF Refresh, TypeOK, loopVars, clientVars
  <2>2. QED BY <1>2, <2>1, CountingStutter DEF Refresh, clientVars
<1>3. ASSUME NEW g \in Pusher, PusherStep(g) PROVE IInv'
  <2>1. CASE StartStore(g)
    <3>1. TypeOK' BY <2>1 DEF StartStore, TypeOK, LoopState, loopVars, clientVars
    <3>2. QED BY <2>1, <3>1, CountingStutter DEF StartStore, clientVars
  <2>2. CASE StartLaunch(g)
    <3>1. TypeOK' BY <2>2 DEF StartLaunch, TypeOK, LoopState, loopVars, clientVars
    <3>2. QED BY <2>2, <3>1, CountingStutter DEF StartLaunch, clientVars
  <2>3. CASE CallerCancel(g)
    <3>1. TypeOK' BY <2>3 DEF CallerCancel, TypeOK, loopVars, clientVars
    <3>2. QED BY <2>3, <3>1, CountingStutter DEF CallerCancel, clientVars
  <2>4. CASE Tick(g)
    <3>1. TypeOK' BY <2>4 DEF Tick, TypeOK, LoopState, loopVars, clientVars
    <3>2. QED BY <2>4, <3>1, CountingStutter DEF Tick, clientVars
  <2>5. CASE LoopExit(g)
    <3>1. TypeOK' BY <2>5 DEF LoopExit, TypeOK, LoopState, loopVars, clientVars
    <3>2. QED BY <2>5, <3>1, CountingStutter DEF LoopExit, clientVars
  <2>6. CASE Sample(g)
    <3> DEFINE f == PushAlways \/ Changed(g) \/ Reassert(g)
    <3>1. TicksAfter(g, f) \in Nat BY DEF TicksAfter, TypeOK
    <3>2. lastSeen' \in [Pusher -> Digest \cup {NoDigest}]
      BY <2>6 DEF Sample, TypeOK, Response
    <3>3. ticks' \in [Pusher -> Nat] BY <2>6, <3>1 DEF Sample, TypeOK
    <3>4. resp' \in [Pusher -> Response] BY <2>6 DEF Sample, TypeOK
    <3>5. loop' \in [Pusher -> LoopState] BY <2>6 DEF Sample, TypeOK, LoopState
    <3>6. TypeOK' BY <2>6, <3>2, <3>3, <3>4, <3>5 DEF Sample, TypeOK, clientVars
    <3>7. QED BY <2>6, <3>6, CountingStutter DEF Sample, clientVars
  <2>7. CASE Send(g)
    <3>1. [fp |-> resp[g].fp, src |-> cur.src] \in Response BY DEF TypeOK, Response
    <3>2. chan' \in [Client -> Seq(Response)] BY <2>7, <3>1, DeliverType DEF Send
    <3>3. TypeOK' BY <2>7, <3>2 DEF Send, TypeOK, LoopState, loopVars
    <3>4. QED BY <2>7, <3>3, CountingStutter DEF Send
  <2>8. CASE RenderFail(g)
    <3>1. TypeOK' BY <2>8 DEF RenderFail, TypeOK, LoopState, loopVars, clientVars
    <3>2. QED BY <2>8, <3>1, CountingStutter DEF RenderFail, clientVars
  <2>9. CASE ShutdownSwap(g)
    <3>1. TypeOK' BY <2>9 DEF ShutdownSwap, TypeOK, DownState, loopVars, clientVars
    <3>2. QED BY <2>9, <3>1, CountingStutter DEF ShutdownSwap, clientVars
  <2>10. CASE DrainEmpty(g)
    <3>1. TypeOK' BY <2>10 DEF DrainEmpty, TypeOK, DownState, loopVars, clientVars
    <3>2. QED BY <2>10, <3>1, CountingStutter DEF DrainEmpty, clientVars
  <2>11. CASE DrainDeadline(g)
    <3>1. TypeOK' BY <2>11 DEF DrainDeadline, TypeOK, DownState, loopVars, clientVars
    <3>2. QED BY <2>11, <3>1, CountingStutter DEF DrainDeadline, clientVars
  <2>12. CASE ShutdownClose(g)
    <3>1. TypeOK' BY <2>12 DEF ShutdownClose, TypeOK, DownState, loopVars, clientVars
    <3>2. QED BY <2>12, <3>1, CountingStutter DEF ShutdownClose, clientVars
  <2>13. CASE ShutdownCancel(g)
    <3>1. TypeOK' BY <2>13 DEF ShutdownCancel, TypeOK, DownState, loopVars, clientVars
    <3>2. QED BY <2>13, <3>1, CountingStutter DEF ShutdownCancel, clientVars
  <2>14. QED BY <1>3, <2>1, <2>2, <2>3, <2>4, <2>5, <2>6, <2>7, <2>8, <2>9,
                <2>10, <2>11, <2>12, <2>13 DEF PusherStep, LoopStep, ShutdownStep
<1>4. ASSUME NEW c \in Client, HandlerStep(c) PROVE IInv'
  <2>1. CASE Connect(c)
    <3>1. TypeOK' BY <2>1 DEF Connect, TypeOK, HandlerState, loopVars
    <3>2. HoldsPusher' BY <2>1 DEF Connect, TypeOK, HoldsPusher
    <3>3. \A g \in Pusher : Holders(g)' = Holders(g)
      BY <2>1 DEF Connect, TypeOK, Holders, Counted
    <3>4. QED BY <2>1, <3>1, <3>2, <3>3 DEF Connect, ConnectionsExact
  <2>2. CASE Admit(c)
    <3>1. TypeOK' BY <2>2 DEF Admit, TypeOK, HandlerState, loopVars
    <3>2. QED BY <2>2, <3>1, CountingSameHolders DEF Admit, Counted
  <2>3. CASE Count(c)
    <3>1. mine[c] \in Pusher BY <2>3 DEF Count, HoldsPusher
    <3>2. TypeOK' BY <2>3, <3>1 DEF Count, TypeOK, HandlerState, Counted, loopVars
    <3>3. HoldsPusher' BY <2>3 DEF Count, TypeOK, HoldsPusher
    <3>4. Holders(mine[c])' = Holders(mine[c]) \cup {c} /\ c \notin Holders(mine[c])
      BY <2>3 DEF Count, TypeOK, Holders, Counted
    <3>5. Cardinality(Holders(mine[c])') = Cardinality(Holders(mine[c])) + 1
      BY <3>4, HoldersAdd, ClientAssumption DEF Holders
    <3>6. \A g \in Pusher \ {mine[c]} : Holders(g)' = Holders(g)
      BY <2>3 DEF Count, TypeOK, Holders, Counted
    <3>7. ConnectionsExact'
      BY <2>3, <3>1, <3>5, <3>6 DEF Count, TypeOK, ConnectionsExact
    <3>8. QED BY <3>2, <3>3, <3>7
  <2>4. CASE InitialPatch(c)
    <3>1. TypeOK' BY <2>4 DEF InitialPatch, TypeOK, HandlerState, Counted, loopVars
    <3>2. QED BY <2>4, <3>1, CountingSameHolders DEF InitialPatch, Counted
  <2>5. CASE InitialRenderFail(c)
    <3>1. TypeOK' BY <2>5 DEF InitialRenderFail, TypeOK, HandlerState, Counted, loopVars
    <3>2. QED BY <2>5, <3>1, CountingSameHolders DEF InitialRenderFail, Counted
  <2>6. CASE Subscribe(c)
    <3>1. TypeOK' BY <2>6 DEF Subscribe, TypeOK, HandlerState, Counted, loopVars
    <3>2. QED BY <2>6, <3>1, CountingSameHolders DEF Subscribe, Counted
  <2>7. CASE Forward(c)
    <3>1. Head(chan[c]) \in Response /\ Tail(chan[c]) \in Seq(Response)
      BY <2>7 DEF Forward, TypeOK
    <3>2. TypeOK' BY <2>7, <3>1 DEF Forward, TypeOK, loopVars
    <3>3. QED BY <2>7, <3>2, CountingStutter DEF Forward
  <2>8. ASSUME pc[c] \in {"first", "stream"}, Unsubscribe(c) PROVE IInv'
    <3>1. TypeOK' BY <2>8 DEF Unsubscribe, TypeOK, HandlerState, Counted, loopVars
    <3>2. QED BY <2>8, <3>1, CountingSameHolders DEF Unsubscribe, Counted
  <2>9. CASE ClientGone(c) BY <2>8, <2>9 DEF ClientGone
  <2>10. CASE ChannelClosed(c) BY <2>8, <2>10 DEF ChannelClosed
  <2>11. CASE Leave(c)
    <3>1. mine[c] \in Pusher BY <2>11 DEF Leave, HoldsPusher
    <3>2. HoldsPusher' BY <2>11 DEF Leave, TypeOK, HoldsPusher
    <3>3. Holders(mine[c])' = Holders(mine[c]) \ {c} /\ c \in Holders(mine[c])
      BY <2>11 DEF Leave, TypeOK, Holders, Counted
    <3>4. /\ Cardinality(Holders(mine[c])') = Cardinality(Holders(mine[c])) - 1
          /\ Cardinality(Holders(mine[c])) \in Nat
          /\ Cardinality(Holders(mine[c])) # 0
      BY <3>3, HoldersRemove, ClientAssumption DEF Holders
    <3>5. conns[mine[c]] \in Nat \ {0} BY <3>1, <3>4 DEF ConnectionsExact
    <3>6. TypeOK' BY <2>11, <3>1, <3>5 DEF Leave, TypeOK, HandlerState, loopVars
    <3>7. \A g \in Pusher \ {mine[c]} : Holders(g)' = Holders(g)
      BY <2>11 DEF Leave, TypeOK, Holders, Counted
    <3>8. ConnectionsExact'
      BY <2>11, <3>1, <3>4, <3>7 DEF Leave, TypeOK, ConnectionsExact
    <3>9. QED BY <3>2, <3>6, <3>8
  <2>12. QED BY <1>4, <2>1, <2>2, <2>3, <2>4, <2>5, <2>6, <2>7, <2>9, <2>10,
                <2>11 DEF HandlerStep
<1>5. QED BY <1>1, <1>2, <1>3, <1>4 DEF Next

(***************************************************************************)
(* Every variable of the push machinery keeps its type; in particular the  *)
(* connection counter never goes negative (pusher.go, sseHandler).         *)
(***************************************************************************)
THEOREM TypeCorrect == Spec => []TypeOK
<1>1. IInv => TypeOK BY DEF IInv
<1>2. QED BY <1>1, InitIInv, NextIInv, PTL DEF Spec

(***************************************************************************)
(* In every reachable state `connections` counts exactly the handlers      *)
(* between their increment and their deferred decrement, for any number    *)
(* of clients, restarts and drains (pusher.go, sseHandler).                *)
(***************************************************************************)
THEOREM ConnectionsAreExact == Spec => []ConnectionsExact
<1>1. IInv => ConnectionsExact BY DEF IInv
<1>2. QED BY <1>1, InitIInv, NextIInv, PTL DEF Spec
-----------------------------------------------------------------------------
(***************************************************************************)
(* The limit.  conns alone is not inductive: what a handler between check  *)
(* and increment will add has to be counted already.                       *)
(***************************************************************************)
AtMostEntering(k) == \A g \in Pusher : Cardinality(Entering(g)) <= k
LimitPlus(k) == MaxConns > 0 => \A g \in Pusher : conns[g] <= MaxConns + k - 1
Committed(k) ==
  MaxConns > 0 =>
    \A g \in Pusher : conns[g] + Cardinality(Entering(g)) <= MaxConns + k - 1

(* The number of handlers between check and increment is a number.          *)
LEMMA EnteringFinite ==
  \A g \in Pusher : IsFiniteSet(Entering(g)) /\ Cardinality(Entering(g)) \in Nat
<1> SUFFICES ASSUME NEW g \in Pusher
             PROVE  IsFiniteSet(Entering(g)) /\ Cardinality(Entering(g)) \in Nat
  OBVIOUS
<1>1. Entering(g) \subseteq Client BY DEF Entering
<1>2. QED BY <1>1, ClientAssumption, FS_Subset, FS_CardinalityType

(* A step that moves no handler into or out of that gap, and raises no      *)
(* counter, keeps the commitment.                                          *)
LEMMA CommittedKept ==
  ASSUME TypeOK, TypeOK', NEW k \in Nat, Committed(k),
         \A g \in Pusher : Entering(g)' = Entering(g) /\ conns'[g] <= conns[g]
  PROVE  Committed(k)'
<1> SUFFICES ASSUME MaxConns > 0, NEW g \in Pusher
             PROVE  (conns[g] + Cardinality(Entering(g)) <= MaxConns + k - 1)'
  BY DEF Committed
<1>1. Entering(g)' = Entering(g) /\ conns'[g] <= conns[g] OBVIOUS
<1>2. conns[g] \in Nat /\ conns'[g] \in Nat BY DEF TypeOK
<1>3. Cardinality(Entering(g)) \in Nat BY EnteringFinite
<1>4. conns[g] + Cardinality(Entering(g)) <= MaxConns + k - 1 BY DEF Committed
<1>5. Cardinality(Entering(g)') = Cardinality(Entering(g)) BY <1>1
<1>6. QED BY <1>1, <1>2, <1>3, <1>4, <1>5, ConfigAssumption

LEMMA NextCommitted ==
  ASSUME NEW k \in Nat, IInv, IInv', Committed(k), [Next]_vars,
         AtMostEntering(k)'
  PROVE  Committed(k)'
<1>0. TypeOK /\ TypeOK' /\ HoldsPusher BY DEF IInv
<1>1. CASE UNCHANGED <<pc, mine, conns>>
  <2>1. \A g \in Pusher : Entering(g)' = Entering(g) /\ conns'[g] <= conns[g]
    BY <1>0, <1>1 DEF Entering, TypeOK
  <2>2. QED BY <1>0, <2>1, CommittedKept
<1>2. ASSUME NEW c \in Client, HandlerStep(c) PROVE Committed(k)'
  <2>1. ASSUME pc[c] # "admitted", NEW s, s # "admitted",
               pc' = [pc EXCEPT ![c] = s],
               \A d \in Client \ {c} : mine'[d] = mine[d],
               \A g \in Pusher : conns'[g] <= conns[g]
        PROVE  Committed(k)'
    <3>1. \A g \in Pusher : Entering(g)' = Entering(g)
      BY <1>0, <2>1 DEF Entering, TypeOK
    <3>2. QED BY <1>0, <2>1, <3>1, CommittedKept
  <2>2. ASSUME UNCHANGED conns PROVE \A g \in Pusher : conns'[g] <= conns[g]
    BY <1>0, <2>2 DEF TypeOK
  <2>3. CASE Connect(c) BY <1>0, <2>1, <2>2, <2>3 DEF Connect, TypeOK
  <2>4. CASE Admit(c)
    <3>1. CASE AtCapacity(mine[c]) BY <2>1, <2>2, <2>4, <3>1 DEF Admit
    <3>2. CASE ~AtCapacity(mine[c])
      <4> SUFFICES ASSUME MaxConns > 0, NEW g \in Pusher
                   PROVE  (conns[g] + Cardinality(Entering(g)) <= MaxConns + k - 1)'
        BY DEF Committed
      <4>1. CASE mine[c] = g
        <5>1. conns'[g] = conns[g] /\ conns[g] \in Nat
          BY <1>0, <2>4 DEF Admit, TypeOK
        <5>2. conns[g] < MaxConns
          BY <3>2, <4>1, <5>1, ConfigAssumption DEF AtCapacity
        <5>3. Cardinality(Entering(g)') <= k BY DEF AtMostEntering
        <5>4. IsFiniteSet(Entering(g)')
          <6>1. Entering(g)' \subseteq Client BY DEF Entering
          <6>2. QED BY <6>1, ClientAssumption, FS_Subset
        <5>5. Cardinality(Entering(g)') \in Nat BY <5>4, FS_CardinalityType
        <5>6. QED BY <5>1, <5>2, <5>3, <5>5, ConfigAssumption
      <4>2. CASE mine[c] # g
        <5>1. Entering(g)' = Entering(g) BY <1>0, <2>4, <4>2 DEF Admit, Entering, TypeOK
        <5>2. conns'[g] = conns[g] BY <2>4 DEF Admit
        <5>3. conns[g] + Cardinality(Entering(g)) <= MaxConns + k - 1
          BY DEF Committed
        <5>4. QED BY <5>1, <5>2, <5>3
      <4>3. QED BY <4>1, <4>2
    <3>3. QED BY <3>1, <3>2
  <2>5. CASE Count(c)
    <3> SUFFICES ASSUME MaxConns > 0, NEW g \in Pusher
                 PROVE  (conns[g] + Cardinality(Entering(g)) <= MaxConns + k - 1)'
      BY DEF Committed
    <3>1. conns[g] + Cardinality(Entering(g)) <= MaxConns + k - 1 BY DEF Committed
    <3>2. CASE mine[c] = g
      <4>1. Entering(g)' = Entering(g) \ {c} /\ c \in Entering(g)
        BY <1>0, <2>5, <3>2 DEF Count, Entering, TypeOK
      <4>2. Cardinality(Entering(g)') = Cardinality(Entering(g)) - 1
        BY <4>1, EnteringFinite, FS_RemoveElement
      <4>3. conns'[g] = conns[g] + 1 /\ conns[g] \in Nat
        BY <1>0, <2>5, <3>2 DEF Count, TypeOK
      <4>4. Cardinality(Entering(g)) \in Nat BY EnteringFinite
      <4>5. QED BY <3>1, <4>2, <4>3, <4>4, ConfigAssumption
    <3>3. CASE mine[c] # g
      <4>1. Entering(g)' = Entering(g) BY <1>0, <2>5, <3>3 DEF Count, Entering, TypeOK
      <4>2. conns'[g] = conns[g] BY <1>0, <2>5, <3>3 DEF Count, TypeOK
      <4>3. QED BY <3>1, <4>1, <4>2
    <3>4. QED BY <3>2, <3>3
  <2>6. CASE InitialPatch(c) BY <2>1, <2>2, <2>6 DEF InitialPatch
  <2>7. CASE InitialRenderFail(c) BY <2>1, <2>2, <2>7 DEF InitialRenderFail
  <2>8. CASE Subscribe(c) BY <2>1, <2>2, <2>8 DEF Subscribe
  <2>9. CASE Forward(c) BY <1>1, <2>9 DEF Forward
  <2>10. CASE ClientGone(c) BY <2>1, <2>2, <2>10 DEF ClientGone, Unsubscribe
  <2>11. CASE ChannelClosed(c) BY <2>1, <2>2, <2>11 DEF ChannelClosed, Unsubscribe
  <2>12. CASE Leave(c)
    <3>1. mine[c] \in Pusher /\ conns[mine[c]] \in Nat /\ conns'[mine[c]] = conns[mine[c]] - 1
      BY <1>0, <2>12 DEF Leave, HoldsPusher, TypeOK
    <3>2. \A g \in Pusher : conns'[g] <= conns[g]
      BY <1>0, <2>12, <3>1 DEF Leave, TypeOK
    <3>3. QED BY <2>1, <2>12, <3>2 DEF Leave
  <2>13. QED BY <1>2, <2>3, <2>4, <2>5, <2>6, <2>7, <2>8, <2>9, <2>10, <2>11,
                <2>12 DEF HandlerStep
<1>3. ASSUME NEW g \in Pusher, PusherStep(g) PROVE UNCHANGED <<pc, mine, conns>>
  BY <1>3 DEF PusherStep, LoopStep, ShutdownStep, StartStore, StartLaunch,
     CallerCancel, Tick, LoopExit, Sample, Send, RenderFail, ShutdownSwap,
     DrainEmpty, DrainDeadline, ShutdownClose, ShutdownCancel, clientVars
<1>4. CASE Next
  BY <1>1, <1>2, <1>3, <1>4 DEF Next, Refresh, clientVars
<1>5. QED BY <1>1, <1>4 DEF vars

(* Fairness plays no part in it, so that what only steps like SSEPush may   *)
(* use it too.                                                             *)
LEMMA StepsKeepOvershoot == Init /\ [][Next]_vars => OvershootBounded
<1>1. Cardinality(Client) \in Nat BY ClientAssumption, FS_CardinalityType
<1>2. ASSUME NEW k \in 1 .. Cardinality(Client)
      PROVE  Init /\ [][Next]_vars /\ []AtMostEntering(k) => []LimitPlus(k)
  <2>1. k \in Nat /\ k >= 1 BY <1>1
  <2>2. Init => Committed(k)
    <3> SUFFICES ASSUME Init, MaxConns > 0, NEW g \in Pusher
                 PROVE  conns[g] + Cardinality(Entering(g)) <= MaxConns + k - 1
      BY DEF Committed
    <3>1. Entering(g) = {} /\ conns[g] = 0 BY DEF Init, Entering
    <3>2. Cardinality(Entering(g)) = 0 BY <3>1, FS_EmptySet
    <3>3. QED BY <2>1, <3>1, <3>2, ConfigAssumption
  <2>3. IInv /\ IInv' /\ Committed(k) /\ [Next]_vars /\ AtMostEntering(k)'
          => Committed(k)'
    BY <2>1, NextCommitted
  <2>4. IInv /\ Committed(k) => LimitPlus(k)
    <3> SUFFICES ASSUME IInv, Committed(k), MaxConns > 0, NEW g \in Pusher
                 PROVE  conns[g] <= MaxConns + k - 1
      BY DEF LimitPlus
    <3>1. conns[g] + Cardinality(Entering(g)) <= MaxConns + k - 1 BY DEF Committed
    <3>2. Cardinality(Entering(g)) \in Nat BY EnteringFinite
    <3>3. conns[g] \in Nat BY DEF IInv, TypeOK
    <3>4. QED BY <2>1, <3>1, <3>2, <3>3, ConfigAssumption
  <2>5. QED BY <2>2, <2>3, <2>4, InitIInv, NextIInv, PTL
<1>3. QED BY <1>2 DEF OvershootBounded, AtMostEntering, LimitPlus

(***************************************************************************)
(* For any number of clients, pushers and restarts, and however often      *)
(* handlers race through the capacity check: the limit is exceeded by      *)
(* fewer connections than ever were between check and increment together   *)
(* (pusher.go, sseHandler and atCapacity).                                 *)
(***************************************************************************)
THEOREM OvershootIsBounded == Spec => OvershootBounded
BY StepsKeepOvershoot, PTL DEF Spec
-----------------------------------------------------------------------------
(* Change detection stays silent for fewer than TTL ticks.                  *)
SilenceBounded == TTL > 0 => \A g \in Pusher : ticks[g] < TTL

(***************************************************************************)
(* With WithPushOnChangeTTL the loop re-asserts its response at the TTL-th *)
(* tick at the latest: the safety half of Converges, for every TTL, mode   *)
(* and number of pushers (pusher.go, shouldBroadcast).                     *)
(***************************************************************************)
THEOREM SilenceIsBounded == Spec => []SilenceBounded
<1>1. Init => SilenceBounded BY ConfigAssumption DEF Init, SilenceBounded
<1>2. IInv /\ SilenceBounded /\ [Next]_vars => SilenceBounded'
  <2> SUFFICES ASSUME IInv, SilenceBounded, [Next]_vars, TTL > 0
               PROVE  \A g \in Pusher : ticks'[g] < TTL
    BY DEF SilenceBounded
  <2>1. ticks \in [Pusher -> Nat] /\ \A g \in Pusher : ticks[g] < TTL
    BY DEF IInv, TypeOK, SilenceBounded
  <2>2. ASSUME NEW g \in Pusher, Sample(g) PROVE \A h \in Pusher : ticks'[h] < TTL
    <3> DEFINE f == PushAlways \/ Changed(g) \/ Reassert(g)
    <3>1. TicksAfter(g, f) < TTL
      BY <2>1, ConfigAssumption DEF TicksAfter, Reassert
    <3>2. ticks' = ticks \/ ticks' = [ticks EXCEPT ![g] = TicksAfter(g, f)]
      BY <2>2 DEF Sample
    <3>3. QED BY <2>1, <3>1, <3>2
  <2>3. CASE UNCHANGED ticks BY <2>1, <2>3
  <2>4. ASSUME NEW g \in Pusher, PusherStep(g), ~Sample(g) PROVE UNCHANGED ticks
    BY <2>4 DEF PusherStep, LoopStep, ShutdownStep, StartStore, StartLaunch,
       CallerCancel, Tick, LoopExit, Send, RenderFail, ShutdownSwap,
       DrainEmpty, DrainDeadline, ShutdownClose, ShutdownCancel, loopVars
  <2>5. ASSUME NEW c \in Client, HandlerStep(c) PROVE UNCHANGED ticks
    BY <2>5 DEF HandlerStep, Connect, Admit, Count, InitialPatch,
       InitialRenderFail, Subscribe, Forward, ClientGone, ChannelClosed,
       Unsubscribe, Leave, loopVars
  <2>6. CASE Next BY <2>2, <2>3, <2>4, <2>5, <2>6 DEF Next, Refresh, loopVars
  <2>7. QED BY <2>3, <2>6 DEF vars
<1>3. QED BY <1>1, <1>2, InitIInv, NextIInv, PTL DEF Spec
-----------------------------------------------------------------------------
(* How many stages a handler still has to go through.                      *)
StagesLeft(s) ==
  CASE s = "idle" -> 0
    [] s = "leave" -> 1
    [] s = "stream" -> 2
    [] s = "subscribe" -> 3
    [] s = "first" -> 4
    [] s = "admitted" -> 5
    [] s = "loaded" -> 6

(***************************************************************************)
(* A handler under way on a closed pusher only winds down: the pusher      *)
(* stays closed and the handler's, and whatever other goroutines do, the   *)
(* handler stays where it is, comes closer to its end, or forwards one of  *)
(* the events it still has buffered; it gets no new ones.                  *)
(***************************************************************************)
WindsDown ==
  \A c \in Client :
    pc[c] # "idle" /\ closed[mine[c]] =>
      /\ mine'[c] = mine[c] /\ closed'[mine[c]]
      /\ \/ pc'[c] = pc[c] /\ chan'[c] = chan[c]
         \/ StagesLeft(pc'[c]) < StagesLeft(pc[c])
         \/ pc'[c] = pc[c] /\ chan[c] # <<>> /\ chan'[c] = Tail(chan[c])

(***************************************************************************)
(* The measure behind ShutdownEndsStreams: stages left, then buffered      *)
(* events, never rises once the broadcaster is closed, so that only a      *)
(* handler that stops running could stay (pusher.go, sseHandler).          *)
(***************************************************************************)
THEOREM HandlersWindDown == Spec => [][WindsDown]_vars
<1>1. IInv /\ [Next]_vars => [WindsDown]_vars
  <2> SUFFICES ASSUME IInv, Next, NEW c \in Client, pc[c] # "idle", closed[mine[c]]
               PROVE  /\ mine'[c] = mine[c] /\ closed'[mine[c]]
                      /\ \/ pc'[c] = pc[c] /\ chan'[c] = chan[c]
                         \/ StagesLeft(pc'[c]) < StagesLeft(pc[c])
                         \/ pc'[c] = pc[c] /\ chan[c] # <<>> /\ chan'[c] = Tail(chan[c])
    BY DEF WindsDown
  <2>1. /\ TypeOK /\ mine[c] \in Pusher BY DEF IInv, HoldsPusher
  <2> DEFINE Still == pc'[c] = pc[c] /\ chan'[c] = chan[c] /\ mine'[c] = mine[c]
             Open == closed'[mine[c]]
  <2>2. CASE Refresh BY <2>2 DEF Refresh, clientVars
  <2>3. ASSUME NEW g \in Pusher, PusherStep(g) PROVE Still /\ Open
    <3>1. CASE Send(g)
      <4>1. c \in Subscribers(g) => closed[g] BY DEF Subscribers
      <4>2. QED BY <2>1, <3>1, <4>1 DEF Send, Deliver
    <3>2. CASE LoopExit(g) \/ ShutdownClose(g)
      BY <2>1, <3>2 DEF LoopExit, ShutdownClose, TypeOK, clientVars
    <3>3. QED
      BY <2>3, <3>1, <3>2
         DEF PusherStep, LoopStep, ShutdownStep, StartStore, StartLaunch,
             CallerCancel, Tick, Sample, RenderFail, ShutdownSwap, DrainEmpty,
             DrainDeadline, ShutdownCancel, clientVars
  <2>4. ASSUME NEW d \in Client, d # c, HandlerStep(d) PROVE Still /\ Open
    BY <2>1, <2>4
       DEF HandlerStep, Connect, Admit, Count, InitialPatch, InitialRenderFail,
           Subscribe, Forward, ClientGone, ChannelClosed, Unsubscribe, Leave, TypeOK
  <2>5. CASE Forward(c)
    BY <2>1, <2>5 DEF Forward, TypeOK
  <2>6. CASE HandlerStep(c) /\ ~Forward(c)
    <3>1. UNCHANGED <<mine, closed>>
      BY <2>6 DEF HandlerStep, Connect, Admit, Count, InitialPatch,
         InitialRenderFail, Subscribe, ClientGone, ChannelClosed, Unsubscribe, Leave
    <3>2. StagesLeft(pc'[c]) < StagesLeft(pc[c])
      BY <2>1, <2>6
         DEF HandlerStep, Connect, Admit, Count, InitialPatch, InitialRenderFail,
             Subscribe, ClientGone, ChannelClosed, Unsubscribe, Leave, TypeOK,
             StagesLeft
    <3>3. QED BY <3>1, <3>2
  <2>7. QED BY <2>2, <2>3, <2>4, <2>5, <2>6 DEF Next
<1>2. QED BY <1>1, InitIInv, NextIInv, PTL DEF Spec
-----------------------------------------------------------------------------
(* Every step of a pusher is a step of PusherLifecycle or leaves its        *)
(* (mapped) variables alone; so is every step of a handler or the probe.   *)
LEMMA LifecycleSimulation ==
  TypeOK /\ [Next]_vars => [Lifecycle!Next]_(Lifecycle!lifecycleVars)
<1> USE DEF Lifecycle!lifecycleVars, AbstractLoop, AbstractDown
<1> SUFFICES ASSUME TypeOK, [Next]_vars
             PROVE  Lifecycle!Next \/ UNCHANGED Lifecycle!lifecycleVars
  OBVIOUS
<1>1. CASE UNCHANGED vars BY <1>1 DEF vars
<1>2. CASE Refresh BY <1>2 DEF Refresh
<1>3. ASSUME NEW g \in Pusher, PusherStep(g)
      PROVE  Lifecycle!LifecycleStep(g) \/ UNCHANGED Lifecycle!lifecycleVars
  <2> USE DEF TypeOK, LoopState, DownState, Lifecycle!LifecycleStep
  <2>1. CASE StartStore(g) BY <2>1 DEF StartStore, Lifecycle!StartStore
  <2>2. CASE StartLaunch(g) BY <2>2 DEF StartLaunch, Lifecycle!StartLaunch
  <2>3. CASE CallerCancel(g) BY <2>3 DEF CallerCancel, Lifecycle!CallerCancel
  <2>4. CASE Tick(g) BY <2>4 DEF Tick
  <2>5. CASE LoopExit(g) BY <2>5 DEF LoopExit, Lifecycle!LoopExit
  <2>6. CASE Sample(g) BY <2>6 DEF Sample
  <2>7. CASE Send(g) BY <2>7 DEF Send
  <2>8. CASE RenderFail(g) BY <2>8 DEF RenderFail
  <2>9. CASE ShutdownSwap(g) BY <2>9 DEF ShutdownSwap, Lifecycle!ShutdownSwap
  <2>10. CASE DrainEmpty(g) BY <2>10 DEF DrainEmpty
  <2>11. CASE DrainDeadline(g) BY <2>11 DEF DrainDeadline
  <2>12. CASE ShutdownClose(g) BY <2>12 DEF ShutdownClose, Lifecycle!ShutdownClose
  <2>13. CASE ShutdownCancel(g)
    BY <2>13 DEF ShutdownCancel, Lifecycle!ShutdownCancel
  <2>14. QED BY <1>3, <2>1, <2>2, <2>3, <2>4, <2>5, <2>6, <2>7, <2>8, <2>9,
                <2>10, <2>11, <2>12, <2>13 DEF PusherStep, LoopStep, ShutdownStep
<1>4. ASSUME NEW c \in Client, HandlerStep(c)
      PROVE  UNCHANGED Lifecycle!lifecycleVars
  BY <1>4 DEF HandlerStep, Connect, Admit, Count, InitialPatch,
     InitialRenderFail, Subscribe, Forward, ClientGone, ChannelClosed,
     Unsubscribe, Leave
<1>5. QED BY <1>1, <1>2, <1>3, <1>4 DEF Next, Lifecycle!Next

(***************************************************************************)
(* Whatever clients, patches and drain polling do, the Start and Shutdown  *)
(* calls and the loops move only as PusherLifecycle allows (dashboard.go,  *)
(* Start and Shutdown; pusher.go, start).                                  *)
(***************************************************************************)
THEOREM RefinesLifecycle == Spec => LifecycleSteps
<1>1. Init => Lifecycle!Init
  BY DEF Init, Lifecycle!Init, AbstractLoop, AbstractDown
<1>2. QED BY <1>1, TypeCorrect, LifecycleSimulation, PTL DEF Spec, LifecycleSteps
-----------------------------------------------------------------------------
(***************************************************************************)
(* What PusherLifecycle promises of the pointer and of the broadcasters    *)
(* needs, to be inductive, that no Shutdown touches a pusher not yet       *)
(* created.                                                                *)
(***************************************************************************)
UnbornUntouched == \A g \in Pusher : AbstractLoop[g] = "unborn" => AbstractDown[g] = "no"

LifecycleInv ==
  Lifecycle!TypeOK /\ UnbornUntouched /\ PublishedNotShutDown /\ ClosedHasCause

LEMMA LifecycleKept ==
  LifecycleInv /\ [Lifecycle!Next]_(Lifecycle!lifecycleVars) => LifecycleInv'
<1> SUFFICES ASSUME LifecycleInv, [Lifecycle!Next]_(Lifecycle!lifecycleVars)
             PROVE  LifecycleInv'
  OBVIOUS
<1> USE PusherAssumption
    DEF LifecycleInv, Lifecycle!TypeOK, UnbornUntouched, PublishedNotShutDown,
        ClosedHasCause, Lifecycle!PublishedNotShutDown, Lifecycle!ClosedHasCause,
        Lifecycle!LoopState, Lifecycle!DownState
<1>1. CASE UNCHANGED Lifecycle!lifecycleVars BY <1>1 DEF Lifecycle!lifecycleVars
<1>2. ASSUME NEW g \in Pusher, Lifecycle!LifecycleStep(g) PROVE LifecycleInv'
  <2>1. CASE Lifecycle!StartStore(g) BY <2>1 DEF Lifecycle!StartStore
  <2>2. CASE Lifecycle!StartLaunch(g) BY <2>2 DEF Lifecycle!StartLaunch
  <2>3. CASE Lifecycle!CallerCancel(g) BY <2>3 DEF Lifecycle!CallerCancel
  <2>4. CASE Lifecycle!LoopExit(g) BY <2>4 DEF Lifecycle!LoopExit
  <2>5. CASE Lifecycle!ShutdownSwap(g) BY <2>5 DEF Lifecycle!ShutdownSwap
  <2>6. CASE Lifecycle!ShutdownClose(g) BY <2>6 DEF Lifecycle!ShutdownClose
  <2>7. CASE Lifecycle!ShutdownCancel(g) BY <2>7 DEF Lifecycle!ShutdownCancel
  <2>8. QED BY <1>2, <2>1, <2>2, <2>3, <2>4, <2>5, <2>6, <2>7
            DEF Lifecycle!LifecycleStep
<1>3. QED BY <1>1, <1>2 DEF Lifecycle!Next

LEMMA LifecycleHolds == Spec => []LifecycleInv
<1>1. Init => Lifecycle!Init
  BY DEF Init, Lifecycle!Init, AbstractLoop, AbstractDown
<1>2. Lifecycle!Init => LifecycleInv
  BY PusherAssumption
     DEF Lifecycle!Init, LifecycleInv, Lifecycle!TypeOK, UnbornUntouched,
         PublishedNotShutDown, ClosedHasCause, Lifecycle!PublishedNotShutDown,
         Lifecycle!ClosedHasCause, Lifecycle!LoopState, Lifecycle!DownState
<1>3. QED
  BY <1>1, <1>2, TypeCorrect, LifecycleSimulation, LifecycleKept, PTL DEF Spec

(***************************************************************************)
(* With any clients, drains and restarts, no overlap of Start and Shutdown *)
(* leaves a shut-down pusher in the pointer that SSE handlers load         *)
(* (dashboard.go, Start and Shutdown).                                     *)
(***************************************************************************)
THEOREM NoShutDownPusherPublished == Spec => []PublishedNotShutDown
<1>1. LifecycleInv => PublishedNotShutDown BY DEF LifecycleInv
<1>2. QED BY <1>1, LifecycleHolds, PTL

(***************************************************************************)
(* With any clients, drains and restarts, a broadcaster is closed only     *)
(* after its context is done or its Shutdown has finished draining         *)
(* (dashboard.go, Shutdown; pusher.go, start).                             *)
(***************************************************************************)
THEOREM ClosesHaveACause == Spec => []ClosedHasCause
<1>1. LifecycleInv => ClosedHasCause BY DEF LifecycleInv
<1>2. QED BY <1>1, LifecycleHolds, PTL
=============================================================================
