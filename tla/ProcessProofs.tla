---------------------------- MODULE ProcessProofs ----------------------------
(***************************************************************************)
(* Theorems about the two programs, for any environment, any number of     *)
(* browsers and any configuration of the dashboard: they use it only as    *)
(* SSEPush allows, so what is proved of SSEPush holds of them, and each    *)
(* way out of main leaves a dashboard that has been shut down.             *)
(***************************************************************************)
EXTENDS Process, SSEPushProofs

AllIdle == \A c \in Client : pc[c] = "idle"

(* What a Shutdown that has got so far has done.                           *)
ShutdownDid ==
  \A g \in Pusher :
    /\ down[g] \in {"cancelling", "done"} => closed[g]
    /\ down[g] = "done" => stop[g]

(***************************************************************************)
(* What the main goroutine's place says: past the wait, either the signal  *)
(* was seen and readiness turned, or the listener has failed; and what was *)
(* idle when the server was down stays idle, for its listener is closed.   *)
(***************************************************************************)
WhereMainIs ==
  /\ at \in {"hold", "dashboard", "server"} => ctxDone /\ marked
  /\ failed => at = "unwind"
  /\ at = "unwind" /\ ~failed =>
       /\ ctxDone /\ marked
       /\ listener = "closed"
       /\ ~forced => AllIdle

(* How the process ended.                                                  *)
HowItEnded ==
  /\ exit = "ok" => at = "unwind" /\ ~failed /\ DashboardStopped
  /\ exit = "listener" /\ program = "hub" => DashboardStopped

(* Before the configuration is accepted there is nothing to take down but  *)
(* the example's probe.                                                    *)
Untouched ==
  at \in {"probe", "config"} => push = NoPusher /\ listener = "none" /\ ~marked

ProcessInv ==
  /\ IInv /\ ProcessTypeOK /\ ShutdownDid
  /\ WhereMainIs /\ HowItEnded /\ Untouched /\ RefusalIsEarly
-----------------------------------------------------------------------------
(* A step of a program is, for the dashboard, a step of SSEPush or none.   *)
LEMMA StepsAreSSEPush == [ProcessNext]_allVars => [Next]_vars
<1> SUFFICES ASSUME [ProcessNext]_allVars PROVE [Next]_vars
  OBVIOUS
<1>1. CASE UNCHANGED allVars BY <1>1 DEF allVars
<1>2. CASE MainStep
  <2>1. CASE StartDashboard BY <2>1 DEF StartDashboard, Next, PusherStep
  <2>2. CASE LaunchLoop BY <2>2 DEF LaunchLoop, Next, PusherStep
  <2>3. CASE HubStopsDashboard \/ InjectorStopsDashboard
    BY <2>3 DEF HubStopsDashboard, InjectorStopsDashboard, Next, PusherStep,
       ShutdownStep
  <2>4. CASE UNCHANGED vars BY <2>4
  <2>5. QED BY <1>2, <2>1, <2>2, <2>3, <2>4 DEF MainStep, StartProbe, Configure,
           Refuse, HubGateOver, ExampleGateOver, Listen, GraceRefused,
           SeeSignal, SeeListenError, HoldOver, GoToServer, CloseListener,
           ServerIdle, GraceOver, Exit
<1>3. CASE ListenerOpens \/ ListenerFails \/ Signal
  BY <1>3 DEF ListenerOpens, ListenerFails, Signal
<1>4. CASE LoopTold BY <1>4 DEF LoopTold, Next, PusherStep
<1>5. CASE DashboardStep
  <2>1. CASE Refresh BY <2>1 DEF Next
  <2>2. ASSUME NEW g \in Pusher, LoopStep(g) \/ StoppingStep(g) PROVE Next
    BY <2>2 DEF Next, PusherStep, ShutdownStep, StoppingStep
  <2>3. ASSUME NEW c \in Client, ServedStep(c) PROVE Next
    BY <2>3 DEF Next, ServedStep
  <2>4. QED BY <1>5, <2>1, <2>2, <2>3 DEF DashboardStep
<1>6. QED BY <1>1, <1>2, <1>3, <1>4, <1>5 DEF ProcessNext

LEMMA InitProcess == ProcessInit => ProcessInv
<1> SUFFICES ASSUME ProcessInit PROVE ProcessInv OBVIOUS
<1>1. IInv BY InitIInv DEF ProcessInit
<1>2. ProcessTypeOK BY <1>1 DEF ProcessInit, ProcessTypeOK, Stage, IInv
<1>3. ShutdownDid BY DEF ProcessInit, Init, ShutdownDid
<1>4. WhereMainIs /\ HowItEnded BY DEF ProcessInit, WhereMainIs, HowItEnded
<1>5. Untouched /\ RefusalIsEarly
  BY DEF ProcessInit, Init, Untouched, RefusalIsEarly
<1>6. QED BY <1>1, <1>2, <1>3, <1>4, <1>5 DEF ProcessInv

LEMMA TypeStep ==
  ASSUME ProcessTypeOK, TypeOK', [ProcessNext]_allVars
  PROVE  ProcessTypeOK'
<1> USE DEF ProcessTypeOK, Stage, programVars
<1>1. CASE UNCHANGED allVars BY <1>1 DEF allVars
<1>2. CASE MainStep
  <2>1. CASE StartProbe \/ Configure \/ Refuse
    BY <2>1 DEF StartProbe, Configure, Refuse
  <2>2. CASE StartDashboard \/ LaunchLoop \/ HubStopsDashboard
               \/ InjectorStopsDashboard
    BY <2>2 DEF StartDashboard, LaunchLoop, HubStopsDashboard,
       InjectorStopsDashboard
  <2>3. CASE HubGateOver \/ ExampleGateOver \/ Listen
    BY <2>3 DEF HubGateOver, ExampleGateOver, Listen
  <2>4. CASE SeeSignal \/ SeeListenError \/ GraceRefused \/ HoldOver \/ GoToServer
    BY <2>4 DEF SeeSignal, SeeListenError, GraceRefused, HoldOver, GoToServer
  <2>5. CASE CloseListener \/ ServerIdle \/ GraceOver \/ Exit
    BY <2>5 DEF CloseListener, ServerIdle, GraceOver, Exit
  <2>6. QED BY <1>2, <2>1, <2>2, <2>3, <2>4, <2>5 DEF MainStep
<1>3. CASE ListenerOpens \/ ListenerFails \/ Signal \/ LoopTold \/ DashboardStep
  BY <1>3 DEF ListenerOpens, ListenerFails, Signal, LoopTold, DashboardStep
<1>4. QED BY <1>1, <1>2, <1>3 DEF ProcessNext

(* Only Shutdown's own steps move down; nothing reopens a broadcaster or    *)
(* revives a context.                                                      *)
LEMMA ShutdownDidStep ==
  ASSUME TypeOK, ShutdownDid, [Next]_vars
  PROVE  ShutdownDid'
<1> USE DEF ShutdownDid
<1>1. CASE UNCHANGED vars BY <1>1 DEF vars
<1>2. CASE Refresh BY <1>2 DEF Refresh
<1>3. ASSUME NEW g \in Pusher, PusherStep(g) PROVE ShutdownDid'
  <2> USE DEF TypeOK, DownState
  <2>1. CASE StartStore(g) \/ StartLaunch(g) \/ CallerCancel(g)
    BY <2>1 DEF StartStore, StartLaunch, CallerCancel
  <2>2. CASE LoopStep(g)
    BY <2>2 DEF LoopStep, Tick, LoopExit, Sample, Send, RenderFail
  <2>3. CASE ShutdownSwap(g) BY <2>3 DEF ShutdownSwap
  <2>4. CASE DrainEmpty(g) \/ DrainDeadline(g)
    BY <2>4 DEF DrainEmpty, DrainDeadline
  <2>5. CASE ShutdownClose(g) BY <2>5 DEF ShutdownClose
  <2>6. CASE ShutdownCancel(g) BY <2>6 DEF ShutdownCancel
  <2>7. QED BY <1>3, <2>1, <2>2, <2>3, <2>4, <2>5, <2>6 DEF PusherStep, ShutdownStep
<1>4. ASSUME NEW c \in Client, HandlerStep(c) PROVE ShutdownDid'
  BY <1>4 DEF HandlerStep, Connect, Admit, Count, InitialPatch,
     InitialRenderFail, Subscribe, Forward, ClientGone, ChannelClosed,
     Unsubscribe, Leave
<1>5. QED BY <1>1, <1>2, <1>3, <1>4 DEF Next

(* With the listener closed, idle handlers stay idle.                      *)
LEMMA IdleStays ==
  ASSUME AllIdle, listener = "closed", DashboardStep
  PROVE  AllIdle'
<1>1. CASE Refresh BY <1>1 DEF Refresh, AllIdle, clientVars
<1>2. ASSUME NEW g \in Pusher, LoopStep(g) \/ StoppingStep(g) PROVE AllIdle'
  BY <1>2 DEF AllIdle, LoopStep, StoppingStep, Tick, LoopExit, Sample, Send,
     RenderFail, DrainEmpty, DrainDeadline, ShutdownClose, ShutdownCancel,
     clientVars
<1>3. ASSUME NEW c \in Client, ServedStep(c) PROVE FALSE
  BY <1>3 DEF AllIdle, ServedStep
<1>4. QED BY <1>1, <1>2, <1>3 DEF DashboardStep

(* The process moves on only while it lives, so how it ended stays true;    *)
(* the steps of main are gone through one by one.                          *)
LEMMA MainInv ==
  ASSUME TypeOK, WhereMainIs, HowItEnded, [ProcessNext]_allVars
  PROVE  WhereMainIs' /\ HowItEnded'
<1>1. CASE UNCHANGED allVars
  BY <1>1 DEF allVars, programVars, vars, WhereMainIs, HowItEnded, AllIdle,
     DashboardStopped
<1>2. ASSUME exit = "no", MainStep PROVE WhereMainIs' /\ HowItEnded'
  <2> USE DEF WhereMainIs, HowItEnded
  <2>1. CASE StartProbe \/ Configure \/ Refuse
    BY <1>2, <2>1 DEF StartProbe, Configure, Refuse
  <2>2. CASE StartDashboard \/ LaunchLoop
    BY <1>2, <2>2 DEF StartDashboard, LaunchLoop
  <2>3. CASE HubGateOver \/ ExampleGateOver \/ Listen
    BY <1>2, <2>3 DEF HubGateOver, ExampleGateOver, Listen
  <2>4. CASE SeeSignal \/ SeeListenError
    BY <1>2, <2>4 DEF SeeSignal, SeeListenError
  <2>5. CASE GraceRefused BY <1>2, <2>5 DEF GraceRefused
  <2>6. CASE HoldOver
    <3>1. at' \in {"dashboard", "server"} BY <2>6 DEF HoldOver
    <3>2. ctxDone' /\ marked' /\ ~failed' /\ exit' = "no"
      BY <1>2, <2>6 DEF HoldOver
    <3>3. QED BY <3>1, <3>2
  <2>7. CASE GoToServer BY <1>2, <2>7 DEF GoToServer
  <2>8. CASE HubStopsDashboard \/ InjectorStopsDashboard
    BY <1>2, <2>8 DEF HubStopsDashboard, InjectorStopsDashboard, ShutdownSwap,
       programVars, AllIdle, clientVars
  <2>9. CASE CloseListener BY <1>2, <2>9 DEF CloseListener
  <2>10. CASE ServerIdle BY <1>2, <2>10 DEF ServerIdle, AllIdle, vars
  <2>11. CASE GraceOver BY <1>2, <2>11 DEF GraceOver
  <2>12. CASE Exit BY <1>2, <2>12 DEF Exit, AllIdle, DashboardStopped, vars
  <2>13. QED BY <1>2, <2>1, <2>2, <2>3, <2>4, <2>5, <2>6, <2>7, <2>8, <2>9,
                <2>10, <2>11, <2>12 DEF MainStep
<1>3. ASSUME exit = "no", ListenerOpens \/ ListenerFails \/ Signal
      PROVE  WhereMainIs' /\ HowItEnded'
  BY <1>3 DEF ListenerOpens, ListenerFails, Signal, WhereMainIs, HowItEnded,
     AllIdle, vars
<1>4. ASSUME exit = "no", LoopTold PROVE WhereMainIs' /\ HowItEnded'
  BY <1>4 DEF LoopTold, CallerCancel, programVars, WhereMainIs, HowItEnded,
     AllIdle, clientVars
<1>5. ASSUME exit = "no", DashboardStep PROVE WhereMainIs' /\ HowItEnded'
  <2>1. UNCHANGED programVars BY <1>5 DEF DashboardStep
  <2>2. QED BY <1>5, <2>1, IdleStays DEF programVars, WhereMainIs, HowItEnded
<1>6. QED BY <1>1, <1>2, <1>3, <1>4, <1>5 DEF ProcessNext

(* Nothing runs before the configuration is accepted, and what it accepted *)
(* does not change.                                                        *)
LEMMA EarlyStep ==
  ASSUME WhereMainIs, Untouched, RefusalIsEarly, [ProcessNext]_allVars
  PROVE  Untouched' /\ RefusalIsEarly'
<1>1. CASE UNCHANGED allVars
  BY <1>1 DEF allVars, programVars, vars, Untouched, RefusalIsEarly
<1>2. ASSUME exit = "no", MainStep PROVE Untouched' /\ RefusalIsEarly'
  <2> USE DEF Untouched, RefusalIsEarly
  <2>1. CASE Configure
    BY <1>2, <2>1 DEF Configure, Accepted, EnvParses, TransportParses,
       OptionsParse, RateLimitParses, WebhookParses, BasePathParses, UIParses,
       ParsesPositive, ParsesNonNegative, HubKnob, ExampleKnob, vars
  <2>2. CASE Refuse BY <1>2, <2>2 DEF Refuse, vars
  <2>3. CASE StartDashboard \/ LaunchLoop \/ HubStopsDashboard
               \/ InjectorStopsDashboard
    BY <1>2, <2>3 DEF StartDashboard, LaunchLoop, HubStopsDashboard,
       InjectorStopsDashboard, ShutdownSwap, programVars
  <2>4. CASE HubGateOver \/ ExampleGateOver \/ Listen
    BY <1>2, <2>4 DEF HubGateOver, ExampleGateOver, Listen
  <2>5. CASE SeeSignal \/ SeeListenError \/ GoToServer
    BY <1>2, <2>5 DEF SeeSignal, SeeListenError, GoToServer
  <2>6. CASE GraceRefused BY <1>2, <2>6 DEF GraceRefused,
       ParsesNonNegative, WhereMainIs, vars
  <2>7. CASE HoldOver BY <1>2, <2>7 DEF HoldOver
  <2>8. CASE CloseListener \/ ServerIdle \/ GraceOver
    BY <1>2, <2>8 DEF CloseListener, ServerIdle, GraceOver
  <2>9. CASE Exit BY <1>2, <2>9 DEF Exit
  <2>10. CASE StartProbe BY <1>2, <2>10 DEF StartProbe, vars
  <2>11. QED BY <1>2, <2>1, <2>2, <2>3, <2>4, <2>5, <2>6, <2>7, <2>8, <2>9,
               <2>10 DEF MainStep
<1>3. ASSUME exit = "no", ListenerOpens \/ ListenerFails \/ Signal
      PROVE  Untouched' /\ RefusalIsEarly'
  <2>1. CASE ListenerOpens
    BY <1>3, <2>1 DEF ListenerOpens, Untouched, RefusalIsEarly, vars
  <2>2. CASE ListenerFails
    <3>1. at \notin {"probe", "config"} /\ exit' \notin {"remotes", "config"}
      BY <1>3, <2>2 DEF ListenerFails, Untouched
    <3>2. QED BY <2>2, <3>1 DEF ListenerFails, Untouched, RefusalIsEarly, vars
  <2>3. CASE Signal BY <1>3, <2>3 DEF Signal, Untouched, RefusalIsEarly, vars
  <2>4. QED BY <1>3, <2>1, <2>2, <2>3
<1>4. ASSUME exit = "no", LoopTold PROVE Untouched' /\ RefusalIsEarly'
  BY <1>4 DEF LoopTold, CallerCancel, programVars, Untouched, RefusalIsEarly
<1>5. ASSUME exit = "no", DashboardStep PROVE Untouched' /\ RefusalIsEarly'
  <2>1. push' = push
    BY <1>5 DEF DashboardStep, Refresh, LoopStep, StoppingStep, Tick, LoopExit,
       Sample, Send, RenderFail, DrainEmpty, DrainDeadline, ShutdownClose,
       ShutdownCancel, ServedStep, HandlerStep, Connect, Admit, Count,
       InitialPatch, InitialRenderFail, Subscribe, Forward, ClientGone,
       ChannelClosed, Unsubscribe, Leave
  <2>2. UNCHANGED programVars BY <1>5 DEF DashboardStep
  <2>3. QED BY <1>5, <2>1, <2>2 DEF programVars, Untouched, RefusalIsEarly
<1>6. QED BY <1>1, <1>2, <1>3, <1>4, <1>5 DEF ProcessNext

LEMMA NextProcess == ProcessInv /\ [ProcessNext]_allVars => ProcessInv'
<1> SUFFICES ASSUME ProcessInv, [ProcessNext]_allVars PROVE ProcessInv'
  OBVIOUS
<1> USE DEF ProcessInv
<1>1. [Next]_vars BY StepsAreSSEPush
<1>2. IInv' BY <1>1, NextIInv
<1>3. ProcessTypeOK' BY <1>2, TypeStep DEF IInv
<1>4. ShutdownDid' BY <1>1, ShutdownDidStep DEF IInv
<1>5. WhereMainIs' /\ HowItEnded' BY MainInv DEF IInv
<1>6. Untouched' /\ RefusalIsEarly' BY EarlyStep
<1>7. QED BY <1>2, <1>3, <1>4, <1>5, <1>6
-----------------------------------------------------------------------------
(***************************************************************************)
(* Every variable of a program and of its dashboard keeps its type         *)
(* (cmd/health-hub/main.go, run; example/main.go, main).                   *)
(***************************************************************************)
THEOREM ProcessTypeCorrect == ProcessSpec => []ProcessTypeOK
<1>1. ProcessInv => ProcessTypeOK BY DEF ProcessInv
<1>2. QED BY <1>1, InitProcess, NextProcess, PTL DEF ProcessSpec

(* For the dashboard, a behaviour of a program is one of SSEPush.           *)
LEMMA ProgramsUseDashboard == ProcessSpec => Init /\ [][Next]_vars
<1>1. ProcessInit => Init BY DEF ProcessInit
<1>2. QED BY <1>1, StepsAreSSEPush, PTL DEF ProcessSpec

(***************************************************************************)
(* In a running program, too, `connections` counts the handlers that are   *)
(* between their increment and their decrement (pusher.go, sseHandler).    *)
(***************************************************************************)
THEOREM ProgramsCountExactly == ProcessSpec => []ConnectionsExact
<1>1. ProcessInv => ConnectionsExact BY DEF ProcessInv, IInv
<1>2. QED BY <1>1, InitProcess, NextProcess, PTL DEF ProcessSpec

(***************************************************************************)
(* In a running program, too, the limit on connections is exceeded by      *)
(* fewer handlers than ever were between the check and the increment       *)
(* together (pusher.go, sseHandler and atCapacity).                        *)
(***************************************************************************)
THEOREM ProgramsKeepLimit == ProcessSpec => OvershootBounded
BY ProgramsUseDashboard, StepsKeepOvershoot, PTL

(***************************************************************************)
(* Every return from main, the example's log.Fatalf apart, leaves the      *)
(* broadcaster closed and the loop told to stop (main.go, the deferred     *)
(* dash.Shutdown).                                                         *)
(***************************************************************************)
THEOREM ReturnsShutDown == ProcessSpec => []EveryReturnShutsDown
<1>1. ProcessInv => EveryReturnShutsDown
  BY DEF ProcessInv, HowItEnded, ShutdownDid, DashboardStopped,
     EveryReturnShutsDown
<1>2. QED BY <1>1, InitProcess, NextProcess, PTL DEF ProcessSpec

(***************************************************************************)
(* Success means: asked to stop, readiness turned before the listener was  *)
(* closed, and no handler cut off within the grace (main.go, shutdown).    *)
(***************************************************************************)
THEOREM SuccessIsClean == ProcessSpec => []CleanExit
<1>1. ProcessInv => CleanExit
  BY DEF ProcessInv, HowItEnded, WhereMainIs, AllIdle, CleanExit
<1>2. QED BY <1>1, InitProcess, NextProcess, PTL DEF ProcessSpec
(***************************************************************************)
(* The hub refuses its environment only before it starts anything; the     *)
(* example's one late refusal is the grace of its drain (main.go,          *)
(* configFromEnv; example/main.go, drainGraceWindow).                      *)
(***************************************************************************)
THEOREM RefusesEarly == ProcessSpec => []RefusalIsEarly
<1>1. ProcessInv => RefusalIsEarly BY DEF ProcessInv
<1>2. QED BY <1>1, InitProcess, NextProcess, PTL DEF ProcessSpec
-----------------------------------------------------------------------------
(* What RemotesNamespaced asks of the list of remotes.                     *)
Namespaced(list) ==
  /\ list # <<>>
  /\ IsInjective([i \in DOMAIN list |-> list[i].name])
  /\ \A i \in DOMAIN list :
       /\ list[i].name \in RemoteName \ (Slashed \cup Spaced)
       /\ list[i].url = "absolute"

(* Of two entries with one name the later is compared with the earlier, so *)
(* that checking each entry against those before it is checking all pairs. *)
LEMMA ParseIsNamespaced ==
  ASSUME NEW list \in Seq(Entry)
  PROVE  RemotesParse(list) <=> Namespaced(list)
<1> DEFINE name == [i \in DOMAIN list |-> list[i].name]
<1>1. /\ Len(list) \in Nat /\ DOMAIN list = 1 .. Len(list)
      /\ \A i \in DOMAIN list : list[i] \in Entry
  OBVIOUS
<1>2. \A i \in DOMAIN list : list[i].name \in RemoteName \cup {""}
  BY <1>1 DEF Entry
<1>3. ASSUME RemotesParse(list) PROVE Namespaced(list)
  <2>1. \A i \in DOMAIN list :
          EntryValid(list[i], {list[j].name : j \in 1 .. i - 1})
    BY <1>3 DEF RemotesParse
  <2>2. \A i \in DOMAIN list :
          /\ list[i].name \in RemoteName \ (Slashed \cup Spaced)
          /\ list[i].url = "absolute"
    BY <1>2, <2>1 DEF EntryValid
  <2>3. ASSUME NEW i \in DOMAIN list, NEW j \in DOMAIN list, j < i
        PROVE  list[i].name # list[j].name
    <3>1. j \in 1 .. i - 1 BY <1>1, <2>3
    <3>2. QED BY <2>1, <2>3, <3>1 DEF EntryValid
  <2>4. ASSUME NEW i \in DOMAIN list, NEW j \in DOMAIN list,
               list[i].name = list[j].name
        PROVE  i = j
    <3>1. ~(j < i) /\ ~(i < j) BY <2>3, <2>4
    <3>2. QED BY <1>1, <3>1
  <2>5. IsInjective(name) BY <2>4 DEF IsInjective
  <2>6. QED BY <1>3, <2>2, <2>5 DEF Namespaced, RemotesParse
<1>4. ASSUME Namespaced(list) PROVE RemotesParse(list)
  <2>1. \A i, j \in DOMAIN list : list[i].name = list[j].name => i = j
    BY <1>4 DEF Namespaced, IsInjective
  <2>2. ASSUME NEW i \in DOMAIN list
        PROVE  EntryValid(list[i], {list[j].name : j \in 1 .. i - 1})
    <3>1. ASSUME NEW j \in 1 .. i - 1 PROVE list[i].name # list[j].name
      <4>1. j \in DOMAIN list /\ j # i BY <1>1
      <4>2. QED BY <2>1, <4>1
    <3>2. list[i].name # "" /\ list[i].url = "absolute"
          /\ list[i].name \notin Slashed \cup Spaced
      BY <1>4, RemoteAssumption DEF Namespaced
    <3>3. QED BY <3>1, <3>2 DEF EntryValid
  <2>3. QED BY <1>4, <2>2 DEF RemotesParse, Namespaced
<1>5. QED BY <1>3, <1>4

(* The list is read once and judged once: what was accepted is what runs,  *)
(* and only what does not parse ends the program with the remotes' error.  *)
RemotesJudged ==
  /\ remotes \in Environment
  /\ program = "hub" /\ at # "config" => RemotesParse(remotes)
  /\ exit = "remotes" => ~RemotesParse(remotes)

LEMMA RemotesStep ==
  ASSUME RemotesJudged, [ProcessNext]_allVars
  PROVE  RemotesJudged'
<1> USE DEF RemotesJudged
<1>1. ASSUME UNCHANGED <<program, remotes>>,
             at = at' \/ at # "config", exit' = exit \/ exit' # "remotes"
      PROVE  RemotesJudged'
  BY <1>1
<1>2. CASE UNCHANGED allVars BY <1>2 DEF allVars, programVars
<1>3. CASE Configure
  BY <1>3 DEF Configure, Accepted
<1>4. CASE Refuse BY <1>4 DEF Refuse
<1>5. CASE MainStep /\ ~Configure /\ ~Refuse
  <2> SUFFICES /\ UNCHANGED <<program, remotes>>
               /\ at = at' \/ at # "config"
               /\ exit' = exit \/ exit' # "remotes"
    BY <1>1
  <2> USE DEF programVars
  <2>1. CASE StartProbe \/ StartDashboard \/ LaunchLoop \/ HubGateOver
               \/ ExampleGateOver \/ Listen
    BY <2>1 DEF StartProbe, StartDashboard, LaunchLoop, HubGateOver, ExampleGateOver, Listen
  <2>2. CASE SeeSignal \/ SeeListenError \/ GraceRefused \/ HoldOver
    BY <2>2 DEF SeeSignal, SeeListenError, GraceRefused, HoldOver
  <2>3. CASE HubStopsDashboard \/ InjectorStopsDashboard \/ GoToServer
    BY <2>3 DEF HubStopsDashboard, InjectorStopsDashboard, GoToServer
  <2>4. CASE CloseListener \/ ServerIdle \/ GraceOver \/ Exit
    BY <2>4 DEF CloseListener, ServerIdle, GraceOver, Exit
  <2>5. QED BY <1>5, <2>1, <2>2, <2>3, <2>4 DEF MainStep
<1>6. CASE ListenerOpens \/ ListenerFails \/ Signal \/ LoopTold \/ DashboardStep
  BY <1>6 DEF ListenerOpens, ListenerFails, Signal, LoopTold, DashboardStep,
     programVars
<1>7. QED BY <1>2, <1>3, <1>4, <1>5, <1>6 DEF ProcessNext

(***************************************************************************)
(* The hub runs only with remotes whose names are distinct and hold no     *)
(* separator, and refuses a list only for an entry that is wrong (main.go, *)
(* parseRemotes, parseRemoteEntry).                                        *)
(***************************************************************************)
THEOREM RemotesAreNamespaced == ProcessSpec => []RemotesNamespaced
<1>1. ProcessInit => RemotesJudged BY DEF ProcessInit, RemotesJudged
<1>2. RemotesJudged => RemotesNamespaced
  <2>1. ASSUME RemotesJudged PROVE RemotesParse(remotes) <=> Namespaced(remotes)
    BY <2>1, RemoteAssumption, ParseIsNamespaced DEF RemotesJudged
  <2>2. QED BY <2>1 DEF RemotesJudged, RemotesNamespaced, Namespaced
<1>3. QED BY <1>1, <1>2, RemotesStep, PTL DEF ProcessSpec
=============================================================================
