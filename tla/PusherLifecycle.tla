--------------------------- MODULE PusherLifecycle ---------------------------
(***************************************************************************)
(* What Dashboard.Start and Dashboard.Shutdown promise about the push      *)
(* goroutines, without clients and without health data: which pusher is    *)
(* published through the atomic pointer `push`, which loops run, which     *)
(* contexts are done and which broadcasters are closed.                    *)
(*                                                                         *)
(* Every Start makes a fresh pusher, so a pusher is used once; Pusher is   *)
(* the set of pushers that the modelled run may create.  SSEPush is the    *)
(* detailed specification that implements this one.                        *)
(***************************************************************************)
CONSTANTS
  Pusher,      \* the pushers that Start calls may create
  NoPusher     \* the nil value of Dashboard.push

ASSUME NoPusherAssumption == NoPusher \notin Pusher

VARIABLES
  push,        \* Dashboard.push: the published pusher, or NoPusher
  started,     \* Dashboard.started
  loop,        \* per pusher: where its Start call and its goroutine are
  stop,        \* per pusher: loopCtx is done
  closed,      \* per pusher: its broadcaster is closed
  down         \* per pusher: the Shutdown call that swapped it out

lifecycleVars == <<push, started, loop, stop, closed, down>>

(***************************************************************************)
(* "stored": Start has published the pusher but not yet set started and    *)
(* launched the goroutine.                                                 *)
(***************************************************************************)
LoopState == {"unborn", "stored", "running", "exited"}
DownState == {"no", "draining", "cancelling", "done"}

TypeOK ==
  /\ push \in Pusher \cup {NoPusher}
  /\ started \in BOOLEAN
  /\ loop \in [Pusher -> LoopState]
  /\ stop \in [Pusher -> BOOLEAN]
  /\ closed \in [Pusher -> BOOLEAN]
  /\ down \in [Pusher -> DownState]

Init ==
  /\ push = NoPusher
  /\ started = FALSE
  /\ loop = [g \in Pusher |-> "unborn"]
  /\ stop = [g \in Pusher |-> FALSE]
  /\ closed = [g \in Pusher |-> FALSE]
  /\ down = [g \in Pusher |-> "no"]

-----------------------------------------------------------------------------
(* Start: d.push.Store(p).  A pusher published earlier is overwritten.     *)
StartStore(g) ==
  /\ loop[g] = "unborn"
  /\ push' = g
  /\ loop' = [loop EXCEPT ![g] = "stored"]
  /\ UNCHANGED <<started, stop, closed, down>>

(* Start: d.started.Store(true); go p.start(loopCtx).                      *)
StartLaunch(g) ==
  /\ loop[g] = "stored"
  /\ started' = TRUE
  /\ loop' = [loop EXCEPT ![g] = "running"]
  /\ UNCHANGED <<push, stop, closed, down>>

(* The caller cancels the context it passed to Start.                      *)
CallerCancel(g) ==
  /\ loop[g] # "unborn"
  /\ stop' = [stop EXCEPT ![g] = TRUE]
  /\ UNCHANGED <<push, started, loop, closed, down>>

(* The push loop takes its ctx.Done branch.                                *)
LoopExit(g) ==
  /\ loop[g] = "running"
  /\ stop[g]
  /\ closed' = [closed EXCEPT ![g] = TRUE]
  /\ loop' = [loop EXCEPT ![g] = "exited"]
  /\ UNCHANGED <<push, started, stop, down>>

(* Shutdown: p := d.push.Swap(nil), p not nil.  (A nil p changes nothing.) *)
ShutdownSwap(g) ==
  /\ push = g
  /\ push' = NoPusher
  /\ down' = [down EXCEPT ![g] = "draining"]
  /\ UNCHANGED <<started, loop, stop, closed>>

(* Shutdown, after the drain: p.broadcaster.Close().                       *)
ShutdownClose(g) ==
  /\ down[g] = "draining"
  /\ closed' = [closed EXCEPT ![g] = TRUE]
  /\ down' = [down EXCEPT ![g] = "cancelling"]
  /\ UNCHANGED <<push, started, loop, stop>>

(* Shutdown: p.cancel().                                                   *)
ShutdownCancel(g) ==
  /\ down[g] = "cancelling"
  /\ stop' = [stop EXCEPT ![g] = TRUE]
  /\ down' = [down EXCEPT ![g] = "done"]
  /\ UNCHANGED <<push, started, loop, closed>>

LifecycleStep(g) ==
  \/ StartStore(g)
  \/ StartLaunch(g)
  \/ CallerCancel(g)
  \/ LoopExit(g)
  \/ ShutdownSwap(g)
  \/ ShutdownClose(g)
  \/ ShutdownCancel(g)

Next == \E g \in Pusher : LifecycleStep(g)

(***************************************************************************)
(* A Start or Shutdown call that has begun goes on, and a loop whose       *)
(* context stays done leaves.  Whether anyone calls Start or Shutdown, or  *)
(* cancels a context, is the application's choice.                         *)
(***************************************************************************)
Fairness ==
  \A g \in Pusher :
    /\ WF_lifecycleVars(StartLaunch(g))
    /\ WF_lifecycleVars(LoopExit(g))
    /\ WF_lifecycleVars(ShutdownClose(g))
    /\ WF_lifecycleVars(ShutdownCancel(g))

Spec == Init /\ [][Next]_lifecycleVars /\ Fairness

-----------------------------------------------------------------------------
(***************************************************************************)
(* A pusher handed out to SSE handlers through the pointer is one that no  *)
(* Shutdown has taken out: Start/Shutdown cycles in any overlap never      *)
(* republish a pusher whose broadcaster is being closed                    *)
(* (dashboard.go, Start and Shutdown).                                     *)
(***************************************************************************)
PublishedNotShutDown ==
  \A g \in Pusher : push = g => down[g] = "no" /\ loop[g] # "unborn"

(***************************************************************************)
(* Streams are cut only for a reason: a closed broadcaster belongs to a    *)
(* pusher whose context is done, or whose Shutdown has got past its drain. *)
(* Until then "existing browsers keep their streams" (options.go,          *)
(* WithShutdownDrain).                                                     *)
(***************************************************************************)
ClosedHasCause ==
  \A g \in Pusher :
    closed[g] => stop[g] \/ down[g] \in {"cancelling", "done"}

(***************************************************************************)
(* Every Shutdown that takes a pusher out ends, and the pusher's loop      *)
(* goroutine is gone after it, even when Shutdown overtakes the Start that *)
(* is still launching that goroutine (issue 14: the loop used to leak).    *)
(***************************************************************************)
ShutdownEndsLoop ==
  \A g \in Pusher :
    down[g] # "no" ~> (down[g] = "done" /\ loop[g] = "exited")
=============================================================================
