------------------------------- MODULE SSEPush -------------------------------
(***************************************************************************)
(* The real-time half of the dashboard: push loops that sample the probe   *)
(* and broadcast patches, SSE handlers that admit clients and forward the  *)
(* patches, and the Start/Shutdown calls that run concurrently with both   *)
(* (dashboard.go, pusher.go).                                              *)
(*                                                                         *)
(* One goroutine per pusher, one per handler and one per Shutdown call;    *)
(* each action is what such a goroutine does between two points where      *)
(* another one can see or change what it works on.                         *)
(*                                                                         *)
(* A health response is a pair [fp, src]: fp stands for what change        *)
(* detection looks at (overall status, each check's name, status, error),  *)
(* src for what the page shows besides (per-source roll-ups, durations,    *)
(* the shutting-down flag).  The broadcaster is go-sse, outside src/: a    *)
(* bounded buffer per subscriber, a full buffer drops, a closed            *)
(* broadcaster ignores Broadcast and hands out closed channels.            *)
(***************************************************************************)
EXTENDS Naturals, Sequences, FiniteSets

CONSTANTS
  Pusher, NoPusher,
  Client,       \* SSE handlers, one per HTTP client
  Digest, Src,   \* values of the two halves of a response
  NoDigest,      \* initial lastStatus/lastFingerprint of a pusher
  MaxConns,     \* WithMaxSSEConnections; 0 = unlimited
  TTL,          \* WithPushOnChangeTTL; 0 = off
  PushAlways,   \* WithPushMode(PushAlways)
  Drain,        \* WithShutdownDrain > 0
  RenderFails,  \* may rendering a patch fail?
  BufferSize    \* go-sse's subscriber buffer (64)

ASSUME PusherAssumption == NoPusher \notin Pusher
ASSUME ClientAssumption == IsFiniteSet(Client)
ASSUME DigestAssumption == NoDigest \notin Digest
ASSUME ConfigAssumption ==
  /\ MaxConns \in Nat
  /\ TTL \in Nat \ {1}
  /\ PushAlways \in BOOLEAN
  /\ Drain \in BOOLEAN
  /\ RenderFails \in BOOLEAN
  /\ BufferSize \in Nat \ {0}

Response == [fp : Digest, src : Src]

VARIABLES
  cur,       \* what the probe answers now
  push, started, stop, closed,        \* as in PusherLifecycle
  loop,      \* per pusher: control of Start and of the push loop
  down,      \* per pusher: control of the Shutdown call that took it out
  resp,      \* per pusher: the response its loop is broadcasting
  lastSeen, \* per pusher: lastStatus and lastFingerprint
  ticks,     \* per pusher: ticks since the last (re-)assertion
  conns,     \* per pusher: the atomic counter connections
  pc,        \* per client: control of its handler
  mine,      \* per client: the pusher its handler loaded
  chan,      \* per client: its subscription's buffered events
  shown      \* per client: the last response its browser received

loopVars == <<resp, lastSeen, ticks>>
clientVars == <<conns, pc, mine, chan, shown>>
vars == <<cur, push, started, stop, closed, loop, down,
          resp, lastSeen, ticks, conns, pc, mine, chan, shown>>

LoopState == {"unborn", "stored", "sample", "send", "idle", "exited"}
DownState == {"no", "draining", "closing", "cancelling", "done"}

(***************************************************************************)
(* The handler's program counter.  It is counted in `connections` from     *)
(* "first" to "leave": the deferred Add(-1) runs on every path out.        *)
(***************************************************************************)
Counted == {"first", "subscribe", "stream", "leave"}
HandlerState == {"idle", "loaded", "admitted"} \cup Counted

TypeOK ==
  /\ cur \in Response
  /\ push \in Pusher \cup {NoPusher}
  /\ started \in BOOLEAN
  /\ stop \in [Pusher -> BOOLEAN]
  /\ closed \in [Pusher -> BOOLEAN]
  /\ loop \in [Pusher -> LoopState]
  /\ down \in [Pusher -> DownState]
  /\ resp \in [Pusher -> Response]
  /\ lastSeen \in [Pusher -> Digest \cup {NoDigest}]
  /\ ticks \in [Pusher -> Nat]
  /\ conns \in [Pusher -> Nat]
  /\ pc \in [Client -> HandlerState]
  /\ mine \in [Client -> Pusher \cup {NoPusher}]
  /\ chan \in [Client -> Seq(Response)]
  /\ shown \in [Client -> Response]

(* resp, mine and shown hold a value before their first use, which nothing  *)
(* reads.                                                                  *)
Init ==
  /\ cur \in Response
  /\ push = NoPusher
  /\ started = FALSE
  /\ stop = [g \in Pusher |-> FALSE]
  /\ closed = [g \in Pusher |-> FALSE]
  /\ loop = [g \in Pusher |-> "unborn"]
  /\ down = [g \in Pusher |-> "no"]
  /\ resp = [g \in Pusher |-> cur]
  /\ lastSeen = [g \in Pusher |-> NoDigest]
  /\ ticks = [g \in Pusher |-> 0]
  /\ conns = [g \in Pusher |-> 0]
  /\ pc = [c \in Client |-> "idle"]
  /\ mine = [c \in Client |-> NoPusher]
  /\ chan = [c \in Client |-> <<>>]
  /\ shown = [c \in Client |-> cur]
-----------------------------------------------------------------------------
(* The probe refreshes its cache with any evaluation.                      *)
Refresh ==
  /\ cur' \in Response \ {cur}
  /\ UNCHANGED <<push, started, stop, closed, loop, down, loopVars, clientVars>>

(* Start: newPusher, d.push.Store(p).                                      *)
StartStore(g) ==
  /\ loop[g] = "unborn"
  /\ push' = g
  /\ loop' = [loop EXCEPT ![g] = "stored"]
  /\ UNCHANGED <<cur, started, stop, closed, down, loopVars, clientVars>>

(* Start: d.started.Store(true); go p.start(loopCtx), whose first          *)
(* statement is a broadcast that does not wait for the ticker.             *)
StartLaunch(g) ==
  /\ loop[g] = "stored"
  /\ started' = TRUE
  /\ loop' = [loop EXCEPT ![g] = "sample"]
  /\ UNCHANGED <<cur, push, stop, closed, down, loopVars, clientVars>>

CallerCancel(g) ==
  /\ loop[g] # "unborn"
  /\ stop' = [stop EXCEPT ![g] = TRUE]
  /\ UNCHANGED <<cur, push, started, closed, loop, down, loopVars, clientVars>>
-----------------------------------------------------------------------------
(***************************************************************************)
(* The push loop.  When the context is done and the ticker has fired too,  *)
(* Go's select takes either branch.                                        *)
(***************************************************************************)
Tick(g) ==
  /\ loop[g] = "idle"
  /\ loop' = [loop EXCEPT ![g] = "sample"]
  /\ UNCHANGED <<cur, push, started, stop, closed, down, loopVars, clientVars>>

LoopExit(g) ==
  /\ loop[g] = "idle"
  /\ stop[g]
  /\ closed' = [closed EXCEPT ![g] = TRUE]
  /\ loop' = [loop EXCEPT ![g] = "exited"]
  /\ UNCHANGED <<cur, push, started, stop, down, loopVars, clientVars>>

Changed(g) == cur.fp # lastSeen[g]
Reassert(g) == TTL > 0 /\ ticks[g] + 1 >= TTL

(* Mutant: ticks are not counted, so nothing is ever re-asserted.           *)
TicksLost(g, fires) == 0

TicksAfter(g, fires) == IF fires \/ TTL = 0 THEN 0 ELSE ticks[g] + 1

(* broadcast: read the cached response; shouldBroadcast.                   *)
Sample(g) ==
  LET fires == PushAlways \/ Changed(g) \/ Reassert(g) IN
  /\ loop[g] = "sample"
  /\ IF PushAlways
     THEN UNCHANGED <<lastSeen, ticks>>
     ELSE /\ lastSeen' = [lastSeen EXCEPT ![g] = cur.fp]
          /\ ticks' = [ticks EXCEPT ![g] = TicksAfter(g, fires)]
  /\ IF fires
     THEN loop' = [loop EXCEPT ![g] = "send"] /\ resp' = [resp EXCEPT ![g] = cur]
     ELSE loop' = [loop EXCEPT ![g] = "idle"] /\ UNCHANGED resp
  /\ UNCHANGED <<cur, push, started, stop, closed, down, clientVars>>

Subscribers(g) == {c \in Client : pc[c] = "stream" /\ mine[c] = g}

(* go-sse Broadcast: each subscriber's buffer takes the event, or drops it. *)
Deliver(g, event) ==
  chan' = [c \in Client |->
             IF c \in Subscribers(g) /\ ~closed[g] /\ Len(chan[c]) < BufferSize
             THEN Append(chan[c], event)
             ELSE chan[c]]

(* broadcast: renderPatch, which reads the per-source statuses afresh, and  *)
(* Broadcast.                                                              *)
Send(g) ==
  /\ loop[g] = "send"
  /\ Deliver(g, [fp |-> resp[g].fp, src |-> cur.src])
  /\ loop' = [loop EXCEPT ![g] = "idle"]
  /\ UNCHANGED <<cur, push, started, stop, closed, down, loopVars,
                 conns, pc, mine, shown>>

(* broadcast: renderPatch fails; the change is recorded but not sent.      *)
RenderFail(g) ==
  /\ RenderFails
  /\ loop[g] = "send"
  /\ loop' = [loop EXCEPT ![g] = "idle"]
  /\ UNCHANGED <<cur, push, started, stop, closed, down, loopVars, clientVars>>
-----------------------------------------------------------------------------
(* Mutant: Shutdown leaves the nil-swap for the end of the drain.           *)
ShutdownLateSwap(g) ==
  /\ push = g
  /\ down' = [down EXCEPT ![g] = IF Drain THEN "draining" ELSE "closing"]
  /\ UNCHANGED <<cur, push, started, stop, closed, loop, loopVars, clientVars>>

(* Mutant: the broadcaster is closed before the drain begins.               *)
ShutdownSwapClosing(g) ==
  /\ push = g
  /\ push' = NoPusher
  /\ closed' = [closed EXCEPT ![g] = TRUE]
  /\ down' = [down EXCEPT ![g] = IF Drain THEN "draining" ELSE "closing"]
  /\ UNCHANGED <<cur, started, stop, loop, loopVars, clientVars>>

(* Shutdown: p := d.push.Swap(nil).                                        *)
ShutdownSwap(g) ==
  /\ push = g
  /\ push' = NoPusher
  /\ down' = [down EXCEPT ![g] = IF Drain THEN "draining" ELSE "closing"]
  /\ UNCHANGED <<cur, started, stop, closed, loop, loopVars, clientVars>>

(* Shutdown: the drain loop sees no connection left ...                    *)
DrainEmpty(g) ==
  /\ down[g] = "draining"
  /\ conns[g] = 0
  /\ down' = [down EXCEPT ![g] = "closing"]
  /\ UNCHANGED <<cur, push, started, stop, closed, loop, loopVars, clientVars>>

(* Mutant: a drain without a deadline.                                     *)
DrainForever(g) ==
  /\ down[g] = "draining"
  /\ conns[g] = 0
  /\ down' = [down EXCEPT ![g] = "closing"]
  /\ UNCHANGED <<cur, push, started, stop, closed, loop, loopVars, clientVars>>

(* ... or runs into its deadline.                                          *)
DrainDeadline(g) ==
  /\ down[g] = "draining"
  /\ down' = [down EXCEPT ![g] = "closing"]
  /\ UNCHANGED <<cur, push, started, stop, closed, loop, loopVars, clientVars>>

(* Shutdown: p.broadcaster.Close().                                        *)
ShutdownClose(g) ==
  /\ down[g] = "closing"
  /\ closed' = [closed EXCEPT ![g] = TRUE]
  /\ down' = [down EXCEPT ![g] = "cancelling"]
  /\ UNCHANGED <<cur, push, started, stop, loop, loopVars, clientVars>>

(* Mutant: Shutdown never releases the loop context (issue 14).             *)
ShutdownKeepsLoop(g) ==
  /\ down[g] = "cancelling"
  /\ down' = [down EXCEPT ![g] = "done"]
  /\ UNCHANGED <<cur, push, started, stop, closed, loop, loopVars, clientVars>>

(* Shutdown: p.cancel().                                                   *)
ShutdownCancel(g) ==
  /\ down[g] = "cancelling"
  /\ stop' = [stop EXCEPT ![g] = TRUE]
  /\ down' = [down EXCEPT ![g] = "done"]
  /\ UNCHANGED <<cur, push, started, closed, loop, loopVars, clientVars>>
-----------------------------------------------------------------------------
(* sseHandler: push := d.push.Load().  Nil is answered with a 503, which    *)
(* leaves the handler idle.                                                *)
Connect(c) ==
  /\ pc[c] = "idle"
  /\ push # NoPusher
  /\ pc' = [pc EXCEPT ![c] = "loaded"]
  /\ mine' = [mine EXCEPT ![c] = push]
  /\ UNCHANGED <<cur, push, started, stop, closed, loop, down, loopVars,
                 conns, chan, shown>>

(* Mutant: a full counter still lets one more in.                          *)
AtCapacityLate(g) == MaxConns > 0 /\ conns[g] > MaxConns

AtCapacity(g) == MaxConns > 0 /\ conns[g] >= MaxConns

(* sseHandler: the capacity check reads the counter, and answers 503 when  *)
(* it is full; ...                                                         *)
Admit(c) ==
  /\ pc[c] = "loaded"
  /\ pc' = [pc EXCEPT ![c] = IF AtCapacity(mine[c]) THEN "idle" ELSE "admitted"]
  /\ UNCHANGED <<cur, push, started, stop, closed, loop, down, loopVars,
                 conns, mine, chan, shown>>

(* Mutant: the increment is forgotten, the deferred decrement is not.       *)
CountMissing(c) ==
  /\ pc[c] = "admitted"
  /\ pc' = [pc EXCEPT ![c] = "first"]
  /\ UNCHANGED <<cur, push, started, stop, closed, loop, down, loopVars,
                 conns, mine, chan, shown>>

(* ... the increment is a separate atomic operation.                       *)
Count(c) ==
  /\ pc[c] = "admitted"
  /\ conns' = [conns EXCEPT ![mine[c]] = @ + 1]
  /\ pc' = [pc EXCEPT ![c] = "first"]
  /\ UNCHANGED <<cur, push, started, stop, closed, loop, down, loopVars,
                 mine, chan, shown>>

(* sseHandler: render the current response and send it.                    *)
InitialPatch(c) ==
  /\ pc[c] = "first"
  /\ shown' = [shown EXCEPT ![c] = cur]
  /\ pc' = [pc EXCEPT ![c] = "subscribe"]
  /\ UNCHANGED <<cur, push, started, stop, closed, loop, down, loopVars,
                 conns, mine, chan>>

(* sseHandler: the initial patch fails to render; the handler goes on.     *)
InitialRenderFail(c) ==
  /\ RenderFails
  /\ pc[c] = "first"
  /\ pc' = [pc EXCEPT ![c] = "subscribe"]
  /\ UNCHANGED <<cur, push, started, stop, closed, loop, down, loopVars,
                 conns, mine, chan, shown>>

Subscribe(c) ==
  /\ pc[c] = "subscribe"
  /\ pc' = [pc EXCEPT ![c] = "stream"]
  /\ UNCHANGED <<cur, push, started, stop, closed, loop, down, loopVars,
                 conns, mine, chan, shown>>

(* sseHandler: forward one buffered event.                                 *)
Forward(c) ==
  /\ pc[c] = "stream"
  /\ chan[c] # <<>>
  /\ shown' = [shown EXCEPT ![c] = Head(chan[c])]
  /\ chan' = [chan EXCEPT ![c] = Tail(chan[c])]
  /\ UNCHANGED <<cur, push, started, stop, closed, loop, down, loopVars,
                 conns, pc, mine>>

(* The handler's deferred Unsubscribe, with whatever it still buffered.    *)
Unsubscribe(c) ==
  /\ pc' = [pc EXCEPT ![c] = "leave"]
  /\ chan' = [chan EXCEPT ![c] = <<>>]
  /\ UNCHANGED <<cur, push, started, stop, closed, loop, down, loopVars,
                 conns, mine, shown>>

(* Mutant: the early return after a failed first Send skips the decrement.  *)
ClientGoneUncounted(c) ==
  \/ pc[c] = "stream" /\ Unsubscribe(c)
  \/ /\ pc[c] = "first"
     /\ pc' = [pc EXCEPT ![c] = "idle"]
     /\ UNCHANGED <<cur, push, started, stop, closed, loop, down, loopVars,
                    conns, mine, chan, shown>>

(* sseHandler: the client is gone, since its context is done or a Send     *)
(* failed; or the timer of WithMaxConnectionLifetime fires, which ends a   *)
(* stream the same way.                                                    *)
ClientGone(c) == pc[c] \in {"first", "stream"} /\ Unsubscribe(c)

(* sseHandler: the channel is closed and drained.                          *)
ChannelClosed(c) ==
  /\ pc[c] = "stream"
  /\ closed[mine[c]]
  /\ chan[c] = <<>>
  /\ Unsubscribe(c)

(* The deferred connections.Add(-1).                                       *)
Leave(c) ==
  /\ pc[c] = "leave"
  /\ conns' = [conns EXCEPT ![mine[c]] = @ - 1]
  /\ pc' = [pc EXCEPT ![c] = "idle"]
  /\ UNCHANGED <<cur, push, started, stop, closed, loop, down, loopVars,
                 mine, chan, shown>>
-----------------------------------------------------------------------------
LoopStep(g) == Tick(g) \/ LoopExit(g) \/ Sample(g) \/ Send(g) \/ RenderFail(g)

ShutdownStep(g) ==
  \/ ShutdownSwap(g)
  \/ DrainEmpty(g)
  \/ DrainDeadline(g)
  \/ ShutdownClose(g)
  \/ ShutdownCancel(g)

PusherStep(g) ==
  \/ StartStore(g)
  \/ StartLaunch(g)
  \/ CallerCancel(g)
  \/ LoopStep(g)
  \/ ShutdownStep(g)

HandlerStep(c) ==
  \/ Connect(c)
  \/ Admit(c)
  \/ Count(c)
  \/ InitialPatch(c)
  \/ InitialRenderFail(c)
  \/ Subscribe(c)
  \/ Forward(c)
  \/ ClientGone(c)
  \/ ChannelClosed(c)
  \/ Leave(c)

Next ==
  \/ Refresh
  \/ \E g \in Pusher : PusherStep(g)
  \/ \E c \in Client : HandlerStep(c)

(***************************************************************************)
(* Goroutines that can run do run; the ticker fires; a drain deadline      *)
(* passes.  Rendering does not fail for ever, and a done context is        *)
(* eventually chosen over a ticker that is ready at the same time (Go's    *)
(* select picks uniformly): strong fairness for both.  InitialPatch and    *)
(* Forward end, which assumes that a browser reads or is given up by TCP:  *)
(* no write deadline in this code ends a send to one that stays connected  *)
(* and stops reading.  The probe's answers, Start, Shutdown, cancellations *)
(* and clients coming and going are the environment's.                     *)
(***************************************************************************)
Fairness ==
  /\ \A g \in Pusher :
       /\ WF_vars(StartLaunch(g))
       /\ WF_vars(Tick(g))
       /\ WF_vars(Sample(g))
       /\ SF_vars(Send(g))
       /\ SF_vars(LoopExit(g))
       /\ WF_vars(DrainEmpty(g) \/ DrainDeadline(g))
       /\ WF_vars(ShutdownClose(g))
       /\ WF_vars(ShutdownCancel(g))
  /\ \A c \in Client :
       /\ WF_vars(Admit(c))
       /\ WF_vars(Count(c))
       /\ WF_vars(InitialPatch(c))
       /\ WF_vars(Subscribe(c))
       /\ WF_vars(Forward(c))
       /\ WF_vars(ChannelClosed(c))
       /\ WF_vars(Leave(c))

Spec == Init /\ [][Next]_vars /\ Fairness
-----------------------------------------------------------------------------
Holders(g) == {c \in Client : mine[c] = g /\ pc[c] \in Counted}

(***************************************************************************)
(* The counter that admission, drain and SubscriberCount() read is the     *)
(* number of handlers that are between its increment and its decrement,    *)
(* on every path out of the handler (sseHandler, defer                     *)
(* connections.Add(-1)).                                                   *)
(***************************************************************************)
ConnectionsExact ==
  \A g \in Pusher : conns[g] = Cardinality(Holders(g))

(* Handlers between the capacity check and the increment.                  *)
Entering(g) == {c \in Client : pc[c] = "admitted" /\ mine[c] = g}

(***************************************************************************)
(* WithMaxSSEConnections "limits the number of concurrent SSE clients"     *)
(* (options.go), but the check and the increment are two operations        *)
(* (pusher.go, sseHandler).  Handlers that pass the check together can     *)
(* exceed the limit, by as many as pass it together but one, however often *)
(* that happens: if at most k are ever between the two, the limit is       *)
(* exceeded by at most k - 1, and one at a time keep it.                   *)
(***************************************************************************)
OvershootBounded ==
  \A k \in 1 .. Cardinality(Client) :
    [](\A g \in Pusher : Cardinality(Entering(g)) <= k)
      => [](MaxConns > 0 => \A g \in Pusher : conns[g] <= MaxConns + k - 1)

(***************************************************************************)
(* Once Shutdown has taken a pusher out, every handler that still holds    *)
(* it ends, the ones that had loaded the pointer before the swap and       *)
(* subscribe only after the close included.                                *)
(***************************************************************************)
ShutdownEndsStreams ==
  \A g \in Pusher, c \in Client :
    down[g] # "no" ~> ~(mine[c] = g /\ pc[c] # "idle")

(***************************************************************************)
(* Self-healing: when the probe's answer stays h and a client stays on a   *)
(* stream whose push loop lives, its browser ends up showing h and stays   *)
(* there, whatever it missed, was dropped or arrived out of order before   *)
(* (options.go, WithPushOnChangeTTL).                                      *)
(***************************************************************************)
Converges ==
  \A c \in Client, h \in Response :
    <>[](pc[c] = "stream" /\ cur = h /\ ~stop[mine[c]] /\ ~closed[mine[c]])
      => <>[](shown[c] = h)

(***************************************************************************)
(* FEATURES.md:66 says of a (re)connecting client: "initial state on       *)
(* connect handles missed updates": with no re-assertion, a client that    *)
(* stays connected ends up showing the status and checks the probe keeps   *)
(* answering.                                                              *)
(***************************************************************************)
ConnectCatchesUp ==
  \A c \in Client, p \in Digest :
    <>[](pc[c] = "stream" /\ cur.fp = p /\ ~stop[mine[c]] /\ ~closed[mine[c]])
      => <>[](shown[c].fp = p)
-----------------------------------------------------------------------------
(***************************************************************************)
(* The detailed specification implements PusherLifecycle: the states of a  *)
(* live loop are one state there, and so are the two halves of a drain.    *)
(***************************************************************************)
AbstractLoop ==
  [g \in Pusher |-> IF loop[g] \in {"sample", "send", "idle"} THEN "running"
                                                             ELSE loop[g]]
AbstractDown ==
  [g \in Pusher |-> IF down[g] = "closing" THEN "draining" ELSE down[g]]

Lifecycle == INSTANCE PusherLifecycle WITH loop <- AbstractLoop,
                                           down <- AbstractDown

(***************************************************************************)
(* Every Shutdown that takes a pusher out ends, and so does the pusher's   *)
(* loop goroutine, even when Shutdown overtakes the Start that is still    *)
(* launching it (issue 14: the loop used to leak).                         *)
(***************************************************************************)
ShutdownEndsLoop == Lifecycle!ShutdownEndsLoop

(***************************************************************************)
(* A pusher that handlers can load is one no Shutdown has taken out,       *)
(* however Starts, drains and Shutdowns overlap (dashboard.go, Shutdown).  *)
(***************************************************************************)
PublishedNotShutDown == Lifecycle!PublishedNotShutDown

(***************************************************************************)
(* A stream is cut by its broadcaster only for a reason: the loop's        *)
(* context is done, or a Shutdown has got past its drain (pusher.go,       *)
(* start; dashboard.go, Shutdown).                                         *)
(***************************************************************************)
ClosedHasCause == Lifecycle!ClosedHasCause

(***************************************************************************)
(* Clients, patches and drain polling never make Start, Shutdown or a loop *)
(* do anything PusherLifecycle does not allow, nor keep it from what that  *)
(* specification says must happen.                                         *)
(***************************************************************************)
ImplementsLifecycle == Lifecycle!Spec

(* The safety half of ImplementsLifecycle.                                 *)
LifecycleSteps == Lifecycle!Init /\ [][Lifecycle!Next]_(Lifecycle!lifecycleVars)
=============================================================================
