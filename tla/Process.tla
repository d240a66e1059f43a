------------------------------- MODULE Process -------------------------------
(***************************************************************************)
(* The two programs that run a dashboard, from their environment to their  *)
(* exit: the federation hub (cmd/health-hub/main.go, run) and the example  *)
(* (example/main.go, main).  Both read a configuration, start the          *)
(* dashboard under the context that SIGINT and SIGTERM end, wait at a      *)
(* start-up gate, listen, and take everything down after the signal; they  *)
(* differ in the order of the last part and in what a failing listener     *)
(* does.  The push loop, the SSE handlers and dash.Shutdown are those of   *)
(* SSEPush, with the one pusher that the one Start of a program makes.     *)
(*                                                                         *)
(* net/http is outside src/: a server listens or fails to, accepts until   *)
(* its Shutdown, which returns when no handler runs any more or its        *)
(* context's grace is over.                                                *)
(***************************************************************************)
EXTENDS SSEPush, Functions

CONSTANTS
  RemoteName,   \* what may stand before the = of an entry
  Slashed,      \* the names among them with a / in them
  Spaced,       \* the names among them with white space in them
  Environment,  \* values of HEALTH_HUB_REMOTES, split at the commas
  Settings      \* values of the other variables

(* A name, "" if it is missing, and what url.Parse makes of the rest.       *)
Entry == [name : RemoteName \cup {""},
          url : {"", "absolute", "relative", "invalid"}]

(* What else the hub and the example read from their environment and may   *)
(* refuse, and what a value can be: a duration or a number with its sign,  *)
(* for the others "positive" is a value that is fine.                      *)
HubKnob == {"timeout", "push interval", "sse drain", "proxy", "client CA"}
ExampleKnob == {"drain", "rate limit", "webhook", "base path", "collapse",
                "grouping", "drain grace"}
Value == {"unset", "negative", "zero", "positive", "malformed"}

ASSUME OnePusher == \E g \in Pusher : Pusher = {g}
ASSUME RemoteAssumption ==
  /\ "" \notin RemoteName
  /\ Slashed \subseteq RemoteName /\ Spaced \subseteq RemoteName
  /\ Environment \subseteq Seq(Entry)
  /\ Settings \subseteq [HubKnob \cup ExampleKnob -> Value]

VARIABLES
  program,    \* which of the two runs
  remotes,    \* HEALTH_HUB_REMOTES
  setting,    \* the other variables
  at,         \* control of the main goroutine
  ctxDone,    \* the signal's context is done
  marked,     \* readiness answers 503: MarkShuttingDown
  listener,   \* control of the listening goroutine and its socket
  forced,     \* server.Shutdown ran out of its grace
  failed,     \* run is returning the listener's error
  exit        \* how the process ended

programVars ==
  <<program, remotes, setting, at, ctxDone, marked, listener, forced, failed, exit>>
allVars == <<vars, programVars>>

Stage == {"probe", "config", "start", "launch", "gate", "listen", "wait", "hold",
          "dashboard", "server", "unwind"}

ProcessTypeOK ==
  /\ TypeOK
  /\ program \in {"hub", "example"}
  /\ remotes \in Environment /\ setting \in Settings
  /\ at \in Stage
  /\ ctxDone \in BOOLEAN /\ marked \in BOOLEAN
  /\ forced \in BOOLEAN /\ failed \in BOOLEAN
  /\ listener \in {"none", "opening", "open", "failed", "closed"}
  /\ exit \in {"no", "ok", "remotes", "config", "listener"}

ProcessInit ==
  /\ Init
  /\ program \in {"hub", "example"}
  /\ remotes \in Environment /\ setting \in Settings
  /\ at = IF program = "hub" THEN "config" ELSE "probe"
  /\ ctxDone = FALSE /\ marked = FALSE /\ forced = FALSE /\ failed = FALSE
  /\ listener = "none"
  /\ exit = "no"
-----------------------------------------------------------------------------
(* Mutant: names that have been seen are not compared.                     *)
EntryAccepted(e, seen) ==
  e.name # "" /\ e.url = "absolute" /\ e.name \notin Slashed \cup Spaced

(* parseRemoteEntry: the checks of one entry.                              *)
EntryValid(e, seen) ==
  /\ e.name # "" /\ e.url # ""
  /\ e.url = "absolute"
  /\ e.name \notin Slashed
  /\ e.name \notin Spaced
  /\ e.name \notin seen

(* parseRemotes: entry by entry, against the names of those before.        *)
RemotesParse(entries) ==
  /\ entries # <<>>
  /\ \A i \in DOMAIN entries :
       EntryValid(entries[i], {entries[j].name : j \in 1 .. i - 1})

(* parseTimeout, parsePushInterval: zero is refused, too.                  *)
ParsesPositive(knob) == setting[knob] \in {"unset", "positive"}

(* parseDuration, and the collapse threshold: zero is allowed.             *)
ParsesNonNegative(knob) == setting[knob] \in {"unset", "zero", "positive"}

(* Mutant: the drain window is parsed where it is used.                    *)
EnvParsesLazily == \A knob \in {"timeout", "push interval"} : ParsesPositive(knob)

(* configFromEnv, after the remotes.                                       *)
EnvParses ==
  \A knob \in {"timeout", "push interval", "sse drain"} : ParsesPositive(knob)

(* federationClient: an absolute proxy URL, a file with a certificate.     *)
TransportParses ==
  \A knob \in {"proxy", "client CA"} : setting[knob] \in {"unset", "positive"}

(* parseRateLimit: at least one request per window longer than nothing.     *)
RateLimitParses == setting["rate limit"] \in {"unset", "positive"}

(* safeWebhookURL: an absolute URL.                                        *)
WebhookParses == setting["webhook"] \in {"unset", "positive"}

(* safeBasePath: a leading slash and plain characters.                     *)
BasePathParses == setting["base path"] \in {"unset", "positive"}

(* buildOptions.                                                           *)
OptionsParse ==
  ParsesNonNegative("drain") /\ RateLimitParses /\ WebhookParses /\ BasePathParses

(* appendUIGrowthOptions.                                                  *)
UIParses ==
  ParsesNonNegative("collapse") /\ setting["grouping"] \in {"unset", "positive"}

(* buildSingleProbe, buildDetailedProbe, buildAggregateProbe: the example's *)
(* probe, whatever it is, starts before any option is parsed.              *)
StartProbe ==
  /\ at = "probe"
  /\ at' = "config"
  /\ UNCHANGED <<vars, program, remotes, setting, ctxDone, marked, listener, forced,
                 failed, exit>>

(* What the program checks before it makes a dashboard is fine.            *)
Accepted ==
  IF program = "hub" THEN RemotesParse(remotes) /\ EnvParses /\ TransportParses
                     ELSE OptionsParse /\ UIParses

(* configFromEnv and newFederation; buildOptions.                          *)
Configure ==
  /\ at = "config"
  /\ Accepted
  /\ at' = "start"
  /\ UNCHANGED <<vars, program, remotes, setting, ctxDone, marked, listener, forced,
                 failed, exit>>

(* run returns the first error, the remotes' before any other's; the       *)
(* example dies of log.Fatalf, its probe running.                          *)
Refuse ==
  /\ at = "config"
  /\ ~Accepted
  /\ exit' = IF program = "hub" /\ ~RemotesParse(remotes) THEN "remotes"
                                                         ELSE "config"
  /\ UNCHANGED <<vars, program, remotes, setting, at, ctxDone, marked, listener,
                 forced, failed>>

(* dash.Start(ctx).                                                        *)
StartDashboard ==
  /\ at = "start"
  /\ \E g \in Pusher : StartStore(g)
  /\ at' = "launch"
  /\ UNCHANGED <<program, remotes, setting, ctxDone, marked, listener, forced, failed,
                 exit>>

LaunchLoop ==
  /\ at = "launch"
  /\ \E g \in Pusher : StartLaunch(g)
  /\ at' = "gate"
  /\ UNCHANGED <<program, remotes, setting, ctxDone, marked, listener, forced, failed,
                 exit>>

(* Mutant: a gate without a deadline, waiting for a source that is dark.    *)
GateWaits == at = "gate" /\ UNCHANGED allVars

(* Every remote has answered once, or 15 seconds are over, or the signal   *)
(* has come: the hub serves in any case ...                                *)
HubGateOver ==
  /\ program = "hub"
  /\ at = "gate"
  /\ at' = "listen"
  /\ UNCHANGED <<vars, program, remotes, setting, ctxDone, marked, listener, forced,
                 failed, exit>>

(* ... and so does the example, which asks the probe itself while it waits. *)
ExampleGateOver ==
  /\ program = "example"
  /\ at = "gate"
  /\ at' = "listen"
  /\ UNCHANGED <<vars, program, remotes, setting, ctxDone, marked, listener, forced,
                 failed, exit>>

(* go server.ListenAndServe().                                             *)
Listen ==
  /\ at = "listen"
  /\ listener' = "opening"
  /\ at' = "wait"
  /\ UNCHANGED <<vars, program, remotes, setting, ctxDone, marked, forced, failed, exit>>

ListenerOpens ==
  /\ listener = "opening"
  /\ listener' = "open"
  /\ UNCHANGED <<vars, program, remotes, setting, at, ctxDone, marked, forced, failed,
                 exit>>

(* The address is taken: the hub is told, the example dies on the spot.    *)
ListenerFails ==
  /\ listener = "opening"
  /\ listener' = "failed"
  /\ exit' = IF program = "example" THEN "listener" ELSE "no"
  /\ UNCHANGED <<vars, program, remotes, setting, at, ctxDone, marked, forced, failed>>
-----------------------------------------------------------------------------
(* SIGINT or SIGTERM, once the program has asked to be told.               *)
Signal ==
  /\ ~ctxDone
  /\ program = "hub" => at # "config"
  /\ ctxDone' = TRUE
  /\ UNCHANGED <<vars, program, remotes, setting, at, marked, listener, forced, failed,
                 exit>>

(* Mutant: the dashboard is started under a context of its own.            *)
LoopUntold == UNCHANGED allVars

(* The context given to dash.Start was the signal's.                       *)
LoopTold ==
  /\ ctxDone
  /\ \E g \in Pusher : ~stop[g] /\ CallerCancel(g)
  /\ UNCHANGED programVars

(* The wait is over: readiness turns 503 ...                               *)
SeeSignal ==
  /\ at = "wait"
  /\ ctxDone
  /\ marked' = TRUE
  /\ at' = "hold"
  /\ UNCHANGED <<vars, program, remotes, setting, ctxDone, listener, forced, failed, exit>>

(* Mutant: the error is returned before the deferred Shutdown is in place. *)
ReturnListenError ==
  /\ at = "wait"
  /\ program = "hub" /\ listener = "failed"
  /\ exit' = "listener"
  /\ failed' = TRUE
  /\ UNCHANGED <<vars, program, remotes, setting, at, ctxDone, marked, listener, forced>>

(* ... or, in the hub, the listener has failed; with both, either.          *)
SeeListenError ==
  /\ at = "wait"
  /\ program = "hub" /\ listener = "failed"
  /\ failed' = TRUE
  /\ at' = "unwind"
  /\ UNCHANGED <<vars, program, remotes, setting, ctxDone, marked, listener, forced, exit>>

(* drainGraceWindow's own log.Fatalf: the example reads the length of the  *)
(* hold only now, and a bad one ends it without server.Shutdown and without *)
(* its deferred calls.                                                     *)
GraceRefused ==
  /\ at = "hold"
  /\ program = "example" /\ ~ParsesNonNegative("drain grace")
  /\ exit' = "config"
  /\ UNCHANGED <<vars, program, remotes, setting, at, ctxDone, marked, listener,
                 forced, failed>>

(* The hub stops the dashboard before the server, the example after it.    *)
HoldOver ==
  /\ at = "hold"
  /\ program = "example" => ParsesNonNegative("drain grace")
  /\ at' = IF program = "hub" THEN "dashboard" ELSE "server"
  /\ UNCHANGED <<vars, program, remotes, setting, ctxDone, marked, listener, forced,
                 failed, exit>>

(* dash.Shutdown, called by the hub and again by its deferred call; its    *)
(* other steps are SSEPush's.                                              *)
HubStopsDashboard ==
  /\ program = "hub" /\ at \in {"dashboard", "unwind"}
  /\ \E g \in Pusher : ShutdownSwap(g)
  /\ UNCHANGED programVars

(* Mutant: New instead of Register, so that the injector knows nothing.    *)
InjectorStopsNothing == FALSE /\ UNCHANGED allVars

(* The example's deferred injector.Shutdown: Register has put the dashboard *)
(* into the injector.                                                      *)
InjectorStopsDashboard ==
  /\ program = "example" /\ at = "unwind"
  /\ \E g \in Pusher : ShutdownSwap(g)
  /\ UNCHANGED programVars

DashboardStopped == push = NoPusher /\ \A g \in Pusher : down[g] = "done"

(* The hub's own call has returned.                                        *)
GoToServer ==
  /\ at = "dashboard"
  /\ DashboardStopped
  /\ at' = "server"
  /\ UNCHANGED <<vars, program, remotes, setting, ctxDone, marked, listener, forced,
                 failed, exit>>

(* Mutant: the server looks for running handlers before it stops accepting.*)
LookThenClose ==
  /\ at = "server"
  /\ listener # "closed"
  /\ \A c \in Client : pc[c] = "idle"
  /\ at' = "unwind"
  /\ UNCHANGED <<vars, program, remotes, setting, ctxDone, marked, listener, forced,
                 failed, exit>>

(* server.Shutdown: accept no more, ...                                    *)
CloseListener ==
  /\ at = "server"
  /\ listener # "closed"
  /\ listener' = "closed"
  /\ UNCHANGED <<vars, program, remotes, setting, at, ctxDone, marked, forced, failed,
                 exit>>

(* ... return when no handler runs, ...                                    *)
ServerIdle ==
  /\ at = "server"
  /\ listener = "closed"
  /\ \A c \in Client : pc[c] = "idle"
  /\ at' = "unwind"
  /\ UNCHANGED <<vars, program, remotes, setting, ctxDone, marked, listener, forced,
                 failed, exit>>

(* ... or after ten seconds in any case.                                   *)
GraceOver ==
  /\ at = "server"
  /\ listener = "closed"
  /\ forced' = TRUE
  /\ at' = "unwind"
  /\ UNCHANGED <<vars, program, remotes, setting, ctxDone, marked, listener, failed, exit>>

(* The deferred calls have returned, and so does main.                     *)
Exit ==
  /\ at = "unwind"
  /\ DashboardStopped
  /\ exit' = IF failed THEN "listener" ELSE "ok"
  /\ UNCHANGED <<vars, program, remotes, setting, at, ctxDone, marked, listener, forced,
                 failed>>
-----------------------------------------------------------------------------
MainStep ==
  \/ StartProbe \/ Configure \/ Refuse
  \/ StartDashboard \/ LaunchLoop
  \/ HubGateOver \/ ExampleGateOver
  \/ Listen
  \/ SeeSignal \/ SeeListenError
  \/ GraceRefused \/ HoldOver
  \/ HubStopsDashboard \/ InjectorStopsDashboard \/ GoToServer
  \/ CloseListener \/ ServerIdle \/ GraceOver
  \/ Exit

(* What goes on inside dash.Shutdown after the swap.                       *)
StoppingStep(g) ==
  \/ DrainEmpty(g)
  \/ DrainDeadline(g)
  \/ ShutdownClose(g)
  \/ ShutdownCancel(g)

(* A request reaches a handler only through the open listener.             *)
ServedStep(c) == HandlerStep(c) /\ (pc[c] = "idle" => listener = "open")

DashboardStep ==
  /\ \/ Refresh
     \/ \E g \in Pusher : LoopStep(g) \/ StoppingStep(g)
     \/ \E c \in Client : ServedStep(c)
  /\ UNCHANGED programVars

ProcessNext ==
  /\ exit = "no"
  /\ \/ MainStep
     \/ ListenerOpens \/ ListenerFails
     \/ Signal \/ LoopTold
     \/ DashboardStep

(* A step of a live process.                                               *)
Live(A) == exit = "no" /\ A
Within(A) == exit = "no" /\ A /\ UNCHANGED programVars

(***************************************************************************)
(* The main goroutine goes on, the gate's and the drain's deadlines pass,  *)
(* and the dashboard's goroutines run, as in SSEPush.  The server's grace  *)
(* and a connection's lifetime are not relied on; that a send to a browser *)
(* returns is (see SSEPush): neither program's server has a WriteTimeout.  *)
(* Signals, the sources' first answers, the socket and the clients are the *)
(* environment's.                                                          *)
(***************************************************************************)
ProcessFairness ==
  /\ WF_allVars(Live(StartProbe \/ Configure \/ Refuse))
  /\ WF_allVars(Live(StartDashboard \/ LaunchLoop \/ Listen))
  /\ WF_allVars(Live(HubGateOver \/ ExampleGateOver))
  /\ WF_allVars(Live(SeeSignal \/ SeeListenError \/ GraceRefused \/ HoldOver))
  /\ WF_allVars(Live(HubStopsDashboard \/ InjectorStopsDashboard \/ GoToServer))
  /\ WF_allVars(Live(CloseListener \/ Exit))
  /\ WF_allVars(Live(ServerIdle))
  /\ WF_allVars(Live(LoopTold))
  /\ \A g \in Pusher :
       /\ WF_allVars(Within(Tick(g) \/ Sample(g)))
       /\ SF_allVars(Within(Send(g)))
       /\ SF_allVars(Within(LoopExit(g)))
       /\ WF_allVars(Within(StoppingStep(g)))
  /\ \A c \in Client :
       /\ WF_allVars(Within(Admit(c) \/ Count(c)))
       /\ WF_allVars(Within(InitialPatch(c) \/ Subscribe(c)))
       /\ WF_allVars(Within(Forward(c) \/ ChannelClosed(c) \/ Leave(c)))

ProcessSpec == ProcessInit /\ [][ProcessNext]_allVars /\ ProcessFairness
-----------------------------------------------------------------------------
(***************************************************************************)
(* A remote's name is the prefix of its checks' keys, so the hub runs only *)
(* with names that are distinct and cannot be confused with a longer key;  *)
(* and it refuses a list for no other reason than an entry that is wrong   *)
(* (main.go, parseRemotes).                                                *)
(***************************************************************************)
RemotesNamespaced ==
  LET sound ==
        /\ remotes # <<>>
        /\ IsInjective([i \in DOMAIN remotes |-> remotes[i].name])
        /\ \A i \in DOMAIN remotes :
             /\ remotes[i].name \in RemoteName \ (Slashed \cup Spaced)
             /\ remotes[i].url = "absolute"
  IN  /\ program = "hub" /\ at # "config" => sound
      /\ exit = "remotes" => ~sound

(***************************************************************************)
(* configFromEnv: "a bad value fails before any goroutine, defer, or       *)
(* network exists".  The hub refuses only with nothing running, and once   *)
(* it runs no variable can stop it.  The example refuses with no dashboard *)
(* and no listener but with its probe running; after that one variable can *)
(* stop it, and only while it is going down.                               *)
(***************************************************************************)
RefusalIsEarly ==
  LET untouched == push = NoPusher /\ listener = "none" /\ ~marked
      Harmless(knob) == setting[knob] \in
        {"unset", "positive"}
          \cup (IF knob \in {"drain", "collapse", "drain grace"} THEN {"zero"} ELSE {})
  IN  /\ at \notin {"probe", "config"} =>
           \A knob \in IF program = "hub" THEN HubKnob
                                         ELSE ExampleKnob \ {"drain grace"} :
             Harmless(knob)
      /\ exit = "remotes" \/ (exit = "config" /\ program = "hub") => untouched
      /\ exit = "config" => untouched \/ (ctxDone /\ ~Harmless("drain grace"))

(***************************************************************************)
(* However a program comes to return from main, by the signal or because   *)
(* its listener failed, the dashboard it started has been shut down: the   *)
(* broadcaster is closed and the loop told to stop.  The example's         *)
(* log.Fatalf, which skips the deferred calls, is the one exception.       *)
(***************************************************************************)
EveryReturnShutsDown ==
  exit = "ok" \/ (exit = "listener" /\ program = "hub") =>
    /\ push = NoPusher
    /\ \A g \in Pusher : closed[g] /\ stop[g]

(***************************************************************************)
(* A process that exits with success was asked to, has shown its readiness *)
(* as 503 before it closed its listener, and, unless the server's grace    *)
(* ran out, cuts no handler off: none can start behind its back.           *)
(***************************************************************************)
CleanExit ==
  exit = "ok" =>
    /\ ctxDone /\ marked
    /\ ~forced => \A c \in Client : pc[c] = "idle"

(***************************************************************************)
(* After a signal, at whatever point of its life it comes, the process     *)
(* ends, with any number of browsers connected, and without the server's   *)
(* grace period having to run out: the streams let it go.                  *)
(***************************************************************************)
ProcessEnds == ctxDone ~> exit # "no"
=============================================================================
