----------------------------- MODULE HealthCheck -----------------------------
(***************************************************************************)
(* Dashboard.HealthCheck as container health checks call it, concurrently  *)
(* with Start, Shutdown and the push loops: which sentinel it returns, and *)
(* the staleness watchdog behind ErrPusherStale (dashboard.go, ADR-0002    *)
(* and ADR-0005).                                                          *)
(*                                                                         *)
(* Time is discrete and is the wall clock's: a stamp is a UnixNano, which  *)
(* has no monotonic reading.  Elapse is the clock going forward, on its    *)
(* own or because it was set, at any moment and past any tick; ClockBack   *)
(* is the clock being set back.                                            *)
(***************************************************************************)
EXTENDS PusherLifecycle, Integers

CONSTANTS
  Interval,   \* the resolved push interval
  Floor,      \* pusherStaleFloor
  Cascade,    \* WithCascadeProbeVerdict, with a prober that has a verdict
  Setbacks    \* model bound on the units the clock is set back

ASSUME TimingAssumption ==
  /\ Interval \in Nat \ {0}
  /\ Floor \in Nat
  /\ Cascade \in BOOLEAN
  /\ Setbacks \in Nat

StaleAfter == IF 3 * Interval >= Floor THEN 3 * Interval ELSE Floor

(* What StaleAfter leaves for late ticks and slow checks together.         *)
Slack == StaleAfter - Interval

(* Ages from MaxAge on look alike: a bound of the model.  No setting back   *)
(* of the clock makes one of them young again.                             *)
MaxAge == StaleAfter + Setbacks + 1
NoStamp == MaxAge + 1
Age == -Setbacks .. NoStamp

VARIABLES
  age,       \* per pusher: time since lastBroadcast; NoStamp if that is 0
  wedged,    \* per pusher: its loop is stuck inside a broadcast
  setbacks,  \* the units the clock was set back
  check,     \* the health check under way: control
  loaded,    \* the pusher pointer it loaded
  held,      \* the age of the stamp it loaded
  verdict,   \* what the last completed health check returned
  live,      \* history: the loop of the pusher it loaded was live then
  pause      \* history: how far the clock went on since, up to Slack + 1

checkVars == <<check, loaded, held, verdict, live, pause>>
vars == <<lifecycleVars, age, wedged, setbacks, checkVars>>

Verdict == {"none", "ok", "not_started", "shut_down", "stale", "probe"}

CheckTypeOK ==
  /\ TypeOK
  /\ age \in [Pusher -> Age]
  /\ wedged \in [Pusher -> BOOLEAN]
  /\ setbacks \in 0 .. Setbacks
  /\ check \in {"idle", "nil", "pusher", "stamp", "cascade"}
  /\ loaded \in Pusher \cup {NoPusher}
  /\ held \in Age
  /\ verdict \in Verdict
  /\ live \in BOOLEAN
  /\ pause \in 0 .. Slack + 1

CheckInit ==
  /\ Init
  /\ age = [g \in Pusher |-> NoStamp]
  /\ wedged = [g \in Pusher |-> FALSE]
  /\ setbacks = 0
  /\ check = "idle"
  /\ loaded = NoPusher
  /\ held = NoStamp
  /\ verdict = "none"
  /\ live = FALSE
  /\ pause = 0
-----------------------------------------------------------------------------
Ticking(g) == loop[g] = "running" /\ ~wedged[g]

(* Start, Shutdown and loop exits.  A wedged loop never gets to exit.      *)
Lifecycle ==
  /\ \E g \in Pusher :
       /\ LifecycleStep(g)
       /\ wedged[g] => loop'[g] # "exited"
  /\ UNCHANGED <<age, wedged, setbacks, checkVars>>

(* broadcast: lastBroadcast.Store(time.Now().UnixNano()), the first thing a *)
(* tick does.  time.Now is read first: by the time of the store the stamp   *)
(* may have aged, up to its predecessor, or the clock have been set back.   *)
Stamp(g) ==
  /\ Ticking(g)
  /\ \E a \in -setbacks .. MaxAge :
       /\ a <= 0 \/ a <= age[g]
       /\ age' = [age EXCEPT ![g] = a]
  /\ UNCHANGED <<lifecycleVars, wedged, setbacks, checkVars>>

(* A stamped broadcast never returns: the probe or a render hangs.         *)
Wedge(g) ==
  /\ Ticking(g)
  /\ age[g] # NoStamp
  /\ wedged' = [wedged EXCEPT ![g] = TRUE]
  /\ UNCHANGED <<lifecycleVars, age, setbacks, checkVars>>

Older(a) == IF a \in {MaxAge, NoStamp} THEN a ELSE a + 1
Younger(a) == IF a = NoStamp THEN a ELSE a - 1

(* The clock goes forward.                                                 *)
Elapse ==
  /\ age' = [g \in Pusher |-> Older(age[g])]
  /\ held' = Older(held)
  /\ pause' = IF check \in {"pusher", "stamp"} /\ pause <= Slack
              THEN pause + 1 ELSE pause
  /\ UNCHANGED <<lifecycleVars, wedged, setbacks, check, loaded, verdict, live>>

(* The clock is set back.                                                  *)
ClockBack ==
  /\ setbacks < Setbacks
  /\ setbacks' = setbacks + 1
  /\ age' = [g \in Pusher |-> Younger(age[g])]
  /\ held' = Younger(held)
  /\ UNCHANGED <<lifecycleVars, wedged, check, loaded, verdict, live, pause>>

(* HealthCheck: push := d.push.Load().                                     *)
CheckLoad ==
  /\ check = "idle"
  /\ loaded' = push
  /\ check' = IF push = NoPusher THEN "nil" ELSE "pusher"
  /\ live' = \E g \in Pusher :
               push = g /\ loop[g] \in {"stored", "running"} /\ ~wedged[g]
  /\ UNCHANGED <<lifecycleVars, age, wedged, setbacks, held, verdict, pause>>

(* HealthCheck, nil pusher: d.started tells the two sentinels apart.       *)
CheckNil ==
  /\ check = "nil"
  /\ verdict' = IF started THEN "shut_down" ELSE "not_started"
  /\ check' = "idle"
  /\ UNCHANGED <<lifecycleVars, age, wedged, setbacks, loaded, held, live, pause>>

(* HealthCheck: last := push.lastBroadcast.Load().                         *)
CheckStamp ==
  /\ check = "pusher"
  /\ held' = age[loaded]
  /\ check' = "stamp"
  /\ UNCHANGED <<lifecycleVars, age, wedged, setbacks, loaded, verdict, live, pause>>

(* Mutant: the guard against a missing stamp is inverted.                  *)
StaleUnstamped(a) == a = NoStamp /\ a > StaleAfter

(* Mutant: three intervals, without the floor.                             *)
StaleNoFloor(a) == a # NoStamp /\ a > 3 * Interval

Stale(a) == a # NoStamp /\ a > StaleAfter

(* HealthCheck: time.Since(last), by now, decides.                         *)
CheckAge ==
  /\ check = "stamp"
  /\ \/ Stale(held) /\ check' = "idle" /\ verdict' = "stale"
     \/ /\ ~Stale(held)
        /\ IF Cascade THEN check' = "cascade" /\ UNCHANGED verdict
                      ELSE check' = "idle" /\ verdict' = "ok"
  /\ loaded' = NoPusher
  /\ held' = NoStamp
  /\ pause' = 0
  /\ UNCHANGED <<lifecycleVars, age, wedged, setbacks, live>>

(* HealthCheck: the probe's own verdict is forwarded.                      *)
CheckCascade ==
  /\ check = "cascade"
  /\ verdict' \in {"ok", "probe"}
  /\ check' = "idle"
  /\ UNCHANGED <<lifecycleVars, age, wedged, setbacks, loaded, held, live, pause>>

CheckStep == CheckLoad \/ CheckNil \/ CheckStamp \/ CheckAge \/ CheckCascade

CheckNext ==
  \/ Lifecycle
  \/ \E g \in Pusher : Stamp(g) \/ Wedge(g)
  \/ Elapse
  \/ ClockBack
  \/ CheckStep

(* Checks are polled for ever, and the clock goes on.                      *)
CheckFairness == WF_vars(CheckStep) /\ WF_vars(Elapse)

CheckSpec == CheckInit /\ [][CheckNext]_vars /\ CheckFairness
-----------------------------------------------------------------------------
(* By the wall clock, every live loop stamps at most `late` late.          *)
OnTime(late) ==
  \A g \in Pusher :
    Ticking(g) /\ age[g] # NoStamp => age[g] <= Interval + late

(* By the wall clock, a check gets from push.Load to time.Since in time.   *)
Prompt(delay) == pause <= delay

(* A check that found its pusher's loop live has called it stale.          *)
FalseAlarm == check = "idle" /\ verdict = "stale" /\ live

(***************************************************************************)
(* No false alarm: if ticks come at most `late` late and checks take no    *)
(* longer than what that leaves of the slack, no check calls a pusher      *)
(* stale whose loop was live when the check loaded it, whether the loop    *)
(* ticks between its reads, has yet to be launched, or is being shut down  *)
(* or replaced (dashboard.go, HealthCheck; ADR-0005: fast probes were      *)
(* flagged before the floor).                                              *)
(***************************************************************************)
NoFalseAlarm ==
  \A late \in 0 .. Slack :
    [](OnTime(late) /\ Prompt(Slack - late)) => []~FalseAlarm

(***************************************************************************)
(* No silent death: while a published pusher's loop is wedged, or gone     *)
(* because the caller cancelled the context, health checks end up          *)
(* reporting it stale and keep doing so, however the clock is set          *)
(* (dashboard.go, HealthCheck).                                            *)
(***************************************************************************)
DeathIsReported ==
  \A g \in Pusher :
    <>[](push = g /\ age[g] # NoStamp /\ (wedged[g] \/ loop[g] = "exited"))
      => <>[](verdict = "stale")

(***************************************************************************)
(* dashboard.go:280-281 says "ErrPusherShutDown is returned by HealthCheck *)
(* after Shutdown has stopped the pusher": before it is ever reported,     *)
(* someone has called Shutdown.                                            *)
(***************************************************************************)
ShutDownIsTrue == verdict = "shut_down" => \E g \in Pusher : down[g] # "no"
=============================================================================
