-------------------------- MODULE HealthCheckProofs --------------------------
(***************************************************************************)
(* The safety of the health check, for any set of Start calls: it leaves   *)
(* the lifecycle alone; the watchdog raises no false alarm while late      *)
(* ticks and slow checks together stay within the slack, for every         *)
(* interval and floor, and a death is for good; and what keeps the         *)
(* sentinel for a shutdown true.                                           *)
(***************************************************************************)
EXTENDS HealthCheck, TLAPS

(***************************************************************************)
(* The health check only reads the lifecycle (dashboard.go, HealthCheck):  *)
(* every safety property of PusherLifecycle holds while it runs.           *)
(***************************************************************************)
THEOREM HealthCheckOnlyReads == CheckSpec => Init /\ [][Next]_lifecycleVars
<1>1. CheckInit => Init BY DEF CheckInit
<1>2. [CheckNext]_vars => [Next]_lifecycleVars
  BY DEF CheckNext, Lifecycle, Next, Stamp, Wedge, Elapse, ClockBack, CheckStep,
     CheckLoad, CheckNil, CheckStamp, CheckAge, CheckCascade, vars
<1>3. QED BY <1>1, <1>2, PTL DEF CheckSpec
-----------------------------------------------------------------------------
(* The types the ages depend on; a loop not launched yet has no stamp.      *)
Ages ==
  /\ loop \in [Pusher -> LoopState]
  /\ wedged \in [Pusher -> BOOLEAN]
  /\ age \in [Pusher -> Age]
  /\ setbacks \in 0 .. Setbacks
  /\ \A g \in Pusher : age[g] # NoStamp => age[g] >= -setbacks
  /\ check \in {"idle", "nil", "pusher", "stamp", "cascade"}
  /\ push \in Pusher \cup {NoPusher}
  /\ check \in {"pusher", "stamp"} => loaded \in Pusher
  /\ held \in Age
  /\ held # NoStamp => held >= -setbacks
  /\ pause \in 0 .. Slack + 1

Unstamped ==
  \A g \in Pusher : loop[g] \in {"unborn", "stored"} => age[g] = NoStamp

IInv == Ages /\ Unstamped

LEMMA Bounds ==
  /\ Interval \in Nat \ {0} /\ Setbacks \in Nat /\ StaleAfter \in Nat
  /\ MaxAge \in Nat /\ MaxAge = StaleAfter + Setbacks + 1 /\ NoStamp = MaxAge + 1
  /\ Slack \in Nat /\ StaleAfter = Interval + Slack
<1>1. StaleAfter \in Nat /\ StaleAfter >= 3 * Interval
  BY TimingAssumption DEF StaleAfter
<1>2. QED BY <1>1, TimingAssumption DEF MaxAge, NoStamp, Slack

(* What the clock does to an age, and what an age can be.                  *)
LEMMA OlderYounger ==
  ASSUME NEW a \in Age, NEW s \in 0 .. Setbacks, a # NoStamp => a >= -s
  PROVE  /\ Older(a) \in Age
         /\ Older(a) = NoStamp <=> a = NoStamp
         /\ a # NoStamp => Older(a) >= a /\ Older(a) <= a + 1 /\ Older(a) >= -s
         /\ a # NoStamp /\ a < MaxAge => Older(a) = a + 1
         /\ s < Setbacks => Younger(a) \in Age
         /\ Younger(a) = NoStamp <=> a = NoStamp
         /\ a # NoStamp => Younger(a) = a - 1
BY Bounds DEF Age, Older, Younger

LEMMA InitIInv == CheckInit => IInv
BY Bounds DEF CheckInit, Init, IInv, Ages, Unstamped, LoopState, Age

LEMMA NextIInv == IInv /\ [CheckNext]_vars => IInv'
<1> SUFFICES ASSUME IInv, [CheckNext]_vars PROVE IInv' OBVIOUS
<1> USE DEF IInv, Ages, Unstamped, LoopState
<1>1. CASE UNCHANGED vars
  BY <1>1 DEF vars, lifecycleVars, checkVars
<1>2. CASE Lifecycle
  <2>1. PICK g \in Pusher : LifecycleStep(g) BY <1>2 DEF Lifecycle
  <2>2. UNCHANGED <<age, wedged, setbacks, checkVars>> BY <1>2 DEF Lifecycle
  <2>3. CASE StartStore(g) BY <2>2, <2>3 DEF StartStore, checkVars
  <2>4. CASE StartLaunch(g) BY <2>2, <2>4 DEF StartLaunch, checkVars
  <2>5. CASE CallerCancel(g) BY <2>2, <2>5 DEF CallerCancel, checkVars
  <2>6. CASE LoopExit(g) BY <2>2, <2>6 DEF LoopExit, checkVars
  <2>7. CASE ShutdownSwap(g) BY <2>2, <2>7 DEF ShutdownSwap, checkVars
  <2>8. CASE ShutdownClose(g) BY <2>2, <2>8 DEF ShutdownClose, checkVars
  <2>9. CASE ShutdownCancel(g) BY <2>2, <2>9 DEF ShutdownCancel, checkVars
  <2>10. QED BY <2>1, <2>3, <2>4, <2>5, <2>6, <2>7, <2>8, <2>9 DEF LifecycleStep
<1>3. ASSUME NEW g \in Pusher, Stamp(g) PROVE IInv'
  <2>1. PICK a \in -setbacks .. MaxAge : age' = [age EXCEPT ![g] = a]
    BY <1>3 DEF Stamp
  <2>2. a \in Age /\ a >= -setbacks BY Bounds DEF Age
  <2>3. loop[g] = "running" BY <1>3 DEF Stamp, Ticking
  <2>4. UNCHANGED <<lifecycleVars, wedged, setbacks, checkVars>> BY <1>3 DEF Stamp
  <2>5. QED BY <2>1, <2>2, <2>3, <2>4 DEF lifecycleVars, checkVars
<1>4. ASSUME NEW g \in Pusher, Wedge(g) PROVE IInv'
  BY <1>4 DEF Wedge, lifecycleVars, checkVars
<1>5. CASE Elapse
  <2>1. /\ age' = [g \in Pusher |-> Older(age[g])] /\ held' = Older(held)
        /\ UNCHANGED <<lifecycleVars, wedged, setbacks, check, loaded, verdict, live>>
    BY <1>5 DEF Elapse
  <2>2. \A g \in Pusher : /\ age'[g] \in Age
                          /\ age'[g] = NoStamp <=> age[g] = NoStamp
                          /\ age'[g] # NoStamp => age'[g] >= -setbacks
    BY <2>1, OlderYounger
  <2>3. held' \in Age /\ (held' # NoStamp => held' >= -setbacks)
    BY <2>1, OlderYounger
  <2>4. pause' \in 0 .. Slack + 1 BY <1>5, Bounds DEF Elapse
  <2>5. QED BY <2>1, <2>2, <2>3, <2>4 DEF lifecycleVars
<1>6. CASE ClockBack
  <2>1. /\ age' = [g \in Pusher |-> Younger(age[g])] /\ held' = Younger(held)
        /\ setbacks < Setbacks /\ setbacks' = setbacks + 1
        /\ UNCHANGED <<lifecycleVars, wedged, check, loaded, verdict, live, pause>>
    BY <1>6 DEF ClockBack
  <2>2. setbacks' \in 0 .. Setbacks BY <2>1, Bounds
  <2>3. \A a \in Age : a # NoStamp /\ a >= -setbacks => a - 1 >= -(setbacks + 1)
    BY Bounds DEF Age
  <2>4. \A g \in Pusher : /\ age'[g] \in Age
                          /\ age'[g] = NoStamp <=> age[g] = NoStamp
                          /\ age'[g] # NoStamp => age'[g] >= -setbacks'
    BY <2>1, <2>3, OlderYounger
  <2>5. held' \in Age /\ (held' # NoStamp => held' >= -setbacks')
    BY <2>1, <2>3, OlderYounger
  <2>6. QED BY <2>1, <2>2, <2>4, <2>5 DEF lifecycleVars
<1>7. CASE CheckStep
  <2> USE Bounds DEF lifecycleVars, Age
  <2>1. CASE CheckLoad BY <2>1 DEF CheckLoad
  <2>2. CASE CheckNil BY <2>2 DEF CheckNil
  <2>3. CASE CheckStamp BY <2>3 DEF CheckStamp
  <2>4. CASE CheckAge BY <2>4 DEF CheckAge
  <2>5. CASE CheckCascade BY <2>5 DEF CheckCascade
  <2>6. QED BY <1>7, <2>1, <2>2, <2>3, <2>4, <2>5 DEF CheckStep
<1>8. QED BY <1>1, <1>2, <1>3, <1>4, <1>5, <1>6, <1>7 DEF CheckNext

(***************************************************************************)
(* Why no false alarm: a pusher whose loop was live when it was loaded has *)
(* no stamp, or one no older than the last moment its loop was live, when  *)
(* the loop was on time, and what the clock has moved since the load; and  *)
(* so has what the check holds of it, also after the loop has moved on or  *)
(* is gone.                                                                *)
(***************************************************************************)
Young(a, late) == a = NoStamp \/ a <= Interval + late + pause

HeldInTime(late) ==
  /\ check \in {"pusher", "stamp"} /\ live =>
       /\ loop[loaded] # "unborn"
       /\ Young(age[loaded], late)
  /\ check = "stamp" /\ live => Young(held, late)
  /\ ~FalseAlarm

LEMMA NextHeldInTime ==
  ASSUME NEW late \in 0 .. Slack, IInv, IInv', HeldInTime(late), [CheckNext]_vars,
         OnTime(late), OnTime(late)', Prompt(Slack - late), Prompt(Slack - late)'
  PROVE  HeldInTime(late)'
<1> USE DEF HeldInTime, FalseAlarm, Young
<1> DEFINE reading == check \in {"pusher", "stamp"} /\ live
<1>1. late \in Nat /\ Interval \in Nat /\ Slack \in Nat /\ pause \in Nat
  BY Bounds DEF IInv, Ages
<1>2. \A g \in Pusher : age[g] \in Int /\ age'[g] \in Int
  BY Bounds DEF IInv, Ages, Age
<1>3. CASE UNCHANGED vars
  BY <1>3 DEF vars, lifecycleVars, checkVars
<1>4. CASE Lifecycle
  <2>1. PICK g \in Pusher : LifecycleStep(g) BY <1>4 DEF Lifecycle
  <2>2. UNCHANGED <<age, wedged, setbacks, checkVars>> BY <1>4 DEF Lifecycle
  <2>3. \A h \in Pusher : loop[h] # "unborn" => loop'[h] # "unborn"
    BY <2>1 DEF LifecycleStep, StartStore, StartLaunch, CallerCancel,
       LoopExit, ShutdownSwap, ShutdownClose, ShutdownCancel, IInv, Ages
  <2>4. check \in {"pusher", "stamp"} => loaded \in Pusher BY DEF IInv, Ages
  <2>5. QED BY <2>2, <2>3, <2>4 DEF checkVars
<1>5. ASSUME NEW g \in Pusher, Stamp(g) PROVE HeldInTime(late)'
  <2>1. PICK a \in -setbacks .. MaxAge : age' = [age EXCEPT ![g] = a]
    BY <1>5 DEF Stamp
  <2>2. Ticking(g)' /\ UNCHANGED <<lifecycleVars, wedged, setbacks, checkVars>>
    BY <1>5 DEF Stamp, Ticking, lifecycleVars
  <2>3. age'[g] = NoStamp \/ age'[g] <= Interval + late BY <2>2 DEF OnTime
  <2>4. age'[g] = NoStamp \/ age'[g] <= Interval + late + pause
    BY <1>1, <1>2, <2>3
  <2>5. \A h \in Pusher : h # g => age'[h] = age[h] BY <2>1 DEF IInv, Ages
  <2>6. check \in {"pusher", "stamp"} => loaded \in Pusher BY DEF IInv, Ages
  <2>7. QED BY <2>2, <2>4, <2>5, <2>6 DEF lifecycleVars, checkVars
<1>6. ASSUME NEW g \in Pusher, Wedge(g) PROVE HeldInTime(late)'
  BY <1>6 DEF Wedge, lifecycleVars, checkVars
<1>7. CASE Elapse
  <2>1. /\ age' = [g \in Pusher |-> Older(age[g])] /\ held' = Older(held)
        /\ UNCHANGED <<loop, check, loaded, verdict, live>>
    BY <1>7 DEF Elapse, lifecycleVars
  <2>2. check \in {"pusher", "stamp"} => pause' = pause + 1
    BY <1>1, <1>7 DEF Elapse, Prompt
  <2>3. ASSUME NEW a \in Age, a # NoStamp => a >= -setbacks, Young(a, late),
               check \in {"pusher", "stamp"}
        PROVE  Older(a) = NoStamp \/ Older(a) <= Interval + late + pause'
    <3>1. a = NoStamp \/ (a \in Int /\ a <= Interval + late + pause)
      BY <2>3, Bounds DEF Age
    <3>2. Older(a) = NoStamp \/ (Older(a) \in Int /\ Older(a) <= a + 1)
      BY <2>3, OlderYounger, Bounds DEF IInv, Ages, Age
    <3>3. Older(a) = NoStamp <=> a = NoStamp
      BY <2>3, OlderYounger DEF IInv, Ages
    <3>4. QED BY <1>1, <2>2, <2>3, <3>1, <3>2, <3>3
  <2>4. /\ held \in Age /\ (held # NoStamp => held >= -setbacks)
        /\ check \in {"pusher", "stamp"} =>
             /\ loaded \in Pusher /\ age[loaded] \in Age
             /\ age[loaded] # NoStamp => age[loaded] >= -setbacks
    BY DEF IInv, Ages
  <2>5. reading => /\ age'[loaded] = Older(age[loaded])
                   /\ \/ Older(age[loaded]) = NoStamp
                      \/ Older(age[loaded]) <= Interval + late + pause'
    BY <2>1, <2>3, <2>4
  <2>6. check = "stamp" /\ live =>
          Older(held) = NoStamp \/ Older(held) <= Interval + late + pause'
    BY <2>3, <2>4
  <2>7. QED BY <2>1, <2>5, <2>6
<1>8. CASE ClockBack
  <2>1. /\ age' = [g \in Pusher |-> Younger(age[g])] /\ held' = Younger(held)
        /\ UNCHANGED <<loop, check, loaded, verdict, live, pause>>
    BY <1>8 DEF ClockBack, lifecycleVars
  <2>2. ASSUME NEW a \in Age, Young(a, late)
        PROVE  Younger(a) = NoStamp \/ Younger(a) <= Interval + late + pause
    <3>1. a \in Int BY Bounds DEF Age
    <3>2. QED BY <1>1, <2>2, <3>1 DEF Younger
  <2>3. /\ held \in Age
        /\ check \in {"pusher", "stamp"} => loaded \in Pusher /\ age[loaded] \in Age
    BY DEF IInv, Ages
  <2>4. QED BY <2>1, <2>2, <2>3
<1>9. CASE CheckLoad
  <2>1. /\ check = "idle" /\ check' \in {"nil", "pusher"} /\ loaded' = push
        /\ UNCHANGED <<loop, age, pause>>
        /\ live' => \E g \in Pusher :
                      push = g /\ loop[g] \in {"stored", "running"} /\ ~wedged[g]
    BY <1>9 DEF CheckLoad, lifecycleVars
  <2>2. CASE live'
    <3>1. PICK g \in Pusher :
            push = g /\ loop[g] \in {"stored", "running"} /\ ~wedged[g]
      BY <2>1, <2>2
    <3>2. age[g] = NoStamp \/ age[g] <= Interval + late
      BY <3>1 DEF IInv, Unstamped, OnTime, Ticking
    <3>3. age[g] = NoStamp \/ age[g] <= Interval + late + pause
      BY <1>1, <1>2, <3>2
    <3>4. QED BY <2>1, <3>1, <3>3
  <2>3. CASE ~live' BY <2>1, <2>3
  <2>4. QED BY <2>2, <2>3
<1>10. CASE CheckNil BY <1>10 DEF CheckNil
<1>11. CASE CheckStamp BY <1>11 DEF CheckStamp, lifecycleVars
<1>12. CASE CheckAge
  <2>1. check' # "pusher" /\ check' # "stamp" /\ live' = live BY <1>12 DEF CheckAge
  <2>2. check' = "idle" /\ verdict' = "stale" => Stale(held)
    BY <1>12 DEF CheckAge
  <2>3. held \in Int BY Bounds DEF IInv, Ages, Age
  <2>4. pause <= Slack - late BY DEF Prompt
  <2>5. Interval + late + pause <= StaleAfter BY <1>1, <2>4, Bounds
  <2>6. live => ~Stale(held)
    BY <1>1, <1>12, <2>3, <2>5, Bounds DEF CheckAge, Stale
  <2>7. QED BY <2>1, <2>2, <2>6
<1>13. CASE CheckCascade BY <1>13 DEF CheckCascade
<1>14. QED
  BY <1>3, <1>4, <1>5, <1>6, <1>7, <1>8, <1>9, <1>10, <1>11, <1>12, <1>13
     DEF CheckNext, CheckStep

(***************************************************************************)
(* For every interval, floor and number of pushers, and whatever Starts,   *)
(* Shutdowns and ticks come between a check's reads: while ticks are at    *)
(* most `late` late and checks take at most the rest of the slack, by the  *)
(* wall clock, no pusher that was live when the check loaded it is called  *)
(* stale (dashboard.go, HealthCheck; ADR-0005).                            *)
(***************************************************************************)
THEOREM WatchdogIsSound == CheckSpec => NoFalseAlarm
<1> SUFFICES ASSUME NEW late \in 0 .. Slack
             PROVE  CheckSpec => ([](OnTime(late) /\ Prompt(Slack - late))
                                    => []~FalseAlarm)
  BY DEF NoFalseAlarm
<1>1. CheckInit => HeldInTime(late)
  BY DEF CheckInit, HeldInTime, FalseAlarm
<1>2. /\ IInv /\ IInv' /\ HeldInTime(late) /\ [CheckNext]_vars
      /\ (OnTime(late) /\ Prompt(Slack - late))
      /\ (OnTime(late) /\ Prompt(Slack - late))'
      => HeldInTime(late)'
  BY NextHeldInTime
<1>3. HeldInTime(late) => ~FalseAlarm BY DEF HeldInTime
<1>4. QED BY <1>1, <1>2, <1>3, InitIInv, NextIInv, PTL DEF CheckSpec
-----------------------------------------------------------------------------
(* A loop that will never stamp again.                                     *)
Dead(g) == wedged[g] \/ loop[g] = "exited"

(***************************************************************************)
(* A dead loop stays dead, whatever Start, Shutdown and other loops do; a  *)
(* check that has loaded its pusher loads its stamp next; and but for the  *)
(* clock being set back its stamp only grows older, stays too old once it  *)
(* is, and a check that holds one too old ends with "stale".               *)
(***************************************************************************)
DeathStands ==
  /\ \A g \in Pusher :
       Dead(g) =>
         /\ Dead(g)'
         /\ age[g] # NoStamp => age'[g] # NoStamp
         /\ check = "pusher" /\ loaded = g /\ check' # "pusher"
              => check' = "stamp" /\ held' = age[g]
         /\ setbacks' = setbacks => /\ age[g] # NoStamp => age'[g] >= age[g]
                                    /\ Stale(age[g]) => Stale(age'[g])
  /\ check = "stamp" /\ Stale(held) /\ setbacks' = setbacks
       => \/ check' = "stamp" /\ Stale(held')
          \/ check' = "idle" /\ verdict' = "stale"

(* So does time pass for it: no dead loop holds the clock up.              *)
DeathAges ==
  Elapse => \A g \in Pusher :
              Dead(g) /\ age[g] < MaxAge => age'[g] = age[g] + 1

(***************************************************************************)
(* The safety half of DeathIsReported, for every interval and floor and    *)
(* any number of pushers: all that the liveness adds is that time passes   *)
(* and checks are made (dashboard.go, HealthCheck).                        *)
(***************************************************************************)
THEOREM DeathIsForGood == CheckSpec => [][DeathStands /\ DeathAges]_vars
<1>1. IInv /\ [CheckNext]_vars => [DeathStands /\ DeathAges]_vars
  <2> SUFFICES ASSUME IInv, CheckNext PROVE DeathStands /\ DeathAges
    OBVIOUS
  <2>1. /\ loop \in [Pusher -> LoopState] /\ wedged \in [Pusher -> BOOLEAN]
        /\ held \in Age /\ (held # NoStamp => held >= -setbacks)
        /\ age \in [Pusher -> Age] /\ setbacks \in 0 .. Setbacks
        /\ \A g \in Pusher : age[g] # NoStamp => age[g] >= -setbacks
    BY DEF IInv, Ages
  <2>2. NoStamp \in Nat /\ MaxAge \in Nat /\ NoStamp = MaxAge + 1
        /\ \A a \in Age : a \in Int
    BY Bounds DEF Age
  <2>3. DeathAges
    BY <2>1, <2>2, OlderYounger DEF DeathAges, Elapse
  <2>4. IInv' BY NextIInv
  <2>5. \A a, b \in Age : Stale(a) /\ b # NoStamp /\ b >= a => Stale(b)
    BY <2>2, Bounds DEF Stale
  <2>6. ASSUME NEW g \in Pusher, Dead(g)
        PROVE  /\ Dead(g)'
               /\ age[g] # NoStamp => age'[g] # NoStamp
               /\ setbacks' = setbacks /\ age[g] # NoStamp => age'[g] >= age[g]
    <3>1. CASE Lifecycle
      <4>1. PICK h \in Pusher : LifecycleStep(h) BY <3>1 DEF Lifecycle
      <4>2. UNCHANGED <<age, wedged>> BY <3>1 DEF Lifecycle
      <4>3. loop[g] = "exited" => loop'[g] = "exited"
        BY <2>1, <4>1 DEF LifecycleStep, StartStore, StartLaunch, CallerCancel,
           LoopExit, ShutdownSwap, ShutdownClose, ShutdownCancel, LoopState
      <4>4. age[g] \in Int BY <2>1, <2>2
      <4>5. QED BY <2>6, <4>2, <4>3, <4>4 DEF Dead
    <3>2. ASSUME NEW h \in Pusher, Stamp(h) \/ Wedge(h)
          PROVE  Dead(g)' /\ age'[g] = age[g]
      BY <2>1, <2>6, <3>2 DEF Stamp, Wedge, Ticking, Dead, lifecycleVars
    <3>3. CASE Elapse
      BY <2>1, <2>6, <3>3, OlderYounger DEF Elapse, Dead, lifecycleVars
    <3>4. CASE ClockBack
      <4>1. setbacks' # setbacks BY <2>1, <3>4, Bounds DEF ClockBack
      <4>2. QED
        BY <2>1, <2>6, <3>4, <4>1, OlderYounger DEF ClockBack, Dead, lifecycleVars
    <3>5. CASE CheckStep
      <4>1. UNCHANGED <<lifecycleVars, age, wedged>>
        BY <3>5 DEF CheckStep, CheckLoad, CheckNil, CheckStamp, CheckAge, CheckCascade
      <4>2. age[g] \in Int BY <2>1, <2>2
      <4>3. QED BY <2>6, <4>1, <4>2 DEF Dead, lifecycleVars
    <3>6. age[g] \in Int BY <2>1, <2>2
    <3>7. QED BY <3>1, <3>2, <3>3, <3>4, <3>5, <3>6 DEF CheckNext
  <2>7. ASSUME NEW g \in Pusher, check = "pusher", loaded = g, check' # "pusher"
        PROVE  check' = "stamp" /\ held' = age[g]
    BY <2>7 DEF CheckNext, Lifecycle, Stamp, Wedge, Elapse, ClockBack, CheckStep,
       CheckLoad, CheckNil, CheckStamp, CheckAge, CheckCascade, checkVars
  <2>8. ASSUME NEW g \in Pusher, Dead(g), Stale(age[g]), setbacks' = setbacks
        PROVE  Stale(age'[g])
    <3>1. age[g] \in Age /\ age'[g] \in Age BY <2>1, <2>4 DEF IInv, Ages
    <3>2. age'[g] # NoStamp /\ age'[g] >= age[g] BY <2>6, <2>8 DEF Stale
    <3>3. QED BY <2>5, <2>8, <3>1, <3>2
  <2>9. ASSUME check = "stamp", Stale(held), setbacks' = setbacks
        PROVE  \/ check' = "stamp" /\ Stale(held')
               \/ check' = "idle" /\ verdict' = "stale"
    <3>1. CASE Lifecycle BY <2>9, <3>1 DEF Lifecycle, checkVars
    <3>2. ASSUME NEW h \in Pusher, Stamp(h) \/ Wedge(h)
          PROVE  check' = "stamp" /\ Stale(held')
      BY <2>9, <3>2 DEF Stamp, Wedge, checkVars
    <3>3. CASE Elapse
      <4>1. check' = "stamp" /\ held' = Older(held) BY <2>9, <3>3 DEF Elapse
      <4>2. held # NoStamp BY <2>9 DEF Stale
      <4>3. Older(held) \in Age /\ Older(held) # NoStamp /\ Older(held) >= held
        BY <2>1, <4>2, OlderYounger
      <4>4. QED BY <2>1, <2>5, <2>9, <4>1, <4>3
    <3>4. ClockBack => setbacks' # setbacks BY <2>1, Bounds DEF ClockBack
    <3>5. CASE CheckStep
      BY <2>9, <3>5 DEF CheckStep, CheckLoad, CheckNil, CheckStamp, CheckAge,
         CheckCascade
    <3>6. QED BY <2>9, <3>1, <3>2, <3>3, <3>4, <3>5 DEF CheckNext
  <2>10. QED BY <2>3, <2>6, <2>7, <2>8, <2>9 DEF DeathStands
<1>2. QED BY <1>1, InitIInv, NextIInv, PTL DEF CheckSpec
-----------------------------------------------------------------------------
(* The rest of the types: IInv has those that the ages depend on.          *)
Typed ==
  /\ started \in BOOLEAN
  /\ stop \in [Pusher -> BOOLEAN]
  /\ closed \in [Pusher -> BOOLEAN]
  /\ down \in [Pusher -> DownState]
  /\ push \in Pusher \cup {NoPusher}
  /\ loaded \in Pusher \cup {NoPusher}
  /\ verdict \in Verdict
  /\ live \in BOOLEAN

LEMMA NextTyped == Typed /\ [CheckNext]_vars => Typed'
<1> SUFFICES ASSUME Typed, [CheckNext]_vars PROVE Typed' OBVIOUS
<1> USE DEF Typed, DownState, Verdict
<1>1. CASE UNCHANGED vars
  BY <1>1 DEF vars, lifecycleVars, checkVars
<1>2. CASE Lifecycle
  <2>1. PICK g \in Pusher : LifecycleStep(g) BY <1>2 DEF Lifecycle
  <2>2. UNCHANGED checkVars BY <1>2 DEF Lifecycle
  <2>3. CASE StartStore(g) \/ StartLaunch(g) \/ CallerCancel(g) \/ LoopExit(g)
    BY <2>2, <2>3 DEF StartStore, StartLaunch, CallerCancel, LoopExit, checkVars
  <2>4. CASE ShutdownSwap(g) \/ ShutdownClose(g) \/ ShutdownCancel(g)
    BY <2>2, <2>4 DEF ShutdownSwap, ShutdownClose, ShutdownCancel, checkVars
  <2>5. QED BY <2>1, <2>3, <2>4 DEF LifecycleStep
<1>3. ASSUME NEW g \in Pusher, Stamp(g) \/ Wedge(g) PROVE Typed'
  BY <1>3 DEF Stamp, Wedge, lifecycleVars, checkVars
<1>4. CASE Elapse \/ ClockBack
  BY <1>4 DEF Elapse, ClockBack, lifecycleVars
<1>5. CASE CheckStep
  BY <1>5 DEF CheckStep, CheckLoad, CheckNil, CheckStamp, CheckAge, CheckCascade,
     lifecycleVars
<1>6. QED BY <1>1, <1>2, <1>3, <1>4, <1>5 DEF CheckNext

(***************************************************************************)
(* Pushers, ages and the health check under way keep their types, and      *)
(* every verdict is one of the documented ones (dashboard.go, HealthCheck).*)
(***************************************************************************)
THEOREM CheckTypeCorrect == CheckSpec => []CheckTypeOK
<1>1. CheckInit => Typed BY DEF CheckInit, Init, Typed, DownState, Verdict
<1>2. IInv /\ Typed => CheckTypeOK
  BY DEF IInv, Ages, Typed, CheckTypeOK, TypeOK
<1>3. QED BY <1>1, <1>2, InitIInv, NextIInv, NextTyped, PTL DEF CheckSpec
-----------------------------------------------------------------------------
(* No Start stores d.started between the two reads of a check that found   *)
(* no pusher.                                                              *)
ReadsUndisturbed == check = "nil" => started' = started

(* Why the two reads suffice then: a Start publishes before it is recorded, *)
(* and only a Shutdown takes a pusher back.                                *)
SomeShutdown == \E g \in Pusher : down[g] # "no"
SomeStart == \E g \in Pusher : loop[g] # "unborn"
Sentinels ==
  /\ started => SomeStart
  /\ SomeStart => push # NoPusher \/ SomeShutdown
  /\ check = "nil" /\ started => SomeShutdown
  /\ ShutDownIsTrue

LEMMA NextSentinels ==
  ASSUME Typed, Sentinels, ReadsUndisturbed, CheckNext
  PROVE  Sentinels'
<1> USE NoPusherAssumption
    DEF Sentinels, SomeShutdown, SomeStart, ShutDownIsTrue, ReadsUndisturbed
<1>1. CASE Lifecycle
  <2>1. PICK g \in Pusher : LifecycleStep(g) BY <1>1 DEF Lifecycle
  <2>2. UNCHANGED checkVars BY <1>1 DEF Lifecycle
  <2>3. CASE StartStore(g)
    <3>1. push' # NoPusher /\ UNCHANGED <<started, down>> BY <2>3 DEF StartStore
    <3>2. SomeStart => SomeStart'
      BY <2>3 DEF StartStore
    <3>3. QED BY <2>2, <3>1, <3>2 DEF checkVars
  <2>4. CASE StartLaunch(g)
    <3>1. loop[g] = "stored" /\ UNCHANGED <<push, down>> BY <2>4 DEF StartLaunch
    <3>2. SomeStart /\ SomeStart'
      BY <2>4 DEF StartLaunch
    <3>3. QED BY <2>2, <3>1, <3>2 DEF checkVars
  <2>5. CASE CallerCancel(g) BY <2>2, <2>5 DEF CallerCancel, checkVars
  <2>6. CASE LoopExit(g)
    <3>1. SomeStart /\ SomeStart' BY <2>6 DEF LoopExit
    <3>2. QED BY <2>2, <2>6, <3>1 DEF LoopExit, checkVars
  <2>7. CASE ShutdownSwap(g) \/ ShutdownClose(g) \/ ShutdownCancel(g)
    <3>1. SomeShutdown'
      BY <2>7 DEF ShutdownSwap, ShutdownClose, ShutdownCancel, Typed
    <3>2. UNCHANGED <<started, loop>>
      BY <2>7 DEF ShutdownSwap, ShutdownClose, ShutdownCancel
    <3>3. QED BY <2>2, <3>1, <3>2 DEF checkVars
  <2>8. QED BY <2>1, <2>3, <2>4, <2>5, <2>6, <2>7 DEF LifecycleStep
<1>2. ASSUME NEW g \in Pusher, Stamp(g) \/ Wedge(g) PROVE Sentinels'
  BY <1>2 DEF Stamp, Wedge, lifecycleVars, checkVars
<1>3. CASE Elapse \/ ClockBack BY <1>3 DEF Elapse, ClockBack, lifecycleVars
<1>4. CASE CheckLoad BY <1>4 DEF CheckLoad, lifecycleVars
<1>5. CASE CheckNil BY <1>5 DEF CheckNil, lifecycleVars
<1>6. CASE CheckStamp \/ CheckAge BY <1>6 DEF CheckStamp, CheckAge, lifecycleVars
<1>7. CASE CheckCascade BY <1>7 DEF CheckCascade, lifecycleVars
<1>8. QED BY <1>1, <1>2, <1>3, <1>4, <1>5, <1>6, <1>7 DEF CheckNext, CheckStep

(***************************************************************************)
(* The overlap with a Start is all that makes ErrPusherShutDown untrue: a  *)
(* check during whose reads no Start is recorded reports it only after a   *)
(* Shutdown, for any number of Start and Shutdown calls (dashboard.go,     *)
(* HealthCheck).                                                           *)
(***************************************************************************)
THEOREM UndisturbedSentinelIsTrue ==
  CheckSpec => ([][ReadsUndisturbed]_vars => []ShutDownIsTrue)
<1>1. CheckInit => Sentinels
  BY DEF CheckInit, Init, Sentinels, SomeStart, SomeShutdown, ShutDownIsTrue
<1>2. Typed /\ Sentinels /\ [CheckNext]_vars /\ [ReadsUndisturbed]_vars => Sentinels'
  <2>1. CASE UNCHANGED vars
    BY <2>1 DEF vars, lifecycleVars, checkVars, Sentinels, SomeStart,
       SomeShutdown, ShutDownIsTrue
  <2>2. CASE ~UNCHANGED vars BY <2>2, NextSentinels
  <2>3. QED BY <2>1, <2>2
<1>3. Sentinels => ShutDownIsTrue BY DEF Sentinels
<1>4. CheckInit => Typed BY DEF CheckInit, Init, Typed, DownState, Verdict
<1>5. QED BY <1>1, <1>2, <1>3, <1>4, NextTyped, PTL DEF CheckSpec
=============================================================================
