----------------------------- MODULE Observation -----------------------------
(***************************************************************************)
(* What the dashboard remembers of the probe's answers, with everyone who  *)
(* writes and reads it at the same time: push loops and the Observe hook   *)
(* feed the evidence log, the trend ring and the latency histogram         *)
(* (pusher.go, broadcast; dashboard.go, Observe); pages, the trend         *)
(* endpoint and metrics scrapes read them (evidence.go, history.go,        *)
(* trend.go, metrics.go).                                                  *)
(*                                                                         *)
(* The log and the ring are locked for each access, the histogram is a row *)
(* of atomic counters.  An observation is known by its stamp, its number   *)
(* in the order in which recorders read the clock.                         *)
(***************************************************************************)
EXTENDS History, FiniteSets

CONSTANTS
  Loop,         \* push loops that may overlap
  Hook,         \* concurrent calls of Dashboard.Observe
  Name,         \* check names
  Response,     \* health responses, functions from Name to a verdict
  MaxEvidence,  \* maxEvidenceChecks (10000)
  Bucket,       \* the number of histogram bounds (11)
  Latency,      \* probe latencies, as the first bucket that covers them
  MaxObs        \* model bound on observations

Recorder == Loop \cup Hook
Verdict == {"pass", "off", "bad"}

ASSUME ObservationAssumption ==
  /\ IsFiniteSet(Recorder) /\ Loop \cap Hook = {}
  /\ IsFiniteSet(Name)
  /\ Response \subseteq [Name -> Verdict]
  /\ MaxEvidence \in Nat
  /\ Bucket \in Nat
  /\ Latency \subseteq 1 .. Bucket + 1
  /\ MaxObs \in Nat

VARIABLES
  taken,     \* the responses observed, by stamp
  at,        \* per recorder: control
  stamp,     \* per recorder: the observation it is recording
  evidence,  \* evidenceLog.checks: name to the stamp of its lastNonPass
  ring,      \* historyBuffer
  log,       \* the samples recorded so far, in the order of the ring's lock
  slot,      \* per loop: the histogram bucket it increments next
  buckets,   \* latencyHistogram.buckets
  count,     \* latencyHistogram.count
  reader,    \* a request under way: control
  page       \* what it has read

recorderVars == <<taken, at, stamp, slot>>
readerVars == <<reader, page>>
vars == <<taken, at, stamp, evidence, ring, log, slot, buckets, count,
          reader, page>>

NonPass(resp) == {n \in Name : resp[n] = "bad"}

(* The overall status: off is pass-tier.                                   *)
Overall(resp) == IF NonPass(resp) = {} THEN "pass" ELSE "bad"

Sample(t) == [at |-> t, status |-> Overall(taken[t])]

EmptyPage == [samples |-> <<>>, flips |-> {}, kept |-> {}, proven |-> {},
              full |-> FALSE, scrape |-> <<>>]

TypeOK ==
  /\ taken \in Seq(Response)
  /\ at \in [Recorder -> {"idle", "evidence", "history", "latency"}]
  /\ stamp \in [Recorder -> 0 .. Len(taken)]
  /\ DOMAIN evidence \subseteq Name
  /\ Cardinality(DOMAIN evidence) <= MaxEvidence
  /\ ring.next \in 0 .. RingSize - 1
  /\ ring.full \in BOOLEAN
  /\ slot \in [Loop -> 1 .. Bucket + 1]
  /\ buckets \in [1 .. Bucket -> Nat]
  /\ count \in Nat
  /\ reader \in {"idle", "flips", "evidence", "done", "scrape", "scraped"}

Init ==
  /\ taken = <<>>
  /\ at = [r \in Recorder |-> "idle"]
  /\ stamp = [r \in Recorder |-> 0]
  /\ evidence = [n \in {} |-> 0]
  /\ ring = EmptyRing
  /\ log = <<>>
  /\ slot = [l \in Loop |-> 1]
  /\ buckets = [b \in 1 .. Bucket |-> 0]
  /\ count = 0
  /\ reader = "idle"
  /\ page = EmptyPage
-----------------------------------------------------------------------------
(* Mutant: the clock is read once, when the recorder starts.               *)
TakeOldStamp(r) ==
  /\ at[r] = "idle"
  /\ Len(taken) < MaxObs
  /\ \E resp \in Response : taken' = Append(taken, resp)
  /\ stamp' = [stamp EXCEPT ![r] = IF @ = 0 THEN Len(taken) + 1 ELSE @]
  /\ at' = [at EXCEPT ![r] = "evidence"]
  /\ UNCHANGED <<evidence, ring, log, slot, buckets, count, readerVars>>

(* broadcast and Observe: a response and the time it is observed.          *)
Take(r) ==
  /\ at[r] = "idle"
  /\ Len(taken) < MaxObs
  /\ \E resp \in Response : taken' = Append(taken, resp)
  /\ stamp' = [stamp EXCEPT ![r] = Len(taken) + 1]
  /\ at' = [at EXCEPT ![r] = "evidence"]
  /\ UNCHANGED <<evidence, ring, log, slot, buckets, count, readerVars>>

Room == MaxEvidence - Cardinality(DOMAIN evidence)

(* Mutant: an off check counts as having deviated.                         *)
ProvenByOff(resp) == {n \in Name : resp[n] # "pass"}

(* observe: the checks whose verdict proves that they can deviate.         *)
ProvenBy(resp) == NonPass(resp)

(* Mutant: names enter a full log.                                         *)
UpdatedUncapped(bad, t) ==
  {[n \in DOMAIN evidence \cup bad |-> IF n \in bad THEN t ELSE evidence[n]]}

(* The log after observing that the checks in bad deviated at t: known     *)
(* names are updated, new ones enter as long as there is room, in the      *)
(* random order of a Go map.                                               *)
Updated(bad, t) ==
  LET new == bad \ DOMAIN evidence
      fits == IF Cardinality(new) <= Room THEN Cardinality(new) ELSE Room
  IN  {[n \in DOMAIN evidence \cup entering |->
          IF n \in bad THEN t ELSE evidence[n]] :
         entering \in {e \in SUBSET new : Cardinality(e) = fits}}

(* Mutant: evidence accrues only when the overall status changes.          *)
RecordEvidenceOnChange(r) ==
  /\ at[r] = "evidence"
  /\ IF log # <<>> /\ log[Len(log)].status = Overall(taken[stamp[r]])
     THEN UNCHANGED evidence
     ELSE evidence' \in Updated(ProvenBy(taken[stamp[r]]), stamp[r])
  /\ at' = [at EXCEPT ![r] = "history"]
  /\ UNCHANGED <<taken, stamp, ring, log, slot, buckets, count, readerVars>>

(* evidenceLog.observe.                                                    *)
RecordEvidence(r) ==
  /\ at[r] = "evidence"
  /\ evidence' \in Updated(ProvenBy(taken[stamp[r]]), stamp[r])
  /\ at' = [at EXCEPT ![r] = "history"]
  /\ UNCHANGED <<taken, stamp, ring, log, slot, buckets, count, readerVars>>

(* historyBuffer.record.  Observe returns; a loop goes on with the latency *)
(* of the response.                                                        *)
RecordSample(r) ==
  /\ at[r] = "history"
  /\ ring' = Record(ring, Sample(stamp[r]))
  /\ log' = Append(log, Sample(stamp[r]))
  /\ IF r \in Loop
     THEN /\ at' = [at EXCEPT ![r] = "latency"]
          /\ \E first \in Latency : slot' = [slot EXCEPT ![r] = first]
     ELSE /\ at' = [at EXCEPT ![r] = "idle"]
          /\ UNCHANGED slot
  /\ UNCHANGED <<taken, stamp, evidence, buckets, count, readerVars>>

(* Mutant: only the first bucket that covers the latency is incremented.    *)
CountOneBucket(l) ==
  /\ at[l] = "latency"
  /\ slot[l] <= Bucket
  /\ buckets' = [buckets EXCEPT ![slot[l]] = @ + 1]
  /\ slot' = [slot EXCEPT ![l] = Bucket + 1]
  /\ UNCHANGED <<taken, at, stamp, evidence, ring, log, count, readerVars>>

(* latencyHistogram.observe: one atomic increment per bucket, upwards ...  *)
CountBucket(l) ==
  /\ at[l] = "latency"
  /\ slot[l] <= Bucket
  /\ buckets' = [buckets EXCEPT ![slot[l]] = @ + 1]
  /\ slot' = [slot EXCEPT ![l] = @ + 1]
  /\ UNCHANGED <<taken, at, stamp, evidence, ring, log, count, readerVars>>

(* ... and the count.                                                      *)
CountAll(l) ==
  /\ at[l] = "latency"
  /\ slot[l] = Bucket + 1
  /\ count' = count + 1
  /\ at' = [at EXCEPT ![l] = "idle"]
  /\ UNCHANGED <<taken, stamp, evidence, ring, log, slot, buckets, readerVars>>
-----------------------------------------------------------------------------
(* populateHistory, TrendHandler, ExportHandler: the samples.              *)
ReadSamples ==
  /\ reader = "idle"
  /\ page' = [page EXCEPT !.samples = Snapshot(ring)]
  /\ reader' = "flips"
  /\ UNCHANGED <<recorderVars, evidence, ring, log, buckets, count>>

(* Mutant: a transition is dated by the sample before it.                  *)
ReadFlipsBefore ==
  LET window == Snapshot(ring) IN
  /\ reader = "flips"
  /\ page' = [page EXCEPT !.flips = {window[i - 1].at : i \in Flips(window)},
                          !.kept = {window[i].at : i \in 1 .. Len(window)}]
  /\ reader' = "evidence"
  /\ UNCHANGED <<recorderVars, evidence, ring, log, buckets, count>>

(* populateHistory, TrendHandler: the transitions, of a second snapshot.   *)
ReadFlips ==
  LET window == Snapshot(ring) IN
  /\ reader = "flips"
  /\ page' = [page EXCEPT !.flips = {window[i].at : i \in Flips(window)},
                          !.kept = {window[i].at : i \in 1 .. Len(window)}]
  /\ reader' = "evidence"
  /\ UNCHANGED <<recorderVars, evidence, ring, log, buckets, count>>

(* populateEvidence: the names with evidence.                              *)
ReadEvidence ==
  /\ reader = "evidence"
  /\ page' = [page EXCEPT !.proven = DOMAIN evidence, !.full = Room = 0]
  /\ reader' = "done"
  /\ UNCHANGED <<recorderVars, evidence, ring, log, buckets, count>>

(* renderNamed: one atomic load per bucket, upwards, and the count.        *)
Scrape ==
  LET b == Len(page.scrape) + 1 IN
  /\ reader \in {"idle", "scrape"}
  /\ page' = [page EXCEPT !.scrape =
                Append(@, IF b <= Bucket THEN buckets[b] ELSE count)]
  /\ reader' = IF b <= Bucket THEN "scrape" ELSE "scraped"
  /\ UNCHANGED <<recorderVars, evidence, ring, log, buckets, count>>

(* The response goes out: an export after the samples, a trend document    *)
(* after the transitions, a page after the evidence, or a scrape.          *)
Respond ==
  /\ reader \in {"flips", "evidence", "done", "scraped"}
  /\ reader' = "idle"
  /\ page' = EmptyPage
  /\ UNCHANGED <<recorderVars, evidence, ring, log, buckets, count>>

RecorderStep(r) == Take(r) \/ RecordEvidence(r) \/ RecordSample(r)
LoopStep(l) == CountBucket(l) \/ CountAll(l)
ReaderStep ==
  ReadSamples \/ ReadFlips \/ ReadEvidence \/ Scrape \/ Respond

Next ==
  \/ \E r \in Recorder : RecorderStep(r)
  \/ \E l \in Loop : LoopStep(l)
  \/ ReaderStep

Spec == Init /\ [][Next]_vars
-----------------------------------------------------------------------------
(***************************************************************************)
(* The ring is a window on the log: a snapshot is the last RingSize        *)
(* samples recorded, oldest first, before and after it wraps around        *)
(* (history.go, record and snapshot).                                      *)
(***************************************************************************)
RingIsWindow ==
  Snapshot(ring) =
    SubSeq(log, IF Len(log) > RingSize THEN Len(log) - RingSize + 1 ELSE 1,
           Len(log))

(***************************************************************************)
(* Recorders read the clock before they take the ring's lock, so samples   *)
(* need not be "in chronological order" (history.go:19-20) once recorders  *)
(* overlap; but no sample is followed by more late ones than there are     *)
(* other recorders.                                                        *)
(***************************************************************************)
NearlyChronological ==
  \A i \in 1 .. Len(log) :
    Cardinality({j \in i + 1 .. Len(log) : log[j].at < log[i].at})
      < Cardinality(Recorder)

(***************************************************************************)
(* "Only a non-pass observation proves a check can deviate" (evidence.go,  *)
(* observe): whatever recorders overlap, the time noted for a check is     *)
(* that of an observation in which it was neither pass nor off.            *)
(***************************************************************************)
EvidenceIsReal ==
  \A n \in DOMAIN evidence :
    evidence[n] \in 1 .. Len(taken) /\ taken[evidence[n]][n] = "bad"

(***************************************************************************)
(* A page never plots a failure next to a claim that the check that failed *)
(* has never deviated: recorders write the evidence before the sample,     *)
(* pages read the samples before the evidence (pusher.go, broadcast;       *)
(* dashboard.go, Observe; pusher.go, renderPatch), unless the log is full. *)
(***************************************************************************)
FailuresAreBacked ==
  reader = "done" =>
    \A i \in 1 .. Len(page.samples) :
      NonPass(taken[page.samples[i].at]) \subseteq page.proven \/ page.full

(***************************************************************************)
(* A trend document takes its samples and its transitions under two lock   *)
(* holds.  Between them samples may have been recorded and evicted: the    *)
(* transitions are still exactly those of its samples whose predecessor    *)
(* was not evicted, and others of samples it does not list (trend.go,      *)
(* TrendHandler).                                                          *)
(***************************************************************************)
TrendCoherent ==
  reader \in {"evidence", "done"} =>
    LET listed == {page.samples[i].at : i \in 1 .. Len(page.samples)}
    IN  page.flips \cap listed =
          {page.samples[i].at :
             i \in {j \in Flips(page.samples) : page.samples[j - 1].at \in page.kept}}

(***************************************************************************)
(* A scrape that overlaps observations can find a smaller bucket ahead of  *)
(* a larger one, but never by more than the loops that are at it: apart    *)
(* from these the histogram is cumulative (metrics.go, observe and         *)
(* renderNamed).                                                           *)
(***************************************************************************)
ScrapeNearlyCumulative ==
  \A b \in 1 .. Len(page.scrape) - 1 :
    page.scrape[b] <= page.scrape[b + 1] + Cardinality(Loop)
=============================================================================
