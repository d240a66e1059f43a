------------------------------- MODULE History -------------------------------
(***************************************************************************)
(* The trend ring and what is derived from it (history.go).  A ring is     *)
(* [samples, next, full] as in historyBuffer, with slots 1 .. capacity for *)
(* its indexes 0 .. capacity - 1.  A sample is [at, status].               *)
(***************************************************************************)
EXTENDS Integers, Sequences

CONSTANTS
  TrendSamples,   \* WithTrend's capacity
  Blank           \* the zero sample of an unused slot

ASSUME TrendAssumption == TrendSamples \in Int

(* newHistoryBuffer: a capacity below one is one.                          *)
RingSize == IF TrendSamples < 1 THEN 1 ELSE TrendSamples

EmptyRing ==
  [samples |-> [i \in 1 .. RingSize |-> Blank], next |-> 0, full |-> FALSE]

(* Mutant: the ring counts as full one slot early.                         *)
RecordFullEarly(ring, s) ==
  LET next == (ring.next + 1) % RingSize IN
  [samples |-> [ring.samples EXCEPT ![ring.next + 1] = s],
   next |-> next,
   full |-> ring.full \/ next = RingSize - 1]

(* record: overwrite the oldest once at capacity.                          *)
Record(ring, s) ==
  LET next == (ring.next + 1) % RingSize IN
  [samples |-> [ring.samples EXCEPT ![ring.next + 1] = s],
   next |-> next,
   full |-> ring.full \/ next = 0]

(* snapshot: oldest first.                                                 *)
Snapshot(ring) ==
  LET old == IF ring.full THEN SubSeq(ring.samples, ring.next + 1, RingSize)
                          ELSE <<>>
  IN  old \o SubSeq(ring.samples, 1, ring.next)

(* The positions of a sequence of samples whose predecessor differs.       *)
Flips(samples) ==
  {i \in 2 .. Len(samples) : samples[i].status # samples[i - 1].status}
=============================================================================
