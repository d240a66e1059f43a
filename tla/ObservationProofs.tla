-------------------------- MODULE ObservationProofs --------------------------
(***************************************************************************)
(* Theorems about Observation for any number of recorders, any checks and  *)
(* responses, and any capacity of the ring and of the evidence log; first  *)
(* what the ring buffer returns, for any sequence of records.              *)
(***************************************************************************)
EXTENDS Observation, SequenceTheorems, FiniteSetTheorems, TLAPS

(* The ring holds the end of the log: slots below next the newest samples, *)
(* the others, once it is full, the oldest that are kept.                  *)
Holds(buf, recs, S) ==
  /\ recs \in Seq(S)
  /\ buf = [samples |-> buf.samples, next |-> buf.next, full |-> buf.full]
  /\ buf.next \in 0 .. RingSize - 1
  /\ buf.full \in BOOLEAN
  /\ buf.samples \in [1 .. RingSize -> S \cup {Blank}]
  /\ ~buf.full =>
       /\ buf.next = Len(recs)
       /\ \A i \in 1 .. buf.next : buf.samples[i] = recs[i]
  /\ buf.full =>
       /\ Len(recs) >= RingSize
       /\ \A i \in 1 .. buf.next :
            buf.samples[i] = recs[Len(recs) - buf.next + i]
       /\ \A i \in buf.next + 1 .. RingSize :
            buf.samples[i] = recs[Len(recs) - buf.next - RingSize + i]

Window(recs) ==
  SubSeq(recs, IF Len(recs) > RingSize THEN Len(recs) - RingSize + 1 ELSE 1, Len(recs))

LEMMA RingSizeType == RingSize \in Nat /\ RingSize >= 1
  BY TrendAssumption DEF RingSize

LEMMA NextSlot ==
  ASSUME NEW k \in 0 .. RingSize - 1
  PROVE  (k + 1) % RingSize = IF k + 1 = RingSize THEN 0 ELSE k + 1
  BY RingSizeType

LEMMA EmptyHolds ==
  ASSUME NEW S
  PROVE  Holds(EmptyRing, <<>>, S)
  BY RingSizeType, EmptySeq DEF Holds, EmptyRing

LEMMA RecordHolds ==
  ASSUME NEW S, NEW buf, NEW recs, NEW s \in S, Holds(buf, recs, S)
  PROVE  Holds(Record(buf, s), Append(recs, s), S)
  <1> DEFINE N == RingSize
             k == buf.next
             ring2 == Record(buf, s)
             log2 == Append(recs, s)
             next2 == IF k + 1 = N THEN 0 ELSE k + 1
  <1>1. /\ k \in 0 .. N - 1 /\ N \in Nat /\ N >= 1
        /\ recs \in Seq(S) /\ Len(recs) \in Nat
        /\ buf.samples \in [1 .. N -> S \cup {Blank}]
    BY RingSizeType, LenProperties DEF Holds
  <1>2. ring2 = [samples |-> [buf.samples EXCEPT ![k + 1] = s],
                 next |-> next2, full |-> buf.full \/ next2 = 0]
    BY <1>1, NextSlot DEF Record
  <1>3. /\ log2 \in Seq(S) /\ Len(log2) = Len(recs) + 1
        /\ \A i \in 1 .. Len(recs) : log2[i] = recs[i]
        /\ log2[Len(recs) + 1] = s
    BY <1>1, AppendProperties
  <1>4. /\ ring2.samples \in [1 .. N -> S \cup {Blank}]
        /\ ring2.next = next2 /\ ring2.full = (buf.full \/ next2 = 0)
        /\ ring2.samples[k + 1] = s
        /\ \A i \in 1 .. N : i # k + 1 => ring2.samples[i] = buf.samples[i]
    BY <1>1, <1>2
  <1>5. ring2 = [samples |-> ring2.samples, next |-> ring2.next, full |-> ring2.full]
    BY <1>2
  <1>6. next2 \in 0 .. N - 1
    BY <1>1
  <1> HIDE DEF ring2, log2
  <1>7. ASSUME ~ring2.full
        PROVE  /\ ring2.next = Len(log2)
               /\ \A i \in 1 .. ring2.next : ring2.samples[i] = log2[i]
    <2>1. ~buf.full /\ next2 = k + 1 /\ k = Len(recs)
      BY <1>1, <1>4, <1>7 DEF Holds
    <2>2. \A i \in 1 .. k : buf.samples[i] = recs[i]
      BY <2>1 DEF Holds
    <2> QED BY <1>1, <1>3, <1>4, <2>1, <2>2
  <1>8. ASSUME ring2.full
        PROVE  /\ Len(log2) >= N
               /\ \A i \in 1 .. ring2.next :
                    ring2.samples[i] = log2[Len(log2) - ring2.next + i]
               /\ \A i \in ring2.next + 1 .. N :
                    ring2.samples[i] = log2[Len(log2) - ring2.next - N + i]
    <2>1. CASE ~buf.full
      <3>1. next2 = 0 /\ k + 1 = N /\ k = Len(recs)
        BY <1>1, <1>4, <1>8, <2>1 DEF Holds
      <3>2. \A i \in 1 .. k : buf.samples[i] = recs[i]
        BY <2>1 DEF Holds
      <3>3. Len(log2) = N /\ ring2.next = 0
        BY <1>1, <1>3, <1>4, <3>1
      <3>4. ASSUME NEW i \in 1 .. N
            PROVE  ring2.samples[i] = log2[i]
        BY <1>1, <1>3, <1>4, <3>1, <3>2
      <3>5. \A i \in 1 .. N : Len(log2) - 0 - N + i = i
        BY <1>1, <3>3
      <3> QED BY <1>1, <3>3, <3>4, <3>5
    <2>2. CASE buf.full
      <3>1. /\ Len(recs) >= N
            /\ \A i \in 1 .. k : buf.samples[i] = recs[Len(recs) - k + i]
            /\ \A i \in k + 1 .. N : buf.samples[i] = recs[Len(recs) - k - N + i]
        BY <2>2 DEF Holds
      <3>2. CASE k + 1 = N
        <4>1. ring2.next = 0 /\ Len(log2) = Len(recs) + 1
          BY <1>3, <1>4, <3>2
        <4>2. ASSUME NEW i \in 1 .. N
              PROVE  ring2.samples[i] = log2[Len(log2) - N + i]
          <5>1. CASE i = k + 1
            BY <1>1, <1>3, <1>4, <3>2, <5>1
          <5>2. CASE i # k + 1
            <6>0. i \in 1 .. k
              BY <1>1, <3>2, <5>2
            <6>1. i \in 1 .. k /\ ring2.samples[i] = recs[Len(recs) - k + i]
              BY <1>1, <1>4, <3>1, <5>2, <6>0
            <6>2. Len(recs) - k + i = Len(log2) - N + i
              <7> HIDE DEF N, k
              <7>1. QED BY <1>1, <3>2, <4>1
            <6>3. Len(recs) - k + i \in 1 .. Len(recs)
              <7>1. i \in 1 .. k /\ Len(recs) >= N BY <3>1, <6>1
              <7> HIDE DEF N, k
              <7>2. QED BY <1>1, <7>1
            <6> QED BY <1>3, <6>1, <6>2, <6>3
          <5> QED BY <5>1, <5>2
        <4>3. Len(log2) >= N /\ Len(log2) \in Int /\ N \in Int
          BY <1>1, <3>1, <4>1
        <4> HIDE DEF N, ring2, log2
        <4>4. \A i \in 1 .. 0 : ring2.samples[i] = log2[Len(log2) - 0 + i]
          OBVIOUS
        <4>5. ASSUME NEW i \in 1 .. N
              PROVE  ring2.samples[i] = log2[Len(log2) - 0 - N + i]
          <5>1. Len(log2) - 0 - N + i = Len(log2) - N + i
            BY <4>3
          <5> QED BY <4>2, <5>1
        <4>6. 0 + 1 = 1
          OBVIOUS
        <4> QED BY <4>1, <4>3, <4>4, <4>5, <4>6
      <3>3. CASE k + 1 # N
        <4>1. ring2.next = k + 1 /\ Len(log2) = Len(recs) + 1
          BY <1>3, <1>4, <3>3
        <4>2. ASSUME NEW i \in 1 .. k + 1
              PROVE  ring2.samples[i] = log2[Len(log2) - (k + 1) + i]
          <5>1. CASE i = k + 1
            <6>1. Len(log2) - (k + 1) + i = Len(recs) + 1
              BY <1>1, <4>1, <5>1
            <6> QED BY <1>3, <1>4, <5>1, <6>1
          <5>2. CASE i # k + 1
            <6>1. i \in 1 .. k /\ ring2.samples[i] = recs[Len(recs) - k + i]
              BY <1>1, <1>4, <3>1, <5>2
            <6>2. Len(recs) - k + i = Len(log2) - (k + 1) + i
              BY <1>1, <4>1
            <6>3. Len(recs) - k + i \in 1 .. Len(recs)
              BY <1>1, <3>1, <6>1
            <6> QED BY <1>3, <6>1, <6>2, <6>3
          <5> QED BY <5>1, <5>2
        <4>3. ASSUME NEW i \in k + 2 .. N
              PROVE  ring2.samples[i] = log2[Len(log2) - (k + 1) - N + i]
          <5>1. i \in k + 1 .. N /\ i # k + 1 /\ i \in 1 .. N
            BY <1>1
          <5>2. ring2.samples[i] = recs[Len(recs) - k - N + i]
            BY <1>4, <3>1, <5>1
          <5>3. Len(recs) - k - N + i = Len(log2) - (k + 1) - N + i
            <6>1. i \in Int /\ k \in Int /\ N \in Int /\ Len(recs) \in Int
              BY <1>1
            <6>2. Len(log2) = Len(recs) + 1
              BY <4>1
            <6> HIDE DEF N, k, log2
            <6> QED BY <6>1, <6>2
          <5>4. Len(recs) - k - N + i \in 1 .. Len(recs)
            BY <1>1, <3>1, <5>1
          <5> QED BY <1>3, <5>2, <5>3, <5>4
        <4> QED BY <1>1, <3>1, <4>1, <4>2, <4>3
      <3> QED BY <3>2, <3>3
    <2> QED BY <2>1, <2>2 DEF Holds
  <1>9. Holds(ring2, log2, S)
    BY <1>3, <1>4, <1>5, <1>6, <1>7, <1>8 DEF Holds
  <1> QED BY <1>9 DEF ring2, log2

(***************************************************************************)
(* For every capacity, also one that is not positive, the snapshot of a    *)
(* ring that holds the end of a log is the log's last RingSize samples,    *)
(* oldest first (history.go, snapshot).                                    *)
(***************************************************************************)
THEOREM SnapshotIsWindow ==
  ASSUME NEW S, NEW buf, NEW recs, Holds(buf, recs, S)
  PROVE  Snapshot(buf) = Window(recs)
  <1> DEFINE N == RingSize
             k == buf.next
             T == S \cup {Blank}
             old == IF buf.full THEN SubSeq(buf.samples, k + 1, N) ELSE <<>>
             new == SubSeq(buf.samples, 1, k)
             from == IF Len(recs) > N THEN Len(recs) - N + 1 ELSE 1
  <1>1. /\ k \in 0 .. N - 1 /\ N \in Nat /\ N >= 1
        /\ recs \in Seq(S) /\ Len(recs) \in Nat
        /\ buf.samples \in [1 .. N -> T]
    BY RingSizeType, LenProperties DEF Holds
  <1>2. /\ new \in Seq(T) /\ Len(new) = k
        /\ \A i \in 1 .. k : new[i] = buf.samples[i]
    <2>1. \A i \in 1 .. k : buf.samples[i] \in T
      BY <1>1
    <2>2. k \in Int /\ 1 \in Int
      BY <1>1
    <2> HIDE DEF T
    <2>3. /\ new \in Seq(T)
          /\ Len(new) = IF 1 <= k THEN k - 1 + 1 ELSE 0
          /\ \A i \in 1 .. k - 1 + 1 : new[i] = buf.samples[1 + i - 1]
      BY <2>1, <2>2, SubSeqProperties
    <2> HIDE DEF new
    <2> QED BY <1>1, <2>3
  <1>3. \A i \in from .. Len(recs) : recs[i] \in T
    BY <1>1, ElementOfSeq
  <1>4. /\ Window(recs) \in Seq(T)
        /\ Len(Window(recs)) = IF from <= Len(recs) THEN Len(recs) - from + 1 ELSE 0
        /\ \A i \in 1 .. Len(recs) - from + 1 : Window(recs)[i] = recs[from + i - 1]
    <2>1. from \in Int
      BY <1>1
    <2>2. Window(recs) = SubSeq(recs, from, Len(recs))
      BY DEF Window
    <2> HIDE DEF from
    <2> QED BY <1>1, <1>3, <2>1, <2>2, SubSeqProperties
  <1>5. Snapshot(buf) = old \o new
    BY DEF Snapshot
  <1>6. CASE buf.full
    <2>1. /\ old \in Seq(T) /\ Len(old) = N - k
          /\ \A i \in 1 .. N - k : old[i] = buf.samples[k + i]
      <3>1. \A i \in k + 1 .. N : buf.samples[i] \in T
        BY <1>1
      <3>2. old = SubSeq(buf.samples, k + 1, N)
        BY <1>6
      <3>3. /\ old \in Seq(T)
            /\ Len(old) = IF k + 1 <= N THEN N - (k + 1) + 1 ELSE 0
            /\ \A i \in 1 .. N - (k + 1) + 1 : old[i] = buf.samples[(k + 1) + i - 1]
        <4>1. k + 1 \in Int /\ N \in Int
          BY <1>1
        <4> HIDE DEF old, T, k, N
        <4> QED BY <3>1, <3>2, <4>1, SubSeqProperties
      <3> HIDE DEF old, T
      <3>4. Len(old) = N - k
        BY <1>1, <3>3
      <3>5. ASSUME NEW i \in 1 .. N - k
            PROVE  old[i] = buf.samples[k + i]
        <4>1. i \in 1 .. N - (k + 1) + 1 /\ (k + 1) + i - 1 = k + i
          BY <1>1
        <4> QED BY <3>3, <4>1
      <3> QED BY <3>3, <3>4, <3>5
    <2>2. /\ Len(recs) >= N
          /\ \A i \in 1 .. k : buf.samples[i] = recs[Len(recs) - k + i]
          /\ \A i \in k + 1 .. N : buf.samples[i] = recs[Len(recs) - k - N + i]
      BY <1>6 DEF Holds
    <2>3. from = Len(recs) - N + 1
      BY <1>1, <2>2
    <2> HIDE DEF old, new, from, T
    <2>4. /\ old \o new \in Seq(T) /\ Len(old \o new) = N
          /\ \A i \in 1 .. N : (old \o new)[i] =
               IF i <= N - k THEN old[i] ELSE new[i - (N - k)]
      <3>1. /\ old \o new \in Seq(T) /\ Len(old \o new) = Len(old) + Len(new)
            /\ \A i \in 1 .. Len(old) + Len(new) : (old \o new)[i] =
                 IF i <= Len(old) THEN old[i] ELSE new[i - Len(old)]
        BY <1>2, <2>1, ConcatProperties
      <3>2. Len(old) = N - k /\ Len(old) + Len(new) = N
        BY <1>1, <1>2, <2>1
      <3> QED BY <3>1, <3>2
    <2>5. ASSUME NEW i \in 1 .. N
          PROVE  (old \o new)[i] = recs[Len(recs) - N + i]
      <3>1. CASE i <= N - k
        <4>1. i \in 1 .. N - k /\ k + i \in k + 1 .. N
          BY <1>1, <3>1
        <4>2. (old \o new)[i] = buf.samples[k + i]
          BY <2>1, <2>4, <3>1, <4>1
        <4>3. Len(recs) - k - N + (k + i) = Len(recs) - N + i
          BY <1>1
        <4> QED BY <2>2, <4>1, <4>2, <4>3
      <3>2. CASE i > N - k
        <4>1. i - (N - k) \in 1 .. k
          BY <1>1, <3>2
        <4>2. (old \o new)[i] = buf.samples[i - (N - k)]
          <5>1. ~(i <= N - k)
            BY <1>1, <3>2
          <5>2. (old \o new)[i] = new[i - (N - k)]
            BY <2>4, <5>1
          <5> QED BY <1>2, <4>1, <5>2
        <4>3. Len(recs) - k + (i - (N - k)) = Len(recs) - N + i
          BY <1>1
        <4> QED BY <2>2, <4>1, <4>2, <4>3
      <3>3. i <= N - k \/ i > N - k
        BY <1>1
      <3> QED BY <3>1, <3>2, <3>3
    <2>6. /\ Len(Window(recs)) = N
          /\ \A i \in 1 .. N : Window(recs)[i] = recs[Len(recs) - N + i]
      BY <1>1, <1>4, <2>2, <2>3
    <2> QED BY <1>4, <1>5, <2>4, <2>5, <2>6, SeqEqual
  <1>7. CASE ~buf.full
    <2>1. old = <<>> /\ k = Len(recs) /\ \A i \in 1 .. k : buf.samples[i] = recs[i]
      BY <1>7 DEF Holds
    <2>2. from = 1
      BY <1>1, <2>1
    <2> HIDE DEF old, new, from, T
    <2>3. Snapshot(buf) = new
      BY <1>2, <1>5, <2>1, ConcatEmptySeq
    <2>4. Len(Window(recs)) = k /\ \A i \in 1 .. k : Window(recs)[i] = recs[i]
      BY <1>1, <1>4, <2>1, <2>2
    <2> QED BY <1>2, <1>4, <2>1, <2>3, <2>4, SeqEqual
  <1> QED BY <1>6, <1>7 DEF Holds
-----------------------------------------------------------------------------

SampleType == [at : Nat, status : {"pass", "bad"}]

(* The check's deviations at t are in the log, or the log is full.         *)
Proven(t) == NonPass(taken[t]) \subseteq DOMAIN evidence \/ Room = 0

(* A recorder that is not idle records an observation that was made.       *)
Recording ==
  \A r \in Recorder : at[r] # "idle" => stamp[r] \in 1 .. Len(taken)

PageType ==
  page = [samples |-> page.samples, flips |-> page.flips, kept |-> page.kept,
          proven |-> page.proven, full |-> page.full, scrape |-> page.scrape]

RingHolds ==
  /\ Holds(ring, log, SampleType)
  /\ \A i \in 1 .. Len(log) : log[i].at \in 1 .. Len(taken)

(* The evidence is written before the sample, so every sample's failures   *)
(* are in the log, and so are those of a recorder about to write one.      *)
SamplesProven ==
  /\ \A r \in Recorder : at[r] = "history" => Proven(stamp[r])
  /\ \A i \in 1 .. Len(log) : Proven(log[i].at)

(* A page under way shows samples that are in the log.                     *)
PageProven ==
  reader \in {"flips", "evidence", "done"} =>
    \A i \in 1 .. Len(page.samples) :
      /\ page.samples[i].at \in 1 .. Len(taken)
      /\ reader # "done" => Proven(page.samples[i].at)

IInv == /\ TypeOK /\ Recording /\ PageType /\ RingHolds /\ EvidenceIsReal
        /\ SamplesProven /\ PageProven /\ FailuresAreBacked

(* No step takes back an observation or what has been proven.              *)
Grows ==
  /\ taken' \in Seq(Response)
  /\ Len(taken) <= Len(taken')
  /\ \A t \in 1 .. Len(taken) : taken'[t] = taken[t]
  /\ DOMAIN evidence \subseteq DOMAIN evidence'
  /\ Room = 0 => Room' = 0
-----------------------------------------------------------------------------
LEMMA NamesFinite ==
  ASSUME NEW D, D \subseteq Name
  PROVE  IsFiniteSet(D) /\ Cardinality(D) \in Nat
<1>1. IsFiniteSet(D) BY ObservationAssumption, FS_Subset
<1>2. QED BY <1>1, FS_CardinalityType

(* An observation enters every name that failed, or fills the log.         *)
LEMMA UpdatedGrows ==
  ASSUME TypeOK, NEW bad \in SUBSET Name, NEW t, NEW e \in Updated(bad, t)
  PROVE  /\ DOMAIN evidence \subseteq DOMAIN e
         /\ DOMAIN e \subseteq DOMAIN evidence \cup bad
         /\ \A n \in DOMAIN e : e[n] = IF n \in bad THEN t ELSE evidence[n]
         /\ Cardinality(DOMAIN e) <= MaxEvidence
         /\ Room = 0 => Cardinality(DOMAIN e) = MaxEvidence
         /\ bad \subseteq DOMAIN e \/ Cardinality(DOMAIN e) = MaxEvidence
<1> DEFINE D == DOMAIN evidence
           new == bad \ D
           fits == IF Cardinality(new) <= Room THEN Cardinality(new) ELSE Room
<1>1. PICK entering \in SUBSET new :
        /\ Cardinality(entering) = fits
        /\ e = [n \in D \cup entering |-> IF n \in bad THEN t ELSE evidence[n]]
  BY DEF Updated
<1>2. DOMAIN e = D \cup entering
  BY <1>1
<1>3. /\ D \subseteq Name /\ new \subseteq Name /\ entering \subseteq Name
      /\ D \cap entering = {}
  BY DEF TypeOK
<1>4. /\ IsFiniteSet(D) /\ IsFiniteSet(new) /\ IsFiniteSet(entering)
      /\ Cardinality(D) \in Nat /\ Cardinality(new) \in Nat
      /\ Cardinality(D) <= MaxEvidence /\ MaxEvidence \in Nat
  BY <1>3, NamesFinite, ObservationAssumption DEF TypeOK
<1>5. Cardinality(DOMAIN e) = Cardinality(D) + fits
  <2>1. Cardinality(D \cap entering) = 0
    BY <1>3, FS_EmptySet
  <2>2. Cardinality(D \cup entering) =
          Cardinality(D) + Cardinality(entering) - Cardinality(D \cap entering)
    BY <1>4, FS_Union
  <2>3. fits \in Int
    BY <1>4 DEF Room
  <2> HIDE DEF fits, D
  <2> QED BY <1>1, <1>2, <1>4, <2>1, <2>2, <2>3
<1>6. Cardinality(new) <= Room => entering = new
  BY <1>1, <1>4, FS_Subset
<1>7. /\ Cardinality(DOMAIN e) <= MaxEvidence
      /\ Room = 0 => Cardinality(DOMAIN e) = MaxEvidence
      /\ ~(Cardinality(new) <= Room) => Cardinality(DOMAIN e) = MaxEvidence
  BY <1>4, <1>5 DEF Room
<1>8. Cardinality(new) <= Room => bad \subseteq DOMAIN e
  BY <1>2, <1>6
<1>9. QED
  BY <1>1, <1>2, <1>7, <1>8

(* What is proven stays proven.                                            *)
LEMMA ProvenStays ==
  ASSUME Grows, NEW t \in 1 .. Len(taken), Proven(t)
  PROVE  Proven(t)'
BY DEF Grows, Proven, NonPass
-----------------------------------------------------------------------------
LEMMA InitIInv == Init => IInv
<1> SUFFICES ASSUME Init PROVE IInv
  OBVIOUS
<1>1. Cardinality(DOMAIN evidence) = 0 /\ DOMAIN evidence = {}
  BY FS_EmptySet DEF Init
<1>2. RingSize \in Nat /\ RingSize >= 1
  BY RingSizeType
<1>3. TypeOK
  BY <1>1, <1>2, EmptySeq, ObservationAssumption DEF Init, TypeOK, EmptyRing
<1>4. Holds(ring, log, SampleType)
  BY EmptyHolds DEF Init
<1>5. Recording /\ PageType /\ EvidenceIsReal /\ PageProven /\ FailuresAreBacked
  BY <1>1 DEF Init, Recording, PageType, EvidenceIsReal, PageProven,
    FailuresAreBacked, EmptyPage
<1>6. Len(log) = 0
  BY DEF Init
<1>7. QED
  BY <1>3, <1>4, <1>5, <1>6 DEF Init, IInv, RingHolds, SamplesProven
-----------------------------------------------------------------------------
(* A step that leaves the log of evidence alone.                           *)
LEMMA GrowsSame ==
  ASSUME TypeOK, UNCHANGED <<taken, evidence>>
  PROVE  Grows
<1>1. Len(taken) \in Nat BY LenProperties DEF TypeOK
<1>2. QED BY <1>1 DEF TypeOK, Grows, Room

(* Steps of the recorders leave the page alone; what it shows stays proven. *)
LEMMA PageStays ==
  ASSUME IInv, Grows, UNCHANGED readerVars
  PROVE  PageType' /\ PageProven' /\ FailuresAreBacked'
<1>1. Len(taken) \in Nat /\ Len(taken') \in Nat
  BY LenProperties DEF IInv, TypeOK, Grows
<1>2. PageType'
  BY DEF IInv, PageType, readerVars
<1>3. ASSUME NEW t \in 1 .. Len(taken)
      PROVE  t \in 1 .. Len(taken') /\ taken'[t] = taken[t]
  BY <1>1, <1>3 DEF Grows
<1>4. PageProven'
  <2>1. SUFFICES ASSUME reader \in {"flips", "evidence", "done"},
                        NEW i \in 1 .. Len(page.samples)
                 PROVE  /\ page.samples[i].at \in 1 .. Len(taken')
                        /\ reader # "done" => Proven(page.samples[i].at)'
    BY DEF PageProven, readerVars
  <2>2. /\ page.samples[i].at \in 1 .. Len(taken)
        /\ reader # "done" => Proven(page.samples[i].at)
    BY <2>1 DEF IInv, PageProven
  <2>3. reader # "done" => Proven(page.samples[i].at)'
    <3>1. \A t \in 1 .. Len(taken) : Proven(t) => Proven(t)'
      BY ProvenStays
    <3>2. QED BY <2>2, <3>1 DEF Proven, readerVars
  <2>4. QED BY <1>3, <2>2, <2>3
<1>5. FailuresAreBacked'
  <2>1. \A i \in 1 .. Len(page.samples) :
          reader = "done" => page.samples[i].at \in 1 .. Len(taken)
    BY DEF IInv, PageProven
  <2>2. QED BY <1>3, <2>1 DEF IInv, FailuresAreBacked, NonPass, readerVars
<1>6. QED BY <1>2, <1>4, <1>5

(* Steps that leave the ring alone leave its samples proven.               *)
LEMMA RingStays ==
  ASSUME IInv, Grows, UNCHANGED <<ring, log>>
  PROVE  RingHolds' /\ \A i \in 1 .. Len(log') : Proven(log[i].at)'
<1>1. Len(taken) \in Nat /\ Len(taken') \in Nat
  BY LenProperties DEF IInv, TypeOK, Grows
<1>2. RingHolds'
  BY <1>1 DEF IInv, RingHolds, Holds, Grows
<1>3. ASSUME NEW i \in 1 .. Len(log)
      PROVE  Proven(log[i].at)'
  <2>1. log[i].at \in 1 .. Len(taken) /\ Proven(log[i].at)
    BY DEF IInv, RingHolds, SamplesProven
  <2>2. \A t \in 1 .. Len(taken) : Proven(t) => Proven(t)'
    BY ProvenStays
  <2>3. QED BY <2>1, <2>2 DEF Proven
<1>4. QED BY <1>2, <1>3

(* The readers' steps: nothing changes but the reader and its page.        *)
LEMMA ReaderStays ==
  ASSUME IInv, UNCHANGED <<recorderVars, evidence, ring, log, buckets, count>>,
         reader' \in {"idle", "flips", "evidence", "done", "scrape", "scraped"}
  PROVE  /\ TypeOK' /\ Recording' /\ RingHolds' /\ EvidenceIsReal'
         /\ SamplesProven'
         /\ \A t : Proven(t)' <=> Proven(t)
BY DEF IInv, TypeOK, Recording, RingHolds, EvidenceIsReal, SamplesProven,
  Proven, Room, NonPass, recorderVars, Holds
-----------------------------------------------------------------------------
LEMMA TakeStep ==
  ASSUME IInv, NEW r \in Recorder, Take(r)
  PROVE  IInv'
<1>1. PICK resp \in Response : taken' = Append(taken, resp)
  BY DEF Take
<1>2. taken \in Seq(Response) /\ Len(taken) \in Nat
  BY LenProperties DEF IInv, TypeOK
<1>3. /\ taken' \in Seq(Response)
      /\ Len(taken') = Len(taken) + 1
      /\ \A t \in 1 .. Len(taken) : taken'[t] = taken[t]
  BY <1>1, <1>2, AppendProperties
<1>4. Grows
  BY <1>2, <1>3 DEF Take, Grows, Room
<1>5. /\ stamp' = [stamp EXCEPT ![r] = Len(taken) + 1]
      /\ at' = [at EXCEPT ![r] = "evidence"]
      /\ UNCHANGED <<evidence, ring, log, slot, buckets, count, reader, page>>
  BY DEF Take, readerVars
<1>6. TypeOK'
  BY <1>2, <1>3, <1>5 DEF IInv, TypeOK
<1>7. Recording'
  BY <1>2, <1>3, <1>5 DEF IInv, TypeOK, Recording
<1>8. EvidenceIsReal'
  BY <1>2, <1>3, <1>5 DEF IInv, EvidenceIsReal
<1>9. RingHolds' /\ \A i \in 1 .. Len(log') : Proven(log[i].at)'
  BY <1>4, <1>5, RingStays
<1>10. PageType' /\ PageProven' /\ FailuresAreBacked'
  BY <1>4, <1>5, PageStays DEF readerVars
<1>11. ASSUME NEW q \in Recorder, at'[q] = "history"
       PROVE  Proven(stamp[q])'
  <2>1. q # r /\ at[q] = "history" /\ stamp'[q] = stamp[q]
    BY <1>5, <1>11 DEF IInv, TypeOK
  <2>2. stamp[q] \in 1 .. Len(taken) /\ Proven(stamp[q])
    BY <2>1 DEF IInv, Recording, SamplesProven
  <2>3. \A t \in 1 .. Len(taken) : Proven(t) => Proven(t)'
    BY <1>4, ProvenStays
  <2>4. QED BY <2>1, <2>2, <2>3 DEF Proven
<1>12. QED
  BY <1>6, <1>7, <1>8, <1>9, <1>10, <1>11 DEF IInv, SamplesProven

LEMMA RecordEvidenceStep ==
  ASSUME IInv, NEW r \in Recorder, RecordEvidence(r)
  PROVE  IInv'
<1> DEFINE t == stamp[r]
           bad == NonPass(taken[t])
<1>1. /\ at[r] = "evidence"
      /\ evidence' \in Updated(bad, t)
      /\ at' = [at EXCEPT ![r] = "history"]
      /\ UNCHANGED <<taken, stamp, ring, log, slot, buckets, count, reader, page>>
  BY DEF RecordEvidence, ProvenBy, readerVars
<1>2. /\ bad \in SUBSET Name /\ t \in 1 .. Len(taken)
      /\ \A n \in bad : taken[t][n] = "bad"
  BY <1>1 DEF IInv, Recording, NonPass
<1>3. /\ DOMAIN evidence \subseteq DOMAIN evidence'
      /\ DOMAIN evidence' \subseteq DOMAIN evidence \cup bad
      /\ \A n \in DOMAIN evidence' :
           evidence'[n] = IF n \in bad THEN t ELSE evidence[n]
      /\ Cardinality(DOMAIN evidence') <= MaxEvidence
      /\ Room = 0 => Cardinality(DOMAIN evidence') = MaxEvidence
      /\ bad \subseteq DOMAIN evidence' \/ Cardinality(DOMAIN evidence') = MaxEvidence
  <2> HIDE DEF t, bad
  <2>1. TypeOK BY DEF IInv
  <2>2. QED BY <1>1, <1>2, <2>1, UpdatedGrows
<1> HIDE DEF bad
<1>4. DOMAIN evidence' \subseteq Name
  BY <1>2, <1>3 DEF IInv, TypeOK
<1>5. TypeOK'
  BY <1>1, <1>3, <1>4 DEF IInv, TypeOK
<1>6. Recording'
  BY <1>1 DEF IInv, TypeOK, Recording
<1>7. EvidenceIsReal'
  BY <1>1, <1>2, <1>3 DEF IInv, EvidenceIsReal
<1>8. Room' = MaxEvidence - Cardinality(DOMAIN evidence')
  BY DEF Room
<1>9. Cardinality(DOMAIN evidence') \in Nat /\ MaxEvidence \in Nat
  BY <1>4, NamesFinite, ObservationAssumption
<1>10. Grows
  <2>1. Len(taken) \in Nat /\ taken \in Seq(Response)
    BY LenProperties DEF IInv, TypeOK
  <2>2. QED BY <1>1, <1>3, <1>8, <1>9, <2>1 DEF Grows
<1>11. RingHolds' /\ \A i \in 1 .. Len(log') : Proven(log[i].at)'
  BY <1>1, <1>10, RingStays
<1>12. PageType' /\ PageProven' /\ FailuresAreBacked'
  BY <1>1, <1>10, PageStays DEF readerVars
<1>13. NonPass(taken[t]) \subseteq DOMAIN evidence' \/ Room' = 0
  BY <1>3, <1>8, <1>9 DEF bad
<1>14. ASSUME NEW q \in Recorder, at'[q] = "history"
       PROVE  Proven(stamp[q])'
  <2>1. CASE q = r
    BY <1>1, <1>13, <2>1 DEF Proven
  <2>2. CASE q # r
    <3>1. at[q] = "history"
      BY <1>1, <1>14, <2>2 DEF IInv, TypeOK
    <3>2. stamp[q] \in 1 .. Len(taken) /\ Proven(stamp[q])
      BY <3>1 DEF IInv, Recording, SamplesProven
    <3>3. \A u \in 1 .. Len(taken) : Proven(u) => Proven(u)'
      BY <1>10, ProvenStays
    <3>4. QED BY <1>1, <3>2, <3>3 DEF Proven
  <2>3. QED BY <2>1, <2>2
<1>15. QED
  BY <1>5, <1>6, <1>7, <1>11, <1>12, <1>14 DEF IInv, SamplesProven

LEMMA RecordSampleStep ==
  ASSUME IInv, NEW r \in Recorder, RecordSample(r)
  PROVE  IInv'
<1> DEFINE s == Sample(stamp[r])
<1>1. /\ at[r] = "history"
      /\ ring' = Record(ring, s)
      /\ log' = Append(log, s)
      /\ UNCHANGED <<taken, stamp, evidence, buckets, count, reader, page>>
  BY DEF RecordSample, readerVars
<1>2. \/ at' = [at EXCEPT ![r] = "latency"]
      \/ at' = [at EXCEPT ![r] = "idle"]
  BY DEF RecordSample
<1>3. slot' \in [Loop -> 1 .. Bucket + 1]
  <2>1. slot \in [Loop -> 1 .. Bucket + 1]
    BY DEF IInv, TypeOK
  <2>2. CASE r \in Loop
    <3>1. PICK first \in Latency : slot' = [slot EXCEPT ![r] = first]
      BY <2>2 DEF RecordSample
    <3>2. QED BY <2>1, <3>1, ObservationAssumption
  <2>3. CASE r \notin Loop
    BY <2>1, <2>3 DEF RecordSample
  <2>4. QED BY <2>2, <2>3
<1>4. stamp[r] \in 1 .. Len(taken) /\ Proven(stamp[r]) /\ Len(taken) \in Nat
  BY <1>1, LenProperties DEF IInv, TypeOK, Recording, SamplesProven
<1>5. s \in SampleType /\ s.at = stamp[r]
  BY <1>4 DEF Sample, SampleType, Overall
<1> HIDE DEF s
<1>6. Holds(ring', log', SampleType)
  BY <1>1, <1>5, RecordHolds DEF IInv, RingHolds
<1>7. /\ log \in Seq(SampleType) /\ Len(log) \in Nat
      /\ Len(log') = Len(log) + 1
      /\ \A i \in 1 .. Len(log) : log'[i] = log[i]
      /\ log'[Len(log) + 1] = s
  <2>1. log \in Seq(SampleType)
    BY DEF IInv, RingHolds, Holds
  <2>2. QED BY <1>1, <1>5, <2>1, LenProperties, AppendProperties
<1>8. ASSUME NEW i \in 1 .. Len(log')
      PROVE  /\ log'[i].at \in 1 .. Len(taken)
             /\ Proven(log[i].at)'
  <2>1. CASE i = Len(log) + 1
    BY <1>1, <1>4, <1>5, <1>7, <2>1 DEF Proven, Room
  <2>2. CASE i # Len(log) + 1
    <3>1. i \in 1 .. Len(log)
      BY <1>7, <2>2
    <3>2. log[i].at \in 1 .. Len(taken) /\ Proven(log[i].at) /\ log'[i] = log[i]
      BY <1>7, <3>1 DEF IInv, RingHolds, SamplesProven
    <3>3. QED BY <1>1, <3>2 DEF Proven, Room
  <2>3. QED BY <2>1, <2>2
<1>9. RingHolds'
  BY <1>1, <1>6, <1>8 DEF RingHolds, Holds
<1>10. TypeOK'
  <2>1. ring'.next \in 0 .. RingSize - 1 /\ ring'.full \in BOOLEAN
    BY <1>6 DEF Holds
  <2>2. at' \in [Recorder -> {"idle", "evidence", "history", "latency"}]
    BY <1>2 DEF IInv, TypeOK
  <2>3. QED BY <1>1, <1>3, <2>1, <2>2 DEF IInv, TypeOK
<1>11. Recording'
  <2>1. \A q \in Recorder : at'[q] # "idle" => at[q] # "idle"
    BY <1>1, <1>2 DEF IInv, TypeOK
  <2>2. QED BY <1>1, <2>1 DEF IInv, Recording
<1>12. EvidenceIsReal'
  BY <1>1 DEF IInv, EvidenceIsReal
<1>13. Grows
  <2>1. TypeOK BY DEF IInv
  <2>2. QED BY <1>1, <2>1, GrowsSame
<1>14. PageType' /\ PageProven' /\ FailuresAreBacked'
  BY <1>1, <1>13, PageStays DEF readerVars
<1>15. ASSUME NEW q \in Recorder, at'[q] = "history"
       PROVE  Proven(stamp[q])'
  <2>1. at[q] = "history"
    BY <1>2, <1>15 DEF IInv, TypeOK
  <2>2. QED BY <1>1, <2>1 DEF IInv, SamplesProven, Proven, Room
<1>16. QED
  BY <1>8, <1>9, <1>10, <1>11, <1>12, <1>14, <1>15 DEF IInv, SamplesProven

LEMMA LatencyStep ==
  ASSUME IInv, NEW l \in Loop, LoopStep(l)
  PROVE  IInv'
<1>1. /\ UNCHANGED <<taken, stamp, evidence, ring, log, reader, page>>
      /\ at' = at \/ at' = [at EXCEPT ![l] = "idle"]
      /\ l \in Recorder
  BY DEF LoopStep, CountBucket, CountAll, readerVars, Recorder
<1>2. TypeOK'
  <2>1. CASE CountBucket(l)
    <3>1. slot[l] \in 1 .. Bucket /\ Bucket \in Nat
      BY <2>1, ObservationAssumption DEF IInv, TypeOK, CountBucket
    <3>2. /\ buckets' = [buckets EXCEPT ![slot[l]] = @ + 1]
          /\ slot' = [slot EXCEPT ![l] = @ + 1]
          /\ UNCHANGED <<at, count>>
      BY <2>1 DEF CountBucket
    <3>3. buckets' \in [1 .. Bucket -> Nat]
      BY <3>1, <3>2 DEF IInv, TypeOK
    <3>4. slot' \in [Loop -> 1 .. Bucket + 1]
      BY <3>1, <3>2 DEF IInv, TypeOK
    <3>5. QED BY <1>1, <3>2, <3>3, <3>4 DEF IInv, TypeOK
  <2>2. CASE CountAll(l)
    BY <1>1, <2>2 DEF IInv, TypeOK, CountAll
  <2>3. QED BY <2>1, <2>2 DEF LoopStep
<1>3. \A q \in Recorder : at'[q] \in {at[q], "idle"}
  BY <1>1 DEF IInv, TypeOK
<1>4. Grows
  <2>1. TypeOK BY DEF IInv
  <2>2. QED BY <1>1, <2>1, GrowsSame
<1>5. RingHolds' /\ \A i \in 1 .. Len(log') : Proven(log[i].at)'
  BY <1>1, <1>4, RingStays
<1>6. PageType' /\ PageProven' /\ FailuresAreBacked'
  BY <1>1, <1>4, PageStays DEF readerVars
<1>7. Recording' /\ EvidenceIsReal'
  BY <1>1, <1>3 DEF IInv, Recording, EvidenceIsReal
<1>8. ASSUME NEW q \in Recorder, at'[q] = "history"
      PROVE  Proven(stamp[q])'
  <2>1. Proven(stamp[q]) BY <1>3, <1>8 DEF IInv, SamplesProven
  <2>2. QED BY <1>1, <2>1 DEF Proven, Room
<1>9. QED
  BY <1>2, <1>5, <1>6, <1>7, <1>8 DEF IInv, SamplesProven
-----------------------------------------------------------------------------
(* What a snapshot shows was recorded.                                     *)
LEMMA SnapshotFromLog ==
  ASSUME RingHolds, NEW i \in 1 .. Len(Snapshot(ring))
  PROVE  \E j \in 1 .. Len(log) : Snapshot(ring)[i] = log[j]
<1> DEFINE from == IF Len(log) > RingSize THEN Len(log) - RingSize + 1 ELSE 1
<1>1. log \in Seq(SampleType) /\ Len(log) \in Nat
  BY LenProperties DEF RingHolds, Holds
<1>2. Snapshot(ring) = SubSeq(log, from, Len(log))
  BY SnapshotIsWindow DEF RingHolds, Window
<1>3. from \in Int /\ from >= 1
  BY <1>1, RingSizeType
<1>4. \A j \in from .. Len(log) : log[j] \in SampleType
  BY <1>1, <1>3, ElementOfSeq
<1> HIDE DEF from
<1>5. /\ Len(Snapshot(ring)) = IF from <= Len(log) THEN Len(log) - from + 1 ELSE 0
      /\ \A j \in 1 .. Len(log) - from + 1 : Snapshot(ring)[j] = log[from + j - 1]
  BY <1>1, <1>2, <1>3, <1>4, SubSeqProperties
<1>6. i \in 1 .. Len(log) - from + 1 /\ from + i - 1 \in 1 .. Len(log)
  BY <1>1, <1>3, <1>5
<1>7. QED BY <1>5, <1>6

LEMMA ReadSamplesStep ==
  ASSUME IInv, ReadSamples
  PROVE  IInv'
<1>1. /\ reader' = "flips"
      /\ page' = [page EXCEPT !.samples = Snapshot(ring)]
      /\ UNCHANGED <<recorderVars, evidence, ring, log, buckets, count>>
  BY DEF ReadSamples
<1>2. /\ TypeOK' /\ Recording' /\ RingHolds' /\ EvidenceIsReal' /\ SamplesProven'
      /\ \A t : Proven(t)' <=> Proven(t)
  BY <1>1, ReaderStays
<1>3. page'.samples = Snapshot(ring) /\ PageType'
  BY <1>1 DEF IInv, PageType
<1>4. ASSUME NEW i \in 1 .. Len(page'.samples)
      PROVE  page'.samples[i].at \in 1 .. Len(taken') /\ Proven(page.samples[i].at)'
  <2>1. PICK j \in 1 .. Len(log) : page'.samples[i] = log[j]
    BY <1>3, SnapshotFromLog DEF IInv
  <2>2. log[j].at \in 1 .. Len(taken) /\ Proven(log[j].at)
    BY DEF IInv, RingHolds, SamplesProven
  <2>3. QED BY <1>1, <2>1, <2>2 DEF Proven, Room, recorderVars
<1>5. PageProven' /\ FailuresAreBacked'
  BY <1>1, <1>4 DEF PageProven, FailuresAreBacked
<1>6. QED BY <1>2, <1>3, <1>5 DEF IInv

LEMMA ReadFlipsStep ==
  ASSUME IInv, ReadFlips
  PROVE  IInv'
<1>1. /\ reader = "flips" /\ reader' = "evidence"
      /\ page' = [page EXCEPT !.flips = page'.flips, !.kept = page'.kept]
      /\ UNCHANGED <<recorderVars, evidence, ring, log, buckets, count>>
  BY DEF ReadFlips, IInv, PageType
<1>2. /\ TypeOK' /\ Recording' /\ RingHolds' /\ EvidenceIsReal' /\ SamplesProven'
      /\ \A t : Proven(t)' <=> Proven(t)
  BY <1>1, ReaderStays
<1>3. page'.samples = page.samples /\ PageType'
  BY <1>1 DEF IInv, PageType
<1>4. PageProven' /\ FailuresAreBacked'
  BY <1>1, <1>3 DEF IInv, PageProven, FailuresAreBacked, Proven, Room, recorderVars
<1>5. QED BY <1>2, <1>3, <1>4 DEF IInv

(* The page takes over what it showed to be proven.                        *)
LEMMA ReadEvidenceStep ==
  ASSUME IInv, ReadEvidence
  PROVE  IInv'
<1>1. /\ reader = "evidence" /\ reader' = "done"
      /\ page' = [page EXCEPT !.proven = DOMAIN evidence, !.full = Room = 0]
      /\ UNCHANGED <<recorderVars, evidence, ring, log, buckets, count>>
  BY DEF ReadEvidence
<1>2. /\ TypeOK' /\ Recording' /\ RingHolds' /\ EvidenceIsReal' /\ SamplesProven'
      /\ \A t : Proven(t)' <=> Proven(t)
  BY <1>1, ReaderStays
<1>3. /\ page'.samples = page.samples /\ page'.proven = DOMAIN evidence
      /\ page'.full = (Room = 0) /\ PageType'
  BY <1>1 DEF IInv, PageType
<1>4. \A i \in 1 .. Len(page.samples) :
        /\ page.samples[i].at \in 1 .. Len(taken)
        /\ Proven(page.samples[i].at)
  BY <1>1 DEF IInv, PageProven
<1>5. PageProven' /\ FailuresAreBacked'
  BY <1>1, <1>3, <1>4 DEF PageProven, FailuresAreBacked, Proven, recorderVars
<1>6. QED BY <1>2, <1>3, <1>5 DEF IInv

LEMMA OtherReaderStep ==
  ASSUME IInv, Scrape \/ Respond
  PROVE  IInv'
<1>1. /\ reader' \in {"idle", "scrape", "scraped"}
      /\ UNCHANGED <<recorderVars, evidence, ring, log, buckets, count>>
  BY DEF Scrape, Respond
<1>2. /\ TypeOK' /\ Recording' /\ RingHolds' /\ EvidenceIsReal' /\ SamplesProven'
      /\ \A t : Proven(t)' <=> Proven(t)
  BY <1>1, ReaderStays
<1>3. PageType'
  <2>1. CASE Scrape
    <3>1. PICK s : page' = [page EXCEPT !.scrape = s]
      BY <2>1 DEF Scrape
    <3>2. QED BY <3>1 DEF IInv, PageType
  <2>2. CASE Respond
    BY <2>2 DEF Respond, EmptyPage, PageType
  <2>3. QED BY <2>1, <2>2
<1>4. QED
  BY <1>1, <1>2, <1>3 DEF IInv, PageProven, FailuresAreBacked
-----------------------------------------------------------------------------
LEMMA InductiveStep == IInv /\ [Next]_vars => IInv'
<1> SUFFICES ASSUME IInv, [Next]_vars PROVE IInv'
  OBVIOUS
<1>1. CASE UNCHANGED vars
  BY <1>1 DEF vars, IInv, TypeOK, Recording, PageType, RingHolds, Holds,
    EvidenceIsReal, SamplesProven, PageProven, FailuresAreBacked, Proven, Room,
    NonPass
<1>2. ASSUME NEW r \in Recorder, RecorderStep(r) PROVE IInv'
  BY <1>2, TakeStep, RecordEvidenceStep, RecordSampleStep DEF RecorderStep
<1>3. ASSUME NEW l \in Loop, LoopStep(l) PROVE IInv'
  BY <1>3, LatencyStep
<1>4. CASE ReaderStep
  BY <1>4, ReadSamplesStep, ReadFlipsStep, ReadEvidenceStep, OtherReaderStep
  DEF ReaderStep
<1>5. QED BY <1>1, <1>2, <1>3, <1>4 DEF Next

THEOREM Invariance == Spec => []IInv
<1>1. QED BY InitIInv, InductiveStep, PTL DEF Spec

(***************************************************************************)
(* For any recorders and capacities, the evidence log stays within its     *)
(* bound and every reader and recorder within its protocol (evidence.go,   *)
(* observe).                                                               *)
(***************************************************************************)
THEOREM ObservationTypeCorrect == Spec => []TypeOK
<1>1. IInv => TypeOK BY DEF IInv
<1>2. QED BY <1>1, Invariance, PTL

(***************************************************************************)
(* For any recorders and any ring capacity, a snapshot is the last         *)
(* RingSize samples recorded, oldest first (history.go, snapshot).         *)
(***************************************************************************)
THEOREM RingsAreWindows == Spec => []RingIsWindow
<1>1. IInv => RingIsWindow
  BY SnapshotIsWindow DEF IInv, RingHolds, RingIsWindow, Window
<1>2. QED BY <1>1, Invariance, PTL

(***************************************************************************)
(* For any recorders, checks and responses, evidence names a non-pass      *)
(* observation of the check (evidence.go, observe).                        *)
(***************************************************************************)
THEOREM EvidenceIsAlwaysReal == Spec => []EvidenceIsReal
<1>1. IInv => EvidenceIsReal BY DEF IInv
<1>2. QED BY <1>1, Invariance, PTL

(***************************************************************************)
(* For any recorders and capacities, no page shows a failure of a check it *)
(* claims has never deviated, unless the log is full (pusher.go,           *)
(* broadcast and renderPatch; dashboard.go, Observe).                      *)
(***************************************************************************)
THEOREM FailuresAreAlwaysBacked == Spec => []FailuresAreBacked
<1>1. IInv => FailuresAreBacked BY DEF IInv
<1>2. QED BY <1>1, Invariance, PTL
-----------------------------------------------------------------------------
(* The samples after the i-th that are older than it ...                   *)
Late(i) == {j \in i + 1 .. Len(log) : log[j].at < log[i].at}

(* ... and the recorders that will record such a sample.                   *)
Pending(i) ==
  {r \in Recorder : at[r] \in {"evidence", "history"} /\ stamp[r] < log[i].at}

(* Every late sample was a pending recorder's when the i-th was recorded,  *)
(* and the recorder of the i-th was not one of them.                       *)
FewLate ==
  \A i \in 1 .. Len(log) :
    Cardinality(Late(i)) + Cardinality(Pending(i)) < Cardinality(Recorder)

LEMMA LateFinite ==
  ASSUME RingHolds, NEW i \in 1 .. Len(log)
  PROVE  /\ IsFiniteSet(Late(i)) /\ Cardinality(Late(i)) \in Nat
         /\ IsFiniteSet(Pending(i)) /\ Cardinality(Pending(i)) \in Nat
<1>1. Len(log) \in Nat
  BY LenProperties DEF RingHolds, Holds
<1>2. IsFiniteSet(i + 1 .. Len(log))
  BY <1>1, FS_Interval
<1>3. IsFiniteSet(Late(i)) /\ IsFiniteSet(Pending(i))
  BY <1>2, FS_Subset, ObservationAssumption DEF Late, Pending
<1>4. QED BY <1>3, FS_CardinalityType

(* Steps that record no sample: the late ones stay, and none is pending    *)
(* that was not.                                                           *)
LEMMA FewLateStays ==
  ASSUME IInv, FewLate, UNCHANGED log,
         \A i \in 1 .. Len(log) : Pending(i)' \subseteq Pending(i)
  PROVE  FewLate'
<1>1. SUFFICES ASSUME NEW i \in 1 .. Len(log)
               PROVE  Cardinality(Late(i)') + Cardinality(Pending(i)')
                        < Cardinality(Recorder)
  BY DEF FewLate
<1>2. Late(i)' = Late(i)
  BY DEF Late
<1>3. /\ IsFiniteSet(Late(i)) /\ Cardinality(Late(i)) \in Nat
      /\ IsFiniteSet(Pending(i)) /\ Cardinality(Pending(i)) \in Nat
  BY LateFinite DEF IInv
<1>4. Pending(i)' \subseteq Pending(i)
  OBVIOUS
<1>5. Cardinality(Pending(i)') \in Nat /\ Cardinality(Pending(i)') <= Cardinality(Pending(i))
  BY <1>3, <1>4, FS_Subset, FS_CardinalityType
<1>6. Cardinality(Late(i)) + Cardinality(Pending(i)) < Cardinality(Recorder)
  BY DEF FewLate
<1>7. Cardinality(Recorder) \in Nat
  BY ObservationAssumption, FS_CardinalityType
<1>8. QED BY <1>2, <1>3, <1>5, <1>6, <1>7

(* The recorder of a sample moves from the pending to the late.            *)
LEMMA FewLateSample ==
  ASSUME IInv, FewLate, NEW r \in Recorder, RecordSample(r)
  PROVE  FewLate'
<1>1. /\ at[r] = "history"
      /\ log' = Append(log, Sample(stamp[r]))
      /\ at' = [at EXCEPT ![r] = at'[r]] /\ at'[r] \in {"latency", "idle"}
      /\ UNCHANGED stamp
  BY DEF RecordSample, IInv, TypeOK
<1>2. /\ stamp[r] \in Nat
      /\ Sample(stamp[r]) \in SampleType /\ Sample(stamp[r]).at = stamp[r]
  BY <1>1, LenProperties DEF IInv, TypeOK, Sample, SampleType, Overall
<1>3. /\ log \in Seq(SampleType) /\ Len(log) \in Nat
      /\ Len(log') = Len(log) + 1
      /\ \A i \in 1 .. Len(log) : log'[i] = log[i]
      /\ log'[Len(log) + 1].at = stamp[r]
  <2>1. log \in Seq(SampleType)
    BY DEF IInv, RingHolds, Holds
  <2>2. QED BY <1>1, <1>2, <2>1, LenProperties, AppendProperties
<1>4. IsFiniteSet(Recorder) /\ Cardinality(Recorder) \in Nat
  BY ObservationAssumption, FS_CardinalityType
<1>5. ASSUME NEW i \in 1 .. Len(log)
      PROVE  Cardinality(Late(i)') + Cardinality(Pending(i)') < Cardinality(Recorder)
  <2>1. /\ IsFiniteSet(Late(i)) /\ Cardinality(Late(i)) \in Nat
        /\ IsFiniteSet(Pending(i)) /\ Cardinality(Pending(i)) \in Nat
    BY LateFinite DEF IInv
  <2>2. Cardinality(Late(i)) + Cardinality(Pending(i)) < Cardinality(Recorder)
    BY DEF FewLate
  <2>3. Pending(i)' = Pending(i) \ {r}
    BY <1>1, <1>3 DEF Pending, IInv, TypeOK
  <2>4. CASE stamp[r] < log[i].at
    <3>1. Late(i)' = Late(i) \cup {Len(log) + 1}
      BY <1>3, <2>4 DEF Late
    <3>2. Len(log) + 1 \notin Late(i)
      BY <1>3 DEF Late
    <3>3. Cardinality(Late(i)') = Cardinality(Late(i)) + 1
      BY <2>1, <3>1, <3>2, FS_AddElement
    <3>4. r \in Pending(i)
      BY <1>1, <2>4 DEF Pending
    <3>5. Cardinality(Pending(i)') = Cardinality(Pending(i)) - 1
      BY <2>1, <2>3, <3>4, FS_RemoveElement
    <3>6. QED BY <1>4, <2>1, <2>2, <3>3, <3>5
  <2>5. CASE ~(stamp[r] < log[i].at)
    <3>1. Late(i)' = Late(i)
      BY <1>3, <2>5 DEF Late
    <3>2. Pending(i)' = Pending(i)
      BY <2>3, <2>5 DEF Pending
    <3>3. QED BY <2>2, <3>1, <3>2
  <2>6. QED BY <2>4, <2>5
<1>6. ASSUME NEW i, i = Len(log) + 1
      PROVE  Cardinality(Late(i)') + Cardinality(Pending(i)') < Cardinality(Recorder)
  <2>1. Late(i)' = {}
    BY <1>3, <1>6 DEF Late
  <2>2. Pending(i)' \subseteq Recorder \ {r}
    BY <1>1 DEF Pending, IInv, TypeOK
  <2>3. IsFiniteSet(Recorder \ {r})
        /\ Cardinality(Recorder \ {r}) = Cardinality(Recorder) - 1
    BY <1>4, FS_RemoveElement
  <2>4. /\ Cardinality(Pending(i)') <= Cardinality(Recorder \ {r})
        /\ Cardinality(Pending(i)') \in Nat
    BY <2>2, <2>3, FS_Subset, FS_CardinalityType
  <2>5. Cardinality(Late(i)') = 0
    BY <2>1, FS_EmptySet
  <2>6. QED BY <1>4, <2>3, <2>4, <2>5
<1>7. \A i \in 1 .. Len(log') : i \in 1 .. Len(log) \/ i = Len(log) + 1
  BY <1>3
<1>8. QED BY <1>5, <1>6, <1>7 DEF FewLate

LEMMA FewLateStep == IInv /\ FewLate /\ [Next]_vars => FewLate'
<1> SUFFICES ASSUME IInv, FewLate, [Next]_vars PROVE FewLate'
  OBVIOUS
<1>1. CASE UNCHANGED vars
  BY <1>1, FewLateStays DEF vars, Pending
<1>2. ASSUME NEW r \in Recorder, Take(r) PROVE FewLate'
  <2>1. /\ UNCHANGED log /\ at[r] = "idle"
        /\ stamp' = [stamp EXCEPT ![r] = Len(taken) + 1]
        /\ at' = [at EXCEPT ![r] = "evidence"]
    BY <1>2 DEF Take
  <2>2. Len(taken) \in Nat
    BY LenProperties DEF IInv, TypeOK
  <2>3. ASSUME NEW i \in 1 .. Len(log)
        PROVE  Pending(i)' \subseteq Pending(i)
    <3>1. log[i].at \in 1 .. Len(taken)
      BY DEF IInv, RingHolds
    <3>2. QED BY <2>1, <2>2, <3>1 DEF Pending, IInv, TypeOK
  <2>4. QED BY <2>1, <2>3, FewLateStays
<1>3. ASSUME NEW r \in Recorder, RecordEvidence(r) PROVE FewLate'
  <2>1. /\ UNCHANGED <<log, stamp>> /\ at[r] = "evidence"
        /\ at' = [at EXCEPT ![r] = "history"]
    BY <1>3 DEF RecordEvidence
  <2>2. \A i \in 1 .. Len(log) : Pending(i)' \subseteq Pending(i)
    BY <2>1 DEF Pending, IInv, TypeOK
  <2>3. QED BY <2>1, <2>2, FewLateStays
<1>4. ASSUME NEW r \in Recorder, RecordSample(r) PROVE FewLate'
  BY <1>4, FewLateSample
<1>5. ASSUME NEW l \in Loop, LoopStep(l) PROVE FewLate'
  <2>1. /\ UNCHANGED <<log, stamp>>
        /\ at' = at \/ at' = [at EXCEPT ![l] = "idle"]
    BY <1>5 DEF LoopStep, CountBucket, CountAll
  <2>2. \A i \in 1 .. Len(log) : Pending(i)' \subseteq Pending(i)
    BY <2>1 DEF Pending, IInv, TypeOK
  <2>3. QED BY <2>1, <2>2, FewLateStays
<1>6. CASE ReaderStep
  <2>1. UNCHANGED <<log, at, stamp>>
    BY <1>6 DEF ReaderStep, ReadSamples, ReadFlips, ReadEvidence, Scrape,
      Respond, recorderVars
  <2>2. \A i \in 1 .. Len(log) : Pending(i)' \subseteq Pending(i)
    BY <2>1 DEF Pending
  <2>3. QED BY <2>1, <2>2, FewLateStays
<1>7. QED BY <1>1, <1>2, <1>3, <1>4, <1>5, <1>6 DEF Next, RecorderStep

(***************************************************************************)
(* For any recorders, no sample is followed by as many late ones as there  *)
(* are recorders (pusher.go, broadcast; dashboard.go, Observe; history.go, *)
(* record).                                                                *)
(***************************************************************************)
THEOREM SamplesNearlyChronological == Spec => []NearlyChronological
<1>1. Init => FewLate
  BY DEF Init, FewLate
<1>2. IInv /\ FewLate => NearlyChronological
  <2>1. SUFFICES ASSUME IInv, FewLate, NEW i \in 1 .. Len(log)
                 PROVE  Cardinality(Late(i)) < Cardinality(Recorder)
    BY DEF NearlyChronological, Late
  <2>2. /\ Cardinality(Late(i)) \in Nat /\ Cardinality(Pending(i)) \in Nat
        /\ Cardinality(Recorder) \in Nat
    BY <2>1, LateFinite, ObservationAssumption, FS_CardinalityType DEF IInv
  <2>3. QED BY <2>1, <2>2 DEF FewLate
<1>3. QED BY <1>1, <1>2, FewLateStep, Invariance, PTL DEF Spec
-----------------------------------------------------------------------------
(* No observation is recorded twice, nor by two recorders.                 *)
StampsDiffer ==
  /\ \A i, j \in 1 .. Len(log) : log[i].at = log[j].at => i = j
  /\ \A r \in Recorder : at[r] \in {"evidence", "history"} =>
       /\ \A i \in 1 .. Len(log) : log[i].at # stamp[r]
       /\ \A q \in Recorder \ {r} :
            at[q] \in {"evidence", "history"} => stamp[q] # stamp[r]

(* The first sample that a snapshot of the first n lists.                  *)
From(n) == IF n > RingSize THEN n - RingSize + 1 ELSE 1

(* The samples are the snapshot of the ring after n samples.               *)
Shows(samples, n) ==
  /\ Len(samples) = n - From(n) + 1
  /\ \A i \in 1 .. Len(samples) : samples[i] = log[From(n) + i - 1]

(* The samples under way are a snapshot that was taken.                    *)
SamplesShown ==
  reader = "flips" => \E n \in 0 .. Len(log) : Shows(page.samples, n)

TInv == StampsDiffer /\ SamplesShown /\ TrendCoherent

LEMMA FromType ==
  ASSUME NEW n \in Nat
  PROVE  From(n) \in Nat /\ 1 <= From(n) /\ From(n) <= n + 1
BY RingSizeType DEF From

LEMMA SnapshotShows ==
  ASSUME IInv
  PROVE  Len(log) \in Nat /\ Shows(Snapshot(ring), Len(log))
<1>1. log \in Seq(SampleType) /\ Len(log) \in Nat
  BY LenProperties DEF IInv, RingHolds, Holds
<1>2. Snapshot(ring) = SubSeq(log, From(Len(log)), Len(log))
  BY SnapshotIsWindow DEF IInv, RingHolds, Window, From
<1>3. From(Len(log)) \in Nat /\ 1 <= From(Len(log)) /\ From(Len(log)) <= Len(log) + 1
  BY <1>1, FromType
<1>4. \A j \in From(Len(log)) .. Len(log) : log[j] \in SampleType
  BY <1>1, <1>3, ElementOfSeq
<1>5. /\ Len(Snapshot(ring)) = IF From(Len(log)) <= Len(log)
                               THEN Len(log) - From(Len(log)) + 1 ELSE 0
      /\ \A j \in 1 .. Len(log) - From(Len(log)) + 1 :
           Snapshot(ring)[j] = log[From(Len(log)) + j - 1]
  BY <1>1, <1>2, <1>3, <1>4, SubSeqProperties
<1>6. QED BY <1>1, <1>3, <1>5 DEF Shows

(* What is known of the samples of a snapshot.                             *)
LEMMA Shown ==
  ASSUME NEW samples, NEW n \in 0 .. Len(log), Len(log) \in Nat, Shows(samples, n)
  PROVE  /\ Len(samples) = n - From(n) + 1
         /\ \A i \in 1 .. Len(samples) :
              /\ From(n) + i - 1 \in From(n) .. n
              /\ samples[i] = log[From(n) + i - 1]
         /\ \A k \in From(n) .. n :
              /\ k \in 1 .. Len(log) /\ k - From(n) + 1 \in 1 .. Len(samples)
              /\ samples[k - From(n) + 1] = log[k]
<1>1. n \in Nat /\ From(n) \in Nat /\ 1 <= From(n) /\ From(n) <= n + 1
  BY FromType
<1>2. Len(samples) = n - From(n) + 1
  BY DEF Shows
<1>3. ASSUME NEW i \in 1 .. Len(samples)
      PROVE  From(n) + i - 1 \in From(n) .. n /\ samples[i] = log[From(n) + i - 1]
  BY <1>1, <1>2, <1>3 DEF Shows
<1>4. ASSUME NEW k \in From(n) .. n
      PROVE  /\ k \in 1 .. Len(log) /\ k - From(n) + 1 \in 1 .. Len(samples)
             /\ samples[k - From(n) + 1] = log[k]
  <2>1. k \in 1 .. Len(log) /\ k - From(n) + 1 \in 1 .. Len(samples)
    BY <1>1, <1>2
  <2>2. From(n) + (k - From(n) + 1) - 1 = k
    BY <1>1
  <2>3. QED BY <1>3, <2>1, <2>2
<1>5. QED BY <1>2, <1>3, <1>4

Changes(k) == log[k].status # log[k - 1].status

(* The transitions whose predecessor is in kept, of samples and of a       *)
(* snapshot in terms of the log.                                           *)
KeptFlips(samples, kept) ==
  {samples[i].at : i \in {j \in Flips(samples) : samples[j - 1].at \in kept}}

KeptChanges(n, kept) ==
  {log[k].at : k \in {m \in From(n) + 1 .. n :
                        Changes(m) /\ log[m - 1].at \in kept}}

(* The stamps of a snapshot, and of its transitions.                       *)
LEMMA ShownStamps ==
  ASSUME NEW samples, NEW kept,
         NEW n \in 0 .. Len(log), Len(log) \in Nat, Shows(samples, n)
  PROVE  /\ {samples[i].at : i \in 1 .. Len(samples)} = {log[k].at : k \in From(n) .. n}
         /\ {samples[i].at : i \in Flips(samples)} =
              {log[k].at : k \in {m \in From(n) + 1 .. n : Changes(m)}}
         /\ KeptFlips(samples, kept) = KeptChanges(n, kept)
<1> DEFINE f == From(n)
<1>1. n \in Nat /\ f \in Nat /\ 1 <= f /\ f <= n + 1
  BY FromType
<1>2. /\ Len(samples) = n - f + 1
      /\ \A i \in 1 .. Len(samples) :
           f + i - 1 \in f .. n /\ samples[i] = log[f + i - 1]
      /\ \A k \in f .. n :
           /\ k - f + 1 \in 1 .. Len(samples)
           /\ samples[k - f + 1] = log[k]
  BY Shown
<1> HIDE DEF f
<1>3. {samples[i].at : i \in 1 .. Len(samples)} = {log[k].at : k \in f .. n}
  <2> DEFINE I == 1 .. Len(samples)
             K == f .. n
  <2>1. \A i \in I : \E k \in K : samples[i].at = log[k].at
    BY <1>2
  <2>2. \A k \in K : \E i \in I : samples[i].at = log[k].at
    BY <1>2
  <2> HIDE DEF I, K
  <2>3. {samples[i].at : i \in I} = {log[k].at : k \in K}
    BY <2>1, <2>2
  <2>4. QED BY <2>3 DEF I, K
<1>4. ASSUME NEW i \in Flips(samples)
      PROVE  \E k \in f + 1 .. n :
               Changes(k) /\ samples[i] = log[k] /\ samples[i - 1] = log[k - 1]
  <2>1. /\ i \in 1 .. Len(samples) /\ i - 1 \in 1 .. Len(samples)
        /\ samples[i].status # samples[i - 1].status
        /\ i \in Int /\ i >= 2
    BY <1>1, <1>2 DEF Flips
  <2>2. PICK k : k = f + i - 1
    OBVIOUS
  <2>3. /\ k \in f + 1 .. n /\ k = f + i - 1 /\ k - 1 = f + (i - 1) - 1
    BY <1>1, <1>2, <2>1, <2>2
  <2>4. samples[i] = log[k] /\ samples[i - 1] = log[k - 1]
    BY <1>2, <2>1, <2>3
  <2>5. Changes(k)
    BY <2>1, <2>4 DEF Changes
  <2>6. QED BY <2>3, <2>4, <2>5
<1>5. ASSUME NEW k \in f + 1 .. n, Changes(k)
      PROVE  \E i \in Flips(samples) :
               samples[i] = log[k] /\ samples[i - 1] = log[k - 1]
  <2>1. k \in f .. n /\ k - 1 \in f .. n /\ k \in Int
    BY <1>1
  <2>2. PICK i : i = k - f + 1
    OBVIOUS
  <2>3. /\ i \in 2 .. Len(samples) /\ i = k - f + 1 /\ i - 1 = (k - 1) - f + 1
    BY <1>1, <1>2, <2>1, <2>2
  <2>4. samples[i] = log[k] /\ samples[i - 1] = log[k - 1]
    BY <1>2, <2>1, <2>3
  <2>5. samples[i].status # samples[i - 1].status
    BY <1>5, <2>4 DEF Changes
  <2>6. i \in Flips(samples)
    BY <2>3, <2>5 DEF Flips
  <2>7. QED BY <2>4, <2>6
<1>6. {samples[i].at : i \in Flips(samples)} =
        {log[k].at : k \in {m \in f + 1 .. n : Changes(m)}}
  <2>1. \A i \in Flips(samples) :
          \E k \in {m \in f + 1 .. n : Changes(m)} : samples[i].at = log[k].at
    BY <1>4
  <2>2. \A k \in {m \in f + 1 .. n : Changes(m)} :
          \E i \in Flips(samples) : samples[i].at = log[k].at
    BY <1>5
  <2>3. QED BY <2>1, <2>2
<1>7. {samples[i].at : i \in {j \in Flips(samples) : samples[j - 1].at \in kept}} =
        {log[k].at : k \in {m \in f + 1 .. n :
                              Changes(m) /\ log[m - 1].at \in kept}}
  <2> DEFINE I == {j \in Flips(samples) : samples[j - 1].at \in kept}
             K == {m \in f + 1 .. n : Changes(m) /\ log[m - 1].at \in kept}
  <2>1. ASSUME NEW i \in I
        PROVE  \E k \in K : samples[i].at = log[k].at
    <3>1. PICK k \in f + 1 .. n :
            Changes(k) /\ samples[i] = log[k] /\ samples[i - 1] = log[k - 1]
      BY <1>4
    <3>2. k \in K
      BY <3>1
    <3>3. QED BY <3>1, <3>2
  <2>2. ASSUME NEW k \in K
        PROVE  \E i \in I : samples[i].at = log[k].at
    <3>1. PICK i \in Flips(samples) :
            samples[i] = log[k] /\ samples[i - 1] = log[k - 1]
      BY <1>5
    <3>2. i \in I
      BY <3>1
    <3>3. QED BY <3>1, <3>2
  <2> HIDE DEF I, K
  <2>3. {samples[i].at : i \in I} = {log[k].at : k \in K}
    BY <2>1, <2>2
  <2>4. QED BY <2>3 DEF I, K
<1>8. KeptFlips(samples, kept) = KeptChanges(n, kept)
  BY <1>7 DEF KeptFlips, KeptChanges, f
<1>9. QED BY <1>3, <1>6, <1>8 DEF f

(* The second snapshot starts and ends no earlier than the first.          *)
LEMMA ReadFlipsCoheres ==
  ASSUME IInv, TInv, ReadFlips
  PROVE  TrendCoherent'
<1> DEFINE d == Len(log)
           window == Snapshot(ring)
           flips == {window[i].at : i \in Flips(window)}
           kept == {window[i].at : i \in 1 .. Len(window)}
           listed == {page.samples[i].at : i \in 1 .. Len(page.samples)}
           ours == {page.samples[i].at :
                      i \in {j \in Flips(page.samples) : page.samples[j - 1].at \in kept}}
<1>1. PICK b \in 0 .. Len(log) : Shows(page.samples, b)
  BY DEF ReadFlips, TInv, SamplesShown
<1>2. d \in Nat /\ d \in 0 .. Len(log) /\ Shows(window, d)
  BY SnapshotShows
<1>3. /\ From(b) \in Nat /\ From(d) \in Nat /\ 1 <= From(b)
      /\ From(b) <= From(d) /\ b <= d /\ b \in Nat
  BY <1>1, <1>2, FromType, RingSizeType DEF From
<1>4. /\ flips = {log[k].at : k \in {m \in From(d) + 1 .. d : Changes(m)}}
      /\ kept = {log[k].at : k \in From(d) .. d}
  <2> HIDE DEF d, window
  <2>1. QED BY <1>2, ShownStamps DEF d
<1>5. /\ listed = {log[k].at : k \in From(b) .. b}
      /\ ours = {log[k].at : k \in {m \in From(b) + 1 .. b :
                                      Changes(m) /\ log[m - 1].at \in kept}}
  <2>1. KeptFlips(page.samples, kept) = KeptChanges(b, kept)
    <3> HIDE DEF kept
    <3>1. QED BY <1>1, <1>2, ShownStamps
  <2>2. listed = {log[k].at : k \in From(b) .. b}
    BY <1>1, <1>2, ShownStamps
  <2> HIDE DEF kept, listed
  <2>3. QED BY <2>1, <2>2 DEF KeptFlips, KeptChanges
<1>6. \A i, j \in 1 .. d : log[i].at = log[j].at => i = j
  BY DEF TInv, StampsDiffer
<1> HIDE DEF d, window, flips, kept, listed, ours
<1>7. ASSUME NEW t \in flips \cap listed
      PROVE  t \in ours
  <2>1. PICK k \in From(d) + 1 .. d : Changes(k) /\ t = log[k].at
    BY <1>4
  <2>2. PICK m \in From(b) .. b : t = log[m].at
    BY <1>5
  <2>3. k \in 1 .. d /\ m \in 1 .. d
    BY <1>2, <1>3
  <2>4. k = m
    BY <1>6, <2>1, <2>2, <2>3
  <2>5. k \in From(b) + 1 .. b /\ k - 1 \in From(d) .. d
    BY <1>2, <1>3, <2>4
  <2>6. log[k - 1].at \in kept
    BY <1>4, <2>5
  <2>7. QED BY <1>5, <2>1, <2>5, <2>6
<1>8. ASSUME NEW t \in ours
      PROVE  t \in flips /\ t \in listed
  <2>1. PICK k \in From(b) + 1 .. b :
          Changes(k) /\ log[k - 1].at \in kept /\ t = log[k].at
    BY <1>5
  <2>2. PICK m \in From(d) .. d : log[k - 1].at = log[m].at
    BY <1>4, <2>1
  <2>3. k - 1 \in 1 .. d /\ m \in 1 .. d
    BY <1>2, <1>3
  <2>4. k - 1 = m
    BY <1>6, <2>2, <2>3
  <2>5. k \in From(d) + 1 .. d /\ k \in From(b) .. b
    BY <1>2, <1>3, <2>4
  <2>6. QED BY <1>4, <1>5, <2>1, <2>5
<1>9. flips \cap listed = ours
  BY <1>7, <1>8
<1>10. page'.samples = page.samples /\ page'.flips = flips /\ page'.kept = kept
  BY DEF ReadFlips, IInv, PageType, flips, kept, window
<1>11. QED BY <1>9, <1>10 DEF TrendCoherent, listed, ours

(* A sample's stamp is nobody else's.                                      *)
LEMMA StampsStepTake ==
  ASSUME IInv, StampsDiffer, NEW r \in Recorder, Take(r)
  PROVE  StampsDiffer'
<1>1. /\ UNCHANGED log /\ at[r] = "idle"
      /\ stamp' = [stamp EXCEPT ![r] = Len(taken) + 1]
      /\ at' = [at EXCEPT ![r] = "evidence"]
  BY DEF Take
<1>2. /\ Len(taken) \in Nat /\ stamp \in [Recorder -> 0 .. Len(taken)]
      /\ at \in [Recorder -> {"idle", "evidence", "history", "latency"}]
  BY LenProperties DEF IInv, TypeOK
<1>3. \A i \in 1 .. Len(log) : log[i].at \in 1 .. Len(taken)
  BY DEF IInv, RingHolds
<1>4. \A q \in Recorder : stamp[q] # Len(taken) + 1
  BY <1>2
<1>5. QED BY <1>1, <1>2, <1>3, <1>4 DEF StampsDiffer

LEMMA StampsStepSample ==
  ASSUME IInv, StampsDiffer, NEW r \in Recorder, RecordSample(r)
  PROVE  StampsDiffer'
<1>1. /\ at[r] = "history"
      /\ log' = Append(log, Sample(stamp[r]))
      /\ at' = [at EXCEPT ![r] = at'[r]] /\ at'[r] \in {"latency", "idle"}
      /\ UNCHANGED stamp
  BY DEF RecordSample, IInv, TypeOK
<1>2. /\ stamp[r] \in Nat
      /\ Sample(stamp[r]) \in SampleType /\ Sample(stamp[r]).at = stamp[r]
  BY <1>1, LenProperties DEF IInv, TypeOK, Sample, SampleType, Overall
<1>3. /\ log \in Seq(SampleType) /\ Len(log) \in Nat
      /\ Len(log') = Len(log) + 1
      /\ \A i \in 1 .. Len(log) : log'[i] = log[i]
      /\ log'[Len(log) + 1].at = stamp[r]
  <2>1. log \in Seq(SampleType)
    BY DEF IInv, RingHolds, Holds
  <2>2. QED BY <1>1, <1>2, <2>1, LenProperties, AppendProperties
<1>4. /\ at \in [Recorder -> {"idle", "evidence", "history", "latency"}]
      /\ \A i \in 1 .. Len(log') : i \in 1 .. Len(log) \/ i = Len(log) + 1
  BY <1>3 DEF IInv, TypeOK
<1>5. /\ \A i \in 1 .. Len(log) : log[i].at # stamp[r]
      /\ \A q \in Recorder \ {r} :
           at[q] \in {"evidence", "history"} => stamp[q] # stamp[r]
  BY <1>1 DEF StampsDiffer
<1>6. \A i, j \in 1 .. Len(log') : log'[i].at = log'[j].at => i = j
  BY <1>3, <1>4, <1>5 DEF StampsDiffer
<1>7. ASSUME NEW q \in Recorder, at'[q] \in {"evidence", "history"}
      PROVE  /\ \A i \in 1 .. Len(log') : log'[i].at # stamp[q]
             /\ \A p \in Recorder \ {q} :
                  at'[p] \in {"evidence", "history"} => stamp[p] # stamp[q]
  <2>1. q # r /\ at[q] = at'[q]
    BY <1>1, <1>4, <1>7
  <2>2. \A p \in Recorder : at'[p] \in {"evidence", "history"} => at[p] = at'[p]
    BY <1>1, <1>4
  <2>3. stamp[q] # stamp[r]
    BY <1>5, <1>7, <2>1
  <2>4. \A i \in 1 .. Len(log) : log[i].at # stamp[q]
    BY <1>7, <2>1 DEF StampsDiffer
  <2>5. \A i \in 1 .. Len(log') : log'[i].at # stamp[q]
    BY <1>3, <1>4, <2>3, <2>4
  <2>6. QED BY <1>7, <2>1, <2>2, <2>5 DEF StampsDiffer
<1>8. QED BY <1>1, <1>6, <1>7 DEF StampsDiffer

(* A log that grows by a sample keeps the snapshots that were taken of it. *)
LEMMA TInvSample ==
  ASSUME IInv, TInv, NEW r \in Recorder, RecordSample(r)
  PROVE  TInv'
<1>1. log' = Append(log, Sample(stamp[r])) /\ UNCHANGED <<reader, page>>
  BY DEF RecordSample, readerVars
<1>2. /\ Len(log) \in Nat /\ Len(log') = Len(log) + 1
      /\ \A i \in 1 .. Len(log) : log'[i] = log[i]
  <2>1. Sample(stamp[r]) \in SampleType
    BY LenProperties DEF IInv, TypeOK, Sample, SampleType, Overall
  <2>2. log \in Seq(SampleType)
    BY DEF IInv, RingHolds, Holds
  <2>3. QED BY <1>1, <2>1, <2>2, LenProperties, AppendProperties
<1>3. ASSUME NEW n \in 0 .. Len(log), Shows(page.samples, n)
      PROVE  n \in 0 .. Len(log') /\ Shows(page.samples, n)'
  <2>1. \A k \in From(n) .. n : k \in 1 .. Len(log)
    BY <1>2, <1>3, Shown
  <2>2. \A i \in 1 .. Len(page.samples) :
          From(n) + i - 1 \in From(n) .. n
    BY <1>2, <1>3, Shown
  <2>3. QED BY <1>1, <1>2, <1>3, <2>1, <2>2 DEF Shows, From
<1>4. SamplesShown'
  BY <1>1, <1>3 DEF TInv, SamplesShown
<1>5. TrendCoherent'
  BY <1>1 DEF TInv, TrendCoherent
<1>6. QED BY <1>4, <1>5, StampsStepSample DEF TInv

LEMMA TInvStep == IInv /\ TInv /\ [Next]_vars => TInv'
<1> SUFFICES ASSUME IInv, TInv, [Next]_vars PROVE TInv'
  OBVIOUS
<1> USE DEF TInv
<1>1. ASSUME UNCHANGED <<log, reader, page>>
      PROVE  SamplesShown' /\ TrendCoherent'
  <2>1. \A n : Shows(page.samples, n)' <=> Shows(page.samples, n)
    BY <1>1 DEF Shows, From
  <2>2. SamplesShown'
    BY <1>1, <2>1 DEF SamplesShown
  <2>3. TrendCoherent'
    BY <1>1 DEF TrendCoherent
  <2>4. QED BY <2>2, <2>3
<1>2. ASSUME UNCHANGED <<log, stamp>>,
             \A r \in Recorder : at'[r] \in {"evidence", "history"} =>
                                   at[r] \in {"evidence", "history"}
      PROVE  StampsDiffer'
  BY <1>2 DEF StampsDiffer
<1>3. CASE UNCHANGED vars
  BY <1>1, <1>2, <1>3 DEF vars
<1>4. ASSUME NEW r \in Recorder, Take(r) PROVE TInv'
  BY <1>1, <1>4, StampsStepTake DEF Take, readerVars
<1>5. ASSUME NEW r \in Recorder, RecordEvidence(r) PROVE TInv'
  <2>1. /\ UNCHANGED <<log, stamp, reader, page>> /\ at[r] = "evidence"
        /\ at' = [at EXCEPT ![r] = "history"]
    BY <1>5 DEF RecordEvidence, readerVars
  <2>2. \A q \in Recorder : at'[q] # at[q] => q = r
    BY <2>1 DEF IInv, TypeOK
  <2>3. QED BY <1>1, <1>2, <2>1, <2>2
<1>6. ASSUME NEW r \in Recorder, RecordSample(r) PROVE TInv'
  BY <1>6, TInvSample
<1>7. ASSUME NEW l \in Loop, LoopStep(l) PROVE TInv'
  <2>1. /\ UNCHANGED <<log, stamp, reader, page>>
        /\ at' = at \/ at' = [at EXCEPT ![l] = "idle"]
    BY <1>7 DEF LoopStep, CountBucket, CountAll, readerVars
  <2>2. \A q \in Recorder : at'[q] \in {at[q], "idle"}
    BY <2>1 DEF IInv, TypeOK
  <2>3. QED BY <1>1, <1>2, <2>1, <2>2
<1>8. CASE ReaderStep
  <2>1. StampsDiffer'
    BY <1>2, <1>8 DEF ReaderStep, ReadSamples, ReadFlips, ReadEvidence, Scrape,
      Respond, recorderVars
  <2>2. CASE ReadSamples
    <3>1. /\ reader' = "flips" /\ page'.samples = Snapshot(ring) /\ UNCHANGED log
      BY <2>2 DEF ReadSamples, IInv, PageType
    <3>2. Len(log) \in 0 .. Len(log) /\ Shows(page'.samples, Len(log))
      BY <3>1, SnapshotShows
    <3>3. SamplesShown'
      BY <3>1, <3>2 DEF SamplesShown, Shows
    <3>4. QED BY <2>1, <3>1, <3>3 DEF TrendCoherent
  <2>3. CASE ReadFlips
    <3>1. reader' = "evidence"
      BY <2>3 DEF ReadFlips
    <3>2. QED BY <2>1, <2>3, <3>1, ReadFlipsCoheres DEF SamplesShown
  <2>4. CASE ReadEvidence
    <3>1. /\ reader = "evidence" /\ reader' = "done"
          /\ page'.samples = page.samples /\ page'.flips = page.flips
          /\ page'.kept = page.kept
      BY <2>4 DEF ReadEvidence, IInv, PageType
    <3>2. QED BY <2>1, <3>1 DEF SamplesShown, TrendCoherent
  <2>5. CASE Scrape \/ Respond
    <3>1. reader' \in {"idle", "scrape", "scraped"}
      BY <2>5 DEF Scrape, Respond
    <3>2. QED BY <2>1, <3>1 DEF SamplesShown, TrendCoherent
  <2>6. QED BY <1>8, <2>2, <2>3, <2>4, <2>5 DEF ReaderStep
<1>9. QED
  BY <1>3, <1>4, <1>5, <1>6, <1>7, <1>8 DEF Next, RecorderStep

(***************************************************************************)
(* For any recorders and any ring capacity, the transitions of a trend     *)
(* document are those of its samples whose predecessor was not evicted     *)
(* between its two snapshots (trend.go, TrendHandler).                     *)
(***************************************************************************)
THEOREM TrendsCohere == Spec => []TrendCoherent
<1>1. Init => TInv
  <2>1. SUFFICES ASSUME Init PROVE TInv
    OBVIOUS
  <2>2. Len(log) = 0 /\ reader = "idle" /\ \A r \in Recorder : at[r] = "idle"
    BY <2>1 DEF Init
  <2>3. QED BY <2>2 DEF TInv, StampsDiffer, SamplesShown, TrendCoherent
<1>2. QED
  BY <1>1, TInvStep, Invariance, PTL DEF Spec, TInv
-----------------------------------------------------------------------------
(* The histogram's counters in the order in which they are written and     *)
(* read: its buckets and its count.                                        *)
Counter(b) == IF b <= Bucket THEN buckets[b] ELSE count

(* The loops about to increment counter b.                                 *)
Due(b) == {l \in Loop : at[l] = "latency" /\ slot[l] = b}

(* A counter is ahead of the next one by no more than the loops that are   *)
(* about to increment that.                                                *)
NearlyCumulative ==
  \A b \in 1 .. Bucket : Counter(b) <= Counter(b + 1) + Cardinality(Due(b + 1))

(* A scrape has read the counters in order, when they were no larger.      *)
ScrapedBefore ==
  /\ page.scrape \in Seq(Nat)
  /\ reader \in {"idle", "scrape"} => Len(page.scrape) <= Bucket
  /\ Len(page.scrape) <= Bucket + 1
  /\ \A b \in 1 .. Len(page.scrape) : page.scrape[b] <= Counter(b)

HInv == NearlyCumulative /\ ScrapedBefore /\ ScrapeNearlyCumulative

LEMMA LoopsFinite ==
  /\ IsFiniteSet(Loop) /\ Cardinality(Loop) \in Nat
  /\ \A b : IsFiniteSet(Due(b)) /\ Cardinality(Due(b)) \in Nat
            /\ Cardinality(Due(b)) <= Cardinality(Loop)
<1>1. IsFiniteSet(Loop)
  BY ObservationAssumption, FS_Subset DEF Recorder
<1>2. \A b : Due(b) \in SUBSET Loop
  BY DEF Due
<1>3. QED BY <1>1, <1>2, FS_Subset, FS_CardinalityType

LEMMA CounterType ==
  ASSUME TypeOK, NEW b \in 1 .. Bucket + 1
  PROVE  Counter(b) \in Nat
BY ObservationAssumption DEF TypeOK, Counter

(* Steps that count nothing may make more loops due.                       *)
LEMMA HistogramStays ==
  ASSUME TypeOK, NearlyCumulative, UNCHANGED <<buckets, count>>,
         \A b \in 1 .. Bucket + 1 : Due(b) \subseteq Due(b)'
  PROVE  NearlyCumulative'
<1>1. SUFFICES ASSUME NEW b \in 1 .. Bucket
               PROVE  Counter(b) <= Counter(b + 1) + Cardinality(Due(b + 1)')
  BY DEF NearlyCumulative, Counter
<1>2. b + 1 \in 1 .. Bucket + 1 /\ b \in 1 .. Bucket + 1
  BY ObservationAssumption
<1>3. IsFiniteSet(Due(b + 1)') /\ Cardinality(Due(b + 1)') \in Nat
  <2>1. Due(b + 1)' \in SUBSET Loop
    BY DEF Due
  <2>2. QED BY <2>1, LoopsFinite, FS_Subset, FS_CardinalityType
<1>4. Cardinality(Due(b + 1)) \in Nat
      /\ Cardinality(Due(b + 1)) <= Cardinality(Due(b + 1)')
  <2>1. Due(b + 1) \in SUBSET Due(b + 1)'
    BY <1>2
  <2>2. QED BY <1>3, <2>1, LoopsFinite, FS_Subset
<1>5. Counter(b) \in Nat /\ Counter(b + 1) \in Nat
  BY <1>2, CounterType
<1>6. QED BY <1>3, <1>4, <1>5 DEF NearlyCumulative

(* A loop that increments the counter it is due at moves on to the next.   *)
LEMMA HistogramCounts ==
  ASSUME TypeOK, NearlyCumulative, NEW l \in Loop, LoopStep(l)
  PROVE  /\ NearlyCumulative'
         /\ \A b \in 1 .. Bucket + 1 : Counter(b) <= Counter(b)'
<1> DEFINE k == slot[l]
<1>1. /\ at[l] = "latency" /\ k \in 1 .. Bucket + 1 /\ Bucket \in Nat
      /\ l \in Recorder
  BY ObservationAssumption DEF LoopStep, CountBucket, CountAll, TypeOK, Recorder
<1>2. \A b \in 1 .. Bucket + 1 :
        Counter(b)' = IF b = k THEN Counter(b) + 1 ELSE Counter(b)
  BY <1>1 DEF LoopStep, CountBucket, CountAll, TypeOK, Counter
<1>3. \A b \in 1 .. Bucket + 1 :
        Due(b)' = IF b = k THEN Due(b) \ {l}
                  ELSE IF b = k + 1 THEN Due(b) \cup {l} ELSE Due(b)
  <2>1. CASE CountBucket(l)
    <3>1. /\ slot' = [slot EXCEPT ![l] = k + 1] /\ at' = at
      BY <2>1 DEF CountBucket
    <3>2. slot \in [Loop -> 1 .. Bucket + 1]
      BY DEF TypeOK
    <3> HIDE DEF k
    <3>3. k = slot[l]
      BY DEF k
    <3>4. QED BY <1>1, <3>1, <3>2, <3>3 DEF Due
  <2>2. CASE CountAll(l)
    <3>1. /\ slot' = slot /\ at' = [at EXCEPT ![l] = "idle"] /\ k = Bucket + 1
      BY <2>2 DEF CountAll
    <3>2. QED BY <1>1, <3>1 DEF Due, TypeOK
  <2>3. QED BY <2>1, <2>2 DEF LoopStep
<1>4. \A b \in 1 .. Bucket + 1 : Counter(b) \in Nat
  BY CounterType
<1>5. l \in Due(k) /\ l \notin Due(k + 1)
  BY <1>1 DEF Due
<1> HIDE DEF k
<1>6. ASSUME NEW b \in 1 .. Bucket
      PROVE  Counter(b)' <= Counter(b + 1)' + Cardinality(Due(b + 1)')
  <2>1. b + 1 \in 1 .. Bucket + 1 /\ b \in 1 .. Bucket + 1
    BY <1>1
  <2>2. Counter(b) <= Counter(b + 1) + Cardinality(Due(b + 1))
    BY DEF NearlyCumulative
  <2>3. IsFiniteSet(Due(b + 1)) /\ Cardinality(Due(b + 1)) \in Nat
    BY LoopsFinite
  <2>4. CASE b = k
    <3>1. Due(b + 1)' = Due(b + 1) \cup {l} /\ l \notin Due(b + 1)
      BY <1>1, <1>3, <1>5, <2>1, <2>4
    <3>2. Cardinality(Due(b + 1)') = Cardinality(Due(b + 1)) + 1
      BY <2>3, <3>1, FS_AddElement
    <3>3. Counter(b)' = Counter(b) + 1 /\ Counter(b + 1)' = Counter(b + 1)
      BY <1>1, <1>2, <2>1, <2>4
    <3>4. QED BY <1>4, <2>1, <2>2, <2>3, <3>2, <3>3
  <2>5. CASE b + 1 = k
    <3>1. Due(b + 1)' = Due(b + 1) \ {l} /\ l \in Due(b + 1)
      BY <1>3, <1>5, <2>1, <2>5
    <3>2. Cardinality(Due(b + 1)') = Cardinality(Due(b + 1)) - 1
      BY <2>3, <3>1, FS_RemoveElement
    <3>3. Counter(b)' = Counter(b) /\ Counter(b + 1)' = Counter(b + 1) + 1
      BY <1>1, <1>2, <2>1, <2>5
    <3>4. QED BY <1>4, <2>1, <2>2, <2>3, <3>2, <3>3
  <2>6. CASE b # k /\ b + 1 # k
    <3>1. Due(b + 1)' = Due(b + 1)
      BY <1>1, <1>3, <2>1, <2>6
    <3>2. QED BY <1>2, <2>1, <2>2, <2>6, <3>1
  <2>7. QED BY <2>4, <2>5, <2>6
<1>7. \A b \in 1 .. Bucket + 1 : Counter(b) <= Counter(b)'
  BY <1>2, <1>4
<1>8. QED BY <1>6, <1>7 DEF NearlyCumulative

(* A scrape stays below counters that only grow.                           *)
LEMMA ScrapeStays ==
  ASSUME TypeOK, TypeOK', ScrapedBefore, ScrapeNearlyCumulative,
         page'.scrape = page.scrape,
         reader' \in {"idle", "scrape"} => reader \in {"idle", "scrape"},
         \A b \in 1 .. Bucket + 1 : Counter(b) <= Counter(b)'
  PROVE  ScrapedBefore' /\ ScrapeNearlyCumulative'
<1>1. Bucket \in Nat /\ Len(page.scrape) \in Nat
  BY LenProperties, ObservationAssumption DEF ScrapedBefore
<1>2. ASSUME NEW b \in 1 .. Len(page.scrape)
      PROVE  page.scrape[b] <= Counter(b)'
  <2>1. b \in 1 .. Bucket + 1 /\ page.scrape[b] \in Nat
    BY <1>1, ElementOfSeq DEF ScrapedBefore
  <2>2. Counter(b) \in Nat /\ Counter(b)' \in Nat
    <3>1. Counter(b) \in Nat
      BY <2>1, CounterType
    <3>2. Counter(b)' \in Nat
      BY <2>1, ObservationAssumption DEF TypeOK, Counter
    <3>3. QED BY <3>1, <3>2
  <2>3. page.scrape[b] <= Counter(b) /\ Counter(b) <= Counter(b)'
    BY <2>1 DEF ScrapedBefore
  <2>4. QED BY <2>1, <2>2, <2>3
<1>3. QED BY <1>2 DEF ScrapedBefore, ScrapeNearlyCumulative

LEMMA ScrapeStep ==
  ASSUME IInv, HInv, Scrape
  PROVE  HInv'
<1> DEFINE b == Len(page.scrape) + 1
           old == page.scrape
<1>1. /\ reader \in {"idle", "scrape"}
      /\ page'.scrape = Append(old, Counter(b))
      /\ reader' = IF b <= Bucket THEN "scrape" ELSE "scraped"
      /\ UNCHANGED <<at, slot, buckets, count>>
  BY DEF Scrape, Counter, IInv, PageType, recorderVars
<1>2. /\ Bucket \in Nat /\ Len(old) \in Nat /\ old \in Seq(Nat)
      /\ b \in 1 .. Bucket + 1
  BY <1>1, LenProperties, ObservationAssumption DEF HInv, ScrapedBefore
<1>3. \A c \in 1 .. Bucket + 1 : Counter(c) \in Nat
  BY CounterType DEF IInv
<1>4. /\ page'.scrape \in Seq(Nat) /\ Len(page'.scrape) = b
      /\ \A i \in 1 .. Len(old) : page'.scrape[i] = old[i]
      /\ page'.scrape[b] = Counter(b)
  BY <1>1, <1>2, <1>3, AppendProperties
<1>5. \A i \in 1 .. Len(old) : old[i] \in Nat /\ old[i] <= Counter(i)
  BY <1>2, ElementOfSeq DEF HInv, ScrapedBefore
<1>6. NearlyCumulative'
  BY <1>1 DEF HInv, NearlyCumulative, Counter, Due
<1>7. ScrapedBefore'
  <2>1. ASSUME NEW i \in 1 .. b
        PROVE  page'.scrape[i] <= Counter(i)
    <3>1. CASE i = b
      <4>1. Counter(b) \in Nat /\ page'.scrape[b] = Counter(b)
        BY <1>2, <1>3, <1>4
      <4> HIDE DEF b
      <4>2. QED BY <3>1, <4>1
    <3>2. CASE i # b
      <4>1. i \in 1 .. Len(old)
        BY <1>2, <3>2
      <4>2. QED BY <1>4, <1>5, <4>1
    <3>3. QED BY <3>1, <3>2
  <2>2. \A i : Counter(i)' = Counter(i)
    BY <1>1 DEF Counter
  <2> HIDE DEF b, old
  <2>3. QED BY <1>1, <1>2, <1>4, <2>1, <2>2 DEF ScrapedBefore
<1>8. ASSUME NEW i \in 1 .. b - 1
      PROVE  page'.scrape[i] <= page'.scrape[i + 1] + Cardinality(Loop)
  <2>1. Cardinality(Loop) \in Nat
    BY LoopsFinite
  <2>2. CASE i + 1 = b
    <3>1. i \in 1 .. Bucket /\ i \in 1 .. Len(old) /\ i \in 1 .. Bucket + 1
      BY <1>2, <2>2
    <3>2. Counter(i) <= Counter(b) + Cardinality(Due(b))
      BY <2>2, <3>1 DEF HInv, NearlyCumulative
    <3>3. page'.scrape[i] = old[i] /\ old[i] \in Nat /\ old[i] <= Counter(i)
      BY <1>4, <1>5, <3>1
    <3>4. Cardinality(Due(b)) \in Nat /\ Cardinality(Due(b)) <= Cardinality(Loop)
      BY LoopsFinite
    <3>5. Counter(i) \in Nat /\ Counter(b) \in Nat
      BY <1>2, <1>3, <3>1
    <3>6. page'.scrape[i + 1] = Counter(b)
      BY <1>4, <2>2
    <3> HIDE DEF b, old
    <3>7. QED BY <2>1, <3>2, <3>3, <3>4, <3>5, <3>6
  <2>3. CASE i + 1 # b
    <3>1. i \in 1 .. Len(old) - 1 /\ i \in 1 .. Len(old) /\ i + 1 \in 1 .. Len(old)
      BY <1>2, <2>3
    <3>2. QED BY <1>4, <3>1 DEF HInv, ScrapeNearlyCumulative
  <2>4. QED BY <2>2, <2>3
<1>9. ScrapeNearlyCumulative'
  BY <1>4, <1>8 DEF ScrapeNearlyCumulative
<1>10. QED BY <1>6, <1>7, <1>9 DEF HInv

LEMMA HInvStep == IInv /\ HInv /\ IInv' /\ [Next]_vars => HInv'
<1> SUFFICES ASSUME IInv, HInv, IInv', [Next]_vars PROVE HInv'
  OBVIOUS
<1> USE DEF HInv
<1>1. TypeOK /\ TypeOK'
  BY DEF IInv
<1>2. ASSUME UNCHANGED <<buckets, count, reader, page>>,
             \A b \in 1 .. Bucket + 1 : Due(b) \subseteq Due(b)'
      PROVE  HInv'
  <2>1. NearlyCumulative'
    BY <1>1, <1>2, HistogramStays
  <2>2. \A b \in 1 .. Bucket + 1 : Counter(b) <= Counter(b)'
    BY <1>1, <1>2, CounterType DEF Counter
  <2>3. QED BY <1>1, <1>2, <2>1, <2>2, ScrapeStays
<1>3. CASE UNCHANGED vars
  BY <1>2, <1>3 DEF vars, Due
<1>4. ASSUME NEW r \in Recorder, Take(r) \/ RecordEvidence(r) PROVE HInv'
  <2>1. /\ at[r] # "latency" /\ at' = [at EXCEPT ![r] = at'[r]]
        /\ UNCHANGED <<slot, buckets, count, reader, page>>
    BY <1>1, <1>4 DEF Take, RecordEvidence, readerVars, TypeOK
  <2>2. \A b \in 1 .. Bucket + 1 : Due(b) \subseteq Due(b)'
    BY <1>1, <2>1 DEF Due, TypeOK, Recorder
  <2>3. QED BY <1>2, <2>1, <2>2
<1>5. ASSUME NEW r \in Recorder, RecordSample(r) PROVE HInv'
  <2>1. /\ at[r] = "history" /\ UNCHANGED <<buckets, count, reader, page>>
        /\ at' = [at EXCEPT ![r] = at'[r]]
        /\ slot' = [slot EXCEPT ![r] = slot'[r]]
    BY <1>1, <1>5 DEF RecordSample, readerVars, TypeOK
  <2>2. \A b \in 1 .. Bucket + 1 : Due(b) \subseteq Due(b)'
    BY <1>1, <2>1 DEF Due, TypeOK, Recorder
  <2>3. QED BY <1>2, <2>1, <2>2
<1>6. ASSUME NEW l \in Loop, LoopStep(l) PROVE HInv'
  <2>1. UNCHANGED <<reader, page>>
    BY <1>6 DEF LoopStep, CountBucket, CountAll, readerVars
  <2>2. NearlyCumulative' /\ \A b \in 1 .. Bucket + 1 : Counter(b) <= Counter(b)'
    BY <1>1, <1>6, HistogramCounts
  <2>3. QED BY <1>1, <2>1, <2>2, ScrapeStays
<1>7. CASE ReadSamples \/ ReadFlips \/ ReadEvidence
  <2>1. /\ reader' \notin {"idle", "scrape"}
        /\ page'.scrape = page.scrape
        /\ UNCHANGED <<at, slot, buckets, count>>
    BY <1>7 DEF ReadSamples, ReadFlips, ReadEvidence, IInv, PageType, recorderVars
  <2>2. NearlyCumulative'
    BY <2>1 DEF NearlyCumulative, Counter, Due
  <2>3. \A b \in 1 .. Bucket + 1 : Counter(b) <= Counter(b)'
    BY <1>1, <2>1, CounterType DEF Counter
  <2>4. QED BY <1>1, <2>1, <2>2, <2>3, ScrapeStays
<1>8. CASE Scrape
  BY <1>8, ScrapeStep
<1>9. CASE Respond
  <2>1. /\ page'.scrape = <<>>
        /\ UNCHANGED <<at, slot, buckets, count>>
    BY <1>9 DEF Respond, EmptyPage, recorderVars
  <2>2. NearlyCumulative'
    BY <2>1 DEF NearlyCumulative, Counter, Due
  <2>3. QED
    BY <2>1, <2>2, EmptySeq, ObservationAssumption
    DEF ScrapedBefore, ScrapeNearlyCumulative
<1>10. QED
  BY <1>3, <1>4, <1>5, <1>6, <1>7, <1>8, <1>9 DEF Next, RecorderStep, ReaderStep

(***************************************************************************)
(* For any loops and any number of buckets, no bucket of a scrape is       *)
(* ahead of the next by more than the number of loops (metrics.go, observe *)
(* and renderNamed).                                                       *)
(***************************************************************************)
THEOREM ScrapesNearlyCumulative == Spec => []ScrapeNearlyCumulative
<1>1. Init => HInv
  <2>1. SUFFICES ASSUME Init PROVE HInv
    OBVIOUS
  <2>2. page.scrape = <<>> /\ Bucket \in Nat
    BY <2>1, ObservationAssumption DEF Init, EmptyPage
  <2>3. ASSUME NEW b \in 1 .. Bucket
        PROVE  Counter(b) <= Counter(b + 1) + Cardinality(Due(b + 1))
    <3>1. Counter(b) = 0 /\ Counter(b + 1) = 0
      BY <2>1, <2>2 DEF Init, Counter
    <3>2. QED BY <3>1, LoopsFinite
  <2>4. QED
    BY <2>2, <2>3, EmptySeq
    DEF HInv, NearlyCumulative, ScrapedBefore, ScrapeNearlyCumulative
<1>2. QED
  BY <1>1, InitIInv, InductiveStep, HInvStep, PTL DEF Spec, HInv
=============================================================================
