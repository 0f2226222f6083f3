------------------------- MODULE StallMonitorProofs --------------------------
(***************************************************************************)
(* The stall detection reports every drive that stands still and no drive  *)
(* that moves, for every threshold, timeout and cycle time.                *)
(***************************************************************************)
EXTENDS StallMonitor, TLAPS

LEMMA DistanceNat == \A a, b \in Int : Distance(a, b) \in Nat
BY DEF Distance

LEMMA MaxAgeNat == MaxAge \in Nat /\ MaxAge >= Timeout
BY StallAssumption DEF MaxAge

LEMMA AtMostNat ==
  \A bound, n \in Nat : AtMost(bound, n) \in 0 .. bound /\ AtMost(bound, n) <= n
BY DEF AtMost

LEMMA SampleIsTyped ==
  ASSUME NEW d \in Drives, target' \in [Drives -> Positions], actual' \in [Drives -> Positions]
  PROVE  SampleOf(d) \in Sample
BY MaxAgeNat DEF SampleOf, Sample, Errors

-----------------------------------------------------------------------------
(* Type correctness.                                                       *)

LEMMA TypeInit == Init => TypeOK
BY MaxAgeNat, StallAssumption DEF Init, TypeOK, Sample, Errors, Distance

LEMMA TypeStep == TypeOK /\ [Next]_vars => TypeOK'
<1> SUFFICES ASSUME TypeOK, [Next]_vars PROVE TypeOK'
  OBVIOUS
<1> USE StallAssumption, MaxAgeNat
<1>1. CASE Reset
  <2>1. \A d \in Drives : recent'[d] \subseteq Sample
    BY <1>1, SampleIsTyped DEF Reset
  <2>2. \A d \in Drives : Distance(target'[d], actual'[d]) \in Errors
    BY <1>1 DEF Reset, Errors
  <2>3. QED
    BY <1>1, <2>1, <2>2 DEF Reset, TypeOK
<1>2. ASSUME NEW d \in Drives, SetTarget(d) PROVE TypeOK'
  BY <1>2 DEF SetTarget, TypeOK, monitorVars
<1>3. ASSUME NEW delta \in 1 .. MaxGap, Cycle(delta) PROVE TypeOK'
  <2>0. /\ target' = target /\ target \in [Drives -> Positions]
        /\ actual' \in [Drives -> Positions]
    BY <1>3 DEF Cycle, TypeOK
  <2>1. \A d \in Drives : recent'[d] \subseteq Sample
    <3> SUFFICES ASSUME NEW d \in Drives, NEW q \in recent'[d] PROVE q \in Sample
      OBVIOUS
    <3>1. SampleOf(d) \in Sample
      BY <2>0, SampleIsTyped
    <3>2. \/ q = SampleOf(d)
          \/ \E r \in recent[d] : r.ago + delta <= MaxAge /\ q = [r EXCEPT !.ago = @ + delta]
      BY <1>3 DEF Cycle
    <3>3. ASSUME NEW r \in recent[d], r.ago + delta <= MaxAge, q = [r EXCEPT !.ago = @ + delta]
          PROVE  q \in Sample
      <4>1. r \in Sample
        BY DEF TypeOK
      <4>2. QED
        BY <3>3, <4>1 DEF Sample
    <3>4. QED
      BY <3>1, <3>2, <3>3
  <2>2. age' \in [Drives -> 0 .. MaxAge]
    <3>1. \A d \in Drives : AtMost(MaxAge, age[d] + delta) \in 0 .. MaxAge
      <4>1. \A d \in Drives : age[d] + delta \in Nat
        BY DEF TypeOK
      <4>2. QED
        BY <4>1, AtMostNat
    <3>2. QED
      BY <1>3, <3>1 DEF Cycle
  <2>3. still' \in [Drives -> 0 .. Timeout]
    <3>1. \A d \in Drives : AtMost(Timeout, still[d] + delta) \in 0 .. Timeout
      <4>1. \A d \in Drives : still[d] + delta \in Nat
        BY DEF TypeOK
      <4>2. QED
        BY <4>1, AtMostNat
    <3>2. QED
      BY <1>3, <3>1 DEF Cycle
  <2>4. /\ anchor_actual' \in [Drives -> Positions]
        /\ anchor_error' \in [Drives -> Errors]
    <3>1. \A d \in Drives : Distance(target[d], actual'[d]) \in Errors
      BY <2>0 DEF Errors
    <3>2. QED
      BY <1>3, <2>0, <3>1 DEF Cycle, TypeOK
  <2>5. reported' \subseteq Drives /\ emitted' \subseteq Drives
    BY <1>3 DEF Cycle, TypeOK, Rearmed, Stalled
  <2>6. QED
    BY <2>0, <2>1, <2>2, <2>3, <2>4, <2>5 DEF TypeOK
<1>4. CASE UNCHANGED vars
  BY <1>4 DEF vars, monitorVars, historyVars, TypeOK
<1>5. QED
  BY <1>1, <1>2, <1>3, <1>4 DEF Next

\* Every variable of the monitor keeps its type.
THEOREM StallTypeCorrect == Spec => []TypeOK
BY TypeInit, TypeStep, PTL DEF Spec

-----------------------------------------------------------------------------
(* No stall is missed.                                                     *)

\* The sample of the last cycle, which sits within both progress thresholds of the
\* anchor, as MadeProgress would otherwise have moved the anchor there.
LastNearAnchor ==
  \A d \in Drives : \A r \in recent[d] : r.ago = 0 =>
    /\ r.actual = actual[d]
    /\ Distance(r.actual, anchor_actual[d]) < ProgressCounts
    /\ anchor_error[d] - r.error < ProgressCounts

\* A still drive leaves its anchor to age.
AnchorOlderThanStill == \A d \in Drives : still[d] <= age[d]

StillInv == TypeOK /\ LastNearAnchor /\ AnchorOlderThanStill /\ StillIsReported

LEMMA SelfDistance == \A a \in Int : Distance(a, a) = 0
BY DEF Distance

LEMMA StillInit == Init => StillInv
BY TypeInit, SelfDistance, StallAssumption
   DEF Init, StillInv, LastNearAnchor, AnchorOlderThanStill, StillIsReported

LEMMA StillStep == StillInv /\ [Next]_vars => StillInv'
<1> SUFFICES ASSUME StillInv, [Next]_vars
             PROVE  (LastNearAnchor /\ AnchorOlderThanStill /\ StillIsReported)'
  BY TypeStep DEF StillInv
<1> USE StallAssumption, MaxAgeNat
<1>0. TypeOK /\ TypeOK'
  BY TypeStep DEF StillInv
<1>1. CASE Reset
  <2>1. ASSUME NEW d \in Drives, NEW r \in recent'[d]
        PROVE  /\ r.actual = actual'[d]
               /\ Distance(r.actual, anchor_actual'[d]) < ProgressCounts
               /\ anchor_error'[d] - r.error < ProgressCounts
    <3>1. r = SampleOf(d) /\ anchor_actual'[d] = actual'[d]
          /\ anchor_error'[d] = Distance(target'[d], actual'[d])
      BY <1>1, <2>1 DEF Reset
    <3>2. actual'[d] \in Int /\ target'[d] \in Int
      BY <1>0 DEF TypeOK
    <3>3. Distance(actual'[d], actual'[d]) = 0 /\ Distance(target'[d], actual'[d]) \in Nat
      BY <3>2, SelfDistance, DistanceNat
    <3>4. QED
      BY <3>1, <3>2, <3>3 DEF SampleOf
  <2>2. AnchorOlderThanStill' /\ StillIsReported'
    BY <1>1 DEF Reset, AnchorOlderThanStill, StillIsReported
  <2>3. QED
    BY <2>1, <2>2 DEF LastNearAnchor
<1>2. ASSUME NEW e \in Drives, SetTarget(e)
      PROVE  (LastNearAnchor /\ AnchorOlderThanStill /\ StillIsReported)'
  <2>1. LastNearAnchor'
    BY <1>2 DEF SetTarget, monitorVars, LastNearAnchor, StillInv
  <2>2. AnchorOlderThanStill' /\ StillIsReported'
    BY <1>0, <1>2 DEF SetTarget, monitorVars, AnchorOlderThanStill, StillIsReported,
       StillInv, TypeOK
  <2>3. QED
    BY <2>1, <2>2
<1>3. ASSUME NEW delta \in 1 .. MaxGap, Cycle(delta)
      PROVE  (LastNearAnchor /\ AnchorOlderThanStill /\ StillIsReported)'
  <2>0. ASSUME NEW d \in Drives
        PROVE  /\ target'[d] = target[d]
               /\ target[d] \in Int /\ actual[d] \in Int /\ actual'[d] \in Int
               /\ anchor_actual[d] \in Int /\ anchor_error[d] \in Int
               /\ age[d] \in Nat /\ still[d] \in 0 .. Timeout
               /\ Distance(target[d], actual'[d]) \in Nat
    <3>1. Errors \subseteq Int
      BY DistanceNat DEF Errors
    <3>2. QED
      BY <1>0, <1>3, <3>1, DistanceNat DEF TypeOK, Cycle
  <2>1. LastNearAnchor'
    <3> SUFFICES ASSUME NEW d \in Drives, NEW q \in recent'[d], q.ago = 0
                 PROVE  /\ q.actual = actual'[d]
                        /\ Distance(q.actual, anchor_actual'[d]) < ProgressCounts
                        /\ anchor_error'[d] - q.error < ProgressCounts
      BY DEF LastNearAnchor
    <3>1. q = SampleOf(d)
      <4>1. ASSUME NEW r \in recent[d], q = [r EXCEPT !.ago = @ + delta] PROVE FALSE
        <5>1. r \in Sample
          BY <1>0 DEF TypeOK
        <5>2. q.ago = r.ago + delta
          BY <4>1, <5>1 DEF Sample
        <5>3. QED
          BY <5>1, <5>2 DEF Sample
      <4>2. QED
        BY <1>3, <4>1 DEF Cycle
    <3>2. q.actual = actual'[d] /\ q.error = Distance(target[d], actual'[d])
      BY <2>0, <3>1 DEF SampleOf
    <3>3. CASE Settled(d) \/ MadeProgress(d)
      <4>1. anchor_actual'[d] = actual'[d] /\ anchor_error'[d] = q.error
        BY <1>3, <3>2, <3>3 DEF Cycle
      <4>2. QED
        BY <2>0, <3>2, <4>1, SelfDistance
    <3>4. CASE ~(Settled(d) \/ MadeProgress(d))
      <4>1. anchor_actual'[d] = anchor_actual[d] /\ anchor_error'[d] = anchor_error[d]
        BY <1>3, <3>4 DEF Cycle
      <4>2. Distance(actual'[d], anchor_actual[d]) \in Nat
        BY <2>0, DistanceNat
      <4>3. QED
        BY <2>0, <3>2, <3>4, <4>1, <4>2 DEF MadeProgress
    <3>5. QED
      BY <3>3, <3>4
  <2>2. ASSUME NEW d \in Drives
        PROVE  still'[d] <= age'[d] /\ (still'[d] >= Timeout => d \in reported')
    <3>1. CASE still'[d] = 0
      <4>1. age'[d] \in Nat
        BY <1>0 DEF TypeOK, MaxAge
      <4>2. QED
        BY <3>1, <4>1
    <3>2. CASE still'[d] # 0
      <4>1. /\ actual'[d] = actual[d] /\ ~Settled(d)
            /\ \E s \in recent[d] : s.ago = 0 /\ s.error = Distance(target[d], actual[d])
            /\ still'[d] = AtMost(Timeout, still[d] + delta)
        BY <1>3, <3>2 DEF Cycle
      <4>2. ~MadeProgress(d)
        <5>1. PICK s \in recent[d] : s.ago = 0 /\ s.error = Distance(target[d], actual[d])
          BY <4>1
        <5>2. /\ s.actual = actual[d]
              /\ Distance(s.actual, anchor_actual[d]) < ProgressCounts
              /\ anchor_error[d] - s.error < ProgressCounts
          BY <5>1 DEF LastNearAnchor, StillInv
        <5>3. /\ Distance(actual'[d], anchor_actual[d]) < ProgressCounts
              /\ anchor_error[d] - Distance(target[d], actual'[d]) < ProgressCounts
          BY <4>1, <5>1, <5>2
        <5>4. Distance(actual'[d], anchor_actual[d]) \in Nat
          BY <2>0, DistanceNat
        <5>5. QED
          BY <2>0, <5>3, <5>4 DEF MadeProgress
      <4>3. age'[d] = AtMost(MaxAge, age[d] + delta)
        BY <1>3, <4>1, <4>2 DEF Cycle
      <4>4. still[d] <= age[d]
        BY DEF StillInv, AnchorOlderThanStill
      <4>5. still'[d] <= age'[d]
        BY <2>0, <4>1, <4>3, <4>4 DEF AtMost
      <4>6. ASSUME still'[d] >= Timeout PROVE d \in reported'
        <5>1. still[d] + delta >= Timeout
          BY <2>0, <4>1, <4>6 DEF AtMost
        <5>2. TimedOut(d, delta)
          BY <2>0, <4>4, <5>1 DEF TimedOut
        <5>3. QED
          BY <1>3, <4>1, <4>2, <5>2 DEF Cycle, Rearmed, Stalled
      <4>7. QED
        BY <4>5, <4>6
    <3>3. QED
      BY <3>1, <3>2
  <2>3. QED
    BY <2>1, <2>2 DEF AnchorOlderThanStill, StillIsReported
<1>4. CASE UNCHANGED vars
  BY <1>4 DEF vars, monitorVars, historyVars, StillInv, LastNearAnchor, AnchorOlderThanStill,
     StillIsReported
<1>5. QED
  BY <1>1, <1>2, <1>3, <1>4 DEF Next

\* A drive that has stood still for a timeout with a large error to one target is
\* reported, whatever the client and the drive did before.
THEOREM StillDrivesAreReported == Spec => []StillIsReported
<1>1. StillInv => StillIsReported
  BY DEF StillInv
<1>2. QED
  BY <1>1, StillInit, StillStep, PTL DEF Spec

-----------------------------------------------------------------------------
(* No report is false.                                                     *)

\* Since its anchor a drive has stayed within the progress threshold of it, and after
\* the anchor its error has been large.
CalmSinceAnchor ==
  \A d \in Drives : \A r \in recent[d] :
    /\ r.ago <= age[d] => Distance(r.actual, anchor_actual[d]) < ProgressCounts
    /\ r.ago < age[d] => r.error >= ErrorCounts

\* Back to the anchor there is a sample in every MaxGap ticks.
SampledSinceAnchor ==
  \A d \in Drives : \A n \in 0 .. MaxAge :
    n <= age[d] => \E r \in recent[d] : r.ago <= n /\ n < r.ago + MaxGap

\* The anchor itself is a sample.
AnchorIsSample ==
  \A d \in Drives : age[d] < MaxAge => \E r \in recent[d] : r.ago = age[d]

ReportInv == TypeOK /\ CalmSinceAnchor /\ SampledSinceAnchor /\ AnchorIsSample

\* A drive that has just been anchored satisfies all three.
LEMMA FreshAnchor ==
  ASSUME NEW d \in Drives, TypeOK',
         SampleOf(d) \in recent'[d],
         \A r \in recent'[d] : r.ago = 0 => r = SampleOf(d),
         age'[d] = 0, anchor_actual'[d] = actual'[d]
  PROVE  /\ \A r \in recent'[d] :
              /\ r.ago <= age'[d] => Distance(r.actual, anchor_actual'[d]) < ProgressCounts
              /\ r.ago < age'[d] => r.error >= ErrorCounts
         /\ \A n \in 0 .. MaxAge :
              n <= age'[d] => \E r \in recent'[d] : r.ago <= n /\ n < r.ago + MaxGap
         /\ age'[d] < MaxAge => \E r \in recent'[d] : r.ago = age'[d]
<1> USE StallAssumption, MaxAgeNat
<1>1. SampleOf(d).ago = 0 /\ SampleOf(d).actual = actual'[d]
  BY DEF SampleOf
<1>2. Distance(actual'[d], actual'[d]) = 0
  BY SelfDistance DEF TypeOK
<1>3. \A r \in recent'[d] : r.ago \in Nat
  BY DEF TypeOK, Sample, MaxAge
<1>4. ASSUME NEW r \in recent'[d]
      PROVE  /\ r.ago <= age'[d] => Distance(r.actual, anchor_actual'[d]) < ProgressCounts
             /\ r.ago < age'[d] => r.error >= ErrorCounts
  BY <1>1, <1>2, <1>3
<1>5. QED
  BY <1>1, <1>4

LEMMA ReportInit == Init => ReportInv
<1> SUFFICES ASSUME Init PROVE CalmSinceAnchor /\ SampledSinceAnchor /\ AnchorIsSample
  BY TypeInit DEF ReportInv
<1> USE StallAssumption, MaxAgeNat
<1>1. ASSUME NEW d \in Drives
      PROVE  /\ recent[d] = {[ago |-> 0, actual |-> 0, error |-> 0]}
             /\ age[d] = 0 /\ anchor_actual[d] = 0
  BY DEF Init
<1>2. ASSUME NEW d \in Drives
      PROVE  \E s \in recent[d] :
               s.ago = 0 /\ s.actual = anchor_actual[d] /\ recent[d] = {s}
  BY <1>1
<1>3. CalmSinceAnchor
  BY <1>1, SelfDistance DEF CalmSinceAnchor
<1>4. SampledSinceAnchor /\ AnchorIsSample
  BY <1>1, <1>2 DEF SampledSinceAnchor, AnchorIsSample
<1>5. QED
  BY <1>3, <1>4

LEMMA ReportStep == ReportInv /\ [Next]_vars => ReportInv'
<1> SUFFICES ASSUME ReportInv, [Next]_vars
             PROVE  (CalmSinceAnchor /\ SampledSinceAnchor /\ AnchorIsSample)'
  BY TypeStep DEF ReportInv
<1> USE StallAssumption, MaxAgeNat
<1>0. TypeOK /\ TypeOK'
  BY TypeStep DEF ReportInv
<1>m. MaxAge' = MaxAge
  BY DEF MaxAge
<1>1. CASE Reset
  <2>1. ASSUME NEW d \in Drives
        PROVE  /\ recent'[d] = {SampleOf(d)} /\ age'[d] = 0
               /\ anchor_actual'[d] = actual'[d]
    BY <1>1 DEF Reset
  <2>2. QED
    BY <1>0, <1>m, <2>1, FreshAnchor
       DEF CalmSinceAnchor, SampledSinceAnchor, AnchorIsSample
<1>2. ASSUME NEW e \in Drives, SetTarget(e)
      PROVE  (CalmSinceAnchor /\ SampledSinceAnchor /\ AnchorIsSample)'
  BY <1>2, <1>m DEF SetTarget, monitorVars, ReportInv, CalmSinceAnchor, SampledSinceAnchor,
     AnchorIsSample
<1>3. ASSUME NEW delta \in 1 .. MaxGap, Cycle(delta)
      PROVE  (CalmSinceAnchor /\ SampledSinceAnchor /\ AnchorIsSample)'
  <2> DEFINE Calm(d) == \A r \in recent'[d] :
               /\ r.ago <= age'[d] => Distance(r.actual, anchor_actual'[d]) < ProgressCounts
               /\ r.ago < age'[d] => r.error >= ErrorCounts
             Sampled(d) == \A n \in 0 .. MaxAge :
               n <= age'[d] => \E r \in recent'[d] : r.ago <= n /\ n < r.ago + MaxGap
             Anchored(d) == age'[d] < MaxAge => \E r \in recent'[d] : r.ago = age'[d]
             Older(r) == [r EXCEPT !.ago = @ + delta]
  <2> SUFFICES ASSUME NEW d \in Drives PROVE Calm(d) /\ Sampled(d) /\ Anchored(d)
    BY <1>m DEF CalmSinceAnchor, SampledSinceAnchor, AnchorIsSample
  <2>1. /\ SampleOf(d) \in recent'[d]
        /\ SampleOf(d).ago = 0 /\ SampleOf(d).actual = actual'[d]
        /\ SampleOf(d).error = Distance(target[d], actual'[d])
    BY <1>3 DEF Cycle, SampleOf
  <2>2. \A r \in recent[d] :
          /\ r.ago \in 0 .. MaxAge
          /\ Older(r).ago = r.ago + delta
          /\ Older(r).actual = r.actual /\ Older(r).error = r.error
          /\ r.ago + delta <= MaxAge => Older(r) \in recent'[d]
    <3> SUFFICES ASSUME NEW r \in recent[d]
                 PROVE  /\ r.ago \in 0 .. MaxAge
                        /\ Older(r).ago = r.ago + delta
                        /\ Older(r).actual = r.actual /\ Older(r).error = r.error
                        /\ r.ago + delta <= MaxAge => Older(r) \in recent'[d]
      OBVIOUS
    <3>1. r \in Sample
      BY <1>0 DEF TypeOK
    <3>2. QED
      BY <1>3, <3>1 DEF Cycle, Sample
  <2>3. \A q \in recent'[d] : q = SampleOf(d) \/ \E r \in recent[d] : q = Older(r)
    BY <1>3 DEF Cycle
  <2> HIDE DEF Older
  <2>4. CASE Settled(d) \/ MadeProgress(d)
    <3>1. age'[d] = 0 /\ anchor_actual'[d] = actual'[d]
      BY <1>3, <2>4 DEF Cycle
    <3>2. \A q \in recent'[d] : q.ago = 0 => q = SampleOf(d)
      BY <2>2, <2>3
    <3>3. QED
      BY <1>0, <2>1, <3>1, <3>2, FreshAnchor
  <2>5. CASE ~(Settled(d) \/ MadeProgress(d))
    <3>0. age[d] \in 0 .. MaxAge
      BY <1>0 DEF TypeOK
    <3>1. age'[d] = AtMost(MaxAge, age[d] + delta) /\ anchor_actual'[d] = anchor_actual[d]
      BY <1>3, <2>5 DEF Cycle
    <3>2. age'[d] \in 0 .. MaxAge /\ age'[d] <= age[d] + delta
      <4>1. age[d] + delta \in Nat
        BY <3>0
      <4>2. QED
        BY <3>1, <4>1, AtMostNat
    <3>3. Calm(d)
      <4>1. /\ Distance(actual'[d], anchor_actual[d]) < ProgressCounts
            /\ Distance(target[d], actual'[d]) >= ErrorCounts
        <5>1. /\ Distance(actual'[d], anchor_actual[d]) \in Nat
              /\ Distance(target[d], actual'[d]) \in Nat
          <6>1. actual'[d] \in Int /\ anchor_actual[d] \in Int /\ target[d] \in Int
            BY <1>0 DEF TypeOK
          <6>2. QED
            BY <6>1, DistanceNat
        <5>2. QED
          BY <2>5, <5>1 DEF Settled, MadeProgress
      <4>2. ASSUME NEW r \in recent[d], NEW q \in recent'[d],
                   q = Older(r)
            PROVE  /\ q.ago <= age'[d] =>
                        Distance(q.actual, anchor_actual'[d]) < ProgressCounts
                   /\ q.ago < age'[d] => q.error >= ErrorCounts
        <5>1. q.ago = r.ago + delta /\ q.actual = r.actual /\ q.error = r.error
              /\ r.ago \in 0 .. MaxAge
          BY <2>2, <4>2
        <5>2. /\ q.ago <= age'[d] => r.ago <= age[d]
              /\ q.ago < age'[d] => r.ago < age[d]
          BY <3>0, <3>2, <5>1
        <5>3. QED
          BY <3>1, <5>1, <5>2 DEF ReportInv, CalmSinceAnchor
      <4>3. QED
        BY <2>1, <2>3, <3>1, <4>1, <4>2
    <3>4. Sampled(d)
      <4> SUFFICES ASSUME NEW n \in 0 .. MaxAge, n <= age'[d]
                   PROVE  \E q \in recent'[d] : q.ago <= n /\ n < q.ago + MaxGap
        OBVIOUS
      <4>1. CASE n < delta
        BY <2>1, <4>1
      <4>2. CASE n >= delta
        <5>1. n - delta \in 0 .. MaxAge /\ n - delta <= age[d]
          BY <3>0, <3>2, <4>2
        <5>2. PICK r \in recent[d] : r.ago <= n - delta /\ n - delta < r.ago + MaxGap
          BY <5>1 DEF ReportInv, SampledSinceAnchor
        <5>3. r.ago \in 0 .. MaxAge /\ r.ago + delta <= MaxAge
          BY <2>2, <5>2
        <5>4. Older(r) \in recent'[d]
          BY <2>2, <5>3
        <5>5. QED
          BY <2>2, <5>2, <5>3, <5>4
      <4>3. QED
        BY <4>1, <4>2
    <3>5. Anchored(d)
      <4> SUFFICES ASSUME age'[d] < MaxAge PROVE \E q \in recent'[d] : q.ago = age'[d]
        OBVIOUS
      <4>1. age'[d] = age[d] + delta /\ age[d] < MaxAge
        BY <3>0, <3>1 DEF AtMost
      <4>2. PICK r \in recent[d] : r.ago = age[d]
        BY <4>1 DEF ReportInv, AnchorIsSample
      <4>3. Older(r) \in recent'[d]
        BY <2>2, <4>1, <4>2
      <4>4. QED
        BY <2>2, <4>1, <4>2, <4>3
    <3>6. QED
      BY <3>3, <3>4, <3>5
  <2>6. QED
    BY <2>4, <2>5
<1>4. CASE UNCHANGED vars
  BY <1>4, <1>m DEF vars, monitorVars, historyVars, ReportInv, CalmSinceAnchor,
     SampledSinceAnchor, AnchorIsSample
<1>5. QED
  BY <1>1, <1>2, <1>3, <1>4 DEF Next

\* A report is only made by a cycle, of a drive whose anchor is a timeout old.
LEMMA ReportedAnchorIsOld ==
  ASSUME TypeOK, [Next]_vars, NEW d \in reported' \ reported
  PROVE  d \in Drives /\ age'[d] >= Timeout
<1> USE StallAssumption, MaxAgeNat
<1>1. PICK delta \in 1 .. MaxGap : Cycle(delta)
  BY DEF Next, Reset, SetTarget, vars, monitorVars
<1>2. d \in Stalled(delta)
  BY <1>1 DEF Cycle, Rearmed
<1>3. d \in Drives /\ ~Settled(d) /\ ~MadeProgress(d) /\ age[d] + delta >= Timeout
  BY <1>2 DEF Stalled, TimedOut
<1>4. age'[d] = AtMost(MaxAge, age[d] + delta)
  BY <1>1, <1>3 DEF Cycle
<1>5. age[d] \in Nat
  BY <1>3 DEF TypeOK
<1>6. QED
  BY <1>3, <1>4, <1>5 DEF AtMost

\* A drive that moves, or whose error is small, within a timeout is not reported,
\* however the cycles are spaced.
THEOREM NoFalseReport == Spec => ReportsAreStalls
<1>1. ASSUME ReportInv, [Next]_vars
      PROVE  [\A d \in reported' \ reported :
                /\ \E r \in recent'[d] : r.ago >= Timeout
                /\ \A r \in recent'[d] : r.ago < Timeout => r.error >= ErrorCounts
                /\ \E c \in Positions : \A r \in recent'[d] :
                     r.ago <= Timeout => Distance(r.actual, c) < ProgressCounts]_vars
  <2> USE StallAssumption, MaxAgeNat
  <2> SUFFICES ASSUME NEW d \in reported' \ reported
               PROVE  /\ \E r \in recent'[d] : r.ago >= Timeout
                      /\ \A r \in recent'[d] : r.ago < Timeout => r.error >= ErrorCounts
                      /\ \E c \in Positions : \A r \in recent'[d] :
                           r.ago <= Timeout => Distance(r.actual, c) < ProgressCounts
    OBVIOUS
  <2>0. TypeOK' /\ ReportInv'
    BY <1>1, ReportStep DEF ReportInv
  <2>1. d \in Drives /\ age'[d] >= Timeout
    BY <1>1, ReportedAnchorIsOld DEF ReportInv
  <2>2. age'[d] \in 0 .. MaxAge /\ anchor_actual'[d] \in Positions
    BY <2>0, <2>1 DEF TypeOK, MaxAge
  <2>3. \A r \in recent'[d] : r.ago \in Nat
    BY <2>0, <2>1 DEF TypeOK, Sample, MaxAge
  <2>4. \E r \in recent'[d] : r.ago >= Timeout
    <3>1. CASE age'[d] < MaxAge
      BY <2>0, <2>1, <2>2, <3>1 DEF ReportInv, AnchorIsSample, MaxAge
    <3>2. CASE age'[d] = MaxAge
      <4>1. \E r \in recent'[d] : MaxAge < r.ago + MaxGap
        BY <2>0, <2>1, <2>2, <3>2 DEF ReportInv, SampledSinceAnchor, MaxAge
      <4>2. QED
        BY <2>3, <4>1 DEF MaxAge
    <3>3. QED
      BY <2>2, <3>1, <3>2
  <2>5. \A r \in recent'[d] :
          /\ r.ago < Timeout => r.error >= ErrorCounts
          /\ r.ago <= Timeout => Distance(r.actual, anchor_actual'[d]) < ProgressCounts
    <3>1. \A r \in recent'[d] :
            /\ r.ago < Timeout => r.ago < age'[d]
            /\ r.ago <= Timeout => r.ago <= age'[d]
      BY <2>1, <2>2, <2>3
    <3>2. QED
      BY <2>0, <2>1, <3>1 DEF ReportInv, CalmSinceAnchor
  <2>6. QED
    BY <2>2, <2>4, <2>5
<1>2. QED
  BY <1>1, ReportInit, ReportStep, PTL DEF Spec, ReportsAreStalls

=============================================================================
