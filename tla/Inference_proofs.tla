-------------------------- MODULE Inference_proofs --------------------------
(***************************************************************************)
(* What the inference stage may say of any flow whatever, by weighing the  *)
(* votes of the three trees.  The scores' nonlinear parts (a ratio, a      *)
(* power of two) stay folded: only their caps matter.                      *)
(***************************************************************************)
EXTENDS Inference, TLAPS

\* The two caps and a quotient stay among the integers.
LEMMA Capped ==
  ASSUME NEW x \in Int, NEW c \in Int
  PROVE  AtMost(x, c) \in Int /\ AtMost(x, c) <= c
  BY SMT DEF AtMost

\* Go's integer quotient is an integer.
LEMMA QuotientInt ==
  ASSUME NEW a \in Nat, NEW b \in Nat \ {0}
  PROVE  a \div b \in Int
  BY SMT

\* The features of a flow and their types.
LEMMA FeatureTypes ==
  ASSUME NEW f \in Accumulators
  PROVE  /\ ToFeatureVector(f).PacketCount = f.packetCount
         /\ ToFeatureVector(f).IATStdDevNS = iatStdDevNS(f)
         /\ ToFeatureVector(f).RatioFlow = RatioFlow(f)
         /\ ToFeatureVector(f).EntropyHalfBits = f.entropyHalfBits
         /\ f.packetCount \in Nat /\ f.entropyHalfBits \in Nat
         /\ iatStdDevNS(f) \in Nat
         /\ RatioFlow(f).num \in Nat /\ RatioFlow(f).den \in Nat \ {0}
  <1>1. /\ f.packetCount \in Nat /\ f.entropyHalfBits \in Nat
        /\ f.iatSamples \in Nat /\ f.iatDeviation \in Nat
        /\ f.forwardCount \in Nat /\ f.reverseCount \in Nat
        /\ f.synCount \in Nat /\ f.ackPshCount \in Nat
    BY SMT DEF Accumulators
  <1>2. iatStdDevNS(f) \in Nat
    BY SMT, <1>1 DEF iatStdDevNS, neutralIATStdDevNS, minIATSamplesForVariance
  <1>3. \A n \in Nat : AtLeastOne(n) \in Nat \ {0}
    BY SMT DEF AtLeastOne
  <1>4. RatioFlow(f).num \in Nat /\ RatioFlow(f).den \in Nat \ {0}
    BY SMT, <1>1, <1>3 DEF RatioFlow
  <1> QED
    BY SMT, <1>1, <1>2, <1>4 DEF ToFeatureVector

\* So is the score of the forward ratio.
LEMMA RatioScoreInt ==
  ASSUME NEW f \in Accumulators
  PROVE  RatioScore(ToFeatureVector(f)) \in Int
  <1>1. PICK n \in Nat : n = RatioFlow(f).num
    BY SMT, FeatureTypes
  <1>2. PICK d \in Nat \ {0} : d = RatioFlow(f).den
    BY SMT, FeatureTypes
  <1>3. n * Unit \in Nat /\ 50 * d \in Nat \ {0}
    BY SMT DEF Unit
  <1>4. (n * Unit) \div (50 * d) \in Int
    BY SMT, <1>3, QuotientInt
  <1> QED
    BY SMT, <1>1, <1>2, <1>4, FeatureTypes DEF RatioScore

\* A flow the SYN-flood tree does not vote against is a flood by its raw
\* counters: the two ratios the tree is given are those of OneSided.
LEMMA RatioIsOneSided ==
  ASSUME NEW f \in Accumulators,
         ~(RatioFlow(f).num < 8 * RatioFlow(f).den)
  PROVE  OneSided(f)
  <1>1. /\ f.forwardCount \in Nat /\ f.reverseCount \in Nat
        /\ f.synCount \in Nat /\ f.ackPshCount \in Nat
    BY SMT DEF Accumulators
  <1>2. CASE f.tcp /\ f.reverseCount = 0 /\ f.synCount + f.ackPshCount >= 5
    <2>1. RatioFlow(f) = [num |-> f.synCount, den |-> AtLeastOne(f.ackPshCount)]
      BY SMT, <1>2 DEF RatioFlow, singleDirectionRatioFloor
    <2>2. ~(f.synCount < 8 * AtLeastOne(f.ackPshCount))
      BY SMT, <2>1
    <2>3. f.synCount >= 8 /\ f.synCount >= 8 * f.ackPshCount
      BY SMT, <1>1, <2>2 DEF AtLeastOne
    <2> QED
      BY SMT, <1>2, <2>3 DEF OneSided
  <1>3. CASE ~(f.tcp /\ f.reverseCount = 0 /\ f.synCount + f.ackPshCount >= 5)
    <2>1. RatioFlow(f) = [num |-> f.forwardCount, den |-> AtLeastOne(f.reverseCount)]
      BY SMT, <1>3 DEF RatioFlow, singleDirectionRatioFloor
    <2>2. ~(f.forwardCount < 8 * AtLeastOne(f.reverseCount))
      BY SMT, <2>1
    <2>3. f.forwardCount >= 8 /\ f.forwardCount >= 8 * f.reverseCount
      BY SMT, <1>1, <2>2 DEF AtLeastOne
    <2> QED
      BY SMT, <1>3, <2>3 DEF OneSided
  <1> QED
    BY SMT, <1>2, <1>3

\* The SYN-flood tree votes against every flow that is no flood, the more so
\* the fewer samples there are, and never gives more than seven.
LEMMA SynVote ==
  ASSUME NEW f \in Accumulators
  PROVE  LET syn == synFloodTree(ToFeatureVector(f))
         IN  /\ syn \in Int
             /\ syn <= 7 * Unit
             /\ ~FloodShape(f) => syn <= -2 * Unit
             /\ f.iatSamples < 30 => syn <= -3 * Unit
  <1> DEFINE fv == ToFeatureVector(f)
             jitter == (20000000 - iatStdDevNS(f)) \div 1000
             high == 2 * Unit + AtMost(RatioScore(fv), 3 * Unit) + AtMost(jitter, 2 * Unit)
  <1>1. f.iatSamples \in Nat /\ f.iatDeviation \in Nat /\ f.packetCount \in Nat
    BY SMT DEF Accumulators
  <1>2. synFloodTree(fv) = IF f.packetCount < 20 THEN -4 * Unit
                           ELSE IF iatStdDevNS(f) >= 2000000 THEN -3 * Unit
                           ELSE IF RatioFlow(f).num < 8 * RatioFlow(f).den THEN -2 * Unit
                           ELSE high
    BY SMT, FeatureTypes DEF synFloodTree
  <1>3. high \in Int /\ high <= 7 * Unit
    <2>1. jitter \in Int
      BY SMT, FeatureTypes
    <2>2. AtMost(jitter, 2 * Unit) \in Int /\ AtMost(jitter, 2 * Unit) <= 2 * Unit
      BY SMT, <2>1 DEF Unit, AtMost
    <2>3. AtMost(RatioScore(fv), 3 * Unit) \in Int /\ AtMost(RatioScore(fv), 3 * Unit) <= 3 * Unit
      BY SMT, RatioScoreInt, Capped DEF Unit
    <2> QED
      BY SMT, <2>2, <2>3 DEF Unit
  <1>4. f.iatSamples < 30 => iatStdDevNS(f) >= 2000000
    BY SMT, <1>1 DEF iatStdDevNS, minIATSamplesForVariance, neutralIATStdDevNS
  <1>5. ~(f.packetCount < 20) /\ ~(iatStdDevNS(f) >= 2000000)
          /\ ~(RatioFlow(f).num < 8 * RatioFlow(f).den) => FloodShape(f)
    <2> SUFFICES ASSUME ~(f.packetCount < 20), ~(iatStdDevNS(f) >= 2000000),
                        ~(RatioFlow(f).num < 8 * RatioFlow(f).den)
                 PROVE  FloodShape(f)
      BY SMT
    <2>1. Mechanical(f)
      BY SMT, <1>1 DEF Mechanical, iatStdDevNS, minIATSamplesForVariance, neutralIATStdDevNS
    <2>2. OneSided(f)
      BY SMT, RatioIsOneSided
    <2> QED
      BY SMT, <1>1, <2>1, <2>2 DEF FloodShape
  <1> HIDE DEF high
  <1>6. CASE f.packetCount < 20
    <2>1. synFloodTree(fv) = -4 * Unit
      BY SMT, <1>2, <1>6
    <2> QED
      BY SMT, <2>1 DEF Unit
  <1>7. CASE ~(f.packetCount < 20) /\ iatStdDevNS(f) >= 2000000
    <2>1. synFloodTree(fv) = -3 * Unit
      BY SMT, <1>2, <1>7
    <2> QED
      BY SMT, <2>1 DEF Unit
  <1>8. CASE /\ ~(f.packetCount < 20) /\ ~(iatStdDevNS(f) >= 2000000)
             /\ RatioFlow(f).num < 8 * RatioFlow(f).den
    <2>1. synFloodTree(fv) = -2 * Unit
      BY SMT, <1>2, <1>8
    <2> QED
      BY SMT, <2>1, <1>4, <1>8 DEF Unit
  <1>9. CASE /\ ~(f.packetCount < 20) /\ ~(iatStdDevNS(f) >= 2000000)
             /\ ~(RatioFlow(f).num < 8 * RatioFlow(f).den)
    <2>1. synFloodTree(fv) = high
      BY SMT, <1>2, <1>9
    <2>2. FloodShape(f) /\ ~(f.iatSamples < 30)
      BY SMT, <1>4, <1>5, <1>9
    <2> QED
      BY SMT, <2>1, <2>2, <1>3 DEF Unit
  <1> QED
    BY SMT, <1>6, <1>7, <1>8, <1>9

\* The scan tree gives at most four and a half, and that only to a scan.
LEMMA ScanVote ==
  ASSUME NEW f \in Accumulators
  PROVE  LET scan == portScanTree(ToFeatureVector(f))
         IN  /\ scan \in Int
             /\ scan <= 45000
             /\ ~ScanShape(f) => scan <= -2 * Unit
             /\ ~Spread(f) => scan <= -4 * Unit
  <1> DEFINE fv == ToFeatureVector(f)
             part == (f.entropyHalfBits * Unit) \div 4
             high == 15000 + AtMost(part, 3 * Unit)
  <1>1. portScanTree(fv) = IF f.entropyHalfBits < 6 THEN -4 * Unit
                           ELSE IF HeavyPerPort(fv) THEN -2 * Unit ELSE high
    BY SMT, FeatureTypes DEF portScanTree
  <1>2. HeavyPerPort(fv) <=> f.packetCount * f.packetCount > 100 * 2 ^ f.entropyHalfBits
    BY SMT, FeatureTypes DEF HeavyPerPort
  <1>3. high \in Int /\ high <= 45000
    <2>1. part \in Int
      BY SMT, FeatureTypes DEF Unit
    <2>2. AtMost(part, 3 * Unit) \in Int /\ AtMost(part, 3 * Unit) <= 3 * Unit
      BY SMT, <2>1 DEF Unit, AtMost
    <2> QED
      BY SMT, <2>2 DEF Unit
  <1>4. Spread(f) <=> ~(f.entropyHalfBits < 6)
    BY SMT, FeatureTypes DEF Spread
  <1>5. ScanShape(f) <=> Spread(f) /\ ~HeavyPerPort(fv)
    BY SMT, <1>2 DEF ScanShape
  <1> HIDE DEF high
  <1>6. CASE f.entropyHalfBits < 6
    <2>1. portScanTree(fv) = -4 * Unit
      BY SMT, <1>1, <1>6
    <2> QED
      BY SMT, <2>1 DEF Unit
  <1>7. CASE ~(f.entropyHalfBits < 6) /\ HeavyPerPort(fv)
    <2>1. portScanTree(fv) = -2 * Unit
      BY SMT, <1>1, <1>7
    <2> QED
      BY SMT, <2>1, <1>4, <1>7 DEF Unit
  <1>8. CASE ~(f.entropyHalfBits < 6) /\ ~HeavyPerPort(fv)
    <2>1. portScanTree(fv) = high
      BY SMT, <1>1, <1>8
    <2> QED
      BY SMT, <2>1, <1>3, <1>4, <1>5, <1>8
  <1> QED
    BY SMT, <1>6, <1>7, <1>8

\* The volumetric tree gives at most four, and votes against small flows.
LEMMA VolumeVote ==
  ASSUME NEW f \in Accumulators
  PROVE  LET vol == volumetricTree(ToFeatureVector(f))
         IN  /\ vol \in Int
             /\ vol <= 4 * Unit
             /\ f.packetCount < 200 => vol = -3 * Unit
  <1> DEFINE fv == ToFeatureVector(f)
             bulk == AtMost(f.packetCount * 20, 4 * Unit)
             steady == IF iatStdDevNS(f) < 500000 THEN Unit ELSE 0
  <1>1. volumetricTree(fv) = IF f.packetCount < 200 THEN -3 * Unit
                             ELSE -1 * Unit + bulk + steady
    BY SMT, FeatureTypes DEF volumetricTree
  <1>2. bulk \in Int /\ bulk <= 4 * Unit
    <2>1. f.packetCount * 20 \in Int
      BY SMT, FeatureTypes
    <2> QED
      BY SMT, <2>1 DEF Unit, AtMost
  <1>3. steady \in Int /\ steady <= Unit
    BY SMT DEF Unit
  <1> HIDE DEF bulk, steady
  <1> QED
    BY SMT, <1>1, <1>2, <1>3 DEF Unit

-----------------------------------------------------------------------------
\* An alert is raised when the three votes add up to more than the logit,
\* and its label is that of a tree that scored highest.
LEMMA Verdict ==
  ASSUME NEW f \in Accumulators
  PROVE  LET syn == synFloodTree(ToFeatureVector(f))
             scan == portScanTree(ToFeatureVector(f))
             vol == volumetricTree(ToFeatureVector(f))
             a == Label(f)
         IN  /\ a \in AttackTypes
             /\ a # AttackNone => syn + scan + vol > MalwareLogit
             /\ a = "SYN_FLOOD" => syn >= scan /\ syn >= vol
             /\ a = "PORT_SCAN" => scan >= vol /\ ~(syn >= scan /\ syn >= vol)
             /\ a = "VOLUMETRIC_ANOMALY" => ~(syn >= scan /\ syn >= vol) /\ ~(scan >= vol)
  <1> DEFINE syn == synFloodTree(ToFeatureVector(f))
             scan == portScanTree(ToFeatureVector(f))
             vol == volumetricTree(ToFeatureVector(f))
  <1>1. Classify(f).Malicious = (syn + scan + vol > MalwareLogit)
    BY DEF Classify
  <1>2. Classify(f).Attack = IF syn + scan + vol > MalwareLogit
                             THEN BestAttack(syn, scan, vol) ELSE AttackNone
    BY DEF Classify
  <1>3. CASE syn + scan + vol > MalwareLogit
    <2>1. Classify(f).Malicious /\ Classify(f).Attack = BestAttack(syn, scan, vol)
      BY <1>1, <1>2, <1>3
    <2> HIDE DEF syn, scan, vol
    <2>2. LET a == BestAttack(syn, scan, vol)
          IN  /\ a \in AttackTypes
              /\ a = "SYN_FLOOD" => syn >= scan /\ syn >= vol
              /\ a = "PORT_SCAN" => scan >= vol /\ ~(syn >= scan /\ syn >= vol)
              /\ a = "VOLUMETRIC_ANOMALY" => ~(syn >= scan /\ syn >= vol) /\ ~(scan >= vol)
      BY DEF BestAttack, AttackTypes
    <2> QED
      BY <1>3, <2>1, <2>2 DEF syn, scan, vol, Label
  <1>4. CASE ~(syn + scan + vol > MalwareLogit)
    <2>1. ~Classify(f).Malicious
      BY <1>1, <1>4
    <2> QED
      BY <2>1 DEF AttackNone, AttackTypes, Label
  <1> QED
    BY <1>3, <1>4

\* What an alert for a flow says of it, all at once.
Justified(f, a) ==
  /\ a \in AttackTypes
  /\ a = "SYN_FLOOD" => FloodShape(f)
  /\ a = "PORT_SCAN" => ScanShape(f)
  /\ a = "VOLUMETRIC_ANOMALY" => f.packetCount >= 200
  /\ a # AttackNone => FloodShape(f) \/ ScanShape(f)
  /\ a # AttackNone /\ f.packetCount < 200 => FloodShape(f) /\ Spread(f)
  /\ f.iatSamples < 30 =>
       /\ a = Label([f EXCEPT !.iatDeviation = neutralIATStdDevNS])
       /\ a # "SYN_FLOOD"

\* What few samples showed of the timing makes no difference.
LEMMA NeutralWhenFew ==
  ASSUME NEW f \in Accumulators, f.iatSamples < 30
  PROVE  Label(f) = Label([f EXCEPT !.iatDeviation = neutralIATStdDevNS])
  <1> DEFINE g == [f EXCEPT !.iatDeviation = neutralIATStdDevNS]
  <1>1. /\ g.packetCount = f.packetCount /\ g.forwardCount = f.forwardCount
        /\ g.reverseCount = f.reverseCount /\ g.synCount = f.synCount
        /\ g.ackPshCount = f.ackPshCount /\ g.tcp = f.tcp
        /\ g.iatSamples = f.iatSamples /\ g.entropyHalfBits = f.entropyHalfBits
    BY DEF Accumulators
  <1>2. iatStdDevNS(g) = iatStdDevNS(f)
    BY <1>1 DEF iatStdDevNS, minIATSamplesForVariance
  <1>3. RatioFlow(g) = RatioFlow(f)
    BY <1>1 DEF RatioFlow
  <1>4. ToFeatureVector(g) = ToFeatureVector(f)
    BY <1>1, <1>2, <1>3 DEF ToFeatureVector
  <1>5. Classify(g) = Classify(f)
    BY <1>4, Zenon DEF Classify
  <1> QED
    BY <1>5, Zenon DEF Label

\* Whatever Classify says, the flow it classified has the shape for it.
LEMMA VerdictJustified ==
  ASSUME NEW f \in Accumulators
  PROVE  Justified(f, Label(f))
  <1> DEFINE a == Label(f)
  <1>1. PICK syn \in Int : syn = synFloodTree(ToFeatureVector(f))
    BY SynVote
  <1>2. PICK scan \in Int : scan = portScanTree(ToFeatureVector(f))
    BY ScanVote
  <1>3. PICK vol \in Int : vol = volumetricTree(ToFeatureVector(f))
    BY VolumeVote
  <1>4. /\ syn <= 70000
        /\ ~FloodShape(f) => syn <= -20000
        /\ f.iatSamples < 30 => syn <= -30000
    BY SMT, <1>1, SynVote DEF Unit
  <1>5. /\ scan <= 45000
        /\ ~ScanShape(f) => scan <= -20000
        /\ ~Spread(f) => scan <= -40000
    BY SMT, <1>2, ScanVote DEF Unit
  <1>6. vol <= 40000 /\ (f.packetCount < 200 => vol = -30000)
    BY SMT, <1>3, VolumeVote DEF Unit
  <1>7. /\ a \in AttackTypes
        /\ a # AttackNone => syn + scan + vol > 17346
        /\ a = "SYN_FLOOD" => syn >= scan /\ syn >= vol
        /\ a = "PORT_SCAN" => scan >= vol /\ ~(syn >= scan /\ syn >= vol)
        /\ a = "VOLUMETRIC_ANOMALY" => ~(syn >= scan /\ syn >= vol) /\ ~(scan >= vol)
    BY SMT, <1>1, <1>2, <1>3, Verdict DEF MalwareLogit
  <1>8. f.packetCount \in Nat /\ f.iatSamples \in Nat
    BY DEF Accumulators
  <1> HIDE DEF a
  <1> USE DEF AttackTypes, AttackNone
  <1>9. a = "SYN_FLOOD" => FloodShape(f)
    BY SMT, <1>4, <1>5, <1>6, <1>7
  <1>10. a = "PORT_SCAN" => ScanShape(f)
    BY SMT, <1>4, <1>5, <1>6, <1>7
  <1>11. a = "VOLUMETRIC_ANOMALY" => f.packetCount >= 200
    BY SMT, <1>4, <1>5, <1>6, <1>7, <1>8
  <1>12. a # AttackNone => FloodShape(f) \/ ScanShape(f)
    BY SMT, <1>4, <1>5, <1>6, <1>7
  <1>13. a # AttackNone /\ f.packetCount < 200 => FloodShape(f) /\ Spread(f)
    BY SMT, <1>4, <1>5, <1>6, <1>7
  <1>14. f.iatSamples < 30 => a # "SYN_FLOOD"
    BY SMT, <1>4, <1>5, <1>6, <1>7, <1>8
  <1>15. f.iatSamples < 30 => a = Label([f EXCEPT !.iatDeviation = neutralIATStdDevNS])
    BY NeutralWhenFew DEF a
  <1> QED
    BY <1>7, <1>9, <1>10, <1>11, <1>12, <1>13, <1>14, <1>15 DEF Justified, a

-----------------------------------------------------------------------------
\* The inductive invariant: the alert at hand is a justified one.
IInv ==
  /\ ff # NoFlow => ff \in Accumulators /\ Justified(ff, alert)
  /\ ff = NoFlow => alert = AttackNone
  /\ missed \subseteq Signatures

\* No verdict is out before the first flow.
LEMMA InitIInv == Init => IInv
  BY DEF Init, IInv

\* A verdict is replaced by a justified one or by none.
LEMMA StepIInv == IInv /\ [Next]_vars => IInv'
  <1> SUFFICES ASSUME IInv, [Next]_vars PROVE IInv'
    OBVIOUS
  <1>1. ASSUME NEW f \in Flows, Receive(f) PROVE IInv'
    <2>1. f \in Accumulators /\ f # NoFlow
      BY InferenceAssumption
    <2>2. Justified(f, alert')
      BY <1>1, <2>1, VerdictJustified DEF Receive
    <2>3. missed' \subseteq Signatures
      BY <1>1 DEF Receive, IInv, SignaturesOf
    <2> QED
      BY <1>1, <2>1, <2>2, <2>3 DEF Receive, IInv
  <1>2. CASE Proceed
    BY <1>2 DEF Proceed, IInv
  <1>3. CASE UNCHANGED vars
    BY <1>3 DEF vars, IInv
  <1> QED
    BY <1>1, <1>2, <1>3 DEF Next

\* The invariant of the inference stage holds throughout.
LEMMA Invariance == Spec => []IInv
  BY InitIInv, StepIInv, PTL DEF Spec

\* Whatever flows arrive, an alert belongs to the flow at hand
\* (the inference goroutine, daemon.go:98-109).
THEOREM TypeCorrect == Spec => []TypeOK
  <1>1. IInv => TypeOK
    BY DEF IInv, TypeOK, Justified, Judged, Alerted, AttackTypes
  <1> QED
    BY <1>1, Invariance, PTL

\* Every alert's label is earned by the flow's own counters (Classify).
THEOREM LabelsEarned == Spec => []LabelEarned
  <1>1. IInv => LabelEarned
    BY DEF IInv, LabelEarned, Judged, Justified
  <1> QED
    BY <1>1, Invariance, PTL

-----------------------------------------------------------------------------
(* How far the trees outvote one another: the extent of what run           *)
(* inf_outvoted shows by example.                                          *)

\* Only a flow with the shape of a flood or of a scan is given an alert.
ShapelessSpared == Judged /\ Alerted => FloodShape(ff) \/ ScanShape(ff)

\* No volume of packets, however large and steady, raises an alert by itself:
\* the other two trees' votes against weigh more than the volumetric tree can
\* give, for every flow that fits neither shape (Classify, trees.go:205-216).
THEOREM VolumeNeverAlone == Spec => []ShapelessSpared
  <1>1. IInv => ShapelessSpared
    BY DEF IInv, ShapelessSpared, Judged, Alerted, Justified
  <1> QED
    BY <1>1, Invariance, PTL

\* Below 200 packets only a flood whose source has spread over many ports is
\* given an alert.
SmallFlowNeedsSpread ==
  Judged /\ Alerted /\ ff.packetCount < 200 => FloodShape(ff) /\ Spread(ff)

\* Below 200 packets neither a SYN flood to one port nor a scan's flow that is
\* no flood itself is ever given an alert: the volumetric tree's vote against
\* it and that of the tree it does not fit weigh more (trees.go:119-121,
\* 138-140, 158-161).
THEOREM SmallFlowsSpared == Spec => []SmallFlowNeedsSpread
  <1>1. IInv => SmallFlowNeedsSpread
    BY DEF IInv, SmallFlowNeedsSpread, Judged, Alerted, Justified
  <1> QED
    BY <1>1, Invariance, PTL

-----------------------------------------------------------------------------
\* Below 30 samples the verdict is that of the neutral deviation, whatever
\* the samples showed, and never a SYN flood (iatStdDevNS, flow.go:165-168).
THEOREM FewSamplesSpared == Spec => []UndersampledSpared
  <1>1. IInv => UndersampledSpared
    BY DEF IInv, UndersampledSpared, Judged, Justified
  <1> QED
    BY <1>1, Invariance, PTL

\* A session seen one way only and carrying data is never called a SYN flood
\* (the fallback of ToFeatureVector, trees.go:74-78).
THEOREM SessionsSpared == Spec => []OneWaySessionSpared
  <1>1. IInv => OneWaySessionSpared
    <2> SUFFICES ASSUME IInv, Judged, ff.tcp, ff.reverseCount = 0, ff.ackPshCount >= 5,
                        ff.synCount <= ff.ackPshCount, alert = "SYN_FLOOD"
                 PROVE  FALSE
      BY DEF OneWaySessionSpared
    <2>1. ff \in Accumulators /\ FloodShape(ff)
      BY DEF IInv, Judged, Justified
    <2>2. ff.synCount \in Nat /\ ff.ackPshCount \in Nat
      BY <2>1 DEF Accumulators
    <2>3. ff.synCount + ff.ackPshCount >= 5
      BY SMT, <2>2
    <2>4. ff.synCount >= 8 * ff.ackPshCount
      BY SMT, <2>1, <2>3 DEF FloodShape, OneSided
    <2> QED
      BY SMT, <2>2, <2>4
  <1> QED
    BY <1>1, Invariance, PTL
=============================================================================
