-------------------------------- MODULE Trees --------------------------------
(***************************************************************************)
(* The scoring of a flow (user-space/pkg/inference/trees.go) and the       *)
(* features it is computed from (flush in aggregator/flow.go).             *)
(*                                                                         *)
(* The code computes in floating point.  A score is an integer here, in    *)
(* ten-thousandths and rounded down; a ratio is a pair of integers;        *)
(* entropy is in half bits, so that 2^H is compared exactly through its    *)
(* square.  The sigmoid is monotone, so P > 0.85 is a total above          *)
(* ln(0.85 / 0.15).                                                        *)
(***************************************************************************)
EXTENDS Integers

Unit == 10000
MalwareLogit == 17346              \* ln(0.85 / 0.15) = 1.73460...

minIATSamplesForVariance == 30
neutralIATStdDevNS == 5000000
singleDirectionRatioFloor == 5

\* What the aggregator knows of a flow when the window closes: its counters,
\* the deviation of its inter-arrival times, and the entropy of the ports its
\* source has touched.
Accumulators ==
  [tcp : BOOLEAN, packetCount : Nat, forwardCount : Nat, reverseCount : Nat,
   synCount : Nat, ackPshCount : Nat, iatSamples : Nat, iatDeviation : Nat,
   entropyHalfBits : Nat]

AtLeastOne(n) == IF n > 1 THEN n ELSE 1
AtMost(x, cap) == IF x < cap THEN x ELSE cap

\* Mutant: the deviation of few samples is reported as it is.
iatStdDevNSUnguarded(fa) == fa.iatDeviation

\* flowAccumulator.iatStdDevNS.
iatStdDevNS(fa) ==
  IF fa.iatSamples < minIATSamplesForVariance
  THEN neutralIATStdDevNS ELSE fa.iatDeviation

\* The ratio of ToFeatureVector: forward to reverse packets, or SYN to
\* ACK+PSH packets of a TCP flow seen in the forward direction only.
RatioFlow(fa) ==
  IF /\ fa.reverseCount = 0 /\ fa.tcp
     /\ fa.synCount + fa.ackPshCount >= singleDirectionRatioFloor
  THEN [num |-> fa.synCount, den |-> AtLeastOne(fa.ackPshCount)]
  ELSE [num |-> fa.forwardCount, den |-> AtLeastOne(fa.reverseCount)]

ToFeatureVector(fa) ==
  [PacketCount |-> fa.packetCount, IATStdDevNS |-> iatStdDevNS(fa),
   RatioFlow |-> RatioFlow(fa), EntropyHalfBits |-> fa.entropyHalfBits]

-----------------------------------------------------------------------------
\* RatioFlow / 50.
RatioScore(f) == (f.RatioFlow.num * Unit) \div (50 * f.RatioFlow.den)

synFloodTree(f) ==
  IF f.PacketCount < 20 THEN -4 * Unit
  ELSE IF f.IATStdDevNS >= 2000000 THEN -3 * Unit
  ELSE IF f.RatioFlow.num < 8 * f.RatioFlow.den THEN -2 * Unit
  ELSE 2 * Unit + AtMost(RatioScore(f), 3 * Unit)
                + AtMost((20000000 - f.IATStdDevNS) \div 1000, 2 * Unit)

\* More than ten packets per port, of 2^H ports.
HeavyPerPort(f) == f.PacketCount * f.PacketCount > 100 * 2 ^ f.EntropyHalfBits

portScanTree(f) ==
  IF f.EntropyHalfBits < 6 THEN -4 * Unit
  ELSE IF HeavyPerPort(f) THEN -2 * Unit
  ELSE 15000 + AtMost((f.EntropyHalfBits * Unit) \div 4, 3 * Unit)

volumetricTree(f) ==
  IF f.PacketCount < 200 THEN -3 * Unit
  ELSE -1 * Unit + AtMost(f.PacketCount * 20, 4 * Unit)
         + (IF f.IATStdDevNS < 500000 THEN Unit ELSE 0)

-----------------------------------------------------------------------------
AttackNone == "BENIGN"
AttackTypes == {AttackNone, "SYN_FLOOD", "PORT_SCAN", "VOLUMETRIC_ANOMALY"}

\* Mutant: the comparison the wrong way round.
BestAttackLowest(syn, scan, vol) ==
  IF syn <= scan /\ syn <= vol THEN "SYN_FLOOD"
  ELSE IF scan <= vol THEN "PORT_SCAN"
  ELSE "VOLUMETRIC_ANOMALY"

\* The first tree of the ensemble with the highest score.
BestAttack(syn, scan, vol) ==
  IF syn >= scan /\ syn >= vol THEN "SYN_FLOOD"
  ELSE IF scan >= vol THEN "PORT_SCAN"
  ELSE "VOLUMETRIC_ANOMALY"

\* Classify.
Classify(fa) ==
  LET fv == ToFeatureVector(fa)
      syn == synFloodTree(fv)
      scan == portScanTree(fv)
      vol == volumetricTree(fv)
      malicious == syn + scan + vol > MalwareLogit
  IN  [Malicious |-> malicious,
       Attack |-> IF malicious THEN BestAttack(syn, scan, vol) ELSE AttackNone]
=============================================================================
