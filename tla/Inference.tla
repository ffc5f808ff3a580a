------------------------------ MODULE Inference ------------------------------
(***************************************************************************)
(* The inference stage of the daemon (engine/daemon.go:94-114): it takes   *)
(* the features of one flow after the other and sends an alert for those   *)
(* that Classify finds malicious.  How it waits on its channels is in      *)
(* Daemon; here is what it says of which flow.                             *)
(***************************************************************************)
EXTENDS Trees

CONSTANTS
  Flows,   \* the flows that may be in a closed window
  NoFlow   \* no flow at hand

ASSUME InferenceAssumption ==
  /\ Flows \subseteq Accumulators
  /\ NoFlow \notin Flows

VARIABLES
  ff,      \* the flow at hand
  alert,   \* the label of the alert it is given, AttackNone while there is none
  missed   \* history: signatures a flow bore that was given no alert

vars == <<ff, alert, missed>>

-----------------------------------------------------------------------------
(* What the comments of trees.go say each signature looks like, stated on  *)
(* the aggregator's raw counters.                                          *)

\* Mechanical timing, measured on enough samples to mean something.
Mechanical(f) ==
  /\ f.iatSamples >= minIATSamplesForVariance
  /\ f.iatDeviation < 2000000

\* One-sided: many more packets one way than the other or, where only one
\* way is seen, many more connection attempts than data packets.
OneSided(f) ==
  LET flagsOnly == f.tcp /\ f.reverseCount = 0 /\ f.synCount + f.ackPshCount >= 5
  IN  IF flagsOnly THEN f.synCount >= 8 /\ f.synCount >= 8 * f.ackPshCount
      ELSE f.forwardCount >= 8 /\ f.forwardCount >= 8 * f.reverseCount

FloodShape(f) == f.packetCount >= 20 /\ Mechanical(f) /\ OneSided(f)

\* A source that spreads over at least eight equally used ports.
Spread(f) == f.entropyHalfBits >= 6

\* At most ten packets for each of them.
ScanShape(f) == Spread(f) /\ ~(f.packetCount * f.packetCount > 100 * 2 ^ f.entropyHalfBits)

\* Neither shape, but as many packets as the volumetric tree can count.
VolumeShape(f) == f.packetCount >= 2000 /\ ~FloodShape(f) /\ ~ScanShape(f)

Signatures == {"flood", "scan", "volume"}

\* Nothing but connection attempts.
OnlySYNs(f) == f.tcp /\ f.synCount = f.packetCount /\ f.reverseCount = 0

\* The signatures a flow bears in full: a SYN flood, a TCP port scan, a flood
\* that is not TCP, every gap between its packets measured.
SignaturesOf(f) ==
  {x \in Signatures :
     /\ f.iatSamples + 1 = f.packetCount
     /\ \/ x = "flood" /\ FloodShape(f) /\ OnlySYNs(f)
        \/ x = "scan" /\ ScanShape(f) /\ OnlySYNs(f)
        \/ x = "volume" /\ VolumeShape(f) /\ ~f.tcp}

-----------------------------------------------------------------------------
Init ==
  /\ ff = NoFlow
  /\ alert = AttackNone
  /\ missed = {}

\* The label of the alert for a flow, if there is one.
Label(f) == IF Classify(f).Malicious THEN Classify(f).Attack ELSE AttackNone

\* The goroutine takes the next flow from agg.Output() and classifies it.
Receive(f) ==
  /\ ff = NoFlow
  /\ ff' = f
  /\ alert' = Label(f)
  /\ missed' = missed \cup (IF Classify(f).Malicious THEN {} ELSE SignaturesOf(f))

\* The alert is sent, or the flow passed over, and the next one is awaited.
Proceed ==
  /\ ff # NoFlow
  /\ ff' = NoFlow
  /\ alert' = AttackNone
  /\ UNCHANGED missed

Next == (\E f \in Flows : Receive(f)) \/ Proceed

Spec == Init /\ [][Next]_vars

-----------------------------------------------------------------------------
Judged == ff # NoFlow
Alerted == alert # AttackNone

\* There is an alert only for a flow at hand.
TypeOK ==
  /\ ff # NoFlow => ff \in Accumulators
  /\ alert \in AttackTypes
  /\ Alerted => Judged
  /\ missed \subseteq Signatures

\* The label of an alert is one the flow has earned: SYN_FLOOD and PORT_SCAN
\* are given only to flows of that shape, VOLUMETRIC_ANOMALY only from 200
\* packets in a window on (the attribution in Classify, trees.go:205-212).
LabelEarned ==
  Judged => /\ alert = "SYN_FLOOD" => FloodShape(ff)
            /\ alert = "PORT_SCAN" => ScanShape(ff)
            /\ alert = "VOLUMETRIC_ANOMALY" => ff.packetCount >= 200

\* Few samples never count as mechanical timing (the reason aggregator/
\* flow.go:57-62 gives for the neutral deviation): whatever deviation they
\* happened to show, the flow is judged as if it were the neutral one, and is
\* never called a SYN flood.
UndersampledSpared ==
  Judged /\ ff.iatSamples < 30
    => /\ alert = Label([ff EXCEPT !.iatDeviation = neutralIATStdDevNS])
       /\ alert # "SYN_FLOOD"

\* At least one signature is enough for an alert.  What is said of them says
\* so of each: the volumetric tree is "the catch-all for saturation-style
\* floods" that "don't fit either of the above shapes" (trees.go:154-157), a
\* burst of SYNs to one port is "intended to cross MalwareThreshold"
\* (tests/traffic_matrix.py:196-200), and the source of a port scan is
\* "blocked globally" (README.md:120).
SomeSignatureSuffices == missed # Signatures

\* A session of which only one direction is seen, and which is dominated by
\* data packets, is never taken for a SYN flood (trees.go:59-70).
OneWaySessionSpared ==
  Judged /\ ff.tcp /\ ff.reverseCount = 0 /\ ff.ackPshCount >= 5
    /\ ff.synCount <= ff.ackPshCount
    => alert # "SYN_FLOOD"
=============================================================================
