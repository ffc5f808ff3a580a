----------------------------- MODULE MCInference -----------------------------
(***************************************************************************)
(* A grid of flows around every threshold of the trees and the aggregator. *)
(***************************************************************************)
EXTENDS Inference

Counts == {4, 20, 60, 199, 200, 2000}
Deviations == {0, 499999, 1999999, 2000000}
Spreads == {0, 5, 6, 12}

\* None, few, just too many or just few enough for a ratio of eight, all.
Shares(n) == {0, n \div 10, n \div 8, n}

\* A flow of n packets, r of them in the reverse direction, s with SYN and a
\* with ACK or PSH; of a flow that is not TCP neither flag is counted.
Grid ==
  UNION { { [tcp |-> t, packetCount |-> n, forwardCount |-> n - r, reverseCount |-> r,
             synCount |-> s, ackPshCount |-> a,
             iatSamples |-> i, iatDeviation |-> d, entropyHalfBits |-> h] :
            r \in Shares(n), s \in IF t THEN Shares(n) ELSE {0}, a \in IF t THEN Shares(n) ELSE {0},
            i \in {29, n - 1} \cap 0..(n - 1), d \in Deviations, h \in Spreads } :
          t \in BOOLEAN, n \in Counts }
=============================================================================
