------------------------------ MODULE MCDaemon ------------------------------
(***************************************************************************)
(* Small instances of Daemon for TLC: more malicious flows than the        *)
(* channels hold, and a benign one.  Which are which is for the            *)
(* classifier to say: two SYN floods of different volume, a fast scan and  *)
(* a plain download of the same volume.                                    *)
(***************************************************************************)
EXTENDS Daemon

LOCAL T == INSTANCE Trees

CONSTANTS f1, f2, f3, f4

FourFlows == {f1, f2, f3, f4}

Accumulated(n, forward, syn, ackPsh, deviation, halfBits) ==
  [tcp |-> TRUE, packetCount |-> n, forwardCount |-> forward, reverseCount |-> n - forward,
   synCount |-> syn, ackPshCount |-> ackPsh, iatSamples |-> n - 1,
   iatDeviation |-> deviation, entropyHalfBits |-> halfBits]

Features ==
  f1 :> Accumulated(600, 600, 600, 0, 100000, 0)
    @@ f2 :> Accumulated(250, 250, 250, 0, 100000, 6)
    @@ f3 :> Accumulated(300, 300, 300, 0, 1000000, 12)
    @@ f4 :> Accumulated(600, 200, 1, 599, 3000000, 0)

ThreeMalicious == {f1, f2, f3}

ASSUME Classified == ThreeMalicious = {f \in FourFlows : T!Classify(Features[f]).Malicious}
=============================================================================
