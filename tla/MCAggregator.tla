---------------------------- MODULE MCAggregator ----------------------------
(***************************************************************************)
(* Instances of Aggregator for TLC.  Host 1 talks to host 2, which         *)
(* answers; host 1 also sends a datagram and probes the port whose number  *)
(* is the overflow bucket's.                                               *)
(***************************************************************************)
EXTENDS Aggregator, TLC

CONSTANT r1

OneReader == {r1}

Packet(src, dst, sport, dport, tcp, flags, ts) ==
  [src |-> src, dst |-> dst, sport |-> sport, dport |-> dport, tcp |-> tcp,
   flags |-> flags, ts |-> ts]

Syn == Packet(1, 2, 7, 80, TRUE, {"SYN"}, 5)
SynAck == Packet(2, 1, 80, 7, TRUE, {"SYN", "ACK"}, 6)
Query == Packet(1, 2, 7, 53, FALSE, {}, 8)
HighPort == Packet(1, 2, 7, 99, TRUE, {"SYN"}, 9)

Mixed == {Syn, SynAck, Query, HighPort}

ByPort(k) == IF k.portHi = 80 THEN 1 ELSE 2
ByHost(ip) == IF ip = 1 THEN 1 ELSE 2
=============================================================================
