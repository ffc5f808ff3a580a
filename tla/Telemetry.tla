------------------------------ MODULE Telemetry ------------------------------
(***************************************************************************)
(* The data plane with its wire format: the addresses and rules of         *)
(* DataPlane are given their bytes, and what it reports is followed to     *)
(* what daemon and monitor make of it, and on to the rule the daemon       *)
(* writes back.                                                            *)
(***************************************************************************)
EXTENDS DataPlane, Wire

CONSTANTS
  Octets,   \* host -> its address
  LpmKey    \* key of the trie -> prefix length and address

Byte == {n \in Nat : n < 256}

\* Distinct hosts have distinct addresses of four octets.
ASSUME AddressAssumption ==
  /\ \A h \in Hosts : Octets[h] \in Seq(Byte) /\ Len(Octets[h]) = 4
  /\ \A g, h \in Hosts : Octets[g] = Octets[h] => g = h

ASSUME WireAssumption ==
  /\ Octets[ZeroIP] = <<0, 0, 0, 0>>
  /\ Loopback = {h \in Hosts : Octets[h][1] = 127}
  /\ Covers = [k \in Keys |-> {h \in Hosts : Matches(LpmKey[k], Octets[h])}]

\* No check looks at the source port or the time: one value stands for all.
SrcPort == 51000
TimestampNS == 70000

Protocol(p) == [tcp |-> 6, udp |-> 17, other |-> 1][p.proto]

\* What the program has filled in when it writes the record.
ParsedL3(p) == p.eth_type = "ipv4" /\ p.intact
ParsedL4(p) == ParsedL3(p) /\ ~p.is_fragment /\ p.l4ok /\ p.proto \in {"tcp", "udp"}

Meta(p, e) ==
  [src_ip |-> Octets[e.src_ip],
   dst_ip |-> IF ParsedL3(p) THEN Octets[p.dst_ip] ELSE Octets[ZeroIP],
   src_port |-> IF ParsedL4(p) THEN SrcPort ELSE 0,
   dst_port |-> IF ParsedL4(p) THEN p.dst_port ELSE 0,
   protocol |-> IF ParsedL3(p) THEN Protocol(p) ELSE 0,
   tcp_flags |-> IF ParsedL4(p) /\ p.proto = "tcp" THEN p.flags ELSE {},
   action |-> e.action, drop_reason |-> e.drop_reason, timestamp_ns |-> TimestampNS]

\* The record of the packet at hand as daemon and monitor decode it.
Received == UnmarshalBinary(Output(Meta(pkt, event)))

Reported == pc = "done" /\ event # NoEvent

\* The record arrives: of every reported TCP or UDP packet that is no fragment
\* and whose headers parsed, user space learns the addresses, port and flags
\* the program saw, and whether it was dropped, although the two sides agree
\* on nothing but offsets and numbers (contracts.go:217-234).
RecordArrives ==
  Reported /\ ParsedL4(pkt) =>
    /\ u32ToIP(Received.SrcIP) = Octets[pkt.src_ip]
    /\ u32ToIP(Received.DstIP) = Octets[pkt.dst_ip]
    /\ Received.DstPort = pkt.dst_port /\ Received.SrcPort = SrcPort
    /\ pkt.proto = "tcp" => FlagsOf(Received.TCPFlags) = pkt.flags
    /\ Received.Action = ActionCode.Drop <=> verdict = "DROP"
    /\ Received.TimestampNS = TimestampNS

\* The rule the daemon makes of the source it was told of is one that the
\* program's next lookup for that source hits, and that hits no other host
\* (aggregator u32ToIP, feedback.go BlockIP, contracts.go NewLpmKey).
BlockHitsSource ==
  Reported /\ ParsedL3(pkt) =>
    {h \in Hosts : Matches(HostKey(u32ToIP(Received.SrcIP)), Octets[h])} = {pkt.src_ip}

\* A monitor running at the level in force prints what the program reports:
\* the severity it computes from the number is never below that level
\* (monitor.go:91-98).
MonitorPrintsReported ==
  Reported => \E level \in seenLevels : 0 < level /\ level <= ReasonSeverity(Received.DropReason)
=============================================================================
