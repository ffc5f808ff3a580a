-------------------------------- MODULE Wire --------------------------------
(***************************************************************************)
(* What crosses between the kernel and user space, byte by byte: the       *)
(* telemetry record (common/src/telemetry.rs written by the program,       *)
(* types/contracts.go read by daemon and monitor), the numbers of reasons  *)
(* and actions, and the keys of the reputation trie.                       *)
(*                                                                         *)
(* An address is the tuple of its four octets in network order, which is   *)
(* how the program keeps it; the host is little-endian.  TLC's integers    *)
(* have 31 bits: a time stamp, and a decoded address, must stay below.     *)
(***************************************************************************)
EXTENDS Integers, Sequences

\* Little-endian bytes of a number.
LE16(n) == <<n % 256, n \div 256>>
LE64(n) == <<n % 256, (n \div 256) % 256, (n \div (256 * 256)) % 256, n \div (256 * 256 * 256), 0, 0, 0, 0>>

Uint16(b) == b[1] + 256 * b[2]
Uint64(b) == b[1] + 256 * (b[2] + 256 * (b[3] + 256 * b[4]))
BigEndianUint32(b) == b[4] + 256 * (b[3] + 256 * (b[2] + 256 * b[1]))

FlagBits == [FIN |-> 1, SYN |-> 2, RST |-> 4, PSH |-> 8, ACK |-> 16, URG |-> 32,
             ECE |-> 64, CWR |-> 128]

\* The flags of the header, each at its bit.
FlagsByte(flags) ==
  LET bit(f) == IF f \in flags THEN FlagBits[f] ELSE 0
  IN  bit("FIN") + bit("SYN") + bit("RST") + bit("PSH") + bit("ACK") + bit("URG")
        + bit("ECE") + bit("CWR")
FlagsOf(byte) == {f \in DOMAIN FlagBits : (byte \div FlagBits[f]) % 2 = 1}

ActionCode == [Drop |-> 1, Pass |-> 2, Tx |-> 3, Redirect |-> 4, WouldDrop |-> 5]

ReasonCode ==
  [None |-> 0, EthParseFailed |-> 1, Ipv4ParseFailed |-> 2, TcpParseFailed |-> 3,
   UdpParseFailed |-> 4, ArpParseFailed |-> 5, MalformedPacket |-> 6,
   RfcLandAttack |-> 10, RfcNullScan |-> 11, RfcSynFin |-> 12, RfcXmasScan |-> 13,
   BlacklistHit |-> 14, PortBlocked |-> 20, RateLimited |-> 21]

\* EVENTS.output: the struct as it lies in memory, without padding.
Output(m) ==
  m.src_ip \o m.dst_ip \o LE16(m.src_port) \o LE16(m.dst_port)
    \o <<m.protocol, FlagsByte(m.tcp_flags), ActionCode[m.action], ReasonCode[m.drop_reason]>>
    \o LE64(m.timestamp_ns)

\* Mutant: addresses are read like every other field.
UnmarshalBinaryLittle(data) ==
  [SrcIP |-> BigEndianUint32(<<data[4], data[3], data[2], data[1]>>),
   DstIP |-> BigEndianUint32(<<data[8], data[7], data[6], data[5]>>),
   SrcPort |-> Uint16(SubSeq(data, 9, 10)), DstPort |-> Uint16(SubSeq(data, 11, 12)),
   Protocol |-> data[13], TCPFlags |-> data[14], Action |-> data[15],
   DropReason |-> data[16], TimestampNS |-> Uint64(SubSeq(data, 17, 24))]

\* FlowPacketMeta.UnmarshalBinary of a record that is long enough.
UnmarshalBinary(data) ==
  [SrcIP |-> BigEndianUint32(SubSeq(data, 1, 4)), DstIP |-> BigEndianUint32(SubSeq(data, 5, 8)),
   SrcPort |-> Uint16(SubSeq(data, 9, 10)), DstPort |-> Uint16(SubSeq(data, 11, 12)),
   Protocol |-> data[13], TCPFlags |-> data[14], Action |-> data[15],
   DropReason |-> data[16], TimestampNS |-> Uint64(SubSeq(data, 17, 24))]

\* SrcIPNet, DstIPNet and the aggregator's u32ToIP.
u32ToIP(v) == <<v \div (256 * 256 * 256), (v \div (256 * 256)) % 256, (v \div 256) % 256, v % 256>>

\* Mutant: the range of the warnings ends with the RFC violations.
SeverityShort(r) ==
  IF r \in 1 .. 9 THEN 4 ELSE IF r \in 10 .. 13 THEN 3 ELSE IF r \in 20 .. 29 THEN 2 ELSE 1

\* DropReason.Severity of the Go side, by ranges.
ReasonSeverity(r) ==
  IF r \in 1 .. 9 THEN 4 ELSE IF r \in 10 .. 19 THEN 3 ELSE IF r \in 20 .. 29 THEN 2 ELSE 1

-----------------------------------------------------------------------------
\* NewLpmKey of an address and of a network; the host bits are left in.
HostKey(ip) == [PrefixLen |-> 32, Addr |-> ip]
NewLpmKey(ip, ones) == [PrefixLen |-> ones, Addr |-> ip]

\* Bit i of an address, the first being 0.
BitWeight == <<128, 64, 32, 16, 8, 4, 2, 1>>
Bit(ip, i) == (ip[i \div 8 + 1] \div BitWeight[(i % 8) + 1]) % 2

\* A trie lookup compares the first PrefixLen bits and no others.
Matches(key, ip) == \A i \in 0 .. key.PrefixLen - 1 : Bit(key.Addr, i) = Bit(ip, i)
=============================================================================
