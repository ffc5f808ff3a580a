-------------------------- MODULE Telemetry_proofs --------------------------
(***************************************************************************)
(* What user space decodes is what the program wrote, for every address,   *)
(* port, flag, action and reason there is.                                 *)
(***************************************************************************)
EXTENDS Telemetry, DataPlane_proofs, SequenceTheorems

\* A record as the program fills it in.
WireMeta(m) ==
  /\ m.src_ip \in Seq(Byte) /\ Len(m.src_ip) = 4
  /\ m.dst_ip \in Seq(Byte) /\ Len(m.dst_ip) = 4
  /\ m.src_port \in Nat /\ m.dst_port \in Nat
  /\ m.protocol \in Byte
  /\ m.tcp_flags \in SUBSET TcpFlags
  /\ m.action \in {"Pass", "Drop", "WouldDrop"}
  /\ m.drop_reason \in DropReason
  /\ m.timestamp_ns \in Nat

-----------------------------------------------------------------------------
(* The fields, one by one.                                                *)

\* A byte is a number below 256.
LEMMA ByteRange == Byte \subseteq Nat /\ \A v \in Byte : v < 256
BY Zenon DEF Byte

\* The flags are recovered from their byte.
LEMMA FlagsRoundTrip ==
  ASSUME NEW flags \in SUBSET TcpFlags
  PROVE  FlagsOf(FlagsByte(flags)) = flags /\ FlagsByte(flags) \in Byte
<1> DEFINE bit(f) == IF f \in flags THEN FlagBits[f] ELSE 0
<1>a. PICK a \in {0, 1} : a = bit("FIN") /\ (a = 1 <=> "FIN" \in flags)
  BY DEF FlagBits
<1>b. PICK b \in {0, 2} : b = bit("SYN") /\ (b = 2 <=> "SYN" \in flags)
  BY DEF FlagBits
<1>c. PICK c \in {0, 4} : c = bit("RST") /\ (c = 4 <=> "RST" \in flags)
  BY DEF FlagBits
<1>d. PICK d \in {0, 8} : d = bit("PSH") /\ (d = 8 <=> "PSH" \in flags)
  BY DEF FlagBits
<1>e. PICK e \in {0, 16} : e = bit("ACK") /\ (e = 16 <=> "ACK" \in flags)
  BY DEF FlagBits
<1>f. PICK f \in {0, 32} : f = bit("URG") /\ (f = 32 <=> "URG" \in flags)
  BY DEF FlagBits
<1>g. PICK g \in {0, 64} : g = bit("ECE") /\ (g = 64 <=> "ECE" \in flags)
  BY DEF FlagBits
<1>h. PICK h \in {0, 128} : h = bit("CWR") /\ (h = 128 <=> "CWR" \in flags)
  BY DEF FlagBits
<1>v. PICK v \in Int : v = FlagsByte(flags) /\ v = a + b + c + d + e + f + g + h
  BY <1>a, <1>b, <1>c, <1>d, <1>e, <1>f, <1>g, <1>h DEF FlagsByte
<1> HIDE DEF bit
<1>w. v \in Int /\ v = a + b + c + d + e + f + g + h
  BY <1>v
<1>x. /\ a \in {0, 1} /\ b \in {0, 2} /\ c \in {0, 4} /\ d \in {0, 8} /\ e \in {0, 16}
      /\ f \in {0, 32} /\ g \in {0, 64} /\ h \in {0, 128}
  OBVIOUS
<1>1. /\ v \in 0 .. 255
      /\ (v \div 1) % 2 = 1 <=> a = 1
      /\ (v \div 2) % 2 = 1 <=> b = 2
      /\ (v \div 4) % 2 = 1 <=> c = 4
      /\ (v \div 8) % 2 = 1 <=> d = 8
      /\ (v \div 16) % 2 = 1 <=> e = 16
      /\ (v \div 32) % 2 = 1 <=> f = 32
      /\ (v \div 64) % 2 = 1 <=> g = 64
      /\ (v \div 128) % 2 = 1 <=> h = 128
  BY ONLY <1>w, <1>x, SMTT(60)
<1>2. DOMAIN FlagBits = TcpFlags
  BY DEF FlagBits, TcpFlags
<1>3. ASSUME NEW x \in TcpFlags PROVE (v \div FlagBits[x]) % 2 = 1 <=> x \in flags
  BY <1>1, <1>a, <1>b, <1>c, <1>d, <1>e, <1>f, <1>g, <1>h DEF FlagBits, TcpFlags
<1> QED
  BY <1>v, <1>1, <1>2, <1>3 DEF FlagsOf, Byte

\* An address is recovered from its number.
LEMMA AddressRoundTrip ==
  ASSUME NEW b \in Seq(Byte), Len(b) = 4
  PROVE  u32ToIP(BigEndianUint32(b)) = b
<1>a. b[1] \in Byte /\ b[2] \in Byte /\ b[3] \in Byte /\ b[4] \in Byte
  <2>1. \A i \in 1 .. Len(b) : b[i] \in Byte
    OBVIOUS
  <2> QED
    BY <2>1
<1>p. PICK p \in Nat : p = b[1] /\ p < 256
  BY <1>a, ByteRange, Zenon
<1>q. PICK q \in Nat : q = b[2] /\ q < 256
  BY <1>a, ByteRange, Zenon
<1>r. PICK r \in Nat : r = b[3] /\ r < 256
  BY <1>a, ByteRange, Zenon
<1>t. PICK t \in Nat : t = b[4] /\ t < 256
  BY <1>a, ByteRange, Zenon
<1>b. PICK v \in Int : v = BigEndianUint32(b) /\ v = t + 256 * (r + 256 * (q + 256 * p))
  <2>1. BigEndianUint32(b) = t + 256 * (r + 256 * (q + 256 * p))
    BY <1>p, <1>q, <1>r, <1>t, Zenon DEF BigEndianUint32
  <2>2. t + 256 * (r + 256 * (q + 256 * p)) \in Int
    BY SMT
  <2> QED
    BY <2>1, <2>2, Zenon
<1> DEFINE qp == q + 256 * p
           rqp == r + 256 * qp
           low2 == t + 256 * r
           rq == r + 256 * q
           low3 == t + 256 * rq
<1>1. v = t + 256 * rqp
  BY <1>b, SMT
<1>2. v = low2 + 65536 * qp
  BY <1>b, SMT
<1>3. v = low3 + 16777216 * p
  BY <1>b, SMT
<1> HIDE DEF qp, rqp, low2, rq, low3
<1>4. qp \in Nat 
  BY ONLY <1>p, <1>q, SMT DEF qp
<1>5. rqp \in Nat
  BY ONLY <1>r, <1>4, SMT DEF rqp
<1>6. low2 \in Nat /\ low2 < 65536
  BY ONLY <1>r, <1>t, SMT DEF low2
<1>7. rq \in Nat /\ rq < 65536
  BY ONLY <1>r, <1>q, SMT DEF rq
<1>8. low3 \in Nat /\ low3 < 16777216
  BY ONLY <1>t, <1>7, SMT DEF low3
<1>9. qp % 256 = q
  BY ONLY <1>p, <1>q, SMT DEF qp
<1>10. rqp % 256 = r
  BY ONLY <1>4, <1>r, SMT DEF rqp
<1>11. v % 256 = t
  BY ONLY <1>1, <1>5, <1>t, SMT
<1>12. v \div 256 = rqp
  BY ONLY <1>1, <1>5, <1>t, SMT
<1>13. v \div 65536 = qp
  BY ONLY <1>2, <1>4, <1>6, SMT
<1>14. v \div 16777216 = p
  BY ONLY <1>3, <1>p, <1>8, SMT
<1>15. u32ToIP(v) = <<p, q, r, t>>
  BY <1>9, <1>10, <1>11, <1>12, <1>13, <1>14, SMT DEF u32ToIP
<1>16. <<b[1], b[2], b[3], b[4]>> = b
  OBVIOUS
<1> QED
  BY <1>15, <1>16, <1>b, <1>p, <1>q, <1>r, <1>t, Zenon

\* A port is recovered from its two bytes, a time stamp from its eight.
LEMMA PortRoundTrip ==
  ASSUME NEW n \in Nat
  PROVE  LE16(n) \in Seq(Nat) /\ Len(LE16(n)) = 2 /\ LE16(n)[1] + 256 * LE16(n)[2] = n
<1>1. n % 256 \in Nat /\ n \div 256 \in Nat /\ (n % 256) + 256 * (n \div 256) = n
  BY SMT
<1> QED
  BY <1>1 DEF LE16

\* So does a time stamp.
LEMMA TimeRoundTrip ==
  ASSUME NEW n \in Nat
  PROVE  /\ LE64(n) \in Seq(Nat) /\ Len(LE64(n)) = 8
         /\ LE64(n)[1] + 256 * (LE64(n)[2] + 256 * (LE64(n)[3] + 256 * LE64(n)[4])) = n
<1>a. PICK a \in Nat : a = n \div 256 /\ n = (n % 256) + 256 * a
  BY SMT
<1>b. PICK b \in Nat : b = a \div 256 /\ a = (a % 256) + 256 * b
  BY SMT
<1>c. PICK c \in Nat : c = b \div 256 /\ b = (b % 256) + 256 * c
  BY SMT
<1>1. n \div (256 * 256) = b
  BY <1>a, <1>b, SMT
<1>2. n \div (256 * 256 * 256) = c
  BY <1>a, <1>b, <1>c, SMT
<1>3. LE64(n) = <<n % 256, a % 256, b % 256, c, 0, 0, 0, 0>>
  BY <1>a, <1>1, <1>2, Zenon DEF LE64
<1>4. n % 256 \in Nat /\ a % 256 \in Nat /\ b % 256 \in Nat
  BY SMT
<1>5. (n % 256) + 256 * ((a % 256) + 256 * ((b % 256) + 256 * c)) = n
  BY <1>a, <1>b, <1>c, <1>4, SMT
<1> QED
  BY <1>3, <1>4, <1>5

-----------------------------------------------------------------------------
(* The layout of the record.                                               *)

\* The codes are numbers.
LEMMA Codes ==
  /\ \A a \in {"Pass", "Drop", "WouldDrop"} : ActionCode[a] \in Nat
  /\ \A r \in DropReason : ReasonCode[r] \in Nat
<1>1. \A a \in {"Pass", "Drop", "WouldDrop"} : ActionCode[a] \in Nat
  BY DEF ActionCode
<1>2. \A r \in DropReason : ReasonCode[r] \in Nat
  BY DEF ReasonCode, DropReason, ParseReasons, RfcReasons, PolicyReasons
<1> QED
  BY <1>1, <1>2

\* Where each field lies, as the offsets of contracts.go have it.
LEMMA Layout ==
  ASSUME NEW m, WireMeta(m)
  PROVE  /\ Output(m) \in Seq(Nat) /\ Len(Output(m)) = 24
         /\ \A i \in 1 .. 4 : Output(m)[i] = m.src_ip[i]
         /\ \A i \in 1 .. 4 : Output(m)[4 + i] = m.dst_ip[i]
         /\ \A i \in 1 .. 2 : Output(m)[8 + i] = LE16(m.src_port)[i]
         /\ \A i \in 1 .. 2 : Output(m)[10 + i] = LE16(m.dst_port)[i]
         /\ Output(m)[13] = m.protocol
         /\ Output(m)[14] = FlagsByte(m.tcp_flags)
         /\ Output(m)[15] = ActionCode[m.action]
         /\ Output(m)[16] = ReasonCode[m.drop_reason]
         /\ \A i \in 1 .. 8 : Output(m)[16 + i] = LE64(m.timestamp_ns)[i]
<1> DEFINE c1 == m.src_ip
           c2 == m.dst_ip
           c3 == LE16(m.src_port)
           c4 == LE16(m.dst_port)
           c5 == <<m.protocol, FlagsByte(m.tcp_flags), ActionCode[m.action],
                   ReasonCode[m.drop_reason]>>
           c6 == LE64(m.timestamp_ns)
           d2 == c1 \o c2
           d3 == d2 \o c3
           d4 == d3 \o c4
           d5 == d4 \o c5
           d6 == d5 \o c6
<1>0. Output(m) = d6
  BY Zenon DEF Output
<1>a. /\ c1 \in Seq(Byte) /\ Len(c1) = 4 /\ c2 \in Seq(Byte) /\ Len(c2) = 4
      /\ m.src_port \in Nat /\ m.dst_port \in Nat /\ m.timestamp_ns \in Nat
      /\ m.protocol \in Byte /\ m.tcp_flags \in SUBSET TcpFlags
      /\ m.action \in {"Pass", "Drop", "WouldDrop"} /\ m.drop_reason \in DropReason
  BY Zenon DEF WireMeta
<1>b. Byte \subseteq Nat
  BY ByteRange, Zenon
<1>3. c3 \in Seq(Nat) /\ Len(c3) = 2 /\ c4 \in Seq(Nat) /\ Len(c4) = 2
  BY <1>a, PortRoundTrip, Zenon
<1>5. /\ c5 \in Seq(Nat) /\ Len(c5) = 4 /\ c5[1] = m.protocol /\ c5[2] = FlagsByte(m.tcp_flags)
      /\ c5[3] = ActionCode[m.action] /\ c5[4] = ReasonCode[m.drop_reason]
  <2>1. m.protocol \in Nat /\ FlagsByte(m.tcp_flags) \in Nat
    BY <1>a, <1>b, FlagsRoundTrip, Zenon
  <2>2. ActionCode[m.action] \in Nat /\ ReasonCode[m.drop_reason] \in Nat
    BY <1>a, Codes, Zenon
  <2> QED
    BY ONLY <2>1, <2>2 DEF c5
<1>6. c6 \in Seq(Nat) /\ Len(c6) = 8
  BY <1>a, TimeRoundTrip, Zenon
<1> HIDE DEF c1, c2, c3, c4, c5, c6
<1>1. c1 \in Seq(Nat) /\ Len(c1) = 4 /\ c2 \in Seq(Nat) /\ Len(c2) = 4
  BY <1>a, <1>b, SeqMonotonic, Zenon
<1>d2. /\ d2 \in Seq(Nat) /\ Len(d2) = 8
       /\ \A i \in 1 .. 4 : d2[i] = c1[i]
       /\ \A i \in 1 .. 4 : d2[4 + i] = c2[i]
  <2>1. d2 \in Seq(Nat)
    BY <1>1, ConcatProperties, Zenon
  <2>2. Len(d2) = Len(c1) + Len(c2)
    BY <1>1, ConcatProperties, Zenon
  <2>3. \A i \in 1 .. Len(c1) + Len(c2) :
           d2[i] = IF i <= Len(c1) THEN c1[i] ELSE c2[i - Len(c1)]
    BY <1>1, ConcatProperties, Zenon
  <2> HIDE DEF d2
  <2> QED
    BY ONLY <1>1, <2>1, <2>2, <2>3, SMT
<1> HIDE DEF d2
<1>d3. /\ d3 \in Seq(Nat) /\ Len(d3) = 10
       /\ \A i \in 1 .. 8 : d3[i] = d2[i]
       /\ \A i \in 1 .. 2 : d3[8 + i] = c3[i]
  <2>1. d3 \in Seq(Nat)
    BY <1>3, <1>d2, ConcatProperties, Zenon
  <2>2. Len(d3) = Len(d2) + Len(c3)
    BY <1>3, <1>d2, ConcatProperties, Zenon
  <2>3. \A i \in 1 .. Len(d2) + Len(c3) :
           d3[i] = IF i <= Len(d2) THEN d2[i] ELSE c3[i - Len(d2)]
    BY <1>3, <1>d2, ConcatProperties, Zenon
  <2> HIDE DEF d3
  <2> QED
    BY ONLY <1>3, <1>d2, <2>1, <2>2, <2>3, SMT
<1> HIDE DEF d3
<1>d4. /\ d4 \in Seq(Nat) /\ Len(d4) = 12
       /\ \A i \in 1 .. 10 : d4[i] = d3[i]
       /\ \A i \in 1 .. 2 : d4[10 + i] = c4[i]
  <2>1. d4 \in Seq(Nat)
    BY <1>3, <1>d3, ConcatProperties, Zenon
  <2>2. Len(d4) = Len(d3) + Len(c4)
    BY <1>3, <1>d3, ConcatProperties, Zenon
  <2>3. \A i \in 1 .. Len(d3) + Len(c4) :
           d4[i] = IF i <= Len(d3) THEN d3[i] ELSE c4[i - Len(d3)]
    BY <1>3, <1>d3, ConcatProperties, Zenon
  <2> HIDE DEF d4
  <2> QED
    BY ONLY <1>3, <1>d3, <2>1, <2>2, <2>3, SMT
<1> HIDE DEF d4
<1>d5. /\ d5 \in Seq(Nat) /\ Len(d5) = 16
       /\ \A i \in 1 .. 12 : d5[i] = d4[i]
       /\ \A i \in 1 .. 4 : d5[12 + i] = c5[i]
  <2>1. d5 \in Seq(Nat)
    BY <1>5, <1>d4, ConcatProperties, Zenon
  <2>2. Len(d5) = Len(d4) + Len(c5)
    BY <1>5, <1>d4, ConcatProperties, Zenon
  <2>3. \A i \in 1 .. Len(d4) + Len(c5) :
           d5[i] = IF i <= Len(d4) THEN d4[i] ELSE c5[i - Len(d4)]
    BY <1>5, <1>d4, ConcatProperties, Zenon
  <2> HIDE DEF d5
  <2> QED
    BY ONLY <1>5, <1>d4, <2>1, <2>2, <2>3, SMT
<1> HIDE DEF d5
<1>d6. /\ d6 \in Seq(Nat) /\ Len(d6) = 24
       /\ \A i \in 1 .. 16 : d6[i] = d5[i]
       /\ \A i \in 1 .. 8 : d6[16 + i] = c6[i]
  <2>1. d6 \in Seq(Nat)
    BY <1>6, <1>d5, ConcatProperties, Zenon
  <2>2. Len(d6) = Len(d5) + Len(c6)
    BY <1>6, <1>d5, ConcatProperties, Zenon
  <2>3. \A i \in 1 .. Len(d5) + Len(c6) :
           d6[i] = IF i <= Len(d5) THEN d5[i] ELSE c6[i - Len(d5)]
    BY <1>6, <1>d5, ConcatProperties, Zenon
  <2> HIDE DEF d6
  <2> QED
    BY ONLY <1>6, <1>d5, <2>1, <2>2, <2>3, SMT
<1> HIDE DEF d6
<1>7. ASSUME NEW i \in 1 .. 4 PROVE d6[i] = c1[i] /\ d6[4 + i] = c2[i]
  <2>1. /\ i \in 1 .. 8 /\ i \in 1 .. 10 /\ i \in 1 .. 12 /\ i \in 1 .. 16
        /\ 4 + i \in 1 .. 8 /\ 4 + i \in 1 .. 10 /\ 4 + i \in 1 .. 12 /\ 4 + i \in 1 .. 16
    BY <1>7, SMT
  <2>2. d6[i] = d5[i] /\ d5[i] = d4[i] /\ d4[i] = d3[i] /\ d3[i] = d2[i] /\ d2[i] = c1[i]
    BY <1>7, <2>1, <1>d2, <1>d3, <1>d4, <1>d5, <1>d6, Zenon
  <2>3. /\ d6[4 + i] = d5[4 + i] /\ d5[4 + i] = d4[4 + i] /\ d4[4 + i] = d3[4 + i]
        /\ d3[4 + i] = d2[4 + i] /\ d2[4 + i] = c2[i]
    BY <1>7, <2>1, <1>d2, <1>d3, <1>d4, <1>d5, <1>d6, Zenon
  <2> QED
    BY <2>2, <2>3, Zenon
<1>8. ASSUME NEW i \in 1 .. 2 PROVE d6[8 + i] = c3[i] /\ d6[10 + i] = c4[i]
  <2>1. /\ 8 + i \in 1 .. 10 /\ 8 + i \in 1 .. 12 /\ 8 + i \in 1 .. 16
        /\ 10 + i \in 1 .. 12 /\ 10 + i \in 1 .. 16
    BY <1>8, SMT
  <2>2. d6[8 + i] = d5[8 + i] /\ d5[8 + i] = d4[8 + i] /\ d4[8 + i] = d3[8 + i] /\ d3[8 + i] = c3[i]
    BY <1>8, <2>1, <1>d3, <1>d4, <1>d5, <1>d6, Zenon
  <2>3. d6[10 + i] = d5[10 + i] /\ d5[10 + i] = d4[10 + i] /\ d4[10 + i] = c4[i]
    BY <1>8, <2>1, <1>d4, <1>d5, <1>d6, Zenon
  <2> QED
    BY <2>2, <2>3, Zenon
<1>9. d6[13] = c5[1] /\ d6[14] = c5[2] /\ d6[15] = c5[3] /\ d6[16] = c5[4]
  <2>1. ASSUME NEW i \in 1 .. 4 PROVE d6[12 + i] = c5[i]
    <3>1. 12 + i \in 1 .. 16
      BY <2>1, SMT
    <3> QED
      BY <2>1, <3>1, <1>d5, <1>d6, Zenon
  <2> QED
    BY <2>1
<1> QED
  BY <1>0, <1>5, <1>d6, <1>7, <1>8, <1>9 DEF c1, c2, c3, c4, c6

\* The slices of a record that UnmarshalBinary takes.
LEMMA Slices ==
  ASSUME NEW d \in Seq(Nat), Len(d) = 24
  PROVE  /\ SubSeq(d, 1, 4) \in Seq(Nat) /\ Len(SubSeq(d, 1, 4)) = 4
         /\ \A i \in 1 .. 4 : SubSeq(d, 1, 4)[i] = d[i]
         /\ SubSeq(d, 5, 8) \in Seq(Nat) /\ Len(SubSeq(d, 5, 8)) = 4
         /\ \A i \in 1 .. 4 : SubSeq(d, 5, 8)[i] = d[4 + i]
         /\ \A i \in 1 .. 2 : SubSeq(d, 9, 10)[i] = d[8 + i]
         /\ \A i \in 1 .. 2 : SubSeq(d, 11, 12)[i] = d[10 + i]
         /\ \A i \in 1 .. 8 : SubSeq(d, 17, 24)[i] = d[16 + i]
<1>0. \A i \in 1 .. Len(d) : d[i] \in Nat
  BY ElementOfSeq, Zenon
<1>1. /\ SubSeq(d, 1, 4) \in Seq(Nat) /\ Len(SubSeq(d, 1, 4)) = 4
      /\ \A i \in 1 .. 4 : SubSeq(d, 1, 4)[i] = d[i]
  <2>1. ASSUME NEW i \in 1 .. 4 PROVE d[i] \in Nat
    <3>1. i \in 1 .. 24
      BY <2>1, SMT
    <3> QED
      BY <1>0, <3>1, Zenon
  <2> QED
    BY <2>1, SMT
<1>2. /\ SubSeq(d, 5, 8) \in Seq(Nat) /\ Len(SubSeq(d, 5, 8)) = 4
      /\ \A i \in 1 .. 4 : SubSeq(d, 5, 8)[i] = d[4 + i]
  <2>1. ASSUME NEW i \in 5 .. 8 PROVE d[i] \in Nat
    <3>1. i \in 1 .. 24
      BY <2>1, SMT
    <3> QED
      BY <1>0, <3>1, Zenon
  <2> QED
    BY <2>1, SMT
<1>3. /\ SubSeq(d, 9, 10) \in Seq(Nat) /\ Len(SubSeq(d, 9, 10)) = 2
      /\ \A i \in 1 .. 2 : SubSeq(d, 9, 10)[i] = d[8 + i]
  <2>1. ASSUME NEW i \in 9 .. 10 PROVE d[i] \in Nat
    <3>1. i \in 1 .. 24
      BY <2>1, SMT
    <3> QED
      BY <1>0, <3>1, Zenon
  <2> QED
    BY <2>1, SMT
<1>4. /\ SubSeq(d, 11, 12) \in Seq(Nat) /\ Len(SubSeq(d, 11, 12)) = 2
      /\ \A i \in 1 .. 2 : SubSeq(d, 11, 12)[i] = d[10 + i]
  <2>1. ASSUME NEW i \in 11 .. 12 PROVE d[i] \in Nat
    <3>1. i \in 1 .. 24
      BY <2>1, SMT
    <3> QED
      BY <1>0, <3>1, Zenon
  <2> QED
    BY <2>1, SMT
<1>5. /\ SubSeq(d, 17, 24) \in Seq(Nat) /\ Len(SubSeq(d, 17, 24)) = 8
      /\ \A i \in 1 .. 8 : SubSeq(d, 17, 24)[i] = d[16 + i]
  <2>1. ASSUME NEW i \in 17 .. 24 PROVE d[i] \in Nat
    <3>1. i \in 1 .. 24
      BY <2>1, SMT
    <3> QED
      BY <1>0, <3>1, Zenon
  <2> QED
    BY <2>1, SMT
<1> QED
  BY <1>1, <1>2, <1>3, <1>4, <1>5, Zenon

\* What user space reads in each field is what the program wrote there.
LEMMA Decoded ==
  ASSUME NEW m, WireMeta(m)
  PROVE  LET r == UnmarshalBinary(Output(m))
         IN  /\ u32ToIP(r.SrcIP) = m.src_ip /\ u32ToIP(r.DstIP) = m.dst_ip
             /\ r.SrcPort = m.src_port /\ r.DstPort = m.dst_port
             /\ FlagsOf(r.TCPFlags) = m.tcp_flags
             /\ r.Action = ActionCode[m.action]
             /\ r.DropReason = ReasonCode[m.drop_reason]
             /\ r.TimestampNS = m.timestamp_ns
<1> DEFINE d == Output(m)
<1>a. /\ m.src_ip \in Seq(Byte) /\ Len(m.src_ip) = 4 /\ m.dst_ip \in Seq(Byte) /\ Len(m.dst_ip) = 4
      /\ m.src_port \in Nat /\ m.dst_port \in Nat /\ m.timestamp_ns \in Nat
      /\ m.tcp_flags \in SUBSET TcpFlags
  BY Zenon DEF WireMeta
<1>b. /\ d \in Seq(Nat) /\ Len(d) = 24
      /\ \A i \in 1 .. 4 : d[i] = m.src_ip[i]
      /\ \A i \in 1 .. 4 : d[4 + i] = m.dst_ip[i]
      /\ \A i \in 1 .. 2 : d[8 + i] = LE16(m.src_port)[i]
      /\ \A i \in 1 .. 2 : d[10 + i] = LE16(m.dst_port)[i]
      /\ d[14] = FlagsByte(m.tcp_flags)
      /\ d[15] = ActionCode[m.action]
      /\ d[16] = ReasonCode[m.drop_reason]
      /\ \A i \in 1 .. 8 : d[16 + i] = LE64(m.timestamp_ns)[i]
  BY Layout, Zenon
<1> HIDE DEF d
<1>c. Byte \subseteq Nat
  BY ByteRange, Zenon
<1>d. 1 \in 1 .. 2 /\ 2 \in 1 .. 2 /\ 1 \in 1 .. 8 /\ 2 \in 1 .. 8 /\ 3 \in 1 .. 8 /\ 4 \in 1 .. 8
  OBVIOUS
<1>1. SubSeq(d, 1, 4) = m.src_ip
  <2>1. m.src_ip \in Seq(Nat) /\ SubSeq(d, 1, 4) \in Seq(Nat)
    BY <1>a, <1>b, <1>c, SeqMonotonic, Slices, Zenon
  <2>2. Len(SubSeq(d, 1, 4)) = 4 /\ \A i \in 1 .. 4 : SubSeq(d, 1, 4)[i] = m.src_ip[i]
    BY <1>b, Slices, Zenon
  <2> QED
    BY <1>a, <2>1, <2>2, SeqEqual, Zenon
<1>2. SubSeq(d, 5, 8) = m.dst_ip
  <2>1. m.dst_ip \in Seq(Nat) /\ SubSeq(d, 5, 8) \in Seq(Nat)
    BY <1>a, <1>b, <1>c, SeqMonotonic, Slices, Zenon
  <2>2. Len(SubSeq(d, 5, 8)) = 4 /\ \A i \in 1 .. 4 : SubSeq(d, 5, 8)[i] = m.dst_ip[i]
    BY <1>b, Slices, Zenon
  <2> QED
    BY <1>a, <2>1, <2>2, SeqEqual, Zenon
<1>3. Uint16(SubSeq(d, 9, 10)) = m.src_port
  <2>1. \A i \in 1 .. 2 : SubSeq(d, 9, 10)[i] = LE16(m.src_port)[i]
    BY <1>b, Slices, Zenon
  <2>2. LE16(m.src_port)[1] + 256 * LE16(m.src_port)[2] = m.src_port
    BY <1>a, PortRoundTrip, Zenon
  <2>3. SubSeq(d, 9, 10)[1] = LE16(m.src_port)[1] /\ SubSeq(d, 9, 10)[2] = LE16(m.src_port)[2]
    BY <1>d, <2>1, Zenon
  <2> QED
    BY <2>2, <2>3, Zenon DEF Uint16
<1>4. Uint16(SubSeq(d, 11, 12)) = m.dst_port
  <2>1. \A i \in 1 .. 2 : SubSeq(d, 11, 12)[i] = LE16(m.dst_port)[i]
    BY <1>b, Slices, Zenon
  <2>2. LE16(m.dst_port)[1] + 256 * LE16(m.dst_port)[2] = m.dst_port
    BY <1>a, PortRoundTrip, Zenon
  <2>3. SubSeq(d, 11, 12)[1] = LE16(m.dst_port)[1] /\ SubSeq(d, 11, 12)[2] = LE16(m.dst_port)[2]
    BY <1>d, <2>1, Zenon
  <2> QED
    BY <2>2, <2>3, Zenon DEF Uint16
<1>5. Uint64(SubSeq(d, 17, 24)) = m.timestamp_ns
  <2> DEFINE c == LE64(m.timestamp_ns)
             e == SubSeq(d, 17, 24)
  <2>1. \A i \in 1 .. 8 : e[i] = c[i]
    BY <1>b, Slices, Zenon
  <2>2. c[1] + 256 * (c[2] + 256 * (c[3] + 256 * c[4])) = m.timestamp_ns
    BY <1>a, TimeRoundTrip, Zenon
  <2> HIDE DEF c, e
  <2>3. e[1] = c[1] /\ e[2] = c[2] /\ e[3] = c[3] /\ e[4] = c[4]
    BY <1>d, <2>1, Zenon
  <2> QED
    BY <2>2, <2>3, Zenon DEF Uint64, e
<1>6. u32ToIP(BigEndianUint32(m.src_ip)) = m.src_ip /\ u32ToIP(BigEndianUint32(m.dst_ip)) = m.dst_ip
  BY <1>a, AddressRoundTrip, Zenon
<1>7. FlagsOf(d[14]) = m.tcp_flags
  BY <1>a, <1>b, FlagsRoundTrip, Zenon
<1>8. UnmarshalBinary(d) =
        [SrcIP |-> BigEndianUint32(m.src_ip), DstIP |-> BigEndianUint32(m.dst_ip),
         SrcPort |-> m.src_port, DstPort |-> m.dst_port,
         Protocol |-> d[13], TCPFlags |-> d[14], Action |-> d[15],
         DropReason |-> d[16], TimestampNS |-> m.timestamp_ns]
  BY <1>1, <1>2, <1>3, <1>4, <1>5, Zenon DEF UnmarshalBinary
<1>9. LET r == UnmarshalBinary(d)
      IN  /\ r.SrcIP = BigEndianUint32(m.src_ip) /\ r.DstIP = BigEndianUint32(m.dst_ip)
          /\ r.SrcPort = m.src_port /\ r.DstPort = m.dst_port
          /\ r.TCPFlags = d[14] /\ r.Action = d[15] /\ r.DropReason = d[16]
          /\ r.TimestampNS = m.timestamp_ns
  BY <1>8
<1> QED
  BY <1>6, <1>7, <1>9, <1>b, Zenon DEF d

-----------------------------------------------------------------------------
(* The reports of the data plane.                                          *)

\* What is reported of a packet is a record as the wire has it.
LEMMA MetaOnWire == TInv /\ Reported => WireMeta(Meta(pkt, event))
<1> SUFFICES ASSUME TInv, Reported PROVE WireMeta(Meta(pkt, event))
  OBVIOUS
<1>1. pkt \in Packet
  BY DEF TInv, CellType
<1>2. event = [src_ip |-> MetaSrc(pkt), action |-> telemetry, drop_reason |-> drop_reason]
  BY DEF TInv, EventOfPacket, Reported
<1>3. /\ event.src_ip = MetaSrc(pkt) /\ event.action = telemetry
      /\ event.drop_reason = drop_reason
  BY <1>2
<1>4. telemetry \in {"Pass", "Drop", "WouldDrop"} /\ drop_reason \in DropReason
  BY Zenon DEF TInv, OutcomeTypes
<1>5. /\ pkt.src_ip \in Hosts /\ pkt.dst_ip \in Hosts /\ pkt.dst_port \in Ports
      /\ pkt.flags \in SUBSET TcpFlags /\ pkt.proto \in {"tcp", "udp", "other"}
  BY <1>1 DEF Packet
<1>6. MetaSrc(pkt) \in Hosts /\ ZeroIP \in Hosts /\ Ports \subseteq Nat
  <2>1. ZeroIP \in Hosts
    BY DataPlaneAssumption, SMT
  <2>2. ASSUME NEW p \in Ports PROVE p \in Nat
    BY <2>2, DataPlaneAssumption, SMT
  <2> QED
    BY <1>5, <2>1, <2>2, Zenon DEF MetaSrc
<1> DEFINE m == Meta(pkt, event)
<1>7. /\ m.src_ip = Octets[MetaSrc(pkt)]
      /\ m.dst_ip \in {Octets[pkt.dst_ip], Octets[ZeroIP]}
      /\ m.src_port \in {SrcPort, 0}
      /\ m.dst_port \in {pkt.dst_port, 0}
      /\ m.protocol \in {Protocol(pkt), 0}
      /\ m.tcp_flags \in {pkt.flags, {}}
      /\ m.action = telemetry /\ m.drop_reason = drop_reason
      /\ m.timestamp_ns = TimestampNS
  BY <1>3 DEF Meta
<1> HIDE DEF m
<1>8. \A h \in Hosts : Octets[h] \in Seq(Byte) /\ Len(Octets[h]) = 4
  BY AddressAssumption, Zenon DEF Byte
<1>9. m.src_port \in Nat /\ m.dst_port \in Nat /\ m.timestamp_ns \in Nat
  <2>1. SrcPort \in Nat /\ 0 \in Nat /\ TimestampNS \in Nat
    BY SMT DEF SrcPort, TimestampNS
  <2> QED
    BY <1>5, <1>6, <1>7, <2>1, Zenon
<1>10. m.protocol \in Byte
  BY <1>5, <1>7, SMT DEF Protocol, Byte
<1>11. m.tcp_flags \in SUBSET TcpFlags
  BY <1>5, <1>7, Zenon
<1>12. m.src_ip \in Seq(Byte) /\ Len(m.src_ip) = 4 /\ m.dst_ip \in Seq(Byte) /\ Len(m.dst_ip) = 4
  BY <1>5, <1>6, <1>7, <1>8, Zenon
<1> QED
  BY <1>4, <1>7, <1>9, <1>10, <1>11, <1>12, Zenon DEF WireMeta, m

\* The decoded record, in terms of the packet.
LEMMA ReceivedFields ==
  TInv /\ Reported =>
    /\ u32ToIP(Received.SrcIP) = Octets[MetaSrc(pkt)]
    /\ Received.Action = ActionCode[telemetry]
    /\ Received.DropReason = ReasonCode[drop_reason]
    /\ Received.TimestampNS = TimestampNS
    /\ ParsedL4(pkt) =>
         /\ u32ToIP(Received.DstIP) = Octets[pkt.dst_ip]
         /\ Received.SrcPort = SrcPort /\ Received.DstPort = pkt.dst_port
         /\ pkt.proto = "tcp" => FlagsOf(Received.TCPFlags) = pkt.flags
<1> SUFFICES ASSUME TInv, Reported
             PROVE  /\ u32ToIP(Received.SrcIP) = Octets[MetaSrc(pkt)]
                    /\ Received.Action = ActionCode[telemetry]
                    /\ Received.DropReason = ReasonCode[drop_reason]
                    /\ Received.TimestampNS = TimestampNS
                    /\ ParsedL4(pkt) =>
                         /\ u32ToIP(Received.DstIP) = Octets[pkt.dst_ip]
                         /\ Received.SrcPort = SrcPort /\ Received.DstPort = pkt.dst_port
                         /\ pkt.proto = "tcp" => FlagsOf(Received.TCPFlags) = pkt.flags
  OBVIOUS
<1> DEFINE m == Meta(pkt, event)
<1>1. WireMeta(m)
  BY MetaOnWire
<1>2. /\ event.src_ip = MetaSrc(pkt) /\ event.action = telemetry
      /\ event.drop_reason = drop_reason
  <2>1. event = [src_ip |-> MetaSrc(pkt), action |-> telemetry, drop_reason |-> drop_reason]
    BY DEF TInv, EventOfPacket, Reported
  <2> QED
    BY <2>1
<1>3. /\ m.src_ip = Octets[MetaSrc(pkt)] /\ m.action = telemetry
      /\ m.drop_reason = drop_reason /\ m.timestamp_ns = TimestampNS
      /\ ParsedL4(pkt) => /\ m.dst_ip = Octets[pkt.dst_ip]
                          /\ m.src_port = SrcPort /\ m.dst_port = pkt.dst_port
                          /\ pkt.proto = "tcp" => m.tcp_flags = pkt.flags
  BY <1>2 DEF Meta, ParsedL4
<1> HIDE DEF m
<1>4. /\ u32ToIP(Received.SrcIP) = m.src_ip /\ u32ToIP(Received.DstIP) = m.dst_ip
      /\ Received.SrcPort = m.src_port /\ Received.DstPort = m.dst_port
      /\ FlagsOf(Received.TCPFlags) = m.tcp_flags
      /\ Received.Action = ActionCode[m.action]
      /\ Received.DropReason = ReasonCode[m.drop_reason]
      /\ Received.TimestampNS = m.timestamp_ns
  BY <1>1, Decoded, Zenon DEF Received, m
<1> QED
  BY <1>3, <1>4, Zenon

\* A byte is the sum of its bits.
LEMMA ByteOfBits ==
  ASSUME NEW n \in Nat, n < 256
  PROVE  n = 128 * ((n \div 128) % 2) + 64 * ((n \div 64) % 2) + 32 * ((n \div 32) % 2)
               + 16 * ((n \div 16) % 2) + 8 * ((n \div 8) % 2) + 4 * ((n \div 4) % 2)
               + 2 * ((n \div 2) % 2) + ((n \div 1) % 2)
<1>a. PICK a \in Nat, r0 \in {0, 1} : a = n \div 2 /\ r0 = n % 2 /\ n = 2 * a + r0
  BY SMT
<1>b. PICK b \in Nat, r1 \in {0, 1} : b = a \div 2 /\ r1 = a % 2 /\ a = 2 * b + r1
  BY SMT
<1>c. PICK c \in Nat, r2 \in {0, 1} : c = b \div 2 /\ r2 = b % 2 /\ b = 2 * c + r2
  BY SMT
<1>d. PICK d \in Nat, r3 \in {0, 1} : d = c \div 2 /\ r3 = c % 2 /\ c = 2 * d + r3
  BY SMT
<1>e. PICK e \in Nat, r4 \in {0, 1} : e = d \div 2 /\ r4 = d % 2 /\ d = 2 * e + r4
  BY SMT
<1>f. PICK f \in Nat, r5 \in {0, 1} : f = e \div 2 /\ r5 = e % 2 /\ e = 2 * f + r5
  BY SMT
<1>g. PICK g \in Nat, r6 \in {0, 1} : g = f \div 2 /\ r6 = f % 2 /\ f = 2 * g + r6
  BY SMT
<1>0. /\ a \in Nat /\ r0 \in {0, 1} /\ n = 2 * a + r0
      /\ b \in Nat /\ r1 \in {0, 1} /\ a = 2 * b + r1
      /\ c \in Nat /\ r2 \in {0, 1} /\ b = 2 * c + r2
      /\ d \in Nat /\ r3 \in {0, 1} /\ c = 2 * d + r3
      /\ e \in Nat /\ r4 \in {0, 1} /\ d = 2 * e + r4
      /\ f \in Nat /\ r5 \in {0, 1} /\ e = 2 * f + r5
      /\ g \in Nat /\ r6 \in {0, 1} /\ f = 2 * g + r6
      /\ n \in Nat /\ n < 256
  BY <1>a, <1>b, <1>c, <1>d, <1>e, <1>f, <1>g
<1>1. n \div 1 = n /\ n \div 2 = a
  BY <1>a, SMT
<1>2. n \div 4 = b
  <2>1. n = 4 * b + (r0 + 2 * r1)
    BY ONLY <1>0, SMT
  <2> QED
    BY ONLY <1>0, <2>1, SMT
<1>3. n \div 8 = c
  <2>1. n = 8 * c + (r0 + 2 * r1 + 4 * r2)
    BY ONLY <1>0, SMT
  <2> QED
    BY ONLY <1>0, <2>1, SMT
<1>4. n \div 16 = d
  <2>1. n = 16 * d + (r0 + 2 * r1 + 4 * r2 + 8 * r3)
    BY ONLY <1>0, SMT
  <2> QED
    BY ONLY <1>0, <2>1, SMT
<1>5. n \div 32 = e
  <2>1. n = 32 * e + (r0 + 2 * r1 + 4 * r2 + 8 * r3 + 16 * r4)
    BY ONLY <1>0, SMT
  <2> QED
    BY ONLY <1>0, <2>1, SMT
<1>6. n \div 64 = f
  <2>1. n = 64 * f + (r0 + 2 * r1 + 4 * r2 + 8 * r3 + 16 * r4 + 32 * r5)
    BY ONLY <1>0, SMT
  <2> QED
    BY ONLY <1>0, <2>1, SMT
<1>7. n \div 128 = g
  <2>1. n = 128 * g + (r0 + 2 * r1 + 4 * r2 + 8 * r3 + 16 * r4 + 32 * r5 + 64 * r6)
    BY ONLY <1>0, SMT
  <2> QED
    BY ONLY <1>0, <2>1, SMT
<1>8. g % 2 = g
  <2>1. g < 2
    BY ONLY <1>0, SMT
  <2> QED
    BY <2>1, SMT
<1>9. n = 128 * g + 64 * r6 + 32 * r5 + 16 * r4 + 8 * r3 + 4 * r2 + 2 * r1 + r0
  BY ONLY <1>0, SMT
<1>10. r0 = n % 2 /\ r1 = a % 2 /\ r2 = b % 2 /\ r3 = c % 2 /\ r4 = d % 2 /\ r5 = e % 2 /\ r6 = f % 2
  BY <1>a, <1>b, <1>c, <1>d, <1>e, <1>f, <1>g, Zenon
<1> QED
  BY <1>1, <1>2, <1>3, <1>4, <1>5, <1>6, <1>7, <1>8, <1>9, <1>10, Zenon

\* Addresses of which all 32 bits agree are the same address.
LEMMA BitsDecide ==
  ASSUME NEW x \in Seq(Byte), NEW y \in Seq(Byte), Len(x) = 4, Len(y) = 4,
         \A i \in 0 .. 31 : Bit(x, i) = Bit(y, i)
  PROVE  x = y
<1>1. ASSUME NEW j \in 1 .. 4, NEW z \in Seq(Byte), Len(z) = 4 PROVE z[j] \in Nat /\ z[j] < 256
  <2>1. z[j] \in Byte
    BY <1>1, ElementOfSeq, Zenon
  <2> QED
    BY <2>1, ByteRange, Zenon
<1>2. ASSUME NEW j \in 1 .. 4
      PROVE  /\ (x[j] \div 128) % 2 = (y[j] \div 128) % 2
             /\ (x[j] \div 64) % 2 = (y[j] \div 64) % 2
             /\ (x[j] \div 32) % 2 = (y[j] \div 32) % 2
             /\ (x[j] \div 16) % 2 = (y[j] \div 16) % 2
             /\ (x[j] \div 8) % 2 = (y[j] \div 8) % 2
             /\ (x[j] \div 4) % 2 = (y[j] \div 4) % 2
             /\ (x[j] \div 2) % 2 = (y[j] \div 2) % 2
             /\ (x[j] \div 1) % 2 = (y[j] \div 1) % 2
  <2>1. ASSUME NEW k \in 0 .. 7
        PROVE  (x[j] \div BitWeight[k + 1]) % 2 = (y[j] \div BitWeight[k + 1]) % 2
    <3>0. PICK b \in Nat : j = b + 1 /\ b < 4
      BY ONLY j \in 1 .. 4, SMT
    <3> DEFINE i == 8 * b + k
    <3>a. k \in Nat /\ k < 8
      BY ONLY k \in 0 .. 7, SMT
    <3>1. i \in 0 .. 31 /\ i \div 8 + 1 = j /\ (i % 8) + 1 = k + 1
      BY ONLY <3>0, <3>a, b \in Nat, SMT DEF i
    <3>2. Bit(x, i) = Bit(y, i)
      BY <3>1, Zenon
    <3> HIDE DEF i
    <3> QED
      BY <3>1, <3>2, Zenon DEF Bit
  <2>2. (x[j] \div 128) % 2 = (y[j] \div 128) % 2
    <3>1. 0 \in 0 .. 7 /\ BitWeight[0 + 1] = 128
      BY SMT DEF BitWeight
    <3> QED
      BY <2>1, <3>1, Zenon
  <2>3. (x[j] \div 64) % 2 = (y[j] \div 64) % 2
    <3>1. 1 \in 0 .. 7 /\ BitWeight[1 + 1] = 64
      BY SMT DEF BitWeight
    <3> QED
      BY <2>1, <3>1, Zenon
  <2>4. (x[j] \div 32) % 2 = (y[j] \div 32) % 2
    <3>1. 2 \in 0 .. 7 /\ BitWeight[2 + 1] = 32
      BY SMT DEF BitWeight
    <3> QED
      BY <2>1, <3>1, Zenon
  <2>5. (x[j] \div 16) % 2 = (y[j] \div 16) % 2
    <3>1. 3 \in 0 .. 7 /\ BitWeight[3 + 1] = 16
      BY SMT DEF BitWeight
    <3> QED
      BY <2>1, <3>1, Zenon
  <2>6. (x[j] \div 8) % 2 = (y[j] \div 8) % 2
    <3>1. 4 \in 0 .. 7 /\ BitWeight[4 + 1] = 8
      BY SMT DEF BitWeight
    <3> QED
      BY <2>1, <3>1, Zenon
  <2>7. (x[j] \div 4) % 2 = (y[j] \div 4) % 2
    <3>1. 5 \in 0 .. 7 /\ BitWeight[5 + 1] = 4
      BY SMT DEF BitWeight
    <3> QED
      BY <2>1, <3>1, Zenon
  <2>8. (x[j] \div 2) % 2 = (y[j] \div 2) % 2
    <3>1. 6 \in 0 .. 7 /\ BitWeight[6 + 1] = 2
      BY SMT DEF BitWeight
    <3> QED
      BY <2>1, <3>1, Zenon
  <2>9. (x[j] \div 1) % 2 = (y[j] \div 1) % 2
    <3>1. 7 \in 0 .. 7 /\ BitWeight[7 + 1] = 1
      BY SMT DEF BitWeight
    <3> QED
      BY <2>1, <3>1, Zenon
  <2> QED
    BY <2>2, <2>3, <2>4, <2>5, <2>6, <2>7, <2>8, <2>9, Zenon
<1>3. ASSUME NEW j \in 1 .. 4 PROVE x[j] = y[j]
  <2>1. x[j] \in Nat /\ x[j] < 256 /\ y[j] \in Nat /\ y[j] < 256
    BY <1>1, <1>3, Zenon
  <2>2. /\ x[j] = 128 * ((x[j] \div 128) % 2) + 64 * ((x[j] \div 64) % 2) + 32 * ((x[j] \div 32) % 2)
               + 16 * ((x[j] \div 16) % 2) + 8 * ((x[j] \div 8) % 2) + 4 * ((x[j] \div 4) % 2)
               + 2 * ((x[j] \div 2) % 2) + ((x[j] \div 1) % 2)
        /\ y[j] = 128 * ((y[j] \div 128) % 2) + 64 * ((y[j] \div 64) % 2) + 32 * ((y[j] \div 32) % 2)
               + 16 * ((y[j] \div 16) % 2) + 8 * ((y[j] \div 8) % 2) + 4 * ((y[j] \div 4) % 2)
               + 2 * ((y[j] \div 2) % 2) + ((y[j] \div 1) % 2)
    BY <2>1, ByteOfBits, Zenon
  <2> QED
    BY <1>2, <1>3, <2>2, Zenon
<1> QED
  BY <1>3, SeqEqual, Zenon

\* The severities of the two sides agree on every reason the program gives.
LEMMA SeveritiesAgree ==
  ASSUME NEW r \in DropReason PROVE ReasonSeverity(ReasonCode[r]) = Severity(r)
BY DEF ReasonSeverity, ReasonCode, Severity, DropReason, ParseReasons, RfcReasons, PolicyReasons

\* A monitor prints what the program reports.
THEOREM MonitorPrints == Spec => []MonitorPrintsReported
<1>1. TInv /\ PInv => MonitorPrintsReported
  <2> SUFFICES ASSUME TInv, PInv, Reported
               PROVE  \E level \in seenLevels :
                        0 < level /\ level <= ReasonSeverity(Received.DropReason)
    BY DEF MonitorPrintsReported
  <2>1. Received.DropReason = ReasonCode[drop_reason]
    BY ReceivedFields, Zenon
  <2>2. drop_reason \in DropReason
    BY Zenon DEF TInv, OutcomeTypes
  <2>3. ReasonSeverity(Received.DropReason) = Severity(drop_reason)
    BY <2>1, <2>2, SeveritiesAgree, Zenon
  <2>4. \E level \in seenLevels : 0 < level /\ level <= Severity(drop_reason)
    BY Zenon DEF PInv, EventInv, LevelPermits, Reported
  <2> QED
    BY <2>3, <2>4, Zenon
<1> QED
  BY <1>1, TypesInvariant, PipelineInvariant, PTL

\* User space learns of every reported TCP or UDP packet, not a fragment, whose
\* headers parsed what the program saw of it.
THEOREM RecordsArrive == Spec => []RecordArrives
<1>1. TInv /\ PInv => RecordArrives
  <2> SUFFICES ASSUME TInv, PInv, Reported, ParsedL4(pkt) PROVE RecordArrives
    BY Zenon DEF RecordArrives
  <2>1. MetaSrc(pkt) = pkt.src_ip
    BY Zenon DEF MetaSrc, ParsedL4, ParsedL3
  <2>2. ActionCode[telemetry] = ActionCode.Drop <=> verdict = "DROP"
    <3>1. \/ telemetry = "Pass" /\ verdict = "PASS"
          \/ telemetry = "WouldDrop" /\ verdict = "PASS"
          \/ telemetry = "Drop" /\ verdict = "DROP"
      BY DEF PInv, VerdictInv, Reported, Final
    <3> QED
      BY <3>1 DEF ActionCode
  <2> QED
    BY <2>1, <2>2, ReceivedFields, Zenon DEF RecordArrives
<1> QED
  BY <1>1, TypesInvariant, PipelineInvariant, PTL

\* The rule the daemon makes of a reported source hits that source and no
\* other host.
THEOREM BlocksHitSource == Spec => []BlockHitsSource
<1>1. TInv => BlockHitsSource
  <2> SUFFICES ASSUME TInv, Reported, ParsedL3(pkt)
               PROVE  {h \in Hosts : Matches(HostKey(u32ToIP(Received.SrcIP)), Octets[h])}
                        = {pkt.src_ip}
    BY Zenon DEF BlockHitsSource
  <2>1. pkt.src_ip \in Hosts
    BY DEF TInv, CellType, Packet
  <2>2. u32ToIP(Received.SrcIP) = Octets[pkt.src_ip]
    <3>1. MetaSrc(pkt) = pkt.src_ip
      BY Zenon DEF MetaSrc, ParsedL3
    <3> QED
      BY <3>1, ReceivedFields, Zenon
  <2> DEFINE x == Octets[pkt.src_ip]
  <2>3. \A h \in Hosts : Octets[h] \in Seq(Byte) /\ Len(Octets[h]) = 4
    BY AddressAssumption, Zenon
  <2>4. \A g, h \in Hosts : Octets[g] = Octets[h] => g = h
    BY AddressAssumption, Zenon
  <2>5. ASSUME NEW y PROVE Matches(HostKey(x), y) <=> \A i \in 0 .. 31 : Bit(x, i) = Bit(y, i)
    <3>1. HostKey(x).PrefixLen - 1 = 31 /\ HostKey(x).Addr = x
      BY DEF HostKey
    <3> QED
      BY <3>1, Zenon DEF Matches
  <2>6. ASSUME NEW h \in Hosts PROVE Matches(HostKey(x), Octets[h]) <=> h = pkt.src_ip
    <3>1. ASSUME Matches(HostKey(x), Octets[h]) PROVE h = pkt.src_ip
      <4>1. Octets[h] = x
        BY <2>1, <2>3, <2>5, <2>6, <3>1, BitsDecide, Zenon
      <4> QED
        BY <2>1, <2>4, <2>6, <4>1, Zenon
    <3>2. ASSUME h = pkt.src_ip PROVE Matches(HostKey(x), Octets[h])
      BY <2>5, <3>2, Zenon
    <3> QED
      BY <3>1, <3>2
  <2> QED
    BY <2>1, <2>2, <2>6, Zenon
<1> QED
  BY <1>1, TypesInvariant, PTL

=============================================================================
