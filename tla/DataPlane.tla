------------------------------ MODULE DataPlane ------------------------------
(***************************************************************************)
(* The XDP program (kernel-space/src/main.rs, try_ai_ida_firewall and      *)
(* emit_and_return): what becomes of one packet at a time on one CPU while *)
(* user space changes the maps the program reads.                          *)
(*                                                                         *)
(* Parsing touches only the packet, so it is one step with the arrival.    *)
(* Every map the program consults afterwards is a step of its own, because *)
(* an update can come between any two of them.  A packet is abstracted to  *)
(* what the program tells apart; a successful parse is a BOOLEAN.          *)
(***************************************************************************)
EXTENDS Integers, FiniteSets

CONSTANTS
  Hosts,          \* IPv4 addresses
  ZeroIP,         \* 0.0.0.0
  Loopback,       \* the addresses in 127.0.0.0/8
  Keys,           \* keys of the reputation trie: hosts and networks
  Covers,         \* key -> the addresses it matches
  Ports,          \* destination ports
  Packets,        \* the packets that may arrive
  BurstCapacity,  \* rate_limiter.rs
  Levels          \* bound: the log levels in use

TcpFlags == {"FIN", "SYN", "RST", "PSH", "ACK", "URG", "ECE", "CWR"}

\* intact: the IPv4 or ARP header parses; l4ok: the TCP or UDP header does.
Packet ==
  [eth_type : {"short", "ipv4", "arp", "other"}, intact : BOOLEAN,
   is_fragment : BOOLEAN, proto : {"tcp", "udp", "other"}, l4ok : BOOLEAN,
   src_ip : Hosts, dst_ip : Hosts, dst_port : Ports, flags : SUBSET TcpFlags]

ASSUME DataPlaneAssumption ==
  /\ ZeroIP \in Hosts
  /\ Loopback \subseteq Hosts
  /\ Covers \in [Keys -> SUBSET Hosts]
  /\ \A p \in Ports : p \in Nat /\ p < 65536
  /\ BurstCapacity \in Nat \ {0}

ASSUME PacketsAssumption == Packets \subseteq Packet

ASSUME LevelsAssumption == Levels \subseteq 0 .. 4

VARIABLES
  reputationMap,  \* the blocked keys (BlockIP is the only writer: value 1)
  portGate,       \* PORT_GATE_MAP
  dryRun,         \* CONFIG_MAP[1]
  threshold,      \* CONFIG_MAP[0]
  tokens,         \* source -> this CPU's balance in RATE_LIMIT_MAP, or Absent
  pc,             \* the map the program reads next
  pkt,            \* the packet
  drop_reason,
  verdict,        \* effective_action
  telemetry,      \* telemetry_action
  event,          \* what reached the ring buffer for this packet
  standingKeys,   \* history: in the trie ever since the packet arrived
  standingPorts,  \* history: gated ever since
  seenKeys,       \* history: in the trie at some time since
  seenPorts,      \* history: gated at some time since
  seenDry,        \* history: values of dryRun since
  seenLevels      \* history: values of threshold since

policy == <<reputationMap, portGate, dryRun, threshold>>
packet == <<pkt, drop_reason, verdict, telemetry, event>>
history == <<standingKeys, standingPorts, seenKeys, seenPorts, seenDry, seenLevels>>
vars == <<policy, tokens, pc, packet, history>>

Absent == -1
NoEvent == [src_ip |-> ZeroIP, action |-> "none", drop_reason |-> "None"]

ParseReasons == {"EthParseFailed", "Ipv4ParseFailed", "TcpParseFailed",
                 "UdpParseFailed", "ArpParseFailed"}
RfcReasons == {"RfcLandAttack", "RfcNullScan", "RfcSynFin", "RfcXmasScan"}
PolicyReasons == {"BlacklistHit", "PortBlocked", "RateLimited"}
DropReason == {"None"} \cup ParseReasons \cup RfcReasons \cup PolicyReasons

\* DropReason::severity; LogSeverity is Debug = 1 .. Error = 4.
Severity(reason) ==
  CASE reason \in ParseReasons -> 4
    [] reason \in RfcReasons \cup {"BlacklistHit"} -> 3
    [] reason \in {"PortBlocked", "RateLimited"} -> 2
    [] OTHER -> 1

TypeOK ==
  /\ reputationMap \in SUBSET Keys
  /\ portGate \in [Ports -> {0, 2}]
  /\ dryRun \in BOOLEAN
  /\ threshold \in 0 .. 4
  /\ tokens \in [Hosts -> Absent .. BurstCapacity]
  /\ pc \in {"idle", "blacklist", "port", "rate", "dry", "level", "log", "done"}
  /\ pkt \in Packet
  /\ drop_reason \in DropReason
  /\ verdict \in {"PASS", "DROP"}
  /\ telemetry \in {"Pass", "Drop", "WouldDrop"}
  /\ event \in [src_ip : Hosts, action : {"none", "Pass", "Drop", "WouldDrop"},
                drop_reason : DropReason]
  /\ standingKeys \in SUBSET Keys /\ seenKeys \in SUBSET Keys
  /\ standingPorts \in SUBSET Ports /\ seenPorts \in SUBSET Ports
  /\ seenDry \in SUBSET BOOLEAN
  /\ seenLevels \in SUBSET (0 .. 4)

BlockedPorts == {p \in Ports : portGate[p] = 2}

\* The maps as the loader creates them: zeroed.
Init ==
  /\ reputationMap = {} /\ dryRun = FALSE /\ threshold = 0
  /\ portGate = [p \in Ports |-> 0]
  /\ tokens = [h \in Hosts |-> Absent]
  /\ pc = "idle"
  /\ pkt \in Packets
  /\ drop_reason = "None" /\ verdict = "PASS" /\ telemetry = "Pass"
  /\ event = NoEvent
  /\ standingKeys = {} /\ standingPorts = {} /\ seenKeys = {} /\ seenPorts = {}
  /\ seenDry = {} /\ seenLevels = {}
-----------------------------------------------------------------------------
\* validate_rfc_invariants.
RfcReason(p) ==
  IF {p.src_ip, p.dst_ip} \cap Loopback = {} /\ p.src_ip # ZeroIP
       /\ p.src_ip = p.dst_ip
  THEN "RfcLandAttack"
  ELSE IF p.proto # "tcp" THEN "None"
  ELSE LET control == p.flags \ {"ECE", "CWR"} IN
       CASE control = {} -> "RfcNullScan"
         [] {"SYN", "FIN"} \subseteq control -> "RfcSynFin"
         [] {"FIN", "PSH", "URG"} \subseteq control
              /\ ~({"SYN", "FIN"} \subseteq control) -> "RfcXmasScan"
         [] OTHER -> "None"

\* What the headers alone decide, in the order they are parsed.  A fragment
\* is not looked into beyond its IPv4 header.
HeaderReason(p) ==
  CASE p.eth_type = "short" -> "EthParseFailed"
    [] p.eth_type = "arp" -> IF p.intact THEN "None" ELSE "ArpParseFailed"
    [] p.eth_type = "other" -> "None"
    [] p.eth_type = "ipv4" ->
         CASE ~p.intact -> "Ipv4ParseFailed"
           [] p.intact /\ p.is_fragment -> "None"
           [] p.intact /\ ~p.is_fragment /\ ~p.l4ok /\ p.proto = "tcp" ->
                "TcpParseFailed"
           [] p.intact /\ ~p.is_fragment /\ ~p.l4ok /\ p.proto = "udp" ->
                "UdpParseFailed"
           [] OTHER -> RfcReason(p)

\* The first map the program reads for this packet.
FirstCheck(p) ==
  CASE HeaderReason(p) # "None" \/ p.eth_type # "ipv4" -> "dry"
    [] OTHER -> IF p.is_fragment THEN "rate" ELSE "blacklist"

\* meta.src_ip is set once the IPv4 header is parsed.
MetaSrc(p) == IF p.eth_type = "ipv4" /\ p.intact THEN p.src_ip ELSE ZeroIP

\* A packet arrives and is parsed.
Arrive(p) ==
  /\ pc = "idle"
  /\ pkt' = p
  /\ drop_reason' = HeaderReason(p)
  /\ pc' = FirstCheck(p)
  /\ standingKeys' = reputationMap /\ seenKeys' = reputationMap
  /\ standingPorts' = BlockedPorts /\ seenPorts' = BlockedPorts
  /\ seenDry' = {dryRun} /\ seenLevels' = {threshold}
  /\ UNCHANGED <<policy, tokens, verdict, telemetry, event>>

\* The check gives the packet its verdict, or leaves it to the next one.
Conclude(reason) ==
  /\ drop_reason' = reason
  /\ pc' = "dry"
  /\ UNCHANGED <<policy, pkt, verdict, telemetry, event, history>>

GoOn(next) ==
  /\ pc' = next
  /\ UNCHANGED <<policy, packet, history>>

\* Mutant: only an exact /32 entry matches.
LookupBlacklistExact ==
  /\ pc = "blacklist"
  /\ UNCHANGED tokens
  /\ IF \E k \in reputationMap : Covers[k] = {pkt.src_ip}
     THEN Conclude("BlacklistHit") ELSE GoOn("port")

\* REPUTATION_MAP.get: every value stored is 1, so any match is a hit.
LookupBlacklist ==
  /\ pc = "blacklist"
  /\ UNCHANGED tokens
  /\ IF \E k \in reputationMap : pkt.src_ip \in Covers[k]
     THEN Conclude("BlacklistHit") ELSE GoOn("port")

\* Mutant: the direction of the packet is not considered.
SubjectToGateAny(p) == p.proto \in {"tcp", "udp"} /\ p.dst_port # 0

\* A new connection or a request, not a reply (is_port_blocked).
SubjectToGate(p) ==
  /\ p.dst_port # 0
  /\ \/ p.proto = "tcp" /\ "SYN" \in p.flags /\ "ACK" \notin p.flags
     \/ p.proto = "udp" /\ p.dst_port < 32768

LookupPort ==
  /\ pc = "port"
  /\ UNCHANGED tokens
  /\ IF SubjectToGate(pkt) /\ portGate[pkt.dst_port] = 2
     THEN Conclude("PortBlocked") ELSE GoOn("rate")

\* Mutant: the balance is not checked.
CheckRateUnchecked ==
  /\ pc = "rate"
  /\ \E earned \in 0 .. BurstCapacity :
       LET have == IF tokens[pkt.src_ip] + earned < BurstCapacity
                   THEN tokens[pkt.src_ip] + earned ELSE BurstCapacity
       IN  /\ tokens' = [tokens EXCEPT ![pkt.src_ip] =
                           IF @ = Absent THEN BurstCapacity - 1 ELSE have - 2]
           /\ Conclude("None")

\* check_rate_limit.  The time since the last refill is anything, so the
\* refill earns anything (TokenBucket has the arithmetic).
CheckRate ==
  /\ pc = "rate"
  /\ \E earned \in 0 .. BurstCapacity :
       LET balance == tokens[pkt.src_ip]
           have == IF balance + earned < BurstCapacity THEN balance + earned
                   ELSE BurstCapacity
       IN  \/ /\ balance = Absent
              /\ tokens' = [tokens EXCEPT ![pkt.src_ip] = BurstCapacity - 1]
              /\ Conclude("None")
           \/ /\ balance # Absent /\ have >= 1
              /\ tokens' = [tokens EXCEPT ![pkt.src_ip] = have - 1]
              /\ Conclude("None")
           \/ /\ balance # Absent /\ have < 1
              /\ UNCHANGED tokens
              /\ Conclude("RateLimited")

\* Mutant: a malformed packet is dropped whatever the mode.
ReadDryRunNotMalformed ==
  /\ pc = "dry"
  /\ pc' = "level"
  /\ IF drop_reason = "None" THEN verdict' = "PASS" /\ telemetry' = "Pass"
     ELSE IF dryRun /\ drop_reason \notin ParseReasons
          THEN verdict' = "PASS" /\ telemetry' = "WouldDrop"
          ELSE verdict' = "DROP" /\ telemetry' = "Drop"
  /\ UNCHANGED <<policy, tokens, pkt, drop_reason, event, history>>

\* emit_and_return, 0: the verdict, downgraded in dry-run mode.
ReadDryRun ==
  /\ pc = "dry"
  /\ pc' = "level"
  /\ IF drop_reason = "None" THEN verdict' = "PASS" /\ telemetry' = "Pass"
     ELSE IF dryRun THEN verdict' = "PASS" /\ telemetry' = "WouldDrop"
          ELSE verdict' = "DROP" /\ telemetry' = "Drop"
  /\ UNCHANGED <<policy, tokens, pkt, drop_reason, event, history>>

\* emit_and_return, 1: off, below the threshold, or to be logged.
ReadThreshold ==
  /\ pc = "level"
  /\ pc' = IF threshold = 0 \/ Severity(drop_reason) < threshold
           THEN "done" ELSE "log"
  /\ UNCHANGED <<policy, tokens, packet, history>>

\* Mutant: the mode is read again for the record.
EmitReread ==
  /\ pc = "log"
  /\ pc' = "done"
  /\ event' = [src_ip |-> MetaSrc(pkt), drop_reason |-> drop_reason,
               action |-> IF drop_reason = "None" THEN "Pass"
                          ELSE IF dryRun THEN "WouldDrop" ELSE "Drop"]
  /\ UNCHANGED <<policy, tokens, pkt, drop_reason, verdict, telemetry, history>>

\* emit_and_return, 2-4: the record is written.
Emit ==
  /\ pc = "log"
  /\ pc' = "done"
  /\ event' = [src_ip |-> MetaSrc(pkt), action |-> telemetry,
               drop_reason |-> drop_reason]
  /\ UNCHANGED <<policy, tokens, pkt, drop_reason, verdict, telemetry, history>>

\* The log limiter, which all CPUs share, refuses the record, or the ring
\* buffer is full and the error is ignored.
Suppress ==
  /\ pc = "log"
  /\ pc' = "done"
  /\ UNCHANGED <<policy, tokens, packet, history>>

\* The program returns its verdict to the driver.
Return ==
  /\ pc = "done"
  /\ pc' = "idle"
  /\ drop_reason' = "None" /\ verdict' = "PASS" /\ telemetry' = "Pass"
  /\ event' = NoEvent
  /\ standingKeys' = {} /\ standingPorts' = {} /\ seenKeys' = {}
  /\ seenPorts' = {} /\ seenDry' = {} /\ seenLevels' = {}
  /\ UNCHANGED <<policy, tokens, pkt>>
-----------------------------------------------------------------------------
\* What the histories note of a change of policy.
Observe ==
  IF pc = "idle" THEN UNCHANGED history
  ELSE /\ standingKeys' = standingKeys \cap reputationMap'
       /\ standingPorts' = standingPorts \cap BlockedPorts'
       /\ seenKeys' = seenKeys \cup reputationMap'
       /\ seenPorts' = seenPorts \cup BlockedPorts'
       /\ seenDry' = seenDry \cup {dryRun'}
       /\ seenLevels' = seenLevels \cup {threshold'}

BlockIP(k) ==
  /\ reputationMap' = reputationMap \cup {k}
  /\ UNCHANGED <<portGate, dryRun, threshold, tokens, pc, packet>>
  /\ Observe

UnblockIP(k) ==
  /\ reputationMap' = reputationMap \ {k}
  /\ UNCHANGED <<portGate, dryRun, threshold, tokens, pc, packet>>
  /\ Observe

BlockPort(p) ==
  /\ portGate' = [portGate EXCEPT ![p] = 2]
  /\ UNCHANGED <<reputationMap, dryRun, threshold, tokens, pc, packet>>
  /\ Observe

UnblockPort(p) ==
  /\ portGate' = [portGate EXCEPT ![p] = 0]
  /\ UNCHANGED <<reputationMap, dryRun, threshold, tokens, pc, packet>>
  /\ Observe

SetDryRun(enabled) ==
  /\ dryRun' = enabled
  /\ UNCHANGED <<reputationMap, portGate, threshold, tokens, pc, packet>>
  /\ Observe

SetLogLevel(level) ==
  /\ threshold' = level
  /\ UNCHANGED <<reputationMap, portGate, dryRun, tokens, pc, packet>>
  /\ Observe

\* The LRU map recycles a source's entry.
Evict(h) ==
  /\ tokens[h] # Absent
  /\ tokens' = [tokens EXCEPT ![h] = Absent]
  /\ UNCHANGED <<policy, pc, packet, history>>

Program ==
  \/ \E p \in Packets : Arrive(p)
  \/ LookupBlacklist \/ LookupPort \/ CheckRate
  \/ ReadDryRun \/ ReadThreshold \/ Emit \/ Suppress \/ Return

Control ==
  \/ \E k \in Keys : BlockIP(k) \/ UnblockIP(k)
  \/ \E p \in Ports : BlockPort(p) \/ UnblockPort(p)
  \/ \E enabled \in BOOLEAN : SetDryRun(enabled)
  \/ \E level \in Levels : SetLogLevel(level)

Next == Program \/ Control \/ \E h \in Hosts : Evict(h)

Spec == Init /\ [][Next]_vars
-----------------------------------------------------------------------------
\* An IPv4 packet the pipeline takes as far as the trie.
Whole(p) == p.eth_type = "ipv4" /\ p.intact /\ ~p.is_fragment

\* A packet whose source was blacklisted, or whose port was gated, from its
\* arrival on is dropped, whatever else the operator changes under way and
\* whichever check sees it first (main.rs, steps 5 and 6).
StandingRulesEnforced ==
  pc = "done" /\ Whole(pkt) /\ seenDry = {FALSE}
    /\ (\/ \E k \in standingKeys : pkt.src_ip \in Covers[k]
        \/ pkt.l4ok /\ pkt.dst_port \in standingPorts /\ pkt.dst_port # 0
             /\ \/ pkt.proto = "tcp" /\ pkt.flags \cap {"SYN", "ACK"} = {"SYN"}
                \/ pkt.proto = "udp" /\ pkt.dst_port < 32768)
    => verdict = "DROP"

\* Nothing is dropped without a reason that held at some time while the
\* program looked at the packet: malformed, an RFC violation, a rule, or an
\* empty bucket.  Replies never fall to the port gate (port_gate.rs:15-19).
DropsJustified ==
  pc = "done" /\ verdict = "DROP" =>
    \/ ~pkt.intact \/ ~pkt.l4ok \/ pkt.eth_type = "short"
    \/ pkt.src_ip = pkt.dst_ip /\ pkt.src_ip \notin Loopback
    \/ pkt.proto = "tcp" /\ \/ pkt.flags \subseteq {"ECE", "CWR"}
                            \/ {"SYN", "FIN"} \subseteq pkt.flags
                            \/ {"FIN", "PSH", "URG"} \subseteq pkt.flags
    \/ \E k \in seenKeys : pkt.src_ip \in Covers[k]
    \/ /\ pkt.dst_port \in seenPorts
       /\ \/ pkt.proto = "tcp" /\ "ACK" \notin pkt.flags
          \/ pkt.proto = "udp" /\ pkt.dst_port < 32768
    \/ drop_reason = "RateLimited" /\ tokens[pkt.src_ip] \in {Absent, 0}

\* A packet handled wholly in dry-run mode passes, whatever the reason to
\* drop it: "zero blast radius" (main.rs:65).
DryRunHarmless == pc = "done" /\ seenDry = {TRUE} => verdict = "PASS"

\* The record tells what became of the packet even if the mode is switched
\* between the verdict and the record: Drop is a drop, WouldDrop a packet
\* that passed although there is a reason to drop it (rules.rs:25-30).
TelemetryTruthful ==
  pc = "done" /\ event # NoEvent =>
    /\ event.action = "Drop" <=> verdict = "DROP"
    /\ event.action = "Pass" <=> drop_reason = "None"
    /\ event.drop_reason = drop_reason

\* A record is written only if logging was on at some time while the packet
\* was handled, at a level the reason reaches (main.rs:87-96).
RecordWithinLevel ==
  pc = "done" /\ event # NoEvent =>
    \E level \in seenLevels : 0 < level /\ level <= Severity(event.drop_reason)

\* "Instantly drop traffic from an IP or CIDR" (user-space/cmd/main.go:82):
\* whatever a blacklisted source sends over IPv4, so fragments too.
BlacklistDropsFragments ==
  pc = "done" /\ pkt.eth_type = "ipv4" /\ pkt.intact /\ seenDry = {FALSE}
    /\ (\E k \in standingKeys : pkt.src_ip \in Covers[k])
    => verdict = "DROP"
=============================================================================
