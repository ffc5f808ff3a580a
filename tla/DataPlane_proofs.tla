-------------------------- MODULE DataPlane_proofs --------------------------
(***************************************************************************)
(* What the packet pipeline promises under every interleaving with policy  *)
(* changes, for any set of hosts, keys, ports and packets.                 *)
(***************************************************************************)
EXTENDS DataPlane, TLAPS

\* Where the packet has its reason, and where it has its verdict.
Decided == {"dry", "level", "log", "done"}
Final == {"level", "log", "done"}

\* The histories bracket the maps while a packet is under way.
Bracketed ==
  pc # "idle" =>
    /\ standingKeys \subseteq reputationMap /\ reputationMap \subseteq seenKeys
    /\ standingPorts \subseteq BlockedPorts /\ BlockedPorts \subseteq seenPorts
    /\ dryRun \in seenDry /\ threshold \in seenLevels

\* A packet that got past a check has met no rule in force all along.
Pending == pc \in {"blacklist", "port", "rate"} => drop_reason = "None"

NotBlacklisted ==
  Whole(pkt) /\ drop_reason = "None" /\ pc \in {"port", "rate"} \cup Decided =>
    \A k \in standingKeys : pkt.src_ip \notin Covers[k]

NotGated ==
  Whole(pkt) /\ drop_reason = "None" /\ pc \in {"rate"} \cup Decided =>
    ~(SubjectToGate(pkt) /\ pkt.dst_port \in standingPorts)

\* The verdict and the record's action come from one reading of the mode.
VerdictInv ==
  pc \in Final =>
    \/ drop_reason = "None" /\ verdict = "PASS" /\ telemetry = "Pass"
    \/ drop_reason # "None" /\ verdict = "PASS" /\ telemetry = "WouldDrop"
         /\ TRUE \in seenDry
    \/ drop_reason # "None" /\ verdict = "DROP" /\ telemetry = "Drop"
         /\ FALSE \in seenDry

LevelPermits == \E level \in seenLevels : 0 < level /\ level <= Severity(drop_reason)

EventInv ==
  /\ event # NoEvent => pc = "done" /\ event.action = telemetry
                          /\ event.drop_reason = drop_reason /\ LevelPermits
  /\ pc = "log" => LevelPermits

\* The assumptions on the constants, one to a fact.
LEMMA Constants ==
  /\ Levels \subseteq 0 .. 4
  /\ BurstCapacity \in Nat \ {0}
  /\ Packets \subseteq Packet
<1>1. Levels \subseteq 0 .. 4
  BY LevelsAssumption, Zenon
<1>2. BurstCapacity \in Nat \ {0}
  BY DataPlaneAssumption
<1>3. Packets \subseteq Packet
  BY PacketsAssumption, Zenon
<1> QED
  BY <1>1, <1>2, <1>3

ControlFrame == UNCHANGED <<tokens, pc, packet>> /\ Observe

\* A change of policy leaves the packet alone.
LEMMA ControlKeepsPacket == Control => ControlFrame
BY DEF Control, ControlFrame, BlockIP, UnblockIP, BlockPort, UnblockPort,
       SetDryRun, SetLogLevel

\* An eviction from the rate map leaves the packet and the policy alone.
LEMMA EvictKeepsPacket ==
  ASSUME NEW h \in Hosts, Evict(h)
  PROVE  UNCHANGED <<policy, pc, packet, history>>
BY DEF Evict

\* Between two map reads the program changes neither maps nor histories.
LEMMA ProgramFrame ==
  ASSUME LookupBlacklist \/ LookupPort \/ CheckRate \/ ReadDryRun \/ ReadThreshold
           \/ Emit \/ Suppress
  PROVE  UNCHANGED <<policy, history, pkt>> /\ pc # "idle"
<1>1. CASE LookupBlacklist
  BY <1>1 DEF LookupBlacklist, Conclude, GoOn, packet
<1>2. CASE LookupPort
  BY <1>2 DEF LookupPort, Conclude, GoOn, packet
<1>3. CASE CheckRate
  BY <1>3 DEF CheckRate, Conclude
<1>4. CASE ReadDryRun \/ ReadThreshold \/ Emit \/ Suppress
  BY <1>4 DEF ReadDryRun, ReadThreshold, Emit, Suppress, packet
<1> QED
  BY <1>1, <1>2, <1>3, <1>4

\* A step that changes neither maps nor histories keeps the bracketing.
LEMMA SamePolicyBracketed ==
  ASSUME Bracketed, UNCHANGED <<policy, history>>, pc # "idle" \/ pc' = pc
  PROVE  Bracketed'
<1>1. /\ reputationMap' = reputationMap /\ portGate' = portGate /\ dryRun' = dryRun
      /\ threshold' = threshold
  BY DEF policy
<1>2. /\ standingKeys' = standingKeys /\ standingPorts' = standingPorts
      /\ seenKeys' = seenKeys /\ seenPorts' = seenPorts /\ seenDry' = seenDry
      /\ seenLevels' = seenLevels
  BY DEF history
<1>3. BlockedPorts' = BlockedPorts
  BY <1>1, Zenon DEF BlockedPorts
<1> QED
  BY <1>1, <1>2, <1>3, Zenon DEF Bracketed

\* The histories keep bracketing the maps.
LEMMA StepBracketed == Bracketed /\ [Next]_vars => Bracketed'
<1> SUFFICES ASSUME Bracketed, [Next]_vars PROVE Bracketed'
  OBVIOUS
<1>1. CASE Control
  BY <1>1, ControlKeepsPacket, Zenon DEF ControlFrame, Observe, Bracketed, history
<1>2. CASE \E p \in Packets : Arrive(p)
  BY <1>2, Zenon DEF Arrive, Bracketed, policy, BlockedPorts
<1>3. CASE LookupBlacklist \/ LookupPort \/ CheckRate \/ ReadDryRun \/ ReadThreshold
             \/ Emit \/ Suppress
  <2>1. UNCHANGED <<policy, history>> /\ pc # "idle"
    BY <1>3, ProgramFrame
  <2> QED
    BY <2>1, SamePolicyBracketed
<1>4. CASE Return
  BY <1>4, Zenon DEF Return, Bracketed
<1>5. CASE \E h \in Hosts : Evict(h)
  <2>1. UNCHANGED <<policy, history, pc>>
    BY <1>5, EvictKeepsPacket, Zenon
  <2> QED
    BY <2>1, SamePolicyBracketed
<1>6. CASE UNCHANGED vars
  BY <1>6, Zenon DEF vars, Bracketed, policy, history, BlockedPorts
<1> QED
  BY <1>1, <1>2, <1>3, <1>4, <1>5, <1>6, Zenon DEF Next, Program

\* A history of rules in force all along only shrinks under a packet.
LEMMA StandingShrinks ==
  ASSUME Bracketed, [Next]_vars, ~ \E p \in Packets : Arrive(p), pc # "idle"
  PROVE  standingKeys' \subseteq standingKeys /\ standingPorts' \subseteq standingPorts
<1>1. CASE Control
  BY <1>1, ControlKeepsPacket, Zenon DEF ControlFrame, Observe
<1>3. CASE LookupBlacklist \/ LookupPort \/ CheckRate \/ ReadDryRun \/ ReadThreshold
             \/ Emit \/ Suppress
  BY <1>3, ProgramFrame, Zenon DEF history
<1>4. CASE Return
  BY <1>4, Zenon DEF Return
<1>5. CASE \E h \in Hosts : Evict(h)
  BY <1>5, EvictKeepsPacket, Zenon DEF history
<1>6. CASE UNCHANGED vars
  BY <1>6, Zenon DEF vars, history
<1> QED
  BY <1>1, <1>3, <1>4, <1>5, <1>6, Zenon DEF Next, Program

\* No reason is given before a check has found one.
LEMMA StepPending == Pending /\ [Next]_vars => Pending'
<1> SUFFICES ASSUME Pending, [Next]_vars PROVE Pending'
  OBVIOUS
<1>1. CASE Control \/ (\E h \in Hosts : Evict(h)) \/ UNCHANGED vars
  BY <1>1, ControlKeepsPacket, EvictKeepsPacket, Zenon
     DEF ControlFrame, packet, vars, Pending
<1>2. CASE \E p \in Packets : Arrive(p)
  <2>1. PICK p \in Packets : Arrive(p)
    BY <1>2
  <2>2. pc' = FirstCheck(p) /\ drop_reason' = HeaderReason(p)
    BY <2>1 DEF Arrive
  <2> QED
    BY <2>2 DEF FirstCheck, Pending
<1>3. CASE LookupBlacklist
  BY <1>3 DEF LookupBlacklist, Conclude, GoOn, packet, Pending
<1>4. CASE LookupPort
  BY <1>4 DEF LookupPort, Conclude, GoOn, packet, Pending
<1>5. CASE CheckRate
  BY <1>5 DEF CheckRate, Conclude, Pending
<1>6. CASE ReadDryRun \/ ReadThreshold \/ Emit \/ Suppress \/ Return
  BY <1>6 DEF ReadDryRun, ReadThreshold, Emit, Suppress, Return, Pending
<1> QED
  BY <1>1, <1>2, <1>3, <1>4, <1>5, <1>6, Zenon DEF Next, Program

\* What the trie and the port gate let go by stays gone by.
LEMMA StepUnmatched ==
  Bracketed /\ Pending /\ NotBlacklisted /\ NotGated /\ [Next]_vars
    => NotBlacklisted' /\ NotGated'
<1> SUFFICES ASSUME Bracketed, Pending, NotBlacklisted, NotGated, [Next]_vars
             PROVE  NotBlacklisted' /\ NotGated'
  OBVIOUS
<1>1. ASSUME ~ \E p \in Packets : Arrive(p), pc # "idle"
      PROVE  standingKeys' \subseteq standingKeys
               /\ standingPorts' \subseteq standingPorts
  BY <1>1, StandingShrinks
<1>2. CASE \E p \in Packets : Arrive(p)
  <2>1. PICK p \in Packets : Arrive(p)
    BY <1>2
  <2>2. pkt' = p /\ pc' = FirstCheck(p) /\ drop_reason' = HeaderReason(p)
    BY <2>1 DEF Arrive
  <2>3. Whole(p) /\ HeaderReason(p) = "None" => FirstCheck(p) = "blacklist"
    BY DEF Whole, FirstCheck
  <2> QED
    BY <2>2, <2>3 DEF NotBlacklisted, NotGated, Whole, Decided
<1>3. CASE LookupBlacklist
  <2>1. /\ pkt' = pkt /\ standingKeys' = standingKeys /\ standingPorts' = standingPorts
        /\ standingKeys \subseteq reputationMap
    BY <1>3, ProgramFrame DEF history, Bracketed
  <2>2. CASE \E k \in reputationMap : pkt.src_ip \in Covers[k]
    <3>1. drop_reason' = "BlacklistHit"
      BY <1>3, <2>2 DEF LookupBlacklist, Conclude
    <3> QED
      BY <3>1 DEF NotBlacklisted, NotGated
  <2>3. CASE ~ \E k \in reputationMap : pkt.src_ip \in Covers[k]
    <3>1. pc' = "port"
      BY <1>3, <2>3 DEF LookupBlacklist, GoOn
    <3> QED
      BY <2>1, <2>3, <3>1 DEF NotBlacklisted, NotGated, Decided
  <2> QED
    BY <2>2, <2>3
<1>4. CASE LookupPort
  <2>1. /\ pkt' = pkt /\ standingKeys' = standingKeys /\ standingPorts' = standingPorts
        /\ standingPorts \subseteq BlockedPorts
    BY <1>4, ProgramFrame DEF history, Bracketed
  <2>2. CASE SubjectToGate(pkt) /\ portGate[pkt.dst_port] = 2
    <3>1. drop_reason' = "PortBlocked"
      BY <1>4, <2>2 DEF LookupPort, Conclude
    <3> QED
      BY <3>1 DEF NotBlacklisted, NotGated
  <2>3. CASE ~(SubjectToGate(pkt) /\ portGate[pkt.dst_port] = 2)
    <3>1. pc = "port" /\ pc' = "rate" /\ drop_reason' = drop_reason
      BY <1>4, <2>3 DEF LookupPort, GoOn, packet
    <3>2. ~(SubjectToGate(pkt) /\ pkt.dst_port \in standingPorts)
      BY <2>1, <2>3 DEF BlockedPorts
    <3> QED
      BY <2>1, <3>1, <3>2 DEF NotBlacklisted, NotGated, Decided, Whole, SubjectToGate
  <2> QED
    BY <2>2, <2>3
<1>5. CASE CheckRate
  <2>1. pkt' = pkt /\ standingKeys' = standingKeys /\ standingPorts' = standingPorts
    BY <1>5, ProgramFrame DEF history
  <2>2. pc = "rate" /\ pc' = "dry"
    BY <1>5 DEF CheckRate, Conclude
  <2>3. drop_reason' \in {"None", "RateLimited"}
    BY <1>5 DEF CheckRate, Conclude
  <2>4. drop_reason = "None"
    BY <2>2 DEF Pending
  <2> QED
    BY <2>1, <2>2, <2>3, <2>4 DEF NotBlacklisted, NotGated, Decided, Whole,
                                  SubjectToGate
<1>6. CASE ReadDryRun \/ ReadThreshold \/ Emit \/ Suppress
  <2>1. pkt' = pkt /\ standingKeys' = standingKeys /\ standingPorts' = standingPorts
    BY <1>6, ProgramFrame DEF history
  <2>2. pc \in Decided /\ pc' \in Decided /\ drop_reason' = drop_reason
    BY <1>6 DEF ReadDryRun, ReadThreshold, Emit, Suppress, packet, Decided
  <2> QED
    BY <2>1, <2>2 DEF NotBlacklisted, NotGated, Whole, SubjectToGate
<1>7. CASE Return
  BY <1>7 DEF Return, NotBlacklisted, NotGated, Decided
<1>8. CASE Control \/ (\E h \in Hosts : Evict(h)) \/ UNCHANGED vars
  <2>1. pkt' = pkt /\ pc' = pc /\ drop_reason' = drop_reason
    BY <1>8, ControlKeepsPacket, EvictKeepsPacket, Zenon
       DEF ControlFrame, packet, vars
  <2>2. CASE pc = "idle"
    BY <2>1, <2>2 DEF NotBlacklisted, NotGated, Decided
  <2>3. CASE pc # "idle"
    <3>1. standingKeys' \subseteq standingKeys /\ standingPorts' \subseteq standingPorts
      BY <2>3, <1>1 DEF Arrive
    <3> QED
      BY <2>1, <3>1 DEF NotBlacklisted, NotGated, Whole, SubjectToGate
  <2> QED
    BY <2>2, <2>3
<1> QED
  BY <1>2, <1>3, <1>4, <1>5, <1>6, <1>7, <1>8, Zenon DEF Next, Program

\* The mode is a flag, and the histories of mode and level only grow.
DryType == dryRun \in BOOLEAN

\* Each step keeps the dry-run mode a Boolean.
LEMMA StepDryType == DryType /\ [Next]_vars => DryType'
<1> SUFFICES ASSUME DryType, [Next]_vars PROVE DryType'
  OBVIOUS
<1>1. CASE Control
  BY <1>1, Zenon DEF Control, BlockIP, UnblockIP, BlockPort, UnblockPort, SetDryRun,
                     SetLogLevel, DryType
<1>2. CASE Program
  <2>1. policy' = policy
    <3>1. CASE (\E p \in Packets : Arrive(p)) \/ Return
      BY <3>1 DEF Arrive, Return
    <3> QED
      BY <1>2, <3>1, ProgramFrame DEF Program
  <2> QED
    BY <2>1, Zenon DEF policy, DryType
<1>3. CASE (\E h \in Hosts : Evict(h)) \/ UNCHANGED vars
  BY <1>3, EvictKeepsPacket, Zenon DEF vars, policy, DryType
<1> QED
  BY <1>1, <1>2, <1>3, Zenon DEF Next

\* A change of policy or an eviction adds to what the packet has seen.
LEMMA SeenGrows ==
  ASSUME Control \/ (\E h \in Hosts : Evict(h)) \/ UNCHANGED vars
  PROVE  /\ seenDry \subseteq seenDry' /\ seenLevels \subseteq seenLevels'
         /\ seenKeys \subseteq seenKeys' /\ seenPorts \subseteq seenPorts'
         /\ UNCHANGED <<pc, pkt, drop_reason, verdict, telemetry, event>>
<1>1. CASE Control
  BY <1>1, ControlKeepsPacket, Zenon DEF ControlFrame, Observe, history, packet
<1>2. CASE (\E h \in Hosts : Evict(h)) \/ UNCHANGED vars
  BY <1>2, EvictKeepsPacket, Zenon DEF vars, history, packet
<1> QED
  BY <1>1, <1>2

\* One reading of the mode decides the verdict and the record together.
LEMMA StepVerdict ==
  Bracketed /\ DryType /\ VerdictInv /\ [Next]_vars => VerdictInv'
<1> SUFFICES ASSUME Bracketed, DryType, VerdictInv, [Next]_vars PROVE VerdictInv'
  OBVIOUS
<1>1. CASE Control \/ (\E h \in Hosts : Evict(h)) \/ UNCHANGED vars
  <2>1. /\ seenDry \subseteq seenDry' /\ pc' = pc /\ drop_reason' = drop_reason
        /\ verdict' = verdict /\ telemetry' = telemetry
    BY <1>1, SeenGrows
  <2> QED
    BY <2>1, Zenon DEF VerdictInv
<1>2. CASE \E p \in Packets : Arrive(p)
  BY <1>2 DEF Arrive, FirstCheck, VerdictInv, Final
<1>3. CASE LookupBlacklist
  BY <1>3 DEF LookupBlacklist, Conclude, GoOn, VerdictInv, Final
<1>4. CASE LookupPort
  BY <1>4 DEF LookupPort, Conclude, GoOn, VerdictInv, Final
<1>5. CASE CheckRate
  BY <1>5 DEF CheckRate, Conclude, VerdictInv, Final
<1>6. CASE ReadDryRun
  <2>1. /\ pc = "dry" /\ drop_reason' = drop_reason /\ seenDry' = seenDry
        /\ dryRun \in seenDry
    BY <1>6 DEF ReadDryRun, Bracketed, history
  <2>2. CASE drop_reason = "None"
    BY <1>6, <2>1, <2>2 DEF ReadDryRun, VerdictInv
  <2>3. CASE drop_reason # "None" /\ dryRun
    <3>1. verdict' = "PASS" /\ telemetry' = "WouldDrop"
      BY <1>6, <2>3 DEF ReadDryRun
    <3>2. TRUE \in seenDry'
      BY <2>1, <2>3, Zenon DEF DryType
    <3> QED
      BY <2>1, <2>3, <3>1, <3>2, Zenon DEF VerdictInv
  <2>4. CASE drop_reason # "None" /\ ~dryRun
    <3>1. verdict' = "DROP" /\ telemetry' = "Drop"
      BY <1>6, <2>4 DEF ReadDryRun
    <3>2. FALSE \in seenDry'
      <4>1. dryRun = FALSE
        BY <2>4, Zenon DEF DryType
      <4> QED
        BY <2>1, <4>1, Zenon
    <3> QED
      BY <2>1, <2>4, <3>1, <3>2, Zenon DEF VerdictInv
  <2> QED
    BY <2>2, <2>3, <2>4, Zenon
<1>7. CASE ReadThreshold \/ Emit \/ Suppress
  <2>1. /\ drop_reason' = drop_reason /\ verdict' = verdict /\ telemetry' = telemetry
        /\ seenDry' = seenDry /\ pc \in Final
    BY <1>7 DEF ReadThreshold, Emit, Suppress, packet, history, Final
  <2> QED
    BY <2>1, Zenon DEF VerdictInv
<1>8. CASE Return
  BY <1>8 DEF Return, VerdictInv, Final
<1> QED
  BY <1>1, <1>2, <1>3, <1>4, <1>5, <1>6, <1>7, <1>8, Zenon DEF Next, Program

\* The level is a number.
LevelType == threshold \in Nat

\* Each step keeps the log threshold a number.
LEMMA StepLevelType == LevelType /\ [Next]_vars => LevelType'
<1> SUFFICES ASSUME LevelType, [Next]_vars PROVE LevelType'
  OBVIOUS
<1>1. CASE \E level \in Levels : SetLogLevel(level)
  <2>1. threshold' \in Levels
    BY <1>1, Zenon DEF SetLogLevel
  <2>2. Levels \subseteq 0 .. 4
    BY Constants
  <2> QED
    BY <2>1, <2>2 DEF LevelType
<1>2. CASE Control /\ ~ \E level \in Levels : SetLogLevel(level)
  BY <1>2, Zenon DEF Control, BlockIP, UnblockIP, BlockPort, UnblockPort, SetDryRun,
                     LevelType
<1>3. CASE Program
  <2>1. policy' = policy
    <3>1. CASE (\E p \in Packets : Arrive(p)) \/ Return
      BY <3>1 DEF Arrive, Return
    <3> QED
      BY <1>3, <3>1, ProgramFrame DEF Program
  <2> QED
    BY <2>1, Zenon DEF policy, LevelType
<1>4. CASE (\E h \in Hosts : Evict(h)) \/ UNCHANGED vars
  BY <1>4, EvictKeepsPacket, Zenon DEF vars, policy, LevelType
<1> QED
  BY <1>1, <1>2, <1>3, <1>4, Zenon DEF Next

\* Every reason has a severity.
LEMMA SeverityType == ASSUME NEW r PROVE Severity(r) \in Nat
BY DEF Severity

\* A record is written for a reason the level read for it lets through.
LEMMA StepEvent ==
  Bracketed /\ LevelType /\ EventInv /\ [Next]_vars => EventInv'
<1> SUFFICES ASSUME Bracketed, LevelType, EventInv, [Next]_vars PROVE EventInv'
  OBVIOUS
<1>1. CASE Control \/ (\E h \in Hosts : Evict(h)) \/ UNCHANGED vars
  <2>1. /\ seenLevels \subseteq seenLevels' /\ pc' = pc /\ drop_reason' = drop_reason
        /\ event' = event /\ telemetry' = telemetry
    BY <1>1, SeenGrows
  <2>2. LevelPermits => LevelPermits'
    BY <2>1, Zenon DEF LevelPermits
  <2> QED
    BY <2>1, <2>2 DEF EventInv
<1>2. CASE \E p \in Packets : Arrive(p)
  BY <1>2 DEF Arrive, FirstCheck, EventInv, NoEvent
<1>3. CASE LookupBlacklist
  BY <1>3 DEF LookupBlacklist, Conclude, GoOn, packet, EventInv, NoEvent
<1>4. CASE LookupPort
  BY <1>4 DEF LookupPort, Conclude, GoOn, packet, EventInv, NoEvent
<1>5. CASE CheckRate
  BY <1>5 DEF CheckRate, Conclude, EventInv, NoEvent
<1>6. CASE ReadDryRun
  BY <1>6 DEF ReadDryRun, EventInv, NoEvent
<1>7. CASE ReadThreshold
  <2>1. /\ pc = "level" /\ drop_reason' = drop_reason /\ event' = event
        /\ seenLevels' = seenLevels /\ threshold \in seenLevels
    BY <1>7 DEF ReadThreshold, Bracketed, history, packet
  <2>2. event' = NoEvent'
    BY <2>1 DEF EventInv, NoEvent
  <2>3. CASE threshold = 0 \/ Severity(drop_reason) < threshold
    <3>1. pc' = "done"
      BY <1>7, <2>3 DEF ReadThreshold
    <3> QED
      BY <2>2, <3>1 DEF EventInv
  <2>4. CASE ~(threshold = 0 \/ Severity(drop_reason) < threshold)
    <3>1. 0 < threshold /\ threshold <= Severity(drop_reason)
      BY <2>4, SeverityType DEF LevelType
    <3>2. LevelPermits'
      BY <2>1, <3>1, Zenon DEF LevelPermits
    <3> QED
      BY <2>2, <3>2 DEF EventInv
  <2> QED
    BY <2>3, <2>4
<1>8. CASE Emit
  <2>1. /\ pc = "log" /\ pc' = "done" /\ drop_reason' = drop_reason
        /\ telemetry' = telemetry /\ seenLevels' = seenLevels
        /\ event'.action = telemetry /\ event'.drop_reason = drop_reason
    BY <1>8 DEF Emit, history
  <2>2. LevelPermits'
    BY <2>1, Zenon DEF EventInv, LevelPermits
  <2> QED
    BY <2>1, <2>2 DEF EventInv
<1>9. CASE Suppress
  BY <1>9 DEF Suppress, packet, EventInv, NoEvent
<1>10. CASE Return
  BY <1>10 DEF Return, EventInv, NoEvent
<1> QED
  BY <1>1, <1>2, <1>3, <1>4, <1>5, <1>6, <1>7, <1>8, <1>9, <1>10, Zenon
     DEF Next, Program

\* Why a packet has the reason it has.
Justified ==
  pc \in Decided =>
    \/ drop_reason \in {"None", HeaderReason(pkt)}
    \/ \E k \in seenKeys : pkt.src_ip \in Covers[k]
    \/ SubjectToGate(pkt) /\ pkt.dst_port \in seenPorts
    \/ drop_reason = "RateLimited" /\ tokens[pkt.src_ip] \in {Absent, 0}

CellType ==
  /\ pkt \in Packet
  /\ tokens \in [Hosts -> Absent .. BurstCapacity]

\* Each step keeps the packet well formed and each balance within the burst.
LEMMA StepCellType == CellType /\ [Next]_vars => CellType'
<1> SUFFICES ASSUME CellType, [Next]_vars PROVE CellType'
  OBVIOUS
<1>1. CASE \E p \in Packets : Arrive(p)
  <2>1. pkt' \in Packets /\ tokens' = tokens
    BY <1>1, Zenon DEF Arrive
  <2>2. Packets \subseteq Packet
    BY Constants
  <2> QED
    BY <2>1, <2>2, Zenon DEF CellType
<1>2. CASE CheckRate
  <2>1. pkt' = pkt /\ pkt.src_ip \in Hosts
    BY <1>2 DEF CheckRate, Conclude, CellType, Packet
  <2>2. BurstCapacity \in Nat \ {0}
    BY Constants
  <2>3. tokens \in [Hosts -> Absent .. BurstCapacity]
    BY DEF CellType
  <2>4. PICK earned \in 0 .. BurstCapacity :
          \/ tokens' = [tokens EXCEPT ![pkt.src_ip] = BurstCapacity - 1]
          \/ LET have == IF tokens[pkt.src_ip] + earned < BurstCapacity
                         THEN tokens[pkt.src_ip] + earned ELSE BurstCapacity
             IN  have >= 1 /\ tokens' = [tokens EXCEPT ![pkt.src_ip] = have - 1]
          \/ tokens' = tokens
    BY <1>2 DEF CheckRate
  <2>5. tokens[pkt.src_ip] \in Absent .. BurstCapacity
    BY <2>1, <2>3
  <2>6. tokens' \in [Hosts -> Absent .. BurstCapacity]
    BY <2>1, <2>2, <2>3, <2>4, <2>5 DEF Absent
  <2> QED
    BY <2>1, <2>6, Zenon DEF CellType
<1>3. CASE LookupBlacklist \/ LookupPort
  <2>1. pkt' = pkt /\ tokens' = tokens
    BY <1>3 DEF LookupBlacklist, LookupPort, Conclude, GoOn, packet
  <2> QED
    BY <2>1, Zenon DEF CellType
<1>4. CASE ReadDryRun \/ ReadThreshold \/ Emit \/ Suppress \/ Return
  <2>1. pkt' = pkt /\ tokens' = tokens
    BY <1>4 DEF ReadDryRun, ReadThreshold, Emit, Suppress, Return, packet
  <2> QED
    BY <2>1, Zenon DEF CellType
<1>5. CASE Control \/ UNCHANGED vars
  <2>1. pkt' = pkt /\ tokens' = tokens
    BY <1>5, ControlKeepsPacket DEF ControlFrame, packet, vars
  <2> QED
    BY <2>1, Zenon DEF CellType
<1>6. CASE \E h \in Hosts : Evict(h)
  <2>1. pkt' = pkt
    BY <1>6 DEF Evict, packet
  <2>2. BurstCapacity \in Nat \ {0}
    BY Constants
  <2>3. tokens' \in [Hosts -> Absent .. BurstCapacity]
    BY <1>6, <2>2 DEF Evict, CellType, Absent
  <2> QED
    BY <2>1, <2>3, Zenon DEF CellType
<1> QED
  BY <1>1, <1>2, <1>3, <1>4, <1>5, <1>6, Zenon DEF Next, Program

\* Every reason is one of those when it is given, and remains so.
LEMMA StepJustified ==
  Bracketed /\ CellType /\ Pending /\ Justified /\ [Next]_vars => Justified'
<1> SUFFICES ASSUME Bracketed, CellType, Pending, Justified, [Next]_vars
             PROVE  Justified'
  OBVIOUS
<1>1. CASE Control \/ UNCHANGED vars
  <2>1. /\ seenKeys \subseteq seenKeys' /\ seenPorts \subseteq seenPorts'
        /\ pc' = pc /\ pkt' = pkt /\ drop_reason' = drop_reason
    BY <1>1, SeenGrows
  <2>2. tokens' = tokens
    BY <1>1, ControlKeepsPacket DEF ControlFrame, vars
  <2> QED
    BY <2>1, <2>2, Zenon DEF Justified, Absent
<1>2. CASE \E h \in Hosts : Evict(h)
  <2>1. /\ seenKeys' = seenKeys /\ seenPorts' = seenPorts
        /\ pc' = pc /\ pkt' = pkt /\ drop_reason' = drop_reason
    BY <1>2, EvictKeepsPacket DEF history, packet
  <2>2. tokens'[pkt.src_ip] \in {tokens[pkt.src_ip], Absent}
    BY <1>2 DEF Evict, CellType, Packet
  <2> QED
    BY <2>1, <2>2 DEF Justified
<1>3. CASE \E p \in Packets : Arrive(p)
  BY <1>3 DEF Arrive, Justified
<1>4. CASE LookupBlacklist
  <2>1. pkt' = pkt /\ seenKeys' = seenKeys /\ reputationMap \subseteq seenKeys
    BY <1>4, ProgramFrame DEF history, Bracketed
  <2>2. CASE \E k \in reputationMap : pkt.src_ip \in Covers[k]
    BY <2>1, <2>2 DEF Justified
  <2>3. CASE ~ \E k \in reputationMap : pkt.src_ip \in Covers[k]
    BY <1>4, <2>3 DEF LookupBlacklist, GoOn, Justified, Decided
  <2> QED
    BY <2>2, <2>3
<1>5. CASE LookupPort
  <2>1. /\ pkt' = pkt /\ seenPorts' = seenPorts /\ BlockedPorts \subseteq seenPorts
        /\ pkt.dst_port \in Ports
    BY <1>5, ProgramFrame DEF history, Bracketed, CellType, Packet
  <2>2. CASE SubjectToGate(pkt) /\ portGate[pkt.dst_port] = 2
    <3>1. pkt.dst_port \in seenPorts
      BY <2>1, <2>2 DEF BlockedPorts
    <3> QED
      BY <2>1, <2>2, <3>1 DEF Justified, SubjectToGate
  <2>3. CASE ~(SubjectToGate(pkt) /\ portGate[pkt.dst_port] = 2)
    BY <1>5, <2>3 DEF LookupPort, GoOn, Justified, Decided
  <2> QED
    BY <2>2, <2>3
<1>6. CASE CheckRate
  <2>1. pkt' = pkt /\ pkt.src_ip \in Hosts /\ tokens[pkt.src_ip] \in Absent .. BurstCapacity
    BY <1>6, ProgramFrame DEF CellType, Packet
  <2>3. PICK earned \in 0 .. BurstCapacity :
          \/ drop_reason' = "None"
          \/ /\ drop_reason' = "RateLimited" /\ tokens' = tokens
             /\ tokens[pkt.src_ip] # Absent
             /\ (IF tokens[pkt.src_ip] + earned < BurstCapacity
                 THEN tokens[pkt.src_ip] + earned ELSE BurstCapacity) < 1
    BY <1>6 DEF CheckRate, Conclude
  <2>4. BurstCapacity \in Nat \ {0}
    BY Constants
  <2>2. \/ drop_reason' = "None"
        \/ drop_reason' = "RateLimited" /\ tokens' = tokens /\ tokens[pkt.src_ip] = 0
    BY <2>1, <2>3, <2>4 DEF Absent
  <2> QED
    BY <2>1, <2>2 DEF Justified
<1>7. CASE ReadDryRun \/ ReadThreshold \/ Emit \/ Suppress
  <2>1. pkt' = pkt /\ seenKeys' = seenKeys /\ seenPorts' = seenPorts
    BY <1>7, ProgramFrame DEF history
  <2>2. pc \in Decided /\ drop_reason' = drop_reason /\ tokens' = tokens
    BY <1>7 DEF ReadDryRun, ReadThreshold, Emit, Suppress, packet, Decided
  <2> QED
    BY <2>1, <2>2, Zenon DEF Justified, Absent
<1>8. CASE Return
  BY <1>8 DEF Return, Justified, Decided
<1> QED
  BY <1>1, <1>2, <1>3, <1>4, <1>5, <1>6, <1>7, <1>8, Zenon DEF Next, Program

\* What the headers of a packet they condemn look like.
Condemned(p) ==
  \/ ~p.intact \/ ~p.l4ok \/ p.eth_type = "short"
  \/ p.src_ip = p.dst_ip /\ p.src_ip \notin Loopback
  \/ p.proto = "tcp" /\ \/ p.flags \subseteq {"ECE", "CWR"}
                        \/ {"SYN", "FIN"} \subseteq p.flags
                        \/ {"FIN", "PSH", "URG"} \subseteq p.flags

\* A packet whose headers give a reason is one no policy lets pass.
LEMMA HeaderCondemns ==
  ASSUME NEW p \in Packet, HeaderReason(p) # "None"
  PROVE  Condemned(p)
<1>1. SUFFICES ASSUME p.intact, p.l4ok, p.eth_type # "short" PROVE Condemned(p)
  BY DEF Condemned
<1>2. p.eth_type = "ipv4" /\ ~p.is_fragment /\ HeaderReason(p) = RfcReason(p)
  BY <1>1 DEF HeaderReason, Packet
<1>3. RfcReason(p) # "None"
  BY <1>2
<1> QED
  BY <1>3 DEF RfcReason, Condemned

\* The inductive invariant.
PInv ==
  /\ Bracketed /\ DryType /\ LevelType /\ CellType /\ Pending
  /\ NotBlacklisted /\ NotGated
  /\ VerdictInv /\ EventInv /\ Justified

\* The program starts with no packet and the maps as loaded.
LEMMA InitPInv == Init => PInv
<1> SUFFICES ASSUME Init PROVE PInv
  OBVIOUS
<1>1. pc = "idle" /\ event = NoEvent
  BY DEF Init
<1>2. Bracketed /\ Pending /\ NotBlacklisted /\ NotGated /\ VerdictInv /\ EventInv
        /\ Justified
  BY <1>1 DEF Bracketed, Pending, NotBlacklisted, NotGated, VerdictInv, EventInv,
              Justified, Decided, Final
<1>3. DryType
  BY Zenon DEF Init, DryType
<1>4. LevelType
  BY DEF Init, LevelType
<1>5. CellType
  <2>1. pkt \in Packet
    BY Constants, Zenon DEF Init
  <2>2. BurstCapacity \in Nat \ {0}
    BY Constants
  <2>3. tokens \in [Hosts -> Absent .. BurstCapacity]
    BY <2>2 DEF Init, Absent
  <2> QED
    BY <2>1, <2>3 DEF CellType
<1> QED
  BY <1>2, <1>3, <1>4, <1>5, Zenon DEF PInv

\* Each step preserves the invariant, part by part.
LEMMA StepPInv == PInv /\ [Next]_vars => PInv'
BY StepBracketed, StepDryType, StepLevelType, StepCellType, StepPending,
   StepUnmatched, StepVerdict, StepEvent, StepJustified, Zenon DEF PInv

\* The invariant holds in every reachable state.
THEOREM PipelineInvariant == Spec => []PInv
BY InitPInv, StepPInv, PTL DEF Spec

\* No interleaving of policy changes lets a packet through that a rule in
\* force ever since it arrived condemns.
THEOREM RulesEnforced == Spec => []StandingRulesEnforced
<1>1. PInv => StandingRulesEnforced
  <2> SUFFICES ASSUME PInv, pc = "done", Whole(pkt), seenDry = {FALSE},
                      \/ \E k \in standingKeys : pkt.src_ip \in Covers[k]
                      \/ SubjectToGate(pkt) /\ pkt.dst_port \in standingPorts
               PROVE  verdict = "DROP"
    BY DEF StandingRulesEnforced, SubjectToGate
  <2>1. drop_reason # "None"
    BY DEF PInv, NotBlacklisted, NotGated, Decided
  <2>2. TRUE \notin seenDry
    BY Zenon
  <2> QED
    BY <2>1, <2>2 DEF PInv, VerdictInv, Final
<1> QED
  BY <1>1, PipelineInvariant, PTL

\* Nothing is dropped for a rule that was never in force, and replies never
\* fall to the port gate.
THEOREM NoUnjustifiedDrop == Spec => []DropsJustified
<1>1. PInv => DropsJustified
  <2> SUFFICES ASSUME PInv, pc = "done", verdict = "DROP" PROVE DropsJustified
    BY DEF DropsJustified
  <2>1. drop_reason # "None"
    BY DEF PInv, VerdictInv, Final
  <2>2. pkt \in Packet
    BY DEF PInv, CellType
  <2>3. \/ drop_reason = HeaderReason(pkt)
        \/ \E k \in seenKeys : pkt.src_ip \in Covers[k]
        \/ SubjectToGate(pkt) /\ pkt.dst_port \in seenPorts
        \/ drop_reason = "RateLimited" /\ tokens[pkt.src_ip] \in {Absent, 0}
    BY <2>1 DEF PInv, Justified, Decided
  <2>4. CASE drop_reason = HeaderReason(pkt)
    BY <2>1, <2>2, <2>4, HeaderCondemns DEF Condemned, DropsJustified
  <2>5. CASE SubjectToGate(pkt) /\ pkt.dst_port \in seenPorts
    BY <2>5 DEF SubjectToGate, DropsJustified
  <2> QED
    BY <2>3, <2>4, <2>5 DEF DropsJustified
<1> QED
  BY <1>1, PipelineInvariant, PTL

\* In dry-run mode no packet is dropped.
THEOREM DryRunSafe == Spec => []DryRunHarmless
<1>1. PInv => DryRunHarmless
  <2> SUFFICES ASSUME PInv, pc = "done", seenDry = {TRUE} PROVE verdict = "PASS"
    BY DEF DryRunHarmless
  <2>1. FALSE \notin seenDry
    BY Zenon
  <2> QED
    BY <2>1 DEF PInv, VerdictInv, Final
<1> QED
  BY <1>1, PipelineInvariant, PTL

\* A record tells what became of its packet, whatever is switched meanwhile.
THEOREM RecordsTruthful == Spec => []TelemetryTruthful
<1>1. PInv => TelemetryTruthful
  BY DEF PInv, VerdictInv, EventInv, Final, TelemetryTruthful
<1> QED
  BY <1>1, PipelineInvariant, PTL

\* The reason of a record passed a level that was set while the packet was
\* handled.
THEOREM RecordsWithinLevel == Spec => []RecordWithinLevel
<1>1. PInv => RecordWithinLevel
  BY DEF PInv, EventInv, LevelPermits, RecordWithinLevel
<1> QED
  BY <1>1, PipelineInvariant, PTL

-----------------------------------------------------------------------------
(* Types.                                                                  *)

PolicyTypes ==
  /\ reputationMap \in SUBSET Keys
  /\ portGate \in [Ports -> {0, 2}]
  /\ dryRun \in BOOLEAN
  /\ threshold \in 0 .. 4

HistoryTypes ==
  /\ standingKeys \in SUBSET Keys /\ seenKeys \in SUBSET Keys
  /\ standingPorts \in SUBSET Ports /\ seenPorts \in SUBSET Ports
  /\ seenDry \in SUBSET BOOLEAN
  /\ seenLevels \in SUBSET (0 .. 4)

OutcomeTypes ==
  /\ pc \in {"idle", "blacklist", "port", "rate", "dry", "level", "log", "done"}
  /\ drop_reason \in DropReason
  /\ verdict \in {"PASS", "DROP"}
  /\ telemetry \in {"Pass", "Drop", "WouldDrop"}

\* The record, once written, is that of the packet at hand.
EventOfPacket ==
  \/ event = NoEvent
  \/ /\ pc = "done"
     /\ event = [src_ip |-> MetaSrc(pkt), action |-> telemetry, drop_reason |-> drop_reason]

\* The program leaves the policy to user space.
LEMMA ProgramKeepsPolicy == Program => UNCHANGED policy
<1>1. CASE (\E p \in Packets : Arrive(p)) \/ Return
  BY <1>1 DEF Arrive, Return
<1> QED
  BY <1>1, ProgramFrame DEF Program

\* User space writes only keys, ports and levels there are.
LEMMA StepPolicyTypes == PolicyTypes /\ [Next]_vars => PolicyTypes'
<1> SUFFICES ASSUME PolicyTypes, [Next]_vars PROVE PolicyTypes'
  OBVIOUS
<1>1. ASSUME NEW k \in Keys, BlockIP(k) \/ UnblockIP(k) PROVE PolicyTypes'
  BY <1>1, Zenon DEF BlockIP, UnblockIP, PolicyTypes
<1>2. ASSUME NEW p \in Ports, BlockPort(p) \/ UnblockPort(p) PROVE PolicyTypes'
  <2>1. portGate' \in [Ports -> {0, 2}]
    BY <1>2 DEF BlockPort, UnblockPort, PolicyTypes
  <2> QED
    BY <1>2, <2>1, Zenon DEF BlockPort, UnblockPort, PolicyTypes
<1>3. ASSUME NEW enabled \in BOOLEAN, SetDryRun(enabled) PROVE PolicyTypes'
  BY <1>3, Zenon DEF SetDryRun, PolicyTypes
<1>4. ASSUME NEW level \in Levels, SetLogLevel(level) PROVE PolicyTypes'
  BY <1>4, LevelsAssumption, Zenon DEF SetLogLevel, PolicyTypes
<1>5. CASE Program \/ (\E h \in Hosts : Evict(h)) \/ UNCHANGED vars
  <2>1. UNCHANGED policy
    BY <1>5, ProgramKeepsPolicy, EvictKeepsPacket DEF vars
  <2> QED
    BY <2>1, Zenon DEF policy, PolicyTypes
<1> QED
  BY <1>1, <1>2, <1>3, <1>4, <1>5 DEF Next, Control

\* The histories note values of the policy.
LEMMA StepHistoryTypes ==
  PolicyTypes /\ HistoryTypes /\ [Next]_vars => HistoryTypes'
<1> SUFFICES ASSUME PolicyTypes, HistoryTypes, [Next]_vars PROVE HistoryTypes'
  OBVIOUS
<1>1. PolicyTypes'
  BY StepPolicyTypes
<1>2. BlockedPorts \subseteq Ports /\ BlockedPorts' \subseteq Ports
  BY Zenon DEF BlockedPorts
<1>3. CASE Control
  BY <1>1, <1>2, <1>3, ControlKeepsPacket, Zenon
     DEF ControlFrame, Observe, history, PolicyTypes, HistoryTypes
<1>4. CASE \E p \in Packets : Arrive(p)
  BY <1>2, <1>4, Zenon DEF Arrive, PolicyTypes, HistoryTypes
<1>5. CASE Return
  BY <1>5, Zenon DEF Return, HistoryTypes
<1>6. CASE UNCHANGED history
  BY <1>6, Zenon DEF history, HistoryTypes
<1> QED
  BY <1>3, <1>4, <1>5, <1>6, ProgramFrame, EvictKeepsPacket DEF Next, Program, vars

\* The headers give one of the reasons of the parsers or of the RFC checks.
LEMMA HeaderReasonType ==
  ASSUME NEW p \in Packet PROVE HeaderReason(p) \in DropReason
<1>1. RfcReason(p) \in RfcReasons \cup {"None"}
  BY DEF RfcReason, RfcReasons
<1>2. RfcReason(p) \in DropReason
  BY <1>1 DEF DropReason
<1>3. {"None", "EthParseFailed", "ArpParseFailed", "Ipv4ParseFailed", "TcpParseFailed",
       "UdpParseFailed"} \subseteq DropReason
  BY DEF DropReason, ParseReasons
<1>4. p.eth_type \in {"short", "ipv4", "arp", "other"}
  BY DEF Packet
<1>5. CASE p.eth_type # "ipv4"
  BY <1>3, <1>4, <1>5 DEF HeaderReason
<1>6. CASE p.eth_type = "ipv4"
  BY <1>2, <1>3, <1>6 DEF HeaderReason
<1> QED
  BY <1>5, <1>6

\* Each step ends in a place, a reason and a verdict there are, and a record
\* is written of the packet at hand only.
LEMMA StepOutcomeTypes ==
  OutcomeTypes /\ EventOfPacket /\ [Next]_vars => OutcomeTypes' /\ EventOfPacket'
<1> SUFFICES ASSUME OutcomeTypes, EventOfPacket, [Next]_vars
             PROVE  OutcomeTypes' /\ EventOfPacket'
  OBVIOUS
<1>a. {"None", "BlacklistHit", "PortBlocked", "RateLimited"} \subseteq DropReason
  BY DEF DropReason, PolicyReasons
<1>b. pc # "done" => event = NoEvent
  BY DEF EventOfPacket
<1>c. NoEvent' = NoEvent
  BY DEF NoEvent
<1>1. CASE Control \/ (\E h \in Hosts : Evict(h)) \/ UNCHANGED vars
  BY <1>1, <1>c, SeenGrows DEF OutcomeTypes, EventOfPacket, MetaSrc
<1>2. ASSUME NEW p \in Packets, Arrive(p) PROVE OutcomeTypes' /\ EventOfPacket'
  <2>1. pc' \in {"dry", "rate", "blacklist"} /\ drop_reason' \in DropReason
    BY <1>2, HeaderReasonType, PacketsAssumption DEF Arrive, FirstCheck
  <2> QED
    BY <1>2, <1>b, <1>c, <2>1 DEF Arrive, OutcomeTypes, EventOfPacket
<1>3. CASE LookupBlacklist \/ LookupPort \/ CheckRate
  <2>1. /\ pc # "done" /\ UNCHANGED <<verdict, telemetry, event>>
        /\ drop_reason' \in {drop_reason, "None", "BlacklistHit", "PortBlocked", "RateLimited"}
        /\ pc' \in {"dry", "port", "rate"}
    BY <1>3 DEF LookupBlacklist, LookupPort, CheckRate, Conclude, GoOn, packet
  <2> QED
    BY <1>a, <1>b, <1>c, <2>1 DEF OutcomeTypes, EventOfPacket
<1>4. CASE ReadDryRun
  <2>1. /\ verdict' \in {"PASS", "DROP"} /\ telemetry' \in {"Pass", "Drop", "WouldDrop"}
        /\ pc = "dry" /\ pc' = "level" /\ UNCHANGED <<drop_reason, event>>
    BY <1>4, Zenon DEF ReadDryRun
  <2> QED
    BY <1>b, <1>c, <2>1 DEF OutcomeTypes, EventOfPacket
<1>5. CASE ReadThreshold \/ Suppress
  <2>1. pc # "done" /\ pc' \in {"done", "log"} /\ UNCHANGED packet
    BY <1>5 DEF ReadThreshold, Suppress
  <2> QED
    BY <1>b, <1>c, <2>1 DEF packet, OutcomeTypes, EventOfPacket
<1>6. CASE Emit
  BY <1>6 DEF Emit, OutcomeTypes, EventOfPacket, MetaSrc
<1>7. CASE Return
  BY <1>7, <1>a, <1>c DEF Return, OutcomeTypes, EventOfPacket
<1> QED
  BY <1>1, <1>2, <1>3, <1>4, <1>5, <1>6, <1>7 DEF Next, Program

\* The invariant of the types.
TInv == PolicyTypes /\ HistoryTypes /\ OutcomeTypes /\ EventOfPacket /\ CellType

\* The types hold, and the record is that of the packet, in every reachable
\* state.
THEOREM TypesInvariant == Spec => []TInv
<1>1. Init => TInv
  <2> SUFFICES ASSUME Init PROVE TInv
    OBVIOUS
  <2>1. CellType
    BY InitPInv DEF PInv
  <2>2. portGate \in [Ports -> {0, 2}] /\ threshold \in 0 .. 4
    BY DEF Init
  <2>3. PolicyTypes
    BY <2>2, Zenon DEF Init, PolicyTypes
  <2>4. HistoryTypes
    BY Zenon DEF Init, HistoryTypes
  <2>5. OutcomeTypes /\ EventOfPacket
    BY DEF Init, OutcomeTypes, EventOfPacket, DropReason
  <2> QED
    BY <2>1, <2>3, <2>4, <2>5 DEF TInv
<1>2. TInv /\ [Next]_vars => TInv'
  BY StepPolicyTypes, StepHistoryTypes, StepOutcomeTypes, StepCellType, Zenon DEF TInv
<1> QED
  BY <1>1, <1>2, PTL DEF Spec

\* The program and user space keep to their types, the balance of every
\* source between nothing and the burst among them.
THEOREM TypeCorrect == Spec => []TypeOK
<1>1. TInv => TypeOK
  <2> SUFFICES ASSUME TInv PROVE TypeOK
    OBVIOUS
  <2>1. MetaSrc(pkt) \in Hosts /\ ZeroIP \in Hosts
    BY DataPlaneAssumption DEF TInv, CellType, MetaSrc, Packet
  <2>2. event \in [src_ip : Hosts, action : {"none", "Pass", "Drop", "WouldDrop"},
                   drop_reason : DropReason]
    BY <2>1 DEF TInv, OutcomeTypes, EventOfPacket, NoEvent, DropReason
  <2> QED
    BY <2>2, Zenon DEF TInv, PolicyTypes, HistoryTypes, OutcomeTypes, CellType, TypeOK
<1> QED
  BY <1>1, TypesInvariant, PTL
=============================================================================
