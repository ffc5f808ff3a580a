----------------------------- MODULE Aggregator -----------------------------
(***************************************************************************)
(* The rolling-window flow aggregator (user-space/pkg/aggregator/flow.go). *)
(* Readers call Ingest, which locks a flow shard, unlocks it, and then     *)
(* locks a port shard; the Run goroutine flushes a window by emptying all  *)
(* port shards, then one flow shard after the other, and offers one        *)
(* feature vector per flow to a buffered channel.  Readers, Run and the    *)
(* channel's consumer interleave at the locks and at the channel.          *)
(*                                                                         *)
(* A Go map entry is absent iff its counters are zero, so the maps are     *)
(* total functions here.  Inter-arrival times are kept as the number of    *)
(* samples, entropy as the distribution it is computed from.               *)
(***************************************************************************)
EXTENDS Integers, Sequences, FiniteSets, FiniteSetsExt

CONSTANTS
  Readers,            \* goroutines calling Ingest
  Meta,               \* the telemetry records they may read
  numShards,
  shardIndex(_),      \* FlowKey -> 1..numShards
  srcIPShardIndex(_), \* source address -> 1..numShards
  maxFlowsPerShard,
  maxPortsPerSrcIP,
  overflowPortKey,
  outputBufferSize,
  minIATSamplesForVariance,
  MaxPackets,         \* bound: records accepted
  MaxRejected,        \* bound: records rejected
  MaxWindows          \* bound: flushes

\* FlowPacketMeta, less the fields the aggregator ignores.  Addresses and
\* ports are numbers because canonicalize orders them.
MetaType == [src : Nat, dst : Nat, sport : Nat, dport : Nat, tcp : BOOLEAN,
             flags : SUBSET {"SYN", "ACK", "PSH", "FIN", "RST"}, ts : Nat]

\* canonicalize: the packet runs from the lower endpoint to the higher one.
srcIsLo(m) == m.src < m.dst \/ (m.src = m.dst /\ m.sport <= m.dport)

FlowKey(m) ==
  IF srcIsLo(m)
  THEN [ipLo |-> m.src, ipHi |-> m.dst, portLo |-> m.sport,
        portHi |-> m.dport, tcp |-> m.tcp]
  ELSE [ipLo |-> m.dst, ipHi |-> m.src, portLo |-> m.dport,
        portHi |-> m.sport, tcp |-> m.tcp]

FlowKeys == {FlowKey(m) : m \in Meta}
SrcIPs == {m.src : m \in Meta}
PortKeys == {m.dport : m \in Meta} \cup {overflowPortKey}
Shards == 1 .. numShards
Ids == 1 .. MaxPackets

ASSUME AggregatorAssumption ==
  /\ Meta \subseteq MetaType /\ IsFiniteSet(Meta)
  /\ numShards \in Nat \ {0}
  /\ \A k \in FlowKeys : shardIndex(k) \in Shards
  /\ \A ip \in SrcIPs : srcIPShardIndex(ip) \in Shards
  /\ maxFlowsPerShard \in Nat \ {0}
  /\ maxPortsPerSrcIP \in Nat \ {0}
  /\ overflowPortKey \in Nat
  /\ outputBufferSize \in Nat \ {0}
  /\ minIATSamplesForVariance \in Nat
  /\ MaxPackets \in Nat /\ MaxRejected \in Nat /\ MaxWindows \in Nat

VARIABLES
  flows,            \* the flow shards together: FlowKey -> flowAccumulator
  ports,            \* the port shards together: source -> portTracker
  reading,          \* reader -> its record between the two locks, or 0
  runPC,            \* where the Run goroutine is
  shardAt,          \* the loop variable i of flush
  portSnapshot,     \* flush's portSnapshot
  batch,            \* what is left of the flow map taken from a shard
  out,              \* the output channel
  closed,           \* close(a.out) has happened
  cancelled,        \* ctx is cancelled
  droppedNewFlows,
  droppedOutput,
  window,           \* history: how many flushes have begun
  trace,            \* history: the records accepted, in order
  flowWindow,       \* history: the flush that took a record's flow, or 0
  portWindow,       \* history: the flush that took its port; 0: not yet
                    \* taken, Unseen: not yet counted
  delivered,        \* history: records in features the consumer received
  discarded,        \* history: records in features found no room
  atCancel          \* history: how many records preceded the cancellation

tables == <<flows, ports>>
flushing == <<shardAt, portSnapshot, batch>>
channel == <<out, closed, droppedOutput, delivered, discarded>>
ghosts == <<trace, flowWindow, portWindow>>
ending == <<cancelled, atCancel>>
vars == <<tables, reading, runPC, flushing, channel, ending, droppedNewFlows,
          window, ghosts>>

Unseen == -1
NoEndpoints == [src |-> 0, dst |-> 0, sport |-> 0, dport |-> 0]
NoFlow == [first |-> NoEndpoints, packetCount |-> 0, forwardCount |-> 0,
           reverseCount |-> 0, synCount |-> 0, ackPshCount |-> 0,
           lastTimestamp |-> 0, iatSamples |-> 0]
NoTracker == [counts |-> [p \in PortKeys |-> 0], total |-> 0]

\* len(shard.flows), and the distinct ports of a tracker.
FlowsIn(s) == {k \in FlowKeys : shardIndex(k) = s /\ flows[k].packetCount > 0}
PortsOf(pt) == {p \in PortKeys : pt.counts[p] > 0}

-----------------------------------------------------------------------------
(* The two accumulators.                                                   *)

Count(condition) == IF condition THEN 1 ELSE 0

Endpoints(m) == [src |-> m.src, dst |-> m.dst, sport |-> m.sport,
                 dport |-> m.dport]

\* observe, less the endpoints it takes from a flow's first packet.
ObserveCounters(fa, m) ==
  [fa EXCEPT
     !.packetCount = @ + 1,
     !.forwardCount = @ + Count(srcIsLo(m)),
     !.reverseCount = @ + Count(~srcIsLo(m)),
     !.synCount = @ + Count(m.tcp /\ "SYN" \in m.flags),
     !.ackPshCount = @ + Count(m.tcp /\ m.flags \cap {"ACK", "PSH"} # {}),
     !.lastTimestamp = m.ts,
     !.iatSamples = @ + Count(fa.lastTimestamp # 0 /\ m.ts > fa.lastTimestamp)]

\* Mutant: the endpoints of the latest packet, not of the first.
ObserveFlowLatest(fa, m) ==
  [ObserveCounters(fa, m) EXCEPT !.first = Endpoints(m)]

\* flowAccumulator.observe.
ObserveFlow(fa, m) ==
  [ObserveCounters(fa, m) EXCEPT
     !.first = IF fa.packetCount = 0 THEN Endpoints(m) ELSE @]

\* Mutant: a port that finds the tracker full gets a bucket all the same.
ObservePortUncapped(pt, dport) ==
  [counts |-> [pt.counts EXCEPT ![dport] = @ + 1], total |-> pt.total + 1]

\* portTracker.observe: a new port that finds the tracker full is counted in
\* the overflow bucket, which is also the bucket of the real port 65535.
ObservePort(pt, dport) ==
  LET full == pt.counts[dport] = 0 /\ Cardinality(PortsOf(pt)) >= maxPortsPerSrcIP
      bucket == IF full THEN overflowPortKey ELSE dport
  IN  [counts |-> [pt.counts EXCEPT ![bucket] = @ + 1], total |-> pt.total + 1]

\* The FlowFeatures of a flow taken in window w.
Feature(k, fa, w) ==
  [key |-> k, acc |-> fa, window |-> w,
   iatKnown |-> fa.iatSamples >= minIATSamplesForVariance,
   ports |-> portSnapshot[fa.first.src]]

-----------------------------------------------------------------------------
Init ==
  /\ flows = [k \in FlowKeys |-> NoFlow]
  /\ ports = [ip \in SrcIPs |-> NoTracker]
  /\ reading = [r \in Readers |-> 0]
  /\ runPC = "select"
  /\ shardAt = 1
  /\ portSnapshot = [ip \in SrcIPs |-> NoTracker]
  /\ batch = {}
  /\ out = <<>>
  /\ closed = FALSE
  /\ cancelled = FALSE
  /\ droppedNewFlows = 0
  /\ droppedOutput = 0
  /\ window = 0
  /\ trace = <<>>
  /\ flowWindow = [i \in Ids |-> 0]
  /\ portWindow = [i \in Ids |-> Unseen]
  /\ delivered = 0
  /\ discarded = 0
  /\ atCancel = 0

\* Mutant: off by one.
HasRoomForOneMore(k) ==
  \/ flows[k].packetCount > 0
  \/ Cardinality(FlowsIn(shardIndex(k))) <= maxFlowsPerShard

\* Ingest finds the key in its flow shard, or the shard below its cap.
HasRoom(k) ==
  \/ flows[k].packetCount > 0
  \/ Cardinality(FlowsIn(shardIndex(k))) < maxFlowsPerShard

\* Ingest, first lock: the record is counted in its flow.
IngestFlow(r, m) ==
  /\ reading[r] = 0
  /\ Len(trace) < MaxPackets
  /\ HasRoom(FlowKey(m))
  /\ flows' = [flows EXCEPT ![FlowKey(m)] = ObserveFlow(@, m)]
  /\ trace' = Append(trace, m)
  /\ reading' = [reading EXCEPT ![r] = Len(trace')]
  /\ UNCHANGED <<ports, runPC, flushing, channel, ending, droppedNewFlows,
                 window, flowWindow, portWindow>>

\* Ingest finding the flow shard full: the record leaves no other mark.
IngestRejected(r, m) ==
  /\ reading[r] = 0
  /\ droppedNewFlows < MaxRejected
  /\ ~HasRoom(FlowKey(m))
  /\ droppedNewFlows' = droppedNewFlows + 1
  /\ UNCHANGED <<tables, reading, runPC, flushing, channel, ending, window,
                 ghosts>>

\* Ingest, second lock: its destination port is counted for its source.
IngestPort(r) ==
  /\ reading[r] # 0
  /\ LET i == reading[r]
         m == trace[i]
     IN  /\ ports' = [ports EXCEPT ![m.src] = ObservePort(@, m.dport)]
         /\ portWindow' = [portWindow EXCEPT ![i] = 0]
  /\ reading' = [reading EXCEPT ![r] = 0]
  /\ UNCHANGED <<flows, runPC, flushing, channel, ending, droppedNewFlows,
                 window, trace, flowWindow>>

\* The caller cancels the context.
Cancel ==
  /\ ~cancelled
  /\ cancelled' = TRUE
  /\ atCancel' = Len(trace)
  /\ UNCHANGED <<tables, reading, runPC, flushing, channel, droppedNewFlows,
                 window, ghosts>>

\* Mutant: no flush after the cancellation.
BeginFlushUnlessFinal(final) ==
  /\ runPC = "select"
  /\ IF final THEN cancelled ELSE window < MaxWindows
  /\ runPC' = IF final THEN "close" ELSE "ports"
  /\ window' = window + 1
  /\ shardAt' = 1
  /\ portSnapshot' = [ip \in SrcIPs |-> NoTracker]
  /\ UNCHANGED <<tables, reading, batch, channel, ending, droppedNewFlows,
                 ghosts>>

\* Run's select: a tick, or the cancelled context, starts a flush.  The
\* final one is followed by the close.
BeginFlush(final) ==
  /\ runPC = "select"
  /\ IF final THEN cancelled ELSE window < MaxWindows
  /\ runPC' = IF final THEN "ports_final" ELSE "ports"
  /\ window' = window + 1
  /\ shardAt' = 1
  /\ portSnapshot' = [ip \in SrcIPs |-> NoTracker]
  /\ UNCHANGED <<tables, reading, batch, channel, ending, droppedNewFlows,
                 ghosts>>

After(phase) ==
  CASE phase = "ports" -> "flows"
    [] phase = "ports_final" -> "flows_final"
    [] phase = "flows" -> "select"
    [] phase = "flows_final" -> "close"

\* Mutant: the loop runs once too often.
NextShardPastEnd(phase) ==
  IF shardAt > numShards
  THEN runPC' = After(phase) /\ shardAt' = 1
  ELSE runPC' = phase /\ shardAt' = shardAt + 1

\* Mutant: one loop takes a port shard and a flow shard at a time.
NextShardOneLoop(phase) ==
  CASE phase = "ports" -> runPC' = "flows" /\ UNCHANGED shardAt
    [] phase = "ports_final" -> runPC' = "flows_final" /\ UNCHANGED shardAt
    [] phase = "flows" ->
         IF shardAt = numShards THEN runPC' = "select" /\ shardAt' = 1
         ELSE runPC' = "ports" /\ shardAt' = shardAt + 1
    [] phase = "flows_final" ->
         IF shardAt = numShards THEN runPC' = "close" /\ shardAt' = 1
         ELSE runPC' = "ports_final" /\ shardAt' = shardAt + 1

\* The loops of flush move on to the next shard.
NextShard(phase) ==
  IF shardAt = numShards
  THEN runPC' = After(phase) /\ shardAt' = 1
  ELSE runPC' = phase /\ shardAt' = shardAt + 1

\* flush, first loop: one port shard is moved into the snapshot.
FlushPorts ==
  /\ runPC \in {"ports", "ports_final"}
  /\ LET mine(ip) == srcIPShardIndex(ip) = shardAt
     IN  /\ portSnapshot' = [ip \in SrcIPs |-> IF mine(ip) THEN ports[ip]
                                               ELSE portSnapshot[ip]]
         /\ ports' = [ip \in SrcIPs |-> IF mine(ip) THEN NoTracker
                                        ELSE ports[ip]]
         /\ portWindow' = [i \in Ids |->
                             IF portWindow[i] = 0 /\ mine(trace[i].src)
                             THEN window ELSE portWindow[i]]
  /\ NextShard(runPC)
  /\ UNCHANGED <<flows, reading, batch, channel, ending, droppedNewFlows,
                 window, trace, flowWindow>>

\* What flush does with the flow map it has taken from the shard.
TakeFlows ==
  /\ runPC \in {"flows", "flows_final"}
  /\ batch = {}
  /\ batch' = {<<k, flows[k]>> : k \in FlowsIn(shardAt)}
  /\ flowWindow' = [i \in Ids |->
                      IF /\ i \in DOMAIN trace /\ flowWindow[i] = 0
                         /\ shardIndex(FlowKey(trace[i])) = shardAt
                      THEN window ELSE flowWindow[i]]
  /\ IF batch' = {} THEN NextShard(runPC)
     ELSE /\ runPC' = IF runPC = "flows" THEN "emit" ELSE "emit_final"
          /\ UNCHANGED shardAt
  /\ UNCHANGED <<ports, reading, portSnapshot, channel, ending,
                 droppedNewFlows, window, trace, portWindow>>

\* Mutant: the shard's map is read and not replaced.
FlushFlowsCopied == TakeFlows /\ UNCHANGED flows

\* flush, second loop: one flow shard's map is taken and replaced.
FlushFlows ==
  /\ TakeFlows
  /\ flows' = [k \in FlowKeys |-> IF shardIndex(k) = shardAt THEN NoFlow
                                  ELSE flows[k]]

\* The rest of the second loop's body, after one of the shard's flows.
EmitDone(f) ==
  /\ runPC \in {"emit", "emit_final"}
  /\ f \in batch
  /\ batch' = batch \ {f}
  /\ LET phase == IF runPC = "emit" THEN "flows" ELSE "flows_final"
     IN  IF batch' = {} THEN NextShard(phase)
         ELSE UNCHANGED <<runPC, shardAt>>
  /\ UNCHANGED <<tables, reading, portSnapshot, closed, delivered, ending,
                 droppedNewFlows, window, ghosts>>

\* The channel takes the flow's features.
EmitSend(f) ==
  /\ EmitDone(f)
  /\ Len(out) < outputBufferSize
  /\ out' = Append(out, Feature(f[1], f[2], window))
  /\ UNCHANGED <<droppedOutput, discarded>>

\* Mutant: a send without a default case waits for room.
EmitBlocks(f) ==
  FALSE /\ EmitDone(f) /\ UNCHANGED <<out, droppedOutput, discarded>>

\* The channel is full: the features are dropped.
EmitDrop(f) ==
  /\ EmitDone(f)
  /\ Len(out) >= outputBufferSize
  /\ droppedOutput' = droppedOutput + 1
  /\ discarded' = discarded + f[2].packetCount
  /\ UNCHANGED out

\* Run closes the channel and returns.
Close ==
  /\ runPC = "close"
  /\ closed' = TRUE
  /\ runPC' = "done"
  /\ UNCHANGED <<tables, reading, flushing, out, droppedOutput, delivered,
                 discarded, ending, droppedNewFlows, window, ghosts>>

\* The inference stage receives from Output().
Receive ==
  /\ out # <<>>
  /\ out' = Tail(out)
  /\ delivered' = delivered + Head(out).acc.packetCount
  /\ UNCHANGED <<tables, reading, runPC, flushing, closed, droppedOutput,
                 discarded, ending, droppedNewFlows, window, ghosts>>

Next ==
  \/ \E r \in Readers, m \in Meta : IngestFlow(r, m)
  \/ \E r \in Readers, m \in Meta : IngestRejected(r, m)
  \/ \E r \in Readers : IngestPort(r)
  \/ Cancel
  \/ \E final \in BOOLEAN : BeginFlush(final)
  \/ FlushPorts
  \/ FlushFlows
  \/ \E f \in batch : EmitSend(f)
  \/ \E f \in batch : EmitDrop(f)
  \/ Close
  \/ Receive

Spec == Init /\ [][Next]_vars

\* A step of the Run goroutine within a flush or after the last one.
RunStep ==
  FlushPorts \/ FlushFlows \/ (\E f \in batch : EmitSend(f) \/ EmitDrop(f)) \/ Close

\* The Run goroutine keeps running, and its select, which picks at random
\* among what is ready, in the end picks the cancelled context.  Nothing is
\* assumed of the readers, of whoever cancels, or of the consumer.
Fairness == SF_vars(BeginFlush(TRUE)) /\ WF_vars(RunStep)

FairSpec == Spec /\ Fairness

-----------------------------------------------------------------------------
RunPCs == {"select", "ports", "flows", "emit", "ports_final", "flows_final",
           "emit_final", "close", "done"}
Flushing == runPC \notin {"select", "close", "done"}
Accumulators == [first : [src : Nat, dst : Nat, sport : Nat, dport : Nat],
                 packetCount : Nat, forwardCount : Nat, reverseCount : Nat,
                 synCount : Nat, ackPshCount : Nat, lastTimestamp : Nat,
                 iatSamples : Nat]
Trackers == [counts : [PortKeys -> Nat], total : Nat]

TypeOK ==
  /\ DOMAIN flows = FlowKeys /\ \A k \in FlowKeys : flows[k] \in Accumulators
  /\ ports \in [SrcIPs -> Trackers]
  /\ reading \in [Readers -> 0 .. Len(trace)]
  /\ runPC \in RunPCs
  /\ shardAt \in Shards
  /\ portSnapshot \in [SrcIPs -> Trackers]
  /\ \A f \in batch : f[1] \in FlowKeys /\ f[2] \in Accumulators
  /\ \A n \in DOMAIN out : out[n].acc \in Accumulators
  /\ closed \in BOOLEAN /\ cancelled \in BOOLEAN
  /\ droppedNewFlows \in Nat /\ droppedOutput \in Nat
  /\ window \in Nat
  /\ trace \in Seq(Meta) /\ Len(trace) <= MaxPackets
  /\ flowWindow \in [Ids -> Nat]
  /\ portWindow \in [Ids -> Nat \cup {Unseen}]

\* The records of flow k that the flush of window w took; 0: none has yet.
RecordsOf(k, w) ==
  {i \in DOMAIN trace : FlowKey(trace[i]) = k /\ flowWindow[i] = w}

\* The accumulator fa holds what a pass over the records S computes.
Summarises(fa, S) ==
  LET gap(i) == {j \in S : j < i}
      sampled(i) == gap(i) # {} /\ trace[Max(gap(i))].ts # 0
                      /\ trace[Max(gap(i))].ts < trace[i].ts
  IN  /\ fa.packetCount = Cardinality(S)
      /\ S # {} => fa.first = Endpoints(trace[Min(S)])
      /\ fa.forwardCount = Cardinality({i \in S : srcIsLo(trace[i])})
      /\ fa.forwardCount + fa.reverseCount = fa.packetCount
      /\ fa.synCount = Quantify(S, LAMBDA i : trace[i].tcp /\ "SYN" \in trace[i].flags)
      /\ fa.ackPshCount = Quantify(S, LAMBDA i : /\ trace[i].tcp
                                                 /\ trace[i].flags \cap {"ACK", "PSH"} # {})
      /\ fa.iatSamples = Quantify(S, sampled)

\* Whatever the readers, the flush and the consumer interleave, the features
\* of a flow and window are those of exactly the records taken by that flush:
\* no record is counted in two windows or against another flow, and the
\* flow is attributed to the sender of its first record (flow.go, observe).
CountersExact ==
  /\ \A k \in FlowKeys : Summarises(flows[k], RecordsOf(k, 0))
  /\ \A f \in batch : Summarises(f[2], RecordsOf(f[1], window))
  /\ \A n \in DOMAIN out :
       Summarises(out[n].acc, RecordsOf(out[n].key, out[n].window))

\* Every record accepted by Ingest is in exactly one place: an open flow, a
\* flow being flushed, the channel, a feature received, or one dropped for
\* want of room (flow.go, flush).
Conservation ==
  Len(trace) = SumFunction([k \in FlowKeys |-> flows[k].packetCount])
             + SumFunction([f \in batch |-> f[2].packetCount])
             + SumFunction([n \in DOMAIN out |-> out[n].acc.packetCount])
             + delivered + discarded

\* "Entropy lookups below see this window's distribution, not the next
\* window's partial data" (flow.go, flush): a port in the snapshot of a flush
\* belongs to a flow that this flush, or an earlier one, hands over.
EntropyNotFromFuture ==
  \A i \in DOMAIN trace : portWindow[i] > 0 =>
    \/ flowWindow[i] \in 1 .. portWindow[i]
    \/ flowWindow[i] = 0 /\ portWindow[i] = window /\ Flushing

\* A tracker holds one count per record since the last snapshot, in at most
\* maxPortsPerSrcIP buckets and the overflow bucket (portTracker.observe).
TrackerHolds(pt, S) ==
  /\ pt.total = Cardinality(S)
  /\ pt.total = SumFunction(pt.counts)
  /\ Cardinality(PortsOf(pt) \ {overflowPortKey}) <= maxPortsPerSrcIP

TrackersExact ==
  \A ip \in SrcIPs :
    LET from(w) == {i \in DOMAIN trace : trace[i].src = ip /\ portWindow[i] = w}
    IN  /\ TrackerHolds(ports[ip], from(0))
        /\ window > 0 => TrackerHolds(portSnapshot[ip], from(window))

\* The two caps that keep the daemon's memory bounded under a flood.
Bounded ==
  /\ \A s \in Shards : Cardinality(FlowsIn(s)) <= maxFlowsPerShard
  /\ Len(out) <= outputBufferSize

\* When Run has returned, every record that preceded the cancellation has
\* been flushed: the final flush leaves none behind.
NothingLeftBehind ==
  runPC = "done" => \A i \in 1 .. atCancel : flowWindow[i] # 0

\* A cancelled Run closes its channel, whether or not anyone still receives.
RunEnds == cancelled ~> closed
=============================================================================
